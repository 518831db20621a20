---------------------------- MODULE Coordinator ----------------------------
(***************************************************************************)
(* A coordination session over a delegates entry: NewCoordinator, Record by *)
(* the parties in any order, and the progress the session reports through   *)
(* State, IsComplete, Remaining, SignedCount and Entry.                     *)
(***************************************************************************)
EXTENDS Authorize, FiniteSets

CONSTANTS
    Offered,   \* entries a caller may open a session for
    Networked  \* the passphrases it may open it with

ASSUME CoordinatorAssumption ==
    /\ \A e \in Offered : e \in Entries /\ WellFormed(e)
    /\ Networked \subseteq Networks \cup {NoNetwork}

VARIABLES
    phase,      \* "none", "refused" or "open"
    held,       \* c.entry; the entry the caller brings, before a session is open
    validUntil, \* c.validUntilLedger
    network,    \* c.networkPassphrase
    signedMap,  \* c.signedMap: per address "absent", "false" or "true"
    produced    \* history: what the session's signers answered, and for which address

vars == <<phase, held, validUntil, network, signedMap, produced>>

-----------------------------------------------------------------------------
(* The session's views.                                                       *)

\* The tracked nodes, c.nodes: the delegates at every depth, never the top-level node.
Tracked == Delegates(held)

Recorded(a) == signedMap[a] = "true"

\* The number of nodes State() marks as signed.
StateSignedCount == Cardinality({i \in Tracked : Recorded(held.nodes[i].addr)})

\* SignedCount(), which counts the addresses of the map instead.
SignedCount == Cardinality({a \in Address : Recorded(a)})

TotalCount == Cardinality(Tracked)

Remaining == {held.nodes[i].addr : i \in {k \in Tracked : ~Recorded(held.nodes[k].addr)}}

IsComplete == (\A a \in Address : signedMap[a] # "false") /\ Tracked # {}

-----------------------------------------------------------------------------
(* The operations.                                                            *)

NewRefuses(e, exp) == e.arm # "address_with_delegates" \/ exp = 0

\* Mutant: only the first level is entered into the map.
buildNodes_FirstLevel(e) ==
    [a \in Address |-> IF \E i \in Delegates(e) : e.nodes[i].addr = a /\ e.nodes[i].above = <<>>
                       THEN "false" ELSE "absent"]

\* buildNodes enters every delegate's address as unsigned, whatever its node carries.
buildNodes(e) ==
    [a \in Address |-> IF \E i \in Delegates(e) : e.nodes[i].addr = a
                       THEN "false" ELSE "absent"]

NewCoordinator(exp, net) ==
    /\ phase # "open"
    /\ validUntil' = exp /\ network' = net
    /\ IF NewRefuses(held, exp)
       THEN phase' = "refused" /\ UNCHANGED signedMap
       ELSE phase' = "open" /\ signedMap' = buildNodes(held)
    /\ UNCHANGED <<held, produced>>

\* The call of AuthorizeEntry inside Record.
RecordCall(target, s) ==
    [exp |-> validUntil, network |-> network, signer |-> s, forAddress |-> target,
     resign |-> [given |-> FALSE, scope |-> {}]]

Answer(target, s) == [target |-> target, sig |-> SignatureOf(held, RecordCall(target, s))]

\* Mutant: any recorded node blocks the next one.
RecordRefuses_AnyRecorded ==
    \E i \in Tracked : Recorded(held.nodes[i].addr)

\* Record's own shared-expiration guard, ahead of AuthorizeEntry's.
RecordRefuses ==
    held.exp # validUntil /\ \E i \in Tracked : Recorded(held.nodes[i].addr)

\* Mutant: the map is updated before AuthorizeEntry has succeeded.
RecordFails_MarksFirst(target, s) ==
    /\ signedMap' = [signedMap EXCEPT ![target] = "true"]
    /\ UNCHANGED <<phase, held, validUntil, network, produced>>

\* A cancelled context, either guard, or a signer that fails: nothing is recorded.
RecordFails(target, s) == UNCHANGED vars

(* AuthorizeEntry returns the signed entry, and Record drops it: it stores the *)
(* copy it took before the call.                                              *)
RecordSucceeds(target, s) ==
    /\ produced' = produced \cup {Answer(target, s)}
    /\ signedMap' = [signedMap EXCEPT ![target] = "true"]
    /\ UNCHANGED <<phase, held, validUntil, network>>

\* Record(ctx, target, signer) when the signer answers.
RecordAnswered(target, s) ==
    /\ phase = "open" /\ ~RecordRefuses
    /\ Refusal(held, RecordCall(target, s)) = "ok"
    /\ RecordSucceeds(target, s)

\* Record(ctx, target, signer) when it returns an error.
RecordRefused(target, s) ==
    /\ phase = "open"
    /\ RecordFails(target, s)

-----------------------------------------------------------------------------
Init ==
    /\ phase = "none" /\ held \in Offered /\ validUntil = 0 /\ network \in Networked
    /\ signedMap = [a \in Address |-> "absent"] /\ produced = {}

Next ==
    \/ \E exp \in Ledger, net \in Networked : NewCoordinator(exp, net)
    \/ \E target \in Address, s \in Signers :
          RecordAnswered(target, s) \/ RecordRefused(target, s)

Spec == Init /\ [][Next]_vars

(* The caller drives the loop: a party whose address remains is asked again    *)
(* until its signer answers.                                                   *)
Working == {s \in Signers : s.kind \in {"account", "custom"}}
FairSpec ==
    /\ Spec
    /\ WF_vars(\E exp \in Ledger, net \in Networked : NewCoordinator(exp, net))
    /\ \A a \in Address : WF_vars(a \in Remaining /\ \E s \in Working : RecordAnswered(a, s))

-----------------------------------------------------------------------------
(* Properties.                                                                *)

TypeOK ==
    /\ phase \in {"none", "refused", "open"}
    /\ held \in Entries /\ WellFormed(held)
    /\ validUntil \in Ledger /\ network \in Networked
    /\ signedMap \in [Address -> {"absent", "false", "true"}]
    /\ produced \subseteq [target: Address, sig: Signatures]
    /\ phase = "open" => held.arm = "address_with_delegates" /\ validUntil # 0

\* One map entry per tracked node, and no mark on an address that is not tracked.
OneNodePerMark ==
    /\ \A i, j \in Tracked : held.nodes[i].addr = held.nodes[j].addr => i = j
    /\ \A a \in Address : Recorded(a) => \E i \in Tracked : held.nodes[i].addr = a

(* The session's views agree: IsComplete, an empty Remaining and State()'s     *)
(* count reaching TotalCount are the same thing on every tree, although one is *)
(* read off the map's addresses and the others off the tracked nodes; and      *)
(* SignedCount is State()'s count as long as no address stands at two nodes    *)
(* and the top-level address was not recorded.                                 *)
ViewsAgree ==
    phase = "open" =>
        /\ IsComplete <=> (Tracked # {} /\ Remaining = {})
        /\ IsComplete <=> (Tracked # {} /\ StateSignedCount = TotalCount)
        /\ OneNodePerMark => SignedCount = StateSignedCount

(* Progress is earned: an address the session reports as signed has had a      *)
(* signer answer for it, over the payload of this very session.                *)
RecordedWereSigned ==
    \A a \in Address :
        Recorded(a) =>
            \E p \in produced :
                /\ p.target = a
                /\ isSigned(p.sig) => p.sig.payload = Preimage(held, validUntil, network)

(* A session opened on an unsigned, well-ordered entry at the expiration it    *)
(* stores completes once its parties keep answering.                           *)
FreshSessionCompletes ==
    (/\ phase = "open" /\ held.exp = validUntil /\ Tracked # {}
     /\ ~AnySigned(held) /\ ValidateDelegateOrder(held) /\ network # NoNetwork)
        ~> IsComplete

(* What the comment on Entry says: the copy it returns carries the signatures  *)
(* recorded so far.                                                            *)
EntryCarriesRecorded ==
    phase = "open" =>
        \A i \in 1..Len(held.nodes) :
            (\E p \in produced : p.target = held.nodes[i].addr /\ isSigned(p.sig))
                => isSigned(held.nodes[i].sig)
=============================================================================
