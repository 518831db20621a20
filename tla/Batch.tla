------------------------------- MODULE Batch -------------------------------
(***************************************************************************)
(* AuthorizeAll, AuthorizeBatch and VerifyAll: one call over a batch of     *)
(* entries.                                                                 *)
(*                                                                         *)
(* The first two match the signers to every entry by what Signer.Address() says, and *)
(* ask Address() again when they come to sign; a signer backed by a service *)
(* may answer differently by then.  AuthorizeAll matches the whole batch    *)
(* before it asks anyone to sign, and signs in order.  AuthorizeBatch runs  *)
(* one goroutine per entry behind a semaphore.  VerifyAll asks no signer:   *)
(* its workers take the entries from a channel and fill in their results.   *)
(***************************************************************************)
EXTENDS Authorize, FiniteSets

CONSTANTS
    Jobs,          \* the calls: see JobType
    MovedTo,       \* addresses a signer's key may move to while a call runs
    MaxRotations   \* bound: how often the keys move during one call

(* A call and its arguments.  plans is the WithDelegatePlans map as a set of   *)
(* [address, delegates, top]; workers is what WithMaxWorkers or WithConcurrency *)
(* passed, 0 for neither.                                                      *)
IsJob(j) ==
    /\ j.api \in {"AuthorizeAll", "AuthorizeBatch", "VerifyAll"}
    /\ j.entries \in Seq(Entries)
    /\ \A i \in 1..Len(j.entries) : WellFormed(j.entries[i])
    /\ j.signers \in Seq(Signers)
    /\ j.exp \in Ledger /\ j.network \in Networks \cup {NoNetwork}
    /\ \A p \in j.plans : p.delegates \in Seq(Descriptors) /\ p.top \in Signatures
    /\ \A p, q \in j.plans : p.address = q.address => p = q
    /\ j.requireAll \in BOOLEAN
    /\ j.workers \in Nat
    /\ j.api # "AuthorizeAll" => j.plans = {} /\ ~j.requireAll
    /\ j.api = "VerifyAll" => j.signers = <<>>

ASSUME BatchAssumption ==
    /\ \A j \in Jobs : IsJob(j)
    /\ MovedTo \subseteq Address
    /\ MaxRotations \in Nat

VARIABLES
    job,        \* the call's arguments
    says,       \* what each signer's Address() returns now
    rotations,  \* how often a key has moved
    ctx,        \* "live" or "cancelled"
    slots,      \* per entry: where its signing stands
    outcome,    \* what the call returned, once it has
    asked,      \* history: <<entry, signer>> for every Sign that was called
    disturbed   \* history: a key moved, a signer failed or the context was cancelled

vars == <<job, says, rotations, ctx, slots, outcome, asked, disturbed>>

Positions == 1..Len(job.entries)

\* A slot: its stage, the entry as signed so far, the matched signers still to be
\* asked (indices into job.signers), and the error that ended it.
Stages == {"waiting", "matched", "verifying", "done"}

-----------------------------------------------------------------------------
(* Matching.                                                                  *)

\* Nil signers and unparsable addresses are skipped; the others keep their order.
signersForEntry(j, e, address) ==
    {s \in 1..Len(j.signers) :
        /\ j.signers[s].kind # "nil"
        /\ \E i \in 1..Len(e.nodes) : e.nodes[i].addr = address[s]}

PlanFor(j, e) == {p \in j.plans : e.arm \in AddressArms /\ p.address = e.address}

\* The entry that is going to be signed: wrapped when a delegate plan names its address.
Prepared(j, e) ==
    IF PlanFor(j, e) = {} THEN e
    ELSE LET p == CHOOSE q \in PlanFor(j, e) : TRUE
         IN  Wrapped(e, j.exp, CHOOSE b \in buildDelegateNodes(p.delegates) : TRUE, p.top)

\* The validation errors of one entry, "none" when it can be signed.
MatchError(j, e, address) ==
    IF e.arm = "source_account" THEN "none"
    ELSE IF e.arm \notin AddressArms THEN "ErrUnsupportedCredentials"
    ELSE IF \E p \in PlanFor(j, e) : WrapRefusal(e, j.exp, p.delegates) # "ok" THEN "plan"
    ELSE IF VerifyRefuses(Prepared(j, e)) THEN "depth"
    ELSE IF signersForEntry(j, Prepared(j, e), address) = {} THEN "ErrMissingSigner"
    ELSE "none"

\* A slot once its entry was matched: a source-account entry passes through.
MatchedSlot(j, e, address) ==
    IF MatchError(j, e, address) # "none"
    THEN [stage |-> "done", entry |-> e, todo |-> {}, err |-> MatchError(j, e, address)]
    ELSE IF e.arm = "source_account"
    THEN [stage |-> "done", entry |-> e, todo |-> {}, err |-> "none"]
    ELSE [stage |-> "matched", entry |-> Prepared(j, e),
          todo |-> signersForEntry(j, Prepared(j, e), address), err |-> "none"]

UnmatchedPlans ==
    {p \in job.plans : \A i \in Positions : p \notin PlanFor(job, job.entries[i])}

-----------------------------------------------------------------------------
(* Scheduling: what keeps a step of entry i back.                             *)

Failed(i) == slots[i].stage = "done" /\ slots[i].err # "none"

Workers == IF job.workers < 1 THEN 1 ELSE job.workers

\* Mutant: a goroutine that fails keeps its place in the semaphore.
MayMatch_LeaksOnError(i) ==
    CASE job.api = "AuthorizeAll"   -> \A j \in 1..(i - 1) : slots[j].stage # "waiting"
      [] job.api = "AuthorizeBatch" ->
            Cardinality({j \in Positions : slots[j].stage = "matched" \/ Failed(j)}) < Workers

MayMatch(i) ==
    CASE job.api = "AuthorizeAll"   -> \A j \in 1..(i - 1) : slots[j].stage # "waiting"
      [] job.api = "AuthorizeBatch" ->
            Cardinality({j \in Positions : slots[j].stage = "matched"}) < Workers

\* Mutant: AuthorizeAll signs an entry as soon as it has been matched.
MaySign_AsMatched(i) ==
    job.api = "AuthorizeAll" => \A j \in 1..(i - 1) : slots[j].stage = "done"

\* AuthorizeAll signs only after the whole batch validated, in order, until the first error.
MaySign(i) ==
    job.api = "AuthorizeAll" =>
        /\ \A j \in Positions : slots[j].stage # "waiting" /\ ~Failed(j)
        /\ UnmatchedPlans = {}
        /\ \A j \in 1..(i - 1) : slots[j].stage = "done"

-----------------------------------------------------------------------------
(* The steps of a call.                                                       *)

\* The context is checked before anything else, an empty batch included.
Call ==
    /\ outcome.kind = "called"
    /\ outcome' = IF ctx = "cancelled"
                  THEN [kind |-> "failed", cause |-> "context", at |-> 0, out |-> <<>>]
                  ELSE [outcome EXCEPT !.kind = "running"]
    /\ UNCHANGED <<job, says, rotations, ctx, slots, asked, disturbed>>

MatchEntry(i) ==
    /\ outcome.kind = "running"
    /\ job.api # "VerifyAll" /\ slots[i].stage = "waiting" /\ MayMatch(i)
    /\ slots' = [slots EXCEPT ![i] = MatchedSlot(job, job.entries[i], says)]
    /\ UNCHANGED <<job, says, rotations, ctx, outcome, asked, disturbed>>

\* The matched signers are asked in the order of the call.
NextSigner(i) == CHOOSE s \in slots[i].todo : \A t \in slots[i].todo : s <= t

\* AuthorizeEntry for the next matched signer, at the address it gives now.
EntryCall(i) ==
    LET s == NextSigner(i)
    IN  [exp |-> job.exp, network |-> job.network,
         signer |-> [job.signers[s] EXCEPT !.address = says[s]], forAddress |-> says[s],
         resign |-> [given |-> FALSE, scope |-> {}]]

Stopped(i, err) == [slots[i] EXCEPT !.stage = "done", !.todo = {}, !.err = err]

MaySignNext(i) == outcome.kind = "running" /\ slots[i].stage = "matched" /\ MaySign(i)

\* Mutant: a signer that no longer matches is skipped.
SignRefused_Skips(i) ==
    /\ MaySignNext(i) /\ ctx = "live" /\ Refusal(slots[i].entry, EntryCall(i)) # "ok"
    /\ slots' = [slots EXCEPT
                    ![i].todo = @ \ {NextSigner(i)},
                    ![i].stage = IF slots[i].todo = {NextSigner(i)} THEN "done" ELSE "matched"]
    /\ UNCHANGED <<job, says, rotations, ctx, outcome, asked, disturbed>>

\* AuthorizeEntry returns before the signer is asked.
SignRefused(i) ==
    /\ MaySignNext(i)
    /\ \/ ctx = "cancelled" /\ slots' = [slots EXCEPT ![i] = Stopped(i, "context")]
       \/ /\ ctx = "live" /\ Refusal(slots[i].entry, EntryCall(i)) # "ok"
          /\ slots' = [slots EXCEPT ![i] =
                          Stopped(i, Refusal(slots[i].entry, EntryCall(i)))]
    /\ UNCHANGED <<job, says, rotations, ctx, outcome, asked, disturbed>>

SignAsked(i) ==
    /\ MaySignNext(i) /\ ctx = "live"
    /\ Refusal(slots[i].entry, EntryCall(i)) = "ok"
    /\ asked' = asked \cup {<<i, NextSigner(i)>>}

SignFails(i) ==
    /\ SignAsked(i)
    /\ slots' = [slots EXCEPT ![i] = Stopped(i, "signer")]
    /\ disturbed' = TRUE
    /\ UNCHANGED <<job, says, rotations, ctx, outcome>>

SignEntry(i) ==
    /\ SignAsked(i)
    /\ slots' = [slots EXCEPT
                    ![i].entry = WriteSignature(@, EntryCall(i)),
                    ![i].todo = @ \ {NextSigner(i)},
                    ![i].stage = IF slots[i].todo = {NextSigner(i)} THEN "done" ELSE "matched"]
    /\ UNCHANGED <<job, says, rotations, ctx, outcome, disturbed>>

-----------------------------------------------------------------------------
(* VerifyAll: a pool of workers over a channel that holds the entries in order. *)

workerLimit ==
    IF job.workers = 0 \/ job.workers > Len(job.entries) THEN Len(job.entries) ELSE job.workers

TakeJob(i) ==
    /\ outcome.kind = "running" /\ job.api = "VerifyAll"
    /\ slots[i].stage = "waiting" /\ \A j \in 1..(i - 1) : slots[j].stage # "waiting"
    /\ Cardinality({j \in Positions : slots[j].stage = "verifying"}) < workerLimit
    /\ slots' = [slots EXCEPT ![i].stage = "verifying"]
    /\ UNCHANGED <<job, says, rotations, ctx, outcome, asked, disturbed>>

(* What VerifyAll reports of one entry: the first node whose signature is       *)
(* neither good nor missing.                                                   *)
VerifyError(e, net) ==
    LET bad == {n \in 1..Len(e.nodes) :
                    VerifyEntry(e, net)[n] \notin {"verified", "unsigned"}}
    IN  IF e.arm = "source_account" THEN "none"
        ELSE IF e.arm \notin AddressArms THEN "ErrUnsupportedCredentials"
        ELSE IF net = NoNetwork \/ VerifyRefuses(e) THEN "verify"
        ELSE IF bad = {} THEN "none"
        ELSE VerifyEntry(e, net)[CHOOSE n \in bad : \A m \in bad : n <= m]

\* The result goes to the entry's own index; an error does not stop the worker.
VerifyJob(i) ==
    /\ slots[i].stage = "verifying"
    /\ slots' = [slots EXCEPT ![i].stage = "done", ![i].err = VerifyError(job.entries[i], job.network)]
    /\ UNCHANGED <<job, says, rotations, ctx, outcome, asked, disturbed>>

-----------------------------------------------------------------------------
(* Returning.                                                                 *)

AllDone == \A i \in Positions : slots[i].stage = "done"
FirstFailure == CHOOSE i \in Positions : Failed(i) /\ \A j \in 1..(i - 1) : ~Failed(j)
AnyFailed == \E i \in Positions : Failed(i)

SomeUnsigned ==
    \E i \in Positions : \E n \in 1..Len(slots[i].entry.nodes) :
        ~isSigned(slots[i].entry.nodes[n].sig)

ReturnsError(cause, at) ==
    outcome' = [kind |-> "failed", cause |-> cause, at |-> at, out |-> <<>>]

ReturnsEntries ==
    outcome' = [kind |-> "ok", cause |-> "none", at |-> 0,
                out |-> [i \in Positions |-> slots[i].entry]]

(* AuthorizeAll returns after the validation loop when anything was wrong, at  *)
(* the first signing error, or at the end.                                     *)
AuthorizeAllReturns ==
    /\ \A i \in Positions : slots[i].stage # "waiting"
    /\ \/ AnyFailed /\ ReturnsError(slots[FirstFailure].err, FirstFailure)
       \/ ~AnyFailed /\ UnmatchedPlans # {} /\ ReturnsError("ErrDelegatePlanUnmatched", 0)
       \/ /\ ~AnyFailed /\ UnmatchedPlans = {} /\ AllDone
          /\ IF job.requireAll /\ SomeUnsigned
             THEN ReturnsError("ErrUnsignedCredentialNode", 0)
             ELSE ReturnsEntries

\* Mutant: the call does not wait for every goroutine once one has failed.
AuthorizeBatchReturns_FirstError ==
    \/ AnyFailed /\ ReturnsError(slots[FirstFailure].err, FirstFailure)
    \/ AllDone /\ ~AnyFailed /\ ReturnsEntries

\* AuthorizeBatch waits for every goroutine, then looks at the context, then at the errors.
AuthorizeBatchReturns ==
    /\ AllDone
    /\ IF ctx = "cancelled" THEN ReturnsError("context", 0)
       ELSE IF AnyFailed THEN ReturnsError(slots[FirstFailure].err, FirstFailure)
       ELSE ReturnsEntries

\* VerifyAll waits for its workers; the context is not looked at again.
VerifyAllReturns ==
    /\ AllDone
    /\ outcome' = [kind |-> "verified", cause |-> "none", at |-> 0,
                   out |-> [i \in Positions |-> slots[i].err]]

Return ==
    /\ outcome.kind = "running"
    /\ \/ job.api = "AuthorizeAll" /\ AuthorizeAllReturns
       \/ job.api = "AuthorizeBatch" /\ AuthorizeBatchReturns
       \/ job.api = "VerifyAll" /\ VerifyAllReturns
    /\ UNCHANGED <<job, says, rotations, ctx, slots, asked, disturbed>>

-----------------------------------------------------------------------------
(* What happens around the call.                                              *)

\* A signer's key moves to another account, as CachedSigner warns.
Rotate(s, a) ==
    /\ outcome.kind \in {"called", "running"}
    /\ rotations < MaxRotations /\ says[s] # a
    /\ says' = [says EXCEPT ![s] = a]
    /\ rotations' = rotations + 1 /\ disturbed' = TRUE
    /\ UNCHANGED <<job, ctx, slots, outcome, asked>>

Cancel ==
    /\ outcome.kind \in {"called", "running"} /\ ctx = "live"
    /\ ctx' = "cancelled" /\ disturbed' = TRUE
    /\ UNCHANGED <<job, says, rotations, slots, outcome, asked>>

Init ==
    /\ job \in Jobs
    /\ says = [s \in 1..Len(job.signers) |-> job.signers[s].address]
    /\ rotations = 0 /\ ctx = "live"
    /\ slots = [i \in Positions |-> [stage |-> "waiting", entry |-> job.entries[i],
                                     todo |-> {}, err |-> "none"]]
    /\ outcome = [kind |-> "called", cause |-> "none", at |-> 0, out |-> <<>>]
    /\ asked = {} /\ disturbed = FALSE

Step(i) ==
    \/ MatchEntry(i) \/ SignRefused(i) \/ SignFails(i) \/ SignEntry(i)
    \/ TakeJob(i) \/ VerifyJob(i)

Next ==
    \/ Call \/ Return
    \/ \E i \in Positions : Step(i)
    \/ \E s \in 1..Len(job.signers), a \in MovedTo : Rotate(s, a)
    \/ Cancel

Spec == Init /\ [][Next]_vars

(* The Go scheduler runs every goroutine that can run, and the semaphore's     *)
(* channel serves every sender; that a signer answers at all is its own        *)
(* contract (it is handed the context).                                        *)
FairSpec ==
    /\ Spec
    /\ WF_vars(Call) /\ WF_vars(Return)
    /\ WF_vars(\E i \in Positions : Step(i))

-----------------------------------------------------------------------------
(* Properties.                                                                *)

TypeOK ==
    /\ job \in Jobs
    /\ says \in [1..Len(job.signers) -> Address \cup {NoAddress, Malformed}]
    /\ rotations \in 0..MaxRotations /\ ctx \in {"live", "cancelled"}
    /\ \A i \in Positions :
          /\ slots[i].stage \in Stages /\ slots[i].entry \in Entries
          /\ WellFormed(slots[i].entry)
          /\ slots[i].todo \subseteq 1..Len(job.signers)
          /\ slots[i].stage = "matched" <=> slots[i].todo # {}
          /\ slots[i].err # "none" => slots[i].stage = "done"
    /\ outcome.kind \in {"called", "running", "ok", "verified", "failed"}
    /\ asked \subseteq Positions \X (1..Len(job.signers))

(* A result has entry i in position i, its address, nonce and invocation       *)
(* untouched, and no address entry in it goes out without a signature made in  *)
(* this call over the entry as returned: even when keys moved between the      *)
(* matching and the signing.  (A signer that answers Void leaves Void.)        *)
NoneLeftUnsigned ==
    outcome.kind = "ok" =>
        /\ Len(outcome.out) = Len(job.entries)
        /\ \A i \in Positions :
              LET e == outcome.out[i] IN
              /\ [e EXCEPT !.arm = "", !.exp = 0, !.nodes = <<>>]
                    = [job.entries[i] EXCEPT !.arm = "", !.exp = 0, !.nodes = <<>>]
              /\ IF e.arm = "source_account" THEN e = job.entries[i]
                 ELSE \E s \in 1..Len(job.signers) :
                        /\ <<i, s>> \in asked
                        /\ job.signers[s].kind = "void"
                           \/ \E n \in 1..Len(e.nodes) :
                                /\ isSigned(e.nodes[n].sig)
                                /\ e.nodes[n].sig.origin = "signer"
                                /\ e.nodes[n].sig.payload = Preimage(e, job.exp, job.network)

(* AuthorizeAll asks nobody to sign, no prompt and no hardware touch, in a     *)
(* call that is going to fail for a reason it could see beforehand: an entry   *)
(* nobody signs for, a plan that cannot be applied or names no entry.          *)
ValidatedBeforeAsked ==
    job.api = "AuthorizeAll" /\ asked # {} =>
        /\ UnmatchedPlans = {}
        /\ \A i \in Positions :
              slots[i].stage # "waiting"
              /\ slots[i].err \notin {"ErrUnsupportedCredentials", "plan", "depth",
                                      "ErrMissingSigner"}

Initially(j) == [s \in 1..Len(j.signers) |-> j.signers[s].address]

\* What the call of one signer makes of an entry so far, had the address it was given stayed.
TurnCall(j, s) ==
    [exp |-> j.exp, network |-> j.network, signer |-> j.signers[s],
     forAddress |-> j.signers[s].address, resign |-> [given |-> FALSE, scope |-> {}]]

TurnTaken(j, e, sofar, s) ==
    IF s \notin signersForEntry(j, Prepared(j, e), Initially(j)) \/ sofar.err # "none" THEN sofar
    ELSE IF Refusal(sofar.entry, TurnCall(j, s)) # "ok"
    THEN [entry |-> sofar.entry, err |-> Refusal(sofar.entry, TurnCall(j, s))]
    ELSE [entry |-> WriteSignature(sofar.entry, TurnCall(j, s)), err |-> "none"]

FirstTurn(j, e) == [entry |-> Prepared(j, e), err |-> "none"]

\* What one entry becomes when its signers are asked one after the other and all answer.
Turns(j, e) ==
    LET turn[s \in 0..Len(j.signers)] ==
            IF s = 0 THEN FirstTurn(j, e)
            ELSE TurnTaken(j, e, turn[s - 1], s)
    IN  turn

SignedInTurn(j, e) == Turns(j, e)[Len(j.signers)]

InTurnError(j, e) ==
    IF MatchError(j, e, Initially(j)) # "none" THEN MatchError(j, e, Initially(j))
    ELSE IF e.arm = "source_account" THEN "none"
    ELSE SignedInTurn(j, e).err

(* With signers that stay put and answer, the outcome does not depend on the   *)
(* schedule and the two calls agree: each returns the batch signed entry by    *)
(* entry in the order of the signers, and AuthorizeBatch reports the first     *)
(* entry, by position, that fails.  VerifyAll reports on every entry, in its   *)
(* own position and as if it were alone, even when the context is cancelled    *)
(* while it runs; what it passes has no signature that fails to verify, though *)
(* it may have none at all.                                                    *)
ScheduleDoesNotMatter ==
    /\ outcome.kind = "verified" =>
          /\ DOMAIN outcome.out = Positions
          /\ \A i \in Positions :
                LET e == job.entries[i] IN
                outcome.out[i] = "none" <=>
                    \/ e.arm = "source_account"
                    \/ /\ e.arm \in AddressArms /\ ~VerifyRefuses(e) /\ job.network # NoNetwork
                       /\ \A n \in 1..Len(e.nodes) :
                             isSigned(e.nodes[n].sig) =>
                                VerifyEntry(e, job.network)[n] = "verified"
                       /\ \A n \in 1..Len(e.nodes) : e.nodes[n].addr \in Accounts
    /\ ~disturbed =>
        /\ outcome.kind = "ok" =>
              \A i \in Positions :
                 /\ InTurnError(job, job.entries[i]) = "none"
                 /\ outcome.out[i] = IF job.entries[i].arm = "source_account"
                                     THEN job.entries[i]
                                     ELSE SignedInTurn(job, job.entries[i]).entry
        /\ outcome.kind = "failed" /\ job.api = "AuthorizeBatch" =>
              /\ outcome.cause = InTurnError(job, job.entries[outcome.at])
              /\ outcome.cause # "none"
              /\ \A j \in 1..(outcome.at - 1) : InTurnError(job, job.entries[j]) = "none"

(* The call returns whatever fails: no goroutine waits for a slot that is      *)
(* never freed.                                                                *)
CallReturns == <>(outcome.kind \in {"ok", "verified", "failed"})
=============================================================================
