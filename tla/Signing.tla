------------------------------ MODULE Signing ------------------------------
(***************************************************************************)
(* The life of one authorization entry between the simulation (or the      *)
(* decoder) that hands it out and the transaction it is submitted in.       *)
(* Parties pass the entry on and call soroauth on it in any order:          *)
(* AuthorizeEntry for one of its addresses, WithDelegates, UpgradeToV2.     *)
(* Every operation works on a copy, so a call either replaces the entry the *)
(* parties hold or, refused, leaves it as it was.                           *)
(***************************************************************************)
EXTENDS Authorize

CONSTANTS
    Received,     \* entries a caller may start from: simulated, decoded, built in memory
    DelegateTrees,\* Delegate descriptor trees in preorder, siblings in any order
    Supplied      \* signature values a caller brings along for the top-level node

ASSUME SigningAssumption ==
    /\ \A e \in Received :
          /\ e \in Entries /\ WellFormed(e)
          /\ \A i \in 1..Len(e.nodes) :
                isSigned(e.nodes[i].sig) => e.nodes[i].sig.origin = "caller"
    /\ \A ds \in DelegateTrees :
          /\ ds \in Seq(Descriptors)
          /\ \A i \in 1..Len(ds) : isSigned(ds[i].sig) => ds[i].sig.origin = "caller"
    /\ \A s \in Supplied :
          s \in Signatures /\ (isSigned(s) => s.origin = "caller")

VARIABLES
    entry,   \* the entry as the parties hold it
    call     \* the last call: its operation, what it may overwrite, how it ended

vars == <<entry, call>>

Results ==
    {"ok", "context", "source_account", "ErrUnsupportedCredentials",
     "ErrInvalidExpiration", "ErrMissingSigner", "address", "delegates",
     "ErrNoMatchingCredentialNode", "ErrAlreadySigned", "passphrase", "signer"}

CallRecords ==
    [op: {"start", "AuthorizeEntry", "WithDelegates", "UpgradeToV2"},
     overwrites: SUBSET Address, result: Results]

Ended(op, overwrites, result) ==
    call' = [op |-> op, overwrites |-> overwrites, result |-> result]

-----------------------------------------------------------------------------
(* AuthorizeEntry.                                                            *)

MayOverwrite(c) == IF resignAllowed(c) THEN {Target(c)} \cap Address ELSE {}

\* ctx is checked before anything else, on every arm.
AuthorizeCancelled ==
    /\ Ended("AuthorizeEntry", {}, "context")
    /\ UNCHANGED entry

\* An early return, the source-account pass-through included: the entry comes back as it was.
AuthorizeRefused(c) ==
    /\ Refusal(entry, c) # "ok"
    /\ Ended("AuthorizeEntry", {}, Refusal(entry, c))
    /\ UNCHANGED entry

\* signer.Sign fails: a declined prompt, an unreachable service, a cancelled context.
SignerFails(c) ==
    /\ Refusal(entry, c) = "ok"
    /\ Ended("AuthorizeEntry", {}, "signer")
    /\ UNCHANGED entry

AuthorizeSigned(c) ==
    /\ Refusal(entry, c) = "ok"
    /\ entry' = WriteSignature(entry, c)
    /\ Ended("AuthorizeEntry", MayOverwrite(c), "ok")

-----------------------------------------------------------------------------
(* WithDelegates.                                                             *)

WithDelegates(exp, ds, top) ==
    /\ WrapRefusal(entry, exp, ds) = "ok"
    /\ \E built \in buildDelegateNodes(ds) : entry' = Wrapped(entry, exp, built, top)
    /\ Ended("WithDelegates", {}, "ok")

WithDelegatesRefused(exp, ds) ==
    /\ WrapRefusal(entry, exp, ds) # "ok"
    /\ Ended("WithDelegates", {}, WrapRefusal(entry, exp, ds))
    /\ UNCHANGED entry

-----------------------------------------------------------------------------
(* UpgradeToV2, and the arm's own method of the same name, which replaces the *)
(* placeholder it finds by Void.                                              *)

\* Mutant: a signed legacy entry is upgraded too.
UpgradeRefusal_SignedToo(e) ==
    IF e.arm \notin {"address", "address_v2"} THEN "ErrUnsupportedCredentials" ELSE "ok"

UpgradeRefusal(e) ==
    IF e.arm \notin {"address", "address_v2"} THEN "ErrUnsupportedCredentials"
    ELSE IF e.arm = "address" /\ isSigned(e.nodes[1].sig) THEN "ErrAlreadySigned"
    ELSE "ok"

UpgradeToV2 ==
    /\ UpgradeRefusal(entry) = "ok"
    /\ entry' = [entry EXCEPT !.arm = "address_v2"]
    /\ Ended("UpgradeToV2", {}, "ok")

ArmUpgradeToV2 ==
    /\ UpgradeRefusal(entry) = "ok"
    /\ entry' = [entry EXCEPT
                    !.arm = "address_v2",
                    !.nodes = IF entry.arm = "address"
                              THEN <<[entry.nodes[1] EXCEPT !.sig = Void]>>
                              ELSE entry.nodes]
    /\ Ended("UpgradeToV2", {}, "ok")

UpgradeRefused ==
    /\ UpgradeRefusal(entry) # "ok"
    /\ Ended("UpgradeToV2", {}, UpgradeRefusal(entry))
    /\ UNCHANGED entry

-----------------------------------------------------------------------------
Init ==
    /\ entry \in Received
    /\ call = [op |-> "start", overwrites |-> {}, result |-> "ok"]

Next ==
    \/ AuthorizeCancelled
    \/ \E c \in Calls : AuthorizeRefused(c) \/ SignerFails(c) \/ AuthorizeSigned(c)
    \/ \E exp \in Ledger, ds \in DelegateTrees :
          \/ WithDelegatesRefused(exp, ds)
          \/ \E top \in Supplied : WithDelegates(exp, ds, top)
    \/ UpgradeToV2 \/ ArmUpgradeToV2 \/ UpgradeRefused

Spec == Init /\ [][Next]_vars

-----------------------------------------------------------------------------
(* Properties.                                                                *)

TypeOK ==
    /\ entry \in Entries
    /\ WellFormed(entry)
    /\ call \in CallRecords

\* A signature AuthorizeEntry wrote into node i.
SignedByLibrary(i) ==
    isSigned(entry.nodes[i].sig) /\ entry.nodes[i].sig.origin = "signer"

(* Every signature AuthorizeEntry wrote still covers the payload the host      *)
(* rebuilds from the entry as it now stands: its arm's preimage variant, its   *)
(* stored expiration, its top-level address, nonce and invocation.  No later   *)
(* call (another party's signature, a re-sign, a wrap, an upgrade) may leave a *)
(* signature behind that looks complete and is rejected on-chain.              *)
SignaturesCoverEntry ==
    \A i \in 1..Len(entry.nodes) :
        SignedByLibrary(i) =>
            entry.nodes[i].sig.payload
                = Preimage(entry, entry.exp, entry.nodes[i].sig.payload.network)

(* A signature sits only on nodes of the address it was asked for, and on all  *)
(* of them: an address that appears at several depths is filled everywhere.    *)
EveryDepthFilled ==
    \A i, j \in 1..Len(entry.nodes) :
        SignedByLibrary(i) =>
            /\ entry.nodes[i].sig.target = entry.nodes[i].addr
            /\ entry.nodes[j].addr = entry.nodes[i].addr
                  => entry.nodes[j].sig = entry.nodes[i].sig

(* No signature exists on an entry the host refuses whatever it holds: one     *)
(* with a mis-ordered or repeated delegate level, or with expiration zero.     *)
SignedOnlyWhenAcceptable ==
    (\E i \in 1..Len(entry.nodes) : SignedByLibrary(i)) =>
        /\ entry.exp # 0
        /\ entry.arm = "address_with_delegates" => ValidateDelegateOrder(entry)

(* VerifyEntry agrees with AuthorizeEntry: a classic account's node it signed  *)
(* verifies under the network it was signed for and under no other, whatever   *)
(* calls came in between.                                                      *)
VerifyAgrees ==
    \A i \in 1..Len(entry.nodes), net \in Networks :
        (SignedByLibrary(i) /\ entry.nodes[i].addr \in Accounts
             /\ entry.nodes[i].sig.kind = "account") =>
            /\ ~VerifyRefuses(entry)
            /\ VerifyEntry(entry, net)[i] = "verified"
                  <=> entry.nodes[i].sig.payload.network = net

(* A signature, whoever made it, is never replaced or dropped except in a call *)
(* that passed AllowResign with a scope covering that node's address.          *)
NoSilentOverwrite ==
    [][\A i \in 1..Len(entry.nodes) :
          isSigned(entry.nodes[i].sig) /\ entry.nodes[i].addr \notin call'.overwrites
              => /\ i <= Len(entry'.nodes)
                 /\ entry'.nodes[i] = entry.nodes[i]]_vars

(* Once any node of a delegates entry is signed the shared payload is fixed:   *)
(* no call, AllowResign included, moves the expiration the others committed to *)
(* or changes the arm.                                                         *)
SharedPayloadPinned ==
    [][entry.arm = "address_with_delegates" /\ AnySigned(entry)
          => entry'.arm = entry.arm /\ entry'.exp = entry.exp]_vars

(* WithDelegates only builds trees that the host, and AuthorizeEntry, accept.  *)
WrapsAreOrdered ==
    [][entry.arm # "address_with_delegates" /\ entry'.arm = "address_with_delegates"
          => ValidateDelegateOrder(entry')]_vars
=============================================================================
