------------------------------ MODULE RpcFlow ------------------------------
(***************************************************************************)
(* rpcflow: SignAndSubmit (record, sign, enforce, assemble, send, poll) and *)
(* Submit, its second half, called again and again by a caller that retries *)
(* what did not succeed with the same account or the same envelope.         *)
(*                                                                         *)
(* The Soroban RPC and the network behind it are external: they are         *)
(* modelled as far as the code relies on them.  Any RPC call may fail, an   *)
(* answer may be lost after the request was carried out, the network may    *)
(* drop a transaction it accepted, and ledgers close at any time.           *)
(***************************************************************************)
EXTENDS Naturals, FiniteSets

CONSTANTS
    MaxLedger,       \* the largest ledger sequence (2^32 - 1 in the code)
    FirstLedgers,    \* the ledgers the network may be at when the caller starts
    Lifetime,        \* DefaultLifetimeLedgers
    RecordedFee,     \* the minimum resource fee the record pass reports
    SignatureFee,    \* what reading the signatures adds to it
    FeePadding,      \* ResourceFeePadding
    Requested,       \* ValidUntilLedger values callers pass; 0 for "resolve one"
    Bounds,          \* preconditions on a caller's envelope: the last ledger it may land in
    MaxAttempts,     \* bound: calls a caller makes
    LastLedger       \* bound: no ledger closes past this one

NoBound == MaxLedger

ASSUME RpcFlowAssumption ==
    /\ MaxLedger \in Nat /\ Lifetime \in Nat \ {0}
    /\ FirstLedgers \subseteq 1..LastLedger /\ LastLedger \in 1..MaxLedger
    /\ RecordedFee \in Nat /\ SignatureFee \in Nat \ {0} /\ FeePadding \in Nat \ {0}
    /\ Requested \subseteq 0..MaxLedger /\ Bounds \subseteq 1..MaxLedger
    /\ MaxAttempts \in Nat \ {0}

VARIABLES
    account,   \* the sequence number the caller's txnbuild.Account reports
    flow,      \* the call in progress, or the last one
    attempts,  \* how many calls were made
    reported,  \* the transactions OnSent was called with
    ledger,    \* network: the last closed ledger
    chainSeq,  \* network: the account's sequence number
    pool,      \* network: transactions waiting to be applied
    landed,    \* network: [tx, ledger, status] of the applied transactions
    unanswered \* history: transactions whose SendTransaction the RPC did not answer

vars == <<account, flow, attempts, reported, ledger, chainSeq, pool, landed, unanswered>>
network == <<ledger, chainSeq, pool, landed>>

(* Authorization entries: which recording they come from (fresh nonces), and   *)
(* the expiration they are signed over; exp = 0 before they are signed.        *)
AuthEntries == [nonce: 0..MaxAttempts, exp: 0..MaxLedger]

\* A transaction stands for its hash: equal transactions have equal hashes.
Fees == Nat
Transactions == [seq: Nat, entries: AuthEntries, fee: Fees, bound: 1..MaxLedger]

Apis == {"SignAndSubmit", "Submit"}
Phases == {"idle", "record", "expiration", "sign", "enforce", "send", "poll", "returned"}

-----------------------------------------------------------------------------
(* The network, as far as the code relies on it.                              *)

\* What applying signed entries costs.
Price(entries) == RecordedFee + (IF entries.exp = 0 THEN 0 ELSE SignatureFee)

\* The minimum a simulation reports has moved by at most the padding when a tx lands.
AppliesWith(tx, l) ==
    IF tx.entries.exp # 0 /\ l <= tx.entries.exp /\ tx.fee >= Price(tx.entries)
    THEN "SUCCESS" ELSE "FAILED"

CloseLedger ==
    /\ ledger < LastLedger
    /\ ledger' = ledger + 1
    /\ UNCHANGED <<account, flow, attempts, reported, chainSeq, pool, landed, unanswered>>

Apply(tx) ==
    /\ ledger < LastLedger /\ ledger < tx.bound
    /\ tx \in pool /\ tx.seq = chainSeq + 1
    /\ ledger' = ledger + 1 /\ chainSeq' = tx.seq
    /\ pool' = {t \in pool : t.seq > tx.seq}
    /\ landed' = landed \cup {[tx |-> tx, ledger |-> ledger + 1,
                               status |-> AppliesWith(tx, ledger + 1)]}
    /\ UNCHANGED <<account, flow, attempts, reported, unanswered>>

Drop(tx) ==
    /\ tx \in pool /\ pool' = pool \ {tx}
    /\ UNCHANGED <<account, flow, attempts, reported, ledger, chainSeq, landed, unanswered>>

-----------------------------------------------------------------------------
(* The calls.                                                                 *)

\* ExpirationAfter; 0 stands for ErrInvalidExpiration.
ExpirationAfter(latest, ledgers) ==
    IF ledgers = 0 \/ latest > MaxLedger - ledgers THEN 0 ELSE latest + ledgers

Fails(phase) == flow' = [flow EXCEPT !.phase = "returned", !.failedIn = phase]

\* Mutant: the caller's account is advanced with every call.
sequencer_Climbs == account' = account + 1

\* sequencer hands out a copy: the caller's account is left as it was.
sequencer == account' = account

\* SignAndSubmit resolves one sequence number for all three passes.
SignAndSubmit(until) ==
    /\ flow.phase \in {"idle", "returned"} /\ attempts < MaxAttempts
    /\ attempts' = attempts + 1
    /\ flow' = [flow EXCEPT !.phase = "record", !.api = "SignAndSubmit",
                            !.seq = account + 1, !.until = until, !.bound = NoBound,
                            !.entries = [nonce |-> attempts', exp |-> 0],
                            !.failedIn = "none", !.status = "none", !.ledger = 0]
    /\ sequencer
    /\ UNCHANGED <<reported, unanswered>> /\ UNCHANGED network

\* Submit takes the envelope as it stands: signed entries, its own sequence number.
Submit(exp, bound) ==
    /\ flow.phase \in {"idle", "returned"} /\ attempts < MaxAttempts
    /\ attempts' = attempts + 1
    /\ flow' = [flow EXCEPT !.phase = "enforce", !.api = "Submit",
                            !.seq = account + 1, !.until = exp, !.bound = bound,
                            !.entries = [nonce |-> 0, exp |-> exp],
                            !.failedIn = "none", !.status = "none", !.ledger = 0]
    /\ UNCHANGED <<account, reported, unanswered>> /\ UNCHANGED network

\* An RPC error, a refused or unusable simulation, a signer, a cancelled context; in
\* "send", resources that cannot be decoded or an envelope that cannot be signed.
StepFails ==
    /\ flow.phase \in {"record", "expiration", "sign", "enforce", "send"}
    /\ Fails(flow.phase)
    /\ UNCHANGED <<account, attempts, reported, unanswered>> /\ UNCHANGED network

RecordPass ==
    /\ flow.phase = "record"
    /\ flow' = [flow EXCEPT !.phase = "expiration", !.minFee = Price(flow.entries)]
    /\ UNCHANGED <<account, attempts, reported, unanswered>> /\ UNCHANGED network

\* A requested expiration is taken as it is; otherwise the latest ledger decides.
ResolveExpiration ==
    /\ flow.phase = "expiration"
    /\ LET exp == IF flow.until # 0 THEN flow.until ELSE ExpirationAfter(ledger, Lifetime)
       IN  IF exp = 0 THEN Fails("expiration")
           ELSE flow' = [flow EXCEPT !.phase = "sign", !.exp = exp,
                                     !.resolvedAt = IF flow.until # 0 THEN 0 ELSE ledger]
    /\ UNCHANGED <<account, attempts, reported, unanswered>> /\ UNCHANGED network

\* AuthorizeAll signs every recorded entry over the one expiration (see Batch).
SignEntries ==
    /\ flow.phase = "sign"
    /\ flow' = [flow EXCEPT !.phase = "enforce", !.entries.exp = flow.exp]
    /\ UNCHANGED <<account, attempts, reported, unanswered>> /\ UNCHANGED network

\* Mutant: a caller of SignAndSubmit keeps the price of the record pass.
EnforcePass_KeepsRecordFee ==
    /\ flow.phase = "enforce" /\ flow.entries.exp # 0 /\ ledger <= flow.entries.exp
    /\ flow' = [flow EXCEPT !.phase = "send",
                            !.minFee = IF flow.api = "Submit" THEN Price(flow.entries) ELSE @]
    /\ UNCHANGED <<account, attempts, reported, unanswered>> /\ UNCHANGED network

\* The host checks the signatures it is handed, and prices them.
EnforcePass ==
    /\ flow.phase = "enforce" /\ flow.entries.exp # 0 /\ ledger <= flow.entries.exp
    /\ flow' = [flow EXCEPT !.phase = "send", !.minFee = Price(flow.entries)]
    /\ UNCHANGED <<account, attempts, reported, unanswered>> /\ UNCHANGED network

(* applyResources and buildTransaction: the reported minimum and the padding,  *)
(* the sequence number of the snapshot, and no precondition but an infinite    *)
(* timeout.                                                                    *)
FinalTx == [seq |-> flow.seq, entries |-> flow.entries, fee |-> flow.minFee + FeePadding,
            bound |-> NoBound]

\* SendTransaction returns an error, before or after the network took the transaction.
SendFails(reached) ==
    /\ flow.phase = "send"
    /\ Fails("send")
    /\ pool' = IF reached THEN pool \cup {FinalTx} ELSE pool
    /\ unanswered' = unanswered \cup {FinalTx}
    /\ UNCHANGED <<account, attempts, reported, ledger, chainSeq, landed>>

\* The status an RPC may answer a submission with.
Statuses(tx) ==
    (IF tx \in pool THEN {"DUPLICATE"}
     ELSE IF tx.seq = chainSeq + 1 THEN {"PENDING"} ELSE {})
        \cup {"ERROR", "TRY_AGAIN_LATER"}

OnSent(tx) == reported' = reported \cup {tx}

\* Mutant: OnSent waits for a status that is final.
SendAnswers_ReportsFinal(status) ==
    /\ flow.phase = "send" /\ status \in Statuses(FinalTx)
    /\ pool' = IF status = "PENDING" THEN pool \cup {FinalTx} ELSE pool
    /\ IF status = "ERROR" THEN OnSent(FinalTx) ELSE UNCHANGED reported
    /\ flow' = [flow EXCEPT !.status = status, !.tx = FinalTx,
                            !.phase = IF status = "ERROR" THEN "returned" ELSE "poll"]
    /\ UNCHANGED <<account, attempts, ledger, chainSeq, landed, unanswered>>

(* SendTransaction answers.  OnSent is called whatever the status is, and a    *)
(* status of ERROR ends the call without an error.                             *)
SendAnswers(status) ==
    /\ flow.phase = "send" /\ status \in Statuses(FinalTx)
    /\ pool' = IF status = "PENDING" THEN pool \cup {FinalTx} ELSE pool
    /\ OnSent(FinalTx)
    /\ flow' = [flow EXCEPT !.status = status, !.tx = FinalTx,
                            !.phase = IF status = "ERROR" THEN "returned" ELSE "poll"]
    /\ UNCHANGED <<account, attempts, ledger, chainSeq, landed, unanswered>>

\* PollTransaction looks the hash up.
Polled == {r \in landed : r.tx = flow.tx}

PollAnswers ==
    /\ flow.phase = "poll"
    /\ \E r \in Polled :
          flow' = [flow EXCEPT !.phase = "returned", !.status = r.status, !.ledger = r.ledger]
    /\ UNCHANGED <<account, attempts, reported, unanswered>> /\ UNCHANGED network

\* Mutant: a poll that failed is tried again, past any deadline.
PollFails_Retries == flow.phase = "poll" /\ UNCHANGED vars

\* The poll's deadline passes, the context is cancelled, or the RPC fails.
PollFails ==
    /\ flow.phase = "poll"
    /\ Fails("poll")
    /\ UNCHANGED <<account, attempts, reported, unanswered>> /\ UNCHANGED network

-----------------------------------------------------------------------------
NoTx == [seq |-> 0, entries |-> [nonce |-> 0, exp |-> 0], fee |-> 0, bound |-> NoBound]

Init ==
    /\ account = 0 /\ chainSeq = 0 /\ attempts = 0
    /\ flow = [phase |-> "idle", api |-> "Submit", seq |-> 0, until |-> 0, exp |-> 0,
               resolvedAt |-> 0, bound |-> NoBound, entries |-> NoTx.entries, minFee |-> 0,
               tx |-> NoTx, failedIn |-> "none", status |-> "none", ledger |-> 0]
    /\ reported = {} /\ ledger \in FirstLedgers /\ pool = {} /\ landed = {}
    /\ unanswered = {}

\* A caller goes on until a call succeeds.
Retries == flow.status # "SUCCESS"

Start ==
    /\ Retries
    /\ \/ \E until \in Requested : SignAndSubmit(until)
       \/ \E exp \in Requested, bound \in Bounds : Submit(exp, bound)

Step ==
    \/ StepFails \/ RecordPass \/ ResolveExpiration \/ SignEntries \/ EnforcePass
    \/ \E reached \in BOOLEAN : SendFails(reached)
    \/ \E status \in {"PENDING", "DUPLICATE", "ERROR", "TRY_AGAIN_LATER"} : SendAnswers(status)
    \/ PollAnswers \/ PollFails

Next ==
    \/ Start \/ Step \/ CloseLedger
    \/ \E tx \in pool : Apply(tx) \/ Drop(tx)

Spec == Init /\ [][Next]_vars

\* Every RPC call returns, with an answer or an error: its context has a deadline.
FairSpec == Spec /\ WF_vars(Step)

-----------------------------------------------------------------------------
(* Properties.                                                                *)

TypeOK ==
    /\ account \in Nat /\ chainSeq \in Nat /\ attempts \in 0..MaxAttempts
    /\ flow.phase \in Phases /\ flow.api \in Apis /\ flow.failedIn \in Phases \cup {"none"}
    /\ flow.entries \in AuthEntries /\ flow.tx.seq \in Nat
    /\ flow.phase = "send" => flow.entries.exp # 0 /\ flow.seq = account + 1
    /\ ledger \in 1..LastLedger
    /\ pool \cup reported \cup unanswered \subseteq Transactions
    /\ \A r \in landed : r.tx \in Transactions /\ r.ledger \in 1..LastLedger

\* Everything this caller's calls ever handed to SendTransaction.
Wire == reported \cup unanswered

(* Every transaction that goes out is fit to be applied.  Its fee covers what  *)
(* the host charges for the entries and signatures it carries, so that one     *)
(* applied before its signatures expire never fails for the fee; and an        *)
(* expiration the call resolved itself lies ahead of the ledger it was         *)
(* resolved at, up to the end of the ledger numbers.                           *)
SentFitToLand ==
    /\ \A tx \in Wire : tx.fee >= Price(tx.entries) + FeePadding
    /\ \A r \in landed : r.status = "FAILED" => r.ledger > r.tx.entries.exp
    /\ flow.phase \in {"sign", "enforce", "send"} /\ flow.api = "SignAndSubmit"
          /\ flow.resolvedAt # 0 => flow.exp > flow.resolvedAt

(* A caller that retries with the account it holds, whatever failed, timed out *)
(* or got lost in between, has at most one of its transactions applied.        *)
RetryLandsOnce == Cardinality(landed) <= 1

(* The caller can look up whatever the network may still apply: a transaction  *)
(* that waits or has landed was handed to OnSent, before any poll of it could  *)
(* time out and whatever later calls did, unless SendTransaction itself never  *)
(* answered.                                                                   *)
SentAreKnown == pool \cup {r.tx : r \in landed} \subseteq reported \cup unanswered

(* A call returns.                                                             *)
CallReturns == flow.phase \notin {"idle", "returned"} ~> flow.phase = "returned"

(* What the comment on SubmitParams says: the preconditions already on the     *)
(* caller's envelope are the ones that get submitted.                          *)
PreconditionsKept ==
    flow.phase \in {"poll", "returned"} /\ flow.api = "Submit" /\ flow.status # "none"
        => flow.tx.bound = flow.bound
=============================================================================
