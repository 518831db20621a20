--------------------------- MODULE RpcFlow_proofs ---------------------------
(***************************************************************************)
(* Proofs about RpcFlow for every fee, lifetime and ledger number, any      *)
(* number of attempts and any network behaviour the module allows.          *)
(*                                                                         *)
(* The invariant says that the caller's account never moves, so everything  *)
(* that goes out carries one sequence number and the network applies at     *)
(* most one of it, and that a call comes to "send" only with entries that   *)
(* are signed and priced.                                                   *)
(***************************************************************************)
EXTENDS RpcFlow, FiniteSetTheorems, TLAPS

SendStatuses == {"PENDING", "DUPLICATE", "ERROR", "TRY_AGAIN_LATER"}
Rows == [tx: Transactions, ledger: 1..LastLedger, status: {"SUCCESS", "FAILED"}]

Flows ==
    [phase: Phases, api: Apis, seq: Nat, until: 0..MaxLedger, exp: 0..MaxLedger,
     resolvedAt: 0..MaxLedger, bound: 1..MaxLedger, entries: AuthEntries, minFee: Nat,
     tx: Transactions, failedIn: Phases \cup {"none"}, 
     status: SendStatuses \cup {"none", "SUCCESS", "FAILED"}, ledger: Nat]

Active == {"record", "expiration", "sign", "enforce", "send", "poll"}

Typed ==
    /\ account \in Nat /\ chainSeq \in Nat /\ attempts \in 0..MaxAttempts
    /\ flow \in Flows /\ ledger \in 1..LastLedger
    /\ pool \subseteq Wire /\ reported \subseteq Transactions /\ unanswered \subseteq Transactions
    /\ landed \subseteq Rows

\* The account is never advanced, and one sequence number serves every call.
OneSequence ==
    /\ account = 0
    /\ flow.phase \in Active => flow.seq = 1
    /\ \A tx \in Wire : tx.seq = 1

\* The network has used the sequence number exactly when it has applied a transaction.
OneLanding ==
    \/ chainSeq = 0 /\ landed = {}
    \/ chainSeq = 1 /\ \E r : landed = {r}

\* What a call knows of the entries it is about to send.
Priced ==
    /\ flow.phase = "send" => flow.entries.exp # 0 /\ flow.minFee = Price(flow.entries)
    /\ \A tx \in Wire : tx.entries.exp # 0

FlowInv == Typed /\ OneSequence /\ OneLanding /\ Priced /\ SentFitToLand /\ SentAreKnown

-----------------------------------------------------------------------------
USE DEF NoBound

\* A price is a natural number.
LEMMA PriceNat ==
    ASSUME NEW e \in AuthEntries PROVE Price(e) \in Nat
BY RpcFlowAssumption DEF Price, AuthEntries

(* What the wire and the network know is left alone by a step that only moves   *)
(* the call on: such a step has to answer for the call alone.                  *)
LEMMA CallStep ==
    ASSUME FlowInv, flow' \in Flows,
           UNCHANGED <<account, reported, unanswered>>, UNCHANGED network,
           attempts' \in 0..MaxAttempts,
           flow'.phase \in Active => flow'.seq = 1,
           flow'.phase = "send" =>
              flow'.entries.exp # 0 /\ flow'.minFee = Price(flow'.entries),
           flow'.phase \in {"sign", "enforce", "send"} /\ flow'.api = "SignAndSubmit"
              /\ flow'.resolvedAt # 0 => flow'.exp > flow'.resolvedAt
    PROVE  FlowInv'
<1>1. Typed'
  BY DEF FlowInv, Typed, Wire, network
<1>2. OneSequence'
  BY DEF FlowInv, OneSequence, Wire
<1>3. OneLanding'
  BY DEF FlowInv, OneLanding, network
<1>4. Priced'
  BY DEF FlowInv, Priced, Wire, Price
<1>5. SentFitToLand'
  BY DEF FlowInv, SentFitToLand, Wire, network, Price
<1>6. SentAreKnown'
  BY DEF FlowInv, SentAreKnown, network
<1> QED  BY <1>1, <1>2, <1>3, <1>4, <1>5, <1>6 DEF FlowInv

\* A call that fails returns and says where.
LEMMA FailedCall ==
    ASSUME FlowInv, NEW phase \in Phases, Fails(phase)
    PROVE  /\ flow' \in Flows /\ flow'.phase = "returned" /\ flow'.failedIn # "none"
           /\ flow'.phase \notin Active
BY DEF FlowInv, Typed, Flows, Fails, Phases, Active

\* The transaction that is sent, with the fee the enforce pass reported.
LEMMA FinalTransaction ==
    ASSUME FlowInv, flow.phase = "send"
    PROVE  /\ FinalTx \in Transactions /\ FinalTx.seq = 1
           /\ FinalTx.entries.exp # 0
           /\ FinalTx.fee >= Price(FinalTx.entries) + FeePadding
<1>1. flow \in Flows /\ flow.seq = 1 /\ flow.entries.exp # 0
      /\ flow.minFee = Price(flow.entries)
  BY DEF FlowInv, Typed, OneSequence, Priced, Active
<1>2. Price(flow.entries) \in Nat
  BY <1>1, PriceNat DEF Flows
<1> QED  BY <1>1, <1>2, RpcFlowAssumption DEF FinalTx, Transactions, Fees, Flows

LEMMA InitInv == Init => FlowInv
<1> SUFFICES ASSUME Init PROVE FlowInv
  OBVIOUS
<1> USE RpcFlowAssumption DEF Init
<1>1. NoTx \in Transactions /\ NoTx.entries \in AuthEntries
  BY DEF NoTx, Transactions, AuthEntries, Fees
<1>2. flow \in Flows /\ flow.phase = "idle"
  BY <1>1 DEF Flows, Phases, Apis, SendStatuses
<1>3. Typed
  BY <1>2 DEF Typed, Wire
<1>4. OneSequence /\ OneLanding /\ Priced /\ SentFitToLand /\ SentAreKnown
  BY <1>2 DEF OneSequence, OneLanding, Priced, SentFitToLand, SentAreKnown, Wire, Active
<1> QED  BY <1>3, <1>4 DEF FlowInv

-----------------------------------------------------------------------------
(* One lemma per action.                                                      *)

LEMMA StartKeeps == ASSUME FlowInv, Start PROVE FlowInv'
<1>0. flow \in Flows /\ account = 0 /\ attempts \in 0..MaxAttempts
  BY DEF FlowInv, Typed, OneSequence
<1>z. PICK zero \in Nat : zero = 0
  OBVIOUS
<1>1. CASE \E until \in Requested : SignAndSubmit(until)
  <2>1. PICK until \in Requested : SignAndSubmit(until)
    BY <1>1
  <2>2. PICK one \in Nat, entries \in AuthEntries :
             /\ one = 1
             /\ flow' = [flow EXCEPT !.phase = "record", !.api = "SignAndSubmit",
                            !.seq = one, !.until = until, !.bound = NoBound,
                            !.entries = entries,
                            !.failedIn = "none", !.status = "none", !.ledger = zero]
    <3>1. account + 1 \in Nat /\ account + 1 = 1
      BY <1>0
    <3>2. [nonce |-> attempts', exp |-> zero] \in AuthEntries
      BY <1>0, <1>z, <2>1, RpcFlowAssumption DEF SignAndSubmit, AuthEntries
    <3>3. flow' = [flow EXCEPT !.phase = "record", !.api = "SignAndSubmit",
                            !.seq = account + 1, !.until = until, !.bound = NoBound,
                            !.entries = [nonce |-> attempts', exp |-> zero],
                            !.failedIn = "none", !.status = "none", !.ledger = zero]
      BY <1>z, <2>1, Zenon DEF SignAndSubmit
    <3> QED  BY <3>1, <3>2, <3>3, Zenon
  <2>b. until \in 0..MaxLedger /\ MaxLedger \in 1..MaxLedger
    BY <2>1, RpcFlowAssumption
  <2>3. flow' \in Flows /\ flow'.phase = "record" /\ flow'.seq = 1
    BY <1>0, <1>z, <2>2, <2>b DEF Flows, Phases, Apis, SendStatuses
  <2>4. /\ UNCHANGED <<account, reported, unanswered>> /\ UNCHANGED network
        /\ attempts' \in 0..MaxAttempts
    BY <1>0, <2>1, RpcFlowAssumption DEF SignAndSubmit, sequencer
  <2> QED  BY <2>3, <2>4, CallStep
<1>2. CASE \E exp \in Requested, bound \in Bounds : Submit(exp, bound)
  <2>1. PICK exp \in Requested, bound \in Bounds : Submit(exp, bound)
    BY <1>2
  <2>2. PICK one \in Nat, entries \in AuthEntries :
             /\ one = 1
             /\ flow' = [flow EXCEPT !.phase = "enforce", !.api = "Submit",
                            !.seq = one, !.until = exp, !.bound = bound,
                            !.entries = entries,
                            !.failedIn = "none", !.status = "none", !.ledger = zero]
    <3>1. account + 1 \in Nat /\ account + 1 = 1
      BY <1>0
    <3>2. [nonce |-> zero, exp |-> exp] \in AuthEntries
      BY <1>0, <1>z, RpcFlowAssumption DEF AuthEntries
    <3>3. flow' = [flow EXCEPT !.phase = "enforce", !.api = "Submit",
                            !.seq = account + 1, !.until = exp, !.bound = bound,
                            !.entries = [nonce |-> zero, exp |-> exp],
                            !.failedIn = "none", !.status = "none", !.ledger = zero]
      BY <1>z, <2>1, Zenon DEF Submit
    <3> QED  BY <3>1, <3>2, <3>3, Zenon
  <2>3. flow' \in Flows /\ flow'.phase = "enforce" /\ flow'.seq = 1 /\ flow'.api = "Submit"
    BY <1>0, <2>2, RpcFlowAssumption DEF Flows, Phases, Apis, SendStatuses
  <2>4. /\ UNCHANGED <<account, reported, unanswered>> /\ UNCHANGED network
        /\ attempts' \in 0..MaxAttempts
    BY <1>0, <2>1, RpcFlowAssumption DEF Submit
  <2> QED  BY <2>3, <2>4, CallStep
<1> QED  BY <1>1, <1>2 DEF Start

LEMMA StepFailsKeeps == ASSUME FlowInv, StepFails \/ PollFails PROVE FlowInv'
<1>1. PICK phase \in Phases : Fails(phase)
  BY DEF StepFails, PollFails, Phases
<1>2. /\ UNCHANGED <<account, reported, unanswered>> /\ UNCHANGED network
      /\ attempts' \in 0..MaxAttempts
  BY DEF FlowInv, Typed, StepFails, PollFails
<1> QED  BY <1>1, <1>2, FailedCall, CallStep

LEMMA RecordKeeps == ASSUME FlowInv, RecordPass PROVE FlowInv'
<1>0. flow \in Flows /\ flow.seq = 1
  BY DEF FlowInv, Typed, OneSequence, RecordPass, Active
<1>1. Price(flow.entries) \in Nat
  BY <1>0, PriceNat DEF Flows
<1>2. flow' \in Flows /\ flow'.phase = "expiration" /\ flow'.seq = 1
  BY <1>0, <1>1 DEF RecordPass, Flows, Phases
<1>3. /\ UNCHANGED <<account, reported, unanswered>> /\ UNCHANGED network
      /\ attempts' \in 0..MaxAttempts
  BY DEF FlowInv, Typed, RecordPass
<1> QED  BY <1>2, <1>3, CallStep

LEMMA ResolveKeeps == ASSUME FlowInv, ResolveExpiration PROVE FlowInv'
<1>0. flow \in Flows /\ flow.seq = 1 /\ ledger \in 1..LastLedger
  BY DEF FlowInv, Typed, OneSequence, ResolveExpiration, Active
<1>1. /\ UNCHANGED <<account, reported, unanswered>> /\ UNCHANGED network
      /\ attempts' \in 0..MaxAttempts
  BY DEF FlowInv, Typed, ResolveExpiration
<1>2. CASE Fails("expiration")
  <2>1. "expiration" \in Phases
    BY DEF Phases
  <2> QED  BY <1>1, <1>2, <2>1, FailedCall, CallStep
<1>3. CASE ~Fails("expiration")
  <2>1. PICK exp, at :
           /\ exp = (IF flow.until # 0 THEN flow.until ELSE ExpirationAfter(ledger, Lifetime))
           /\ exp # 0 /\ at = (IF flow.until # 0 THEN 0 ELSE ledger)
           /\ flow' = [flow EXCEPT !.phase = "sign", !.exp = exp, !.resolvedAt = at]
    BY <1>3, Zenon DEF ResolveExpiration
  <2>2. exp \in 0..MaxLedger /\ at \in 0..MaxLedger /\ (at # 0 => exp > at)
    <3>1. CASE flow.until # 0
      BY <1>0, <2>1, <3>1, RpcFlowAssumption DEF Flows
    <3>2. CASE flow.until = 0
      BY <1>0, <2>1, <3>2, RpcFlowAssumption DEF ExpirationAfter
    <3> QED  BY <3>1, <3>2
  <2>3. /\ flow' \in Flows /\ flow'.phase = "sign" /\ flow'.seq = 1
        /\ flow'.exp = exp /\ flow'.resolvedAt = at
    BY <1>0, <2>1, <2>2 DEF Flows, Phases
  <2> QED  BY <1>1, <2>2, <2>3, CallStep
<1> QED  BY <1>2, <1>3

LEMMA SignKeeps == ASSUME FlowInv, SignEntries PROVE FlowInv'
<1>0. /\ flow \in Flows /\ flow.seq = 1 /\ flow.phase = "sign"
      /\ flow.api = "SignAndSubmit" /\ flow.resolvedAt # 0 => flow.exp > flow.resolvedAt
  BY DEF FlowInv, Typed, OneSequence, SignEntries, Active, SentFitToLand
<1>1. PICK entries \in AuthEntries :
           flow' = [flow EXCEPT !.phase = "enforce", !.entries = entries]
  <2>1. [flow.entries EXCEPT !.exp = flow.exp] \in AuthEntries
    BY <1>0 DEF Flows, AuthEntries
  <2> QED  BY <1>0, <2>1 DEF SignEntries, Flows
<1>2. /\ flow' \in Flows /\ flow'.phase = "enforce" /\ flow'.seq = 1
      /\ flow'.api = flow.api /\ flow'.exp = flow.exp /\ flow'.resolvedAt = flow.resolvedAt
  BY <1>0, <1>1 DEF Flows, Phases
<1>3. /\ UNCHANGED <<account, reported, unanswered>> /\ UNCHANGED network
      /\ attempts' \in 0..MaxAttempts
  BY DEF FlowInv, Typed, SignEntries
<1> QED  BY <1>0, <1>2, <1>3, CallStep

LEMMA EnforceKeeps == ASSUME FlowInv, EnforcePass PROVE FlowInv'
<1>0. /\ flow \in Flows /\ flow.seq = 1 /\ flow.phase = "enforce" /\ flow.entries.exp # 0
      /\ flow.api = "SignAndSubmit" /\ flow.resolvedAt # 0 => flow.exp > flow.resolvedAt
  BY DEF FlowInv, Typed, OneSequence, EnforcePass, Active, SentFitToLand
<1>1. Price(flow.entries) \in Nat
  BY <1>0, PriceNat DEF Flows
<1>2. /\ flow' \in Flows /\ flow'.phase = "send" /\ flow'.seq = 1
      /\ flow'.entries = flow.entries /\ flow'.minFee = Price(flow.entries)
      /\ flow'.api = flow.api /\ flow'.exp = flow.exp /\ flow'.resolvedAt = flow.resolvedAt
  BY <1>0, <1>1 DEF EnforcePass, Flows, Phases
<1>3. /\ UNCHANGED <<account, reported, unanswered>> /\ UNCHANGED network
      /\ attempts' \in 0..MaxAttempts
  BY DEF FlowInv, Typed, EnforcePass
<1> QED  BY <1>0, <1>2, <1>3, CallStep

LEMMA PollKeeps == ASSUME FlowInv, PollAnswers PROVE FlowInv'
<1>0. /\ flow \in Flows
      /\ landed \subseteq Rows
  BY DEF FlowInv, Typed
<1>1. PICK r \in Polled :
           flow' = [flow EXCEPT !.phase = "returned", !.status = r.status, !.ledger = r.ledger]
  BY DEF PollAnswers
<1>2. r \in landed /\ r.tx = flow.tx
  BY <1>1 DEF Polled
<1>b. r.ledger \in Nat /\ r.status \in {"SUCCESS", "FAILED"}
  BY <1>0, <1>2, RpcFlowAssumption DEF Rows
<1>3. /\ flow' \in Flows /\ flow'.phase = "returned" /\ flow'.phase \notin Active
      /\ flow'.status = r.status /\ flow'.ledger = r.ledger /\ flow'.tx = flow.tx
  BY <1>0, <1>1, <1>b DEF Flows, Phases, Active, SendStatuses
<1>4. /\ UNCHANGED <<account, reported, unanswered>> /\ UNCHANGED network
      /\ attempts' \in 0..MaxAttempts
  BY DEF FlowInv, Typed, PollAnswers
<1> QED  BY <1>3, <1>4, CallStep

(* What goes out is FinalTx, and it is on the wire whether or not the RPC       *)
(* answered.                                                                   *)
LEMMA SendKeeps ==
    ASSUME FlowInv, flow.phase = "send", flow' \in Flows,
           flow'.phase \in {"returned", "poll"}, flow'.seq = flow.seq,
           \/ reported' = reported \cup {FinalTx} /\ unanswered' = unanswered
           \/ unanswered' = unanswered \cup {FinalTx} /\ reported' = reported,
           pool' \subseteq pool \cup {FinalTx},
           UNCHANGED <<account, attempts, ledger, chainSeq, landed>>
    PROVE  FlowInv'
<1>0. /\ FinalTx \in Transactions /\ FinalTx.seq = 1 /\ FinalTx.entries.exp # 0
      /\ FinalTx.fee >= Price(FinalTx.entries) + FeePadding
  BY FinalTransaction
<1>1. Wire' = Wire \cup {FinalTx}
  BY DEF Wire
<1>2. Typed'
  BY <1>0, <1>1 DEF FlowInv, Typed
<1>3. flow.seq = 1
  BY DEF FlowInv, OneSequence, Active
<1>4. OneSequence'
  BY <1>0, <1>1, <1>3 DEF FlowInv, OneSequence
<1>5. OneLanding'
  BY DEF FlowInv, OneLanding
<1>6. Priced'
  BY <1>0, <1>1 DEF FlowInv, Priced
<1>7. SentFitToLand'
  BY <1>0, <1>1 DEF FlowInv, SentFitToLand, Price
<1>8. SentAreKnown'
  BY <1>1 DEF FlowInv, SentAreKnown, Wire
<1> QED  BY <1>2, <1>4, <1>5, <1>6, <1>7, <1>8 DEF FlowInv

LEMMA SendFailsKeeps ==
    ASSUME FlowInv, NEW reached \in BOOLEAN, SendFails(reached) PROVE FlowInv'
<1>1. "send" \in Phases /\ Fails("send") /\ flow \in Flows
  BY DEF SendFails, Phases, FlowInv, Typed
<1>2. flow' \in Flows /\ flow'.phase = "returned" /\ flow'.failedIn # "none"
  BY <1>1, FailedCall
<1>3. flow'.seq = flow.seq
  BY <1>1 DEF Fails, Flows
<1>4. pool' \subseteq pool \cup {FinalTx}
  BY DEF SendFails
<1>5. /\ unanswered' = unanswered \cup {FinalTx} /\ reported' = reported
      /\ UNCHANGED <<account, attempts, ledger, chainSeq, landed>> /\ flow.phase = "send"
  BY DEF SendFails
<1> QED  BY <1>2, <1>3, <1>4, <1>5, SendKeeps

LEMMA SendAnswersKeeps ==
    ASSUME FlowInv, NEW status \in {"PENDING", "DUPLICATE", "ERROR", "TRY_AGAIN_LATER"},
           SendAnswers(status)
    PROVE  FlowInv'
<1>0. flow \in Flows /\ FinalTx \in Transactions /\ flow.phase = "send"
  BY FinalTransaction DEF FlowInv, Typed, SendAnswers
<1>1. PICK tx \in Transactions, phase \in {"returned", "poll"} :
           flow' = [flow EXCEPT !.status = status, !.tx = tx, !.phase = phase]
  BY <1>0, Zenon DEF SendAnswers
<1>2. /\ flow' \in Flows /\ flow'.phase \in {"returned", "poll"} /\ flow'.seq = flow.seq
      /\ flow'.status = status
  BY <1>0, <1>1 DEF Flows, Phases, SendStatuses
<1>3. pool' \subseteq pool \cup {FinalTx}
  BY DEF SendAnswers
<1>4. /\ reported' = reported \cup {FinalTx} /\ unanswered' = unanswered
      /\ UNCHANGED <<account, attempts, ledger, chainSeq, landed>>
  BY DEF SendAnswers, OnSent
<1> QED  BY <1>0, <1>2, <1>3, <1>4, SendKeeps

LEMMA CloseKeeps == ASSUME FlowInv, CloseLedger PROVE FlowInv'
<1>1. Typed'
  BY RpcFlowAssumption DEF FlowInv, Typed, CloseLedger, Wire
<1>2. OneSequence' /\ OneLanding' /\ Priced'
  BY DEF FlowInv, OneSequence, OneLanding, Priced, CloseLedger, Wire, Price
<1>3. SentFitToLand' /\ SentAreKnown'
  BY DEF FlowInv, SentFitToLand, SentAreKnown, CloseLedger, Wire, Price
<1> QED  BY <1>1, <1>2, <1>3 DEF FlowInv

LEMMA DropKeeps == ASSUME FlowInv, NEW tx \in pool, Drop(tx) PROVE FlowInv'
<1>1. Typed'
  BY DEF FlowInv, Typed, Drop, Wire
<1>2. OneSequence' /\ OneLanding' /\ Priced'
  BY DEF FlowInv, OneSequence, OneLanding, Priced, Drop, Wire, Price
<1>3. SentFitToLand' /\ SentAreKnown'
  BY DEF FlowInv, SentFitToLand, SentAreKnown, Drop, Wire, Price
<1> QED  BY <1>1, <1>2, <1>3 DEF FlowInv

(* A transaction is applied only while the sequence number is unused; it pays   *)
(* for itself, so it can fail only because its signatures have expired.        *)
LEMMA ApplyKeeps == ASSUME FlowInv, NEW tx \in pool, Apply(tx) PROVE FlowInv'
<1> DEFINE row == [tx |-> tx, ledger |-> ledger + 1, status |-> AppliesWith(tx, ledger + 1)]
<1>0. /\ tx \in Transactions /\ tx \in Wire /\ tx.seq = 1 /\ tx.entries.exp # 0
      /\ tx.fee >= Price(tx.entries) + FeePadding /\ ledger + 1 \in 1..LastLedger
      /\ ledger \in 1..LastLedger
  <2>1. tx \in Wire /\ Wire \subseteq Transactions
    BY DEF FlowInv, Typed, Wire
  <2> QED
    BY <2>1, RpcFlowAssumption DEF FlowInv, Typed, OneSequence, Priced, SentFitToLand, Apply
<1>1. chainSeq = 0 /\ landed = {} /\ chainSeq' = 1
  BY <1>0 DEF FlowInv, OneLanding, Apply
<1>2. landed' = {row}
  BY <1>1 DEF Apply
<1>3. /\ UNCHANGED <<account, flow, attempts, reported, unanswered>> /\ pool' \subseteq pool
      /\ ledger' = ledger + 1
  BY DEF Apply
<1>4. row \in Rows
  BY <1>0 DEF AppliesWith, Rows
<1>5. row.status = "FAILED" => row.ledger > row.tx.entries.exp
  <2>1. Price(tx.entries) \in Nat /\ tx.fee \in Nat /\ tx.entries.exp \in Nat
    BY <1>0, PriceNat, RpcFlowAssumption DEF Transactions, AuthEntries, Fees
  <2>2. tx.fee >= Price(tx.entries)
    BY <1>0, <2>1, RpcFlowAssumption
  <2>3. ledger + 1 \in Nat
    BY <1>0
  <2> QED  BY <1>0, <2>1, <2>2, <2>3 DEF AppliesWith
<1>6. Typed'
  <2>1. landed' \subseteq Rows
    BY <1>2, <1>4
  <2>2. chainSeq' \in Nat /\ ledger' \in 1..LastLedger
    BY <1>0, <1>1, <1>3
  <2> QED  BY <1>3, <2>1, <2>2 DEF FlowInv, Typed, Wire
<1>7. OneSequence' /\ Priced'
  BY <1>3 DEF FlowInv, OneSequence, Priced, Wire, Price
<1>8. OneLanding'
  BY <1>1, <1>2 DEF OneLanding
<1>9. SentFitToLand'
  BY <1>2, <1>3, <1>5 DEF FlowInv, SentFitToLand, Wire, Price
<1>10. SentAreKnown'
  BY <1>0, <1>2, <1>3 DEF FlowInv, SentAreKnown, Wire
<1> QED  BY <1>6, <1>7, <1>8, <1>9, <1>10 DEF FlowInv

LEMMA NextInv == FlowInv /\ [Next]_vars => FlowInv'
<1> SUFFICES ASSUME FlowInv, [Next]_vars PROVE FlowInv'
  OBVIOUS
<1>1. CASE Start      BY <1>1, StartKeeps
<1>2. CASE Step
  BY <1>2, StepFailsKeeps, RecordKeeps, ResolveKeeps, SignKeeps, EnforceKeeps,
     SendFailsKeeps, SendAnswersKeeps, PollKeeps DEF Step
<1>3. CASE CloseLedger  BY <1>3, CloseKeeps
<1>4. CASE \E tx \in pool : Apply(tx) \/ Drop(tx)
  BY <1>4, ApplyKeeps, DropKeeps
<1>5. CASE UNCHANGED vars
  BY <1>5, CallStep DEF vars, network, FlowInv, Typed, OneSequence, Priced, SentFitToLand,
     SentAreKnown
<1> QED  BY <1>1, <1>2, <1>3, <1>4, <1>5 DEF Next

(* The invariant of the two-pass flow: FlowInv holds throughout, whatever the   *)
(* RPC loses, refuses or repeats.                                              *)
THEOREM FlowSound == Spec => []FlowInv
BY InitInv, NextInv, PTL DEF Spec

(* What goes out of SignAndSubmit and Submit is fit to be applied: its fee      *)
(* covers its signatures and only an expired signature can make it fail.       *)
THEOREM SentTransactionsFit == Spec => []SentFitToLand
<1>1. FlowInv => SentFitToLand
  BY DEF FlowInv
<1> QED  BY <1>1, FlowSound, PTL

(* A caller that retries with the account it holds, which sequencer never      *)
(* advances, has at most one transaction applied.                              *)
THEOREM RetryIsSafe == Spec => []RetryLandsOnce
<1>1. FlowInv => RetryLandsOnce
  <2> SUFFICES ASSUME FlowInv PROVE Cardinality(landed) <= 1
    BY DEF RetryLandsOnce
  <2>1. CASE landed = {}
    BY <2>1, FS_EmptySet
  <2>2. CASE \E r : landed = {r}
    <3>1. PICK r : landed = {r}
      BY <2>2
    <3>2. Cardinality({r}) = 1
      BY FS_Singleton
    <3> QED  BY <3>1, <3>2
  <2> QED  BY <2>1, <2>2 DEF FlowInv, OneLanding
<1> QED  BY <1>1, FlowSound, PTL

(* What the network holds or has applied the caller was told of by OnSent,      *)
(* unless SendTransaction never answered (send).                               *)
THEOREM SubmissionsAreKnown == Spec => []SentAreKnown
<1>1. FlowInv => SentAreKnown
  BY DEF FlowInv
<1> QED  BY <1>1, FlowSound, PTL
=============================================================================
