------------------------------ MODULE Signers ------------------------------
(***************************************************************************)
(* One Sign call on one Signer: its constructor, the wrappers around it     *)
(* (PinSignerToNetwork, WithRetry), the backend's exchanges with a device,  *)
(* a service, a helper process or a person, and the value that comes back.  *)
(* Contexts end, timers fire, keys are rotated and people approve or refuse *)
(* between any two steps.                                                   *)
(***************************************************************************)
EXTENDS SignerValues, SequencesExt

CONSTANTS
    Scenarios,     \* the configurations a call starts from, see ScenarioType
    MaxRotations,  \* bound: how often the key holder's key changes
    MaxAPDU,       \* bytes of data in one APDU (240 in the code)
    PathLen        \* bytes of the encoded derivation path (13 in the code)

ASSUME MachineAssumption ==
    /\ MaxRotations \in Nat
    /\ MaxAPDU \in Nat /\ PathLen \in Nat /\ PathLen < MaxAPDU

Kinds == {"ed25519", "wallet", "awskms", "gcpkms", "vault", "turnkey", "ledger",
          "fireblocks", "remote", "remote_other", "exec", "func", "passkey", "assertion",
          "multisig"}

(* attempts is RetryConfig.Attempts, 0 for a signer that is not wrapped; pin is *)
(* the network of PinSignerToNetwork; complete tells whether every required     *)
(* field of the configuration is there; members are a multisig's keypairs;      *)
(* length is the preimage's size on the wire to a ledger; bounded tells whether  *)
(* the backend uses the HTTP client it makes for itself, which has a timeout,    *)
(* and whether an exec helper leaves no child behind that holds its output.      *)
ScenarioType(s) ==
    /\ s.kind \in Kinds /\ s.attempts \in Nat /\ s.pin \in Networks \cup {NoPin}
    /\ s.req \in Requests /\ s.address \in Addresses \cup {NoKey}
    /\ s.holder \in Keys \cup {NoKey} /\ s.complete \in BOOLEAN /\ s.length \in Nat
    /\ s.bounded \in BOOLEAN
    /\ s.members \in Seq(Keys \cup {NoKey}) /\ s.raw.s \in Int
    /\ s.kind = "ledger" => s.holder \in Keys   \* a device always has a key

ASSUME ScenarioAssumption == \A s \in Scenarios : ScenarioType(s)

VARIABLES
    sc,        \* the scenario, fixed
    pc,        \* where the call is
    addr,      \* the address the constructed Signer answers with
    ring,      \* the key holder's keys, the newest last
    ctx,       \* the caller's context: "live", "cancelled", "expired"
    timer,     \* the backend's own deadline has passed
    attempt,   \* inner Sign calls so far
    step,      \* bytes streamed to a ledger
    acc,       \* signatures a multisig has collected
    txs,       \* Fireblocks transactions of this call, the current one last
    out,       \* what the backend's Sign returned
    result,    \* what the caller gets
    heard,     \* history: the last answer, whether it was honest and whether late
    refused,   \* history: a person or a policy has said no
    lost       \* history: an answer of the transaction API was lost

vars == <<sc, pc, addr, ring, ctx, timer, attempt, step, acc, txs, out, result,
          heard, refused, lost>>
progress == <<step, acc, txs>>
history == <<heard, refused, lost>>
world == <<sc, ring, ctx, timer>>

kind == sc.kind
req == sc.req
Holder == ring[Len(ring)]
Silence == [honest |-> FALSE, late |-> FALSE]

Init ==
    /\ sc \in Scenarios
    /\ pc = "new" /\ addr = sc.address /\ ring = <<sc.holder>>
    /\ ctx = "live" /\ timer = FALSE
    /\ attempt = 0 /\ step = 0 /\ acc = <<>> /\ txs = <<>>
    /\ out = Err("unanswered") /\ result = Err("unanswered")
    /\ heard = Silence /\ refused = FALSE /\ lost = FALSE

-----------------------------------------------------------------------------
(* Constructors.  A key answer names the key the service holds now.             *)

KeyFailures == {"unreachable", "unauthorized", "not_found", "failed", "garbled", "wrong_type"}
KeyAnswers == {[kind |-> k, key |-> NoKey] : k \in KeyFailures}
              \cup {[kind |-> "key", key |-> Holder]}

NewVaultSigner(a) ==
    IF ~sc.complete THEN "config"
    ELSE IF addr \notin Keys THEN "address"
    ELSE IF a.kind = "unauthorized" THEN "ErrVaultUnauthorized"
    ELSE IF a.kind = "not_found" THEN "ErrVaultKeyNotFound"
    ELSE IF a.kind = "wrong_type" THEN "ErrVaultKeyType"
    ELSE IF a.kind # "key" THEN "key"
    ELSE IF a.key # addr THEN "ErrSignerAddressMismatch"
    ELSE "ok"

NewTurnkeySigner(a) ==
    IF ~sc.complete THEN "config"
    ELSE IF addr \notin Keys THEN "address"
    ELSE IF a.kind = "unauthorized" THEN "ErrVaultUnauthorized"
    ELSE IF a.kind # "key" THEN "key"
    ELSE IF a.key # addr THEN "ErrSignerAddressMismatch"
    ELSE "ok"

NewFireblocksSigner(a) ==
    IF ~sc.complete THEN "config"
    ELSE IF addr \notin Keys THEN "address"
    ELSE IF a.kind = "unauthorized" THEN "ErrVaultUnauthorized"
    ELSE IF a.kind # "key" THEN "key"
    ELSE IF a.key # addr THEN "ErrSignerAddressMismatch"
    ELSE "ok"

\* A ledger signer has no configured address: the device's key is its address.
NewLedgerSigner(a) ==
    IF ~sc.complete THEN "ErrLedgerUnavailable"
    ELSE IF a.kind # "key" THEN "device"
    ELSE "ok"

\* The KMS clients and walletsdk take the address on trust: no exchange.
NewAdapterSigner ==
    IF ~sc.complete THEN "ErrMissingSigner"
    ELSE IF addr \notin Keys THEN "address"
    ELSE "ok"

\* newAccountMultiSigner sorts the keypairs: the next to sign is the smallest key that
\* has not signed yet.
Remaining == Range(sc.members) \ {acc[i].pk : i \in DOMAIN acc}
NextMember(pk) == pk \in Remaining /\ \A k \in Remaining : pk <= k

newAccountMultiSigner ==
    IF NoKey \in Range(sc.members) THEN "ErrMissingSigner"
    ELSE IF addr \notin Keys THEN "address"
    ELSE IF sc.members = <<>> THEN "ErrMissingSigner"
    ELSE IF Len(sc.members) > MaxSignatures THEN "ErrTooManySignatures"
    ELSE IF \E i, j \in DOMAIN sc.members : i < j /\ sc.members[i] = sc.members[j]
         THEN "duplicate"
    ELSE "ok"

Constructed(a) ==
    CASE kind = "vault" -> NewVaultSigner(a)
      [] kind = "turnkey" -> NewTurnkeySigner(a)
      [] kind = "fireblocks" -> NewFireblocksSigner(a)
      [] kind = "ledger" -> NewLedgerSigner(a)
      [] kind = "multisig" -> newAccountMultiSigner
      [] kind \in {"wallet", "awskms", "gcpkms"} -> NewAdapterSigner
      [] kind = "assertion" -> ParseWebAuthnAssertion(sc.raw)
      [] OTHER -> "ok"

New ==
    /\ pc = "new"
    /\ \E a \in KeyAnswers :
          /\ pc' = IF Constructed(a) = "ok" THEN "idle" ELSE "returned"
          /\ result' = IF Constructed(a) = "ok" THEN result ELSE Err(Constructed(a))
          /\ addr' = IF kind = "ledger" /\ Constructed(a) = "ok" THEN a.key ELSE addr
    /\ UNCHANGED <<world, attempt, progress, out, history>>

-----------------------------------------------------------------------------
(* The wrappers.                                                                *)

\* networkPinnedSigner.Sign lets a request through to the signer it wraps.
networkPinned ==
    /\ req.preimage.type \in {"authorization", "authorization_with_address"}
    /\ req.preimage.network = sc.pin

PinSigner ==
    /\ pc = "idle"
    /\ LET refusal == IF sc.pin = NoPin THEN "ok"
                      ELSE IF ctx # "live" THEN "ctx"
                      ELSE IF ~networkPinned THEN "ErrWrongNetwork"
                      ELSE "ok"
       IN /\ pc' = IF refusal = "ok" THEN "loop" ELSE "returned"
          /\ result' = IF refusal = "ok" THEN result ELSE Err(refusal)
    /\ UNCHANGED <<world, addr, attempt, progress, out, history>>

\* The head of retriedSigner's loop; a signer that is not wrapped has none.
Attempt ==
    /\ pc = "loop"
    /\ IF sc.attempts > 0 /\ ctx # "live"
       THEN pc' = "returned" /\ result' = Err("ctx") /\ UNCHANGED attempt
       ELSE pc' = "enter" /\ attempt' = attempt + 1 /\ UNCHANGED result
    /\ UNCHANGED <<world, addr, progress, out, history>>

IsSignatureRejection(err) ==
    err \in {"ErrSignatureMismatch", "ErrMissingSigner", "ErrTooManySignatures",
             "server refused"}

GivesUp == IsSignatureRejection(out.err) \/ attempt >= sc.attempts

\* The rest of the loop body: return, give up, or wait.
Settle ==
    /\ pc = "inner"
    /\ IF ~Failed(out) \/ GivesUp
       THEN pc' = "returned" /\ result' = out
       ELSE pc' = "backoff" /\ UNCHANGED result
    /\ UNCHANGED <<world, addr, attempt, progress, out, history>>

\* The backoff ends with the timer or with the context.
Backoff ==
    /\ pc = "backoff"
    /\ IF ctx = "live"
       THEN pc' = "loop" /\ UNCHANGED result
       ELSE pc' = "returned" /\ result' = Err("ctx")
    /\ UNCHANGED <<world, addr, attempt, progress, out, history>>

-----------------------------------------------------------------------------
(* The backend's Sign: its early returns, then its exchanges.                   *)

\* Backends that refuse a payload that is not the preimage's before they ask.
ChecksPreimage == {"vault", "ledger", "turnkey", "fireblocks"}

EntryRefusal ==
    IF ctx # "live" THEN "ctx"
    ELSE IF kind \in {"ed25519", "remote", "remote_other", "exec"} /\ addr = NoKey THEN "ErrMissingSigner"
    ELSE IF kind \in ChecksPreimage /\ Payload(req.preimage) # req.payload
         THEN "ErrSignatureMismatch"
    ELSE IF kind = "assertion"
         THEN PasskeyRefusal(sc.cred, sc.raw, sc.flags, sc.required, req.payload)
    ELSE "ok"

Enter ==
    /\ pc = "enter"
    /\ out' = IF EntryRefusal # "ok" THEN Err(EntryRefusal)
              ELSE IF kind = "assertion" THEN Value(Secp256r1SignatureScVal(sc.cred, sc.raw))
              ELSE out
    /\ pc' = IF EntryRefusal # "ok" \/ kind = "assertion" THEN "inner" ELSE "wait"
    /\ step' = 0 /\ acc' = <<>>
    /\ timer' = FALSE
    /\ heard' = Silence
    /\ UNCHANGED <<sc, ring, ctx, addr, attempt, txs, result, refused, lost>>

\* What a key holder may return when it is given bytes to sign: the signature it was
\* asked for, or any other.
SignaturesOver(given) ==
    {Signed(k, p) : k \in Keys \cup {NoKey}, p \in {given, Foreign}}
Honest(a, given) == a.kind = "signature" /\ a.by = addr /\ a.over = given

Refusals ==
    [ed25519 |-> {"failed", "short"}, wallet |-> {"failed", "short", "disowned"},
     awskms |-> {"unreachable", "none", "short"},
     gcpkms |-> {"unreachable", "none", "short"},
     vault |-> {"unreachable", "unauthorized", "not_found", "failed", "garbled", "none", "short"},
     turnkey |-> {"unreachable", "unauthorized", "not_found", "failed", "garbled", "none",
                  "short", "denied", "pending"}]

TurnkeyAnswer(a) ==
    IF TurnkeyDo(a) # "ok" THEN Err(TurnkeyDo(a)) ELSE TurnkeySign(a, addr, req)

Judged(a) ==
    CASE kind = "ed25519" -> ed25519Sign(a, addr, req)
      [] kind = "wallet" -> walletSign(a, addr, req)
      [] kind = "awskms" -> awskmsSign(a, addr, req)
      [] kind = "gcpkms" -> gcpkmsSign(a, addr, req)
      [] kind = "vault" -> VaultSign(a, addr, req)
      [] kind = "turnkey" -> TurnkeyAnswer(a)

\* What the key holder is asked to sign: Turnkey gets the payload to hash it again.
Given == IF kind = "turnkey" THEN Rehashed(req.payload) ELSE req.payload

\* A call over HTTP fails once its context has ended.
Delivered(a) == kind \in {"ed25519", "wallet"} \/ ctx = "live" \/ a.kind = "unreachable"

\* The backends that ask once: a keypair, a KMS, Vault, Turnkey; a holder may also sign
\* the bytes as they are when it was asked to hash them.
Exchange ==
    /\ pc = "wait" /\ kind \in DOMAIN Refusals
    /\ \E a \in {Bare(k) : k \in Refusals[kind]}
               \cup SignaturesOver(Given) \cup SignaturesOver(req.payload) :
          /\ Delivered(a)
          /\ out' = Judged(a)
          /\ heard' = [honest |-> Honest(a, Given), late |-> FALSE]
          /\ refused' = (refused \/ a.kind = "denied")
    /\ pc' = "inner"
    /\ UNCHANGED <<world, addr, attempt, progress, result, lost>>

\* accountMultiSigner.Sign: one key of the sorted list at a time.
MultiSign ==
    /\ pc = "wait" /\ kind = "multisig"
    /\ \E pk \in Range(sc.members) :
       \E a \in {Bare("failed")} \cup SignaturesOver(req.payload) :
          LET r == IF ctx # "live" THEN Err("ctx") ELSE ed25519Sign(a, pk, req) IN
          /\ NextMember(pk)
          /\ acc' = IF Failed(r) THEN acc ELSE acc \o r.value.sigs
          /\ IF Failed(r) THEN pc' = "inner" /\ out' = r
             ELSE IF Remaining = {pk}
                  THEN pc' = "inner" /\ out' = Value(accountSignature(acc'))
             ELSE UNCHANGED <<pc, out>>
    /\ UNCHANGED <<world, addr, attempt, step, txs, result, history>>

\* Mutant: the last byte of the preimage is left out.
LastChunk_Early(size) == step + size + 1 >= sc.length

Capacity == IF step = 0 THEN MaxAPDU - PathLen ELSE MaxAPDU
ChunkSize == IF sc.length - step > Capacity THEN Capacity ELSE sc.length - step
LastChunk(size) == step + size >= sc.length

LedgerRefusals == {"unreachable", "locked", "denied", "blind", "wrong_app", "failed"}

(* signPreimage: one APDU of the stream.  The device signs what it was sent,    *)
(* which is the preimage only if every byte of it came.                         *)
SignPreimage ==
    /\ pc = "wait" /\ kind = "ledger"
    /\ LET received == IF step + ChunkSize = sc.length THEN req.preimage ELSE Foreign IN
       \/ \E k \in LedgerRefusals :
             /\ pc' = "inner" /\ out' = LedgerSign(Bare(k), addr, req)
             /\ refused' = (refused \/ k = "denied")
             /\ UNCHANGED <<step, heard>>
       \/ /\ ~LastChunk(ChunkSize)
          /\ step' = step + ChunkSize
          /\ UNCHANGED <<pc, out, heard, refused>>
       \/ /\ LastChunk(ChunkSize)
          /\ \E a \in {Bare("none"), Bare("short")} \cup SignaturesOver(received) :
                /\ out' = LedgerSign(a, addr, req)
                /\ heard' = [honest |-> Honest(a, received), late |-> FALSE]
          /\ pc' = "inner"
          /\ UNCHANGED <<step, refused>>
    /\ UNCHANGED <<world, addr, attempt, acc, txs, result, lost>>

\* How the context of a helper process stands: its deadline or the caller's.
HelperContext == IF timer THEN "expired" ELSE ctx

\* Values a helper may print: account vectors, values of its own, placeholders.
HelperValues ==
    {accountSignature(<<Element(k, b, p)>>) :
        k \in Keys, b \in Keys, p \in {req.payload, Foreign}}
    \cup {[shape |-> s, sigs |-> <<>>] : s \in {"account", "custom", "void", "empty_vec", "scalar"}}

ExecAnswers ==
    {Bare(k) : k \in {"unreachable", "failed", "denied", "garbled", "none"}}
    \cup {Returned(v) : v \in HelperValues}

ExecReturns(a) ==
    /\ pc = "wait" /\ kind = "exec"
    /\ out' = execAnswer(HelperContext, a, addr, req)
    /\ heard' = [honest |-> FALSE, late |-> HelperContext # "live"]
    /\ refused' = (refused \/ (a.kind = "denied" /\ HelperContext = "live"))
    /\ pc' = "inner"
    /\ UNCHANGED <<world, addr, attempt, progress, result, lost>>

\* exec.CommandContext kills the helper when its context ends, and Run then waits for
\* its output to be closed: for ever, if a child of the helper holds it.
ExecKilled == HelperContext # "live" /\ ExecReturns(Bare("failed"))

ExecSign == \E a \in ExecAnswers : ExecReturns(a)

\* SignerFunc and NewPasskeySigner call the application's function.
Callback ==
    /\ pc = "wait" /\ kind \in {"func", "passkey"}
    /\ \E a \in {Bare(k) : k \in {"failed", "nil"}} \cup {Returned(v) : v \in HelperValues} :
          /\ sc.complete <=> a.kind # "nil"
          /\ out' = IF kind = "passkey" THEN NewPasskeySigner(sc.flags, sc.required, a)
                    ELSE signerFuncSign(a)
    /\ pc' = "inner"
    /\ UNCHANGED <<world, addr, attempt, progress, result, history>>

(* The remote client and the reference server, which wraps an Ed25519 signer    *)
(* of the key holder.  The wire can fail on either leg.                         *)
RemoteSign ==
    /\ pc = "wait" /\ kind = "remote"
    /\ \E wire \in {"ok", "unreachable", "garbled", "other_version"} :
       \E a \in {Bare("failed")} \cup SignaturesOver(req.payload) :
          LET inner == ed25519Sign(a, Holder, req)
              response == ServeHTTP(addr, req, Holder, inner)
          IN /\ ctx # "live" => wire = "unreachable"
             /\ out' = remoteSign(wire, response)
             /\ heard' = [honest |-> /\ wire = "ok" /\ Honest(a, req.payload) /\ Holder = addr
                                        /\ Payload(req.preimage) = req.payload,
                          late |-> FALSE]
    /\ pc' = "inner"
    /\ UNCHANGED <<world, addr, attempt, progress, result, refused, lost>>

\* The same client and a server of any make: whatever value it sends is returned.
RemoteOtherSign ==
    /\ pc = "wait" /\ kind = "remote_other"
    /\ \E wire \in {"ok", "unreachable", "garbled", "other_version"} :
       \E status \in {200, 500}, v \in HelperValues :
          /\ ctx # "live" => wire = "unreachable"
          /\ out' = remoteSign(wire, [status |-> status, value |-> {v}])
    /\ pc' = "inner"
    /\ UNCHANGED <<world, addr, attempt, progress, result, history>>

-----------------------------------------------------------------------------
(* Fireblocks: submit a transaction, poll until a person has decided.           *)

\* The POST: the service may have the transaction although the answer is lost.
FireblocksSubmit ==
    /\ pc = "wait" /\ kind = "fireblocks"
    /\ \/ /\ ctx = "live"
          /\ txs' = Append(txs, "pending")
          /\ \/ pc' = "poll" /\ UNCHANGED <<out, lost>>
             \/ pc' = "inner" /\ out' = Err("decode") /\ lost' = TRUE
             \/ pc' = "inner" /\ out' = Err("transport") /\ lost' = TRUE
       \/ /\ pc' = "inner" /\ UNCHANGED <<txs, lost>>
          /\ \E e \in {"transport", "ErrVaultUnauthorized", "status"} : out' = Err(e)
    /\ UNCHANGED <<world, addr, attempt, step, acc, result, heard, refused>>

\* Mutant: only the caller's context ends the wait for an approver.
PollEnded_NoTimeout == ctx # "live"

PollEnded == ctx # "live" \/ timer
Current == txs[Len(txs)]

FireblocksAnswer(a) ==
    Judge([none |-> "no signature", short |-> "length"], a, addr, req.payload)

\* One tick with an answer that ends the loop; a failed or undecodable poll, or one
\* that finds the transaction pending, changes nothing.
FireblocksPoll ==
    /\ pc = "poll" /\ ~PollEnded
    /\ \/ /\ Current = "completed"
          /\ \E a \in {Bare("none"), Bare("short")} \cup SignaturesOver(req.payload) :
                /\ out' = FireblocksAnswer(a)
                /\ heard' = [honest |-> Honest(a, req.payload), late |-> PollEnded]
          /\ UNCHANGED refused
       \/ /\ Current = "rejected"
          /\ out' = Err("ErrHumanRejected") /\ refused' = TRUE
          /\ UNCHANGED heard
    /\ pc' = "inner"
    /\ UNCHANGED <<world, addr, attempt, progress, result, lost>>

\* Mutant: the loop ends without cancelling the transaction.
cancelTransaction_Skipped == {"not sent"}

\* cancelTransaction, whose own failure is ignored: it takes effect or is lost.
cancelTransaction == {"cancelled", "lost"}

\* pollCtx is done: cancel, and report a timeout as a rejection.
FireblocksGiveUp ==
    /\ pc = "poll" /\ PollEnded
    /\ \E cancel \in cancelTransaction :
          /\ txs' = [txs EXCEPT ![Len(txs)] =
                        IF Current = "pending" /\ cancel = "cancelled" THEN "cancelled" ELSE Current]
          /\ lost' = (lost \/ cancel = "lost")
    /\ out' = Err(IF timer \/ ctx = "expired" THEN "ErrHumanRejected" ELSE "ctx")
    /\ pc' = "inner"
    /\ UNCHANGED <<world, addr, attempt, step, acc, result, heard, refused>>

-----------------------------------------------------------------------------
(* The world around the call.                                                   *)

ContextEnds ==
    /\ ctx = "live" /\ pc # "returned"
    /\ ctx' \in {"cancelled", "expired"}
    /\ UNCHANGED <<sc, pc, addr, ring, timer, attempt, progress, out, result, history>>

\* The helper's deadline, the approval timeout.
TimerFires ==
    /\ ~timer
    /\ (pc = "wait" /\ kind = "exec") \/ pc = "poll"
    /\ timer' = TRUE
    /\ UNCHANGED <<sc, pc, addr, ring, ctx, attempt, progress, out, result, history>>

\* A person decides about a pending transaction, also one the call has given up on.
Decide ==
    /\ \E i \in DOMAIN txs :
          /\ txs[i] = "pending"
          /\ \E d \in {"completed", "rejected"} : txs' = [txs EXCEPT ![i] = d]
    /\ UNCHANGED <<world, pc, addr, attempt, step, acc, out, result, history>>

\* The key holder's key is replaced: a new version, a re-pointed alias.
Rotate ==
    /\ Len(ring) <= MaxRotations /\ pc \notin {"new", "returned"}
    /\ \E k \in Keys \ {Holder} : ring' = Append(ring, k)
    /\ UNCHANGED <<sc, pc, addr, ctx, timer, attempt, progress, out, result, history>>

Returns == pc = "returned" /\ UNCHANGED vars

Program ==
    \/ New \/ PinSigner \/ Attempt \/ Enter \/ Settle \/ Backoff
    \/ Exchange \/ MultiSign \/ SignPreimage \/ Callback \/ RemoteSign
    \/ RemoteOtherSign \/ ExecKilled \/ FireblocksSubmit \/ FireblocksGiveUp

Next ==
    \/ Program \/ ExecSign \/ FireblocksPoll
    \/ ContextEnds \/ TimerFires \/ Decide \/ Rotate \/ Returns

Spec == Init /\ [][Next]_vars

\* The call is waiting for somebody else's answer.
Waits ==
    \/ pc = "new" /\ kind \in {"vault", "turnkey", "fireblocks", "ledger"}
    \/ pc \in {"wait", "poll"}

(* Nobody outside has to answer, or a timeout of the code's own ends the wait:   *)
(* not a device, a KMS client, a wallet or a callback, none of which has one.    *)
Bounded ==
    \/ kind \in {"ed25519", "multisig", "assertion"}
    \/ /\ kind \in {"vault", "turnkey", "fireblocks", "remote", "remote_other", "exec"}
       /\ sc.bounded

\* The program goes on where it waits for nobody, and where the wait is bounded.
FairSpec == Spec /\ WF_vars((Waits => Bounded) /\ Program) /\ WF_vars(TimerFires)

-----------------------------------------------------------------------------
(* Properties.                                                                  *)

TypeOK ==
    /\ ScenarioType(sc)
    /\ pc \in {"new", "idle", "loop", "enter", "wait", "poll", "inner", "backoff", "returned"}
    /\ addr \in Addresses \cup {NoKey} /\ Len(ring) \in 1..(MaxRotations + 1)
    /\ ctx \in {"live", "cancelled", "expired"} /\ timer \in BOOLEAN
    /\ attempt \in Nat /\ step \in Nat
    /\ \A i \in DOMAIN txs : txs[i] \in {"pending", "completed", "rejected", "cancelled"}

(* The Signer contract: whatever devices and services answer, however often a   *)
(* wrapper asks, and whatever ends in between, a call is answered once, and a   *)
(* value is sound for the question and the network (signer.go, type Signer).    *)
Phase == IF pc = "returned" THEN "answered"
         ELSE IF pc \in {"new", "idle"} THEN "before" ELSE "asked"
Contract == INSTANCE SignerContract
    WITH backend <- sc.kind, address <- addr, pinned <- sc.pin, asked <- sc.req,
         phase <- Phase, answer <- result
ImplementsContract == Contract!Spec

(* A key holder that signs exactly what it was asked to is believed: no backend  *)
(* but Turnkey's loses or distorts a good answer, so a ledger gets the whole     *)
(* preimage in its chunks (ledger.go, signPreimage) and no check is stricter     *)
(* than the host's.                                                              *)
HonestAnswerAccepted == pc = "inner" /\ heard.honest /\ kind # "turnkey" => ~Failed(out)

(* What the comment on TurnkeySigner.Sign says: it has the payload hash signed    *)
(* by Turnkey and verifies the signature, so one made as it asked is accepted.   *)
TurnkeyBelieved == pc = "inner" /\ heard.honest /\ kind = "turnkey" => ~Failed(out)

(* An answer that arrives after the deadline it was given is not used: a helper  *)
(* that prints a signature while it is being killed, an approval found after the *)
(* approval timeout (exec_signer.go, Sign; fireblocks.go, waitForSignature).     *)
LateAnswerUnused == pc = "returned" /\ heard.late => Failed(result)

(* A Fireblocks call that gives up takes its transaction back: a person can      *)
(* still approve one only if an answer of the API was lost on the way.           *)
NoOrphanTransaction ==
    pc = "returned" /\ ~lost => \A i \in DOMAIN txs : txs[i] # "pending"

\* Mutant: a signature under the address's public key is taken for a proof.
verifyAccountPossession_KeyOnly(v, payload, foreign) ==
    IF v.shape # "account" \/ v.sigs = <<>> THEN "cannot_check"
    ELSE IF \E e \in Elements(v) : e.pk = addr THEN "verified"
    ELSE "invalid"

\* verifyAccountPossession: every element must verify, one of them under the
\* address's own key.
verifyAccountPossession(v, payload, foreign) ==
    IF v.shape \in {"void", "empty_vec"} THEN "invalid"
    ELSE IF v.shape # "account" THEN "cannot_check"
    ELSE IF v.sigs = <<>> THEN "cannot_check"
    ELSE IF \E e \in Elements(v) : ~Verifies(e, payload) THEN "invalid"
    ELSE IF \E e \in Elements(v) : e.pk = addr THEN "verified"
    ELSE IF foreign THEN "cannot_check" ELSE "invalid"

\* CheckPossession signs a fresh preimage that no network knows and judges the value.
CheckPossession(foreign) ==
    IF addr = NoKey \/ Failed(result) THEN "error"
    ELSE IF addr \in Contracts THEN "cannot_check"
    ELSE verifyAccountPossession(result.value, req.payload, foreign)

(* A possession check passes only for a signer that has signed this payload with  *)
(* the key of its address, whatever backend is behind it (possession.go).         *)
PossessionProves ==
    pc = "returned" =>
        \A foreign \in BOOLEAN : CheckPossession(foreign) = "verified" =>
            \E e \in Elements(result.value) : e.by = addr /\ e.over = req.payload

(* A Sign call that waits for nobody without a timeout returns, though people      *)
(* never decide, helpers never end and servers never answer, over all its retries. *)
SignReturns == Bounded ~> pc = "returned"

(* WithRetry: "Retries only occur on network/transport errors; signature          *)
(* rejections are never retried."  Once somebody has refused, nobody is asked     *)
(* again.                                                                         *)
RefusalIsFinal == [][refused /\ pc = "loop" => pc' # "enter"]_vars
=============================================================================
