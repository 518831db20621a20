--------------------------- MODULE Signers_proofs ---------------------------
(***************************************************************************)
(* Proofs about Signers, for every set of scenarios, keys and networks: the *)
(* inductive invariant, the safety properties of one Sign call, and that    *)
(* the call implements SignerContract.                                      *)
(***************************************************************************)
EXTENDS Signers, TLAPS

Places == {"new", "idle", "loop", "enter", "wait", "poll", "inner", "backoff", "returned"}
TxStates == {"pending", "completed", "rejected", "cancelled"}
Signature == [pk: Keys, by: Keys \cup {NoKey}, over: Preimages \cup {Foreign}, s: {1}]

\* The types the argument needs; a ring is never empty, and is the scenario's
\* holder while the constructor runs.
Typed ==
    /\ sc \in Scenarios /\ pc \in Places
    /\ ring \in Seq(Keys \cup {NoKey}) /\ ring # <<>>
    /\ pc = "new" => ring = <<sc.holder>>
    /\ ctx \in {"live", "cancelled", "expired"}
    /\ step \in Nat /\ txs \in Seq(TxStates)

\* Past the wrappers the pin has let the request through.
PinHeld == pc \notin {"new", "idle", "returned"} /\ sc.pin # NoPin => networkPinned

\* A backend that waits for an answer has heard none, and has compared the payload
\* with the preimage if it is one of those that do.
Waiting ==
    pc \in {"wait", "poll"} =>
        /\ heard = Silence
        /\ kind \in ChecksPreimage => req.payload = Payload(req.preimage)

\* A ledger is never sent more than the preimage.
StreamBounded == pc = "wait" /\ kind = "ledger" => step <= sc.length

\* A multisig's signatures so far: in ascending order, all verified, and all of keys
\* below the ones that have not signed yet.
Collected ==
    kind = "multisig" =>
        /\ pc \notin {"new", "returned"} => NoKey \notin Range(sc.members)
        /\ acc \in Seq(Signature)
        /\ \A i \in DOMAIN acc : Verifies(acc[i], req.payload)
        /\ \A i, j \in DOMAIN acc : i < j => acc[i].pk < acc[j].pk
        /\ \A i \in DOMAIN acc : \A k \in Remaining : k \in Keys => acc[i].pk < k

\* What the backend is about to return keeps the contract.
AnswerSound ==
    pc = "inner" =>
        \/ Failed(out)
        \/ /\ Contract!Permitted(kind, sc.pin, req)
           /\ Contract!Sound(kind, addr, req.payload, out.value)

\* A late answer has already become an error.
LateRefused ==
    heard.late =>
        /\ pc \notin {"new", "idle"}
        /\ pc = "inner" => Failed(out)
        /\ pc = "returned" => Failed(result)

\* Unless an answer of the API was lost, only the transaction being polled is open.
TxsTracked ==
    /\ pc = "poll" => txs # <<>> /\ kind = "fireblocks"
    /\ ~lost => \A i \in DOMAIN txs : txs[i] = "pending" => pc = "poll" /\ i = Len(txs)

Inv ==
    /\ Typed /\ PinHeld /\ Waiting /\ StreamBounded /\ Collected
    /\ AnswerSound /\ HonestAnswerAccepted /\ LateRefused /\ TxsTracked

-----------------------------------------------------------------------------
(* What a judgement of an answer amounts to.                                    *)

\* r is an error or the one signature a carries, verified under pk; and the signature
\* pk makes over the payload is not refused.
Judges(r, a, pk, payload) ==
    /\ Failed(r) \/ /\ Verifies(Element(pk, a.by, a.over), payload)
                    /\ r.value = accountSignature(<<Element(pk, a.by, a.over)>>)
    /\ a.kind = "signature" /\ a.by = pk /\ a.over = payload => ~Failed(r)

(* An error is a failure, a value is not.                                          *)
LEMMA Outcomes ==
    /\ \A n : Failed(Err(n)) <=> n # ""
    /\ \A v : ~Failed(Value(v)) /\ Value(v).value = v
BY DEF Failed, Err, Value

(* Judge reports an error for every answer it refuses and otherwise verifies.    *)
LEMMA JudgeJudges ==
    ASSUME NEW errors, NEW a, NEW pk, NEW payload,
           \A k \in DOMAIN errors : errors[k] # "",
           "signature" \notin DOMAIN errors
    PROVE  Judges(Judge(errors, a, pk, payload), a, pk, payload)
BY DEF Judges, Judge, Failed, Err, Value, Verifies, Element

(* Every backend's table of refusals names an error, and none for a signature.   *)
LEMMA BackendsJudge ==
    ASSUME NEW a, NEW pk, NEW q
    PROVE  /\ Judges(ed25519Sign(a, pk, q), a, pk, q.payload)
           /\ Judges(awskmsSign(a, pk, q), a, pk, q.payload)
           /\ Judges(gcpkmsSign(a, pk, q), a, pk, q.payload)
           /\ Judges(VaultSign(a, pk, q), a, pk, q.payload)
           /\ Judges(TurnkeySign(a, pk, q), a, pk, q.payload)
           /\ Judges(LedgerSign(a, pk, q), a, pk, q.payload)
<1>1. Judges(ed25519Sign(a, pk, q), a, pk, q.payload)
    <2>1. PICK e : e = [failed |-> "keypair", short |-> "ErrSignatureMismatch"]
        OBVIOUS
    <2>2. DOMAIN e = {"failed", "short"}
        BY <2>1
    <2>3. /\ e["failed"] = "keypair"
          /\ e["short"] = "ErrSignatureMismatch"
        BY <2>1
    <2>4. \A k \in DOMAIN e : e[k] # ""
        BY <2>2, <2>3
    <2>5. Judges(Judge(e, a, pk, q.payload), a, pk, q.payload)
        BY <2>2, <2>4, JudgeJudges
    <2> QED BY <2>1, <2>5 DEF ed25519Sign
<1>2. /\ Judges(awskmsSign(a, pk, q), a, pk, q.payload)
      /\ Judges(gcpkmsSign(a, pk, q), a, pk, q.payload)
    <2>1. PICK e : e = [unreachable |-> "transport", short |-> "ErrSignatureMismatch",
                        none |-> "ErrSignatureMismatch"]
        OBVIOUS
    <2>2. DOMAIN e = {"unreachable", "short", "none"}
        BY <2>1
    <2>3. /\ e["unreachable"] = "transport"
          /\ e["short"] = "ErrSignatureMismatch"
          /\ e["none"] = "ErrSignatureMismatch"
        BY <2>1
    <2>4. \A k \in DOMAIN e : e[k] # ""
        BY <2>2, <2>3
    <2>5. Judges(Judge(e, a, pk, q.payload), a, pk, q.payload)
        BY <2>2, <2>4, JudgeJudges
    <2> QED BY <2>1, <2>5 DEF awskmsSign, gcpkmsSign
<1>3. Judges(VaultSign(a, pk, q), a, pk, q.payload)
    <2>1. PICK e : e = [unreachable |-> "transport",
                        unauthorized |-> "ErrVaultUnauthorized",
                        not_found |-> "ErrVaultKeyNotFound", failed |-> "status",
                        garbled |-> "decode", none |-> "decode",
                        short |-> "ErrSignatureMismatch"]
        OBVIOUS
    <2>2. DOMAIN e = {"unreachable", "unauthorized", "not_found", "failed", "garbled",
                       "none", "short"}
        BY <2>1
    <2>3. /\ e["unreachable"] = "transport"
          /\ e["unauthorized"] = "ErrVaultUnauthorized"
          /\ e["not_found"] = "ErrVaultKeyNotFound"
          /\ e["failed"] = "status"
          /\ e["garbled"] = "decode"
          /\ e["none"] = "decode"
          /\ e["short"] = "ErrSignatureMismatch"
        BY <2>1
    <2>4. \A k \in DOMAIN e : e[k] # ""
        BY <2>2, <2>3
    <2>5. Judges(Judge(e, a, pk, q.payload), a, pk, q.payload)
        BY <2>2, <2>4, JudgeJudges
    <2> QED BY <2>1, <2>5 DEF VaultSign
<1>4. Judges(TurnkeySign(a, pk, q), a, pk, q.payload)
    <2>1. PICK e : e = [none |-> "decode", short |-> "length", garbled |-> "decode",
                        denied |-> "ErrPolicyDenied", failed |-> "activity",
                        pending |-> "activity"]
        OBVIOUS
    <2>2. DOMAIN e = {"none", "short", "garbled", "denied", "failed", "pending"}
        BY <2>1
    <2>3. /\ e["none"] = "decode"
          /\ e["short"] = "length"
          /\ e["garbled"] = "decode"
          /\ e["denied"] = "ErrPolicyDenied"
          /\ e["failed"] = "activity"
          /\ e["pending"] = "activity"
        BY <2>1
    <2>4. \A k \in DOMAIN e : e[k] # ""
        BY <2>2, <2>3
    <2>5. Judges(Judge(e, a, pk, q.payload), a, pk, q.payload)
        BY <2>2, <2>4, JudgeJudges
    <2> QED BY <2>1, <2>5 DEF TurnkeySign
<1>5. Judges(LedgerSign(a, pk, q), a, pk, q.payload)
    <2>1. PICK e : e = [unreachable |-> "ErrLedgerUnavailable",
                        locked |-> "ErrLedgerLocked", denied |-> "ErrLedgerDenied",
                        blind |-> "ErrLedgerBlindSigningDisabled",
                        wrong_app |-> "ErrLedgerWrongApp",
                        failed |-> "ErrLedgerUnavailable",
                        none |-> "ErrLedgerUnavailable",
                        short |-> "ErrLedgerUnavailable"]
        OBVIOUS
    <2>2. DOMAIN e = {"unreachable", "locked", "denied", "blind", "wrong_app",
                       "failed", "none", "short"}
        BY <2>1
    <2>3. /\ e["unreachable"] = "ErrLedgerUnavailable"
          /\ e["locked"] = "ErrLedgerLocked"
          /\ e["denied"] = "ErrLedgerDenied"
          /\ e["blind"] = "ErrLedgerBlindSigningDisabled"
          /\ e["wrong_app"] = "ErrLedgerWrongApp"
          /\ e["failed"] = "ErrLedgerUnavailable"
          /\ e["none"] = "ErrLedgerUnavailable"
          /\ e["short"] = "ErrLedgerUnavailable"
        BY <2>1
    <2>4. \A k \in DOMAIN e : e[k] # ""
        BY <2>2, <2>3
    <2>5. Judges(Judge(e, a, pk, q.payload), a, pk, q.payload)
        BY <2>2, <2>4, JudgeJudges
    <2> QED BY <2>1, <2>5 DEF LedgerSign
<1> QED BY <1>1, <1>2, <1>3, <1>4, <1>5

(* The same for Fireblocks.                                                       *)
LEMMA FireblocksJudges ==
    ASSUME NEW a PROVE Judges(FireblocksAnswer(a), a, addr, req.payload)
<1>1. PICK e : e = [none |-> "no signature", short |-> "length"]
    OBVIOUS
<1>2. DOMAIN e = {"none", "short"}
    BY <1>1
<1>3. e["none"] = "no signature" /\ e["short"] = "length"
    BY <1>1
<1>4. \A k \in DOMAIN e : e[k] # ""
    BY <1>2, <1>3
<1>5. Judges(Judge(e, a, addr, req.payload), a, addr, req.payload)
    BY <1>2, <1>4, JudgeJudges
<1> QED BY <1>1, <1>5 DEF FireblocksAnswer

(* The backends that ask once judge what they hear, but for the wallet's; Turnkey  *)
(* maps the HTTP status first.                                                     *)
LEMMA AskedOnceJudges ==
    ASSUME NEW a, kind \in DOMAIN Refusals, kind # "wallet"
    PROVE  Judges(Judged(a), a, addr, req.payload)
<1>1. kind \in {"ed25519", "awskms", "gcpkms", "vault", "turnkey"}
    BY DEF Refusals
<1>2. CASE kind = "ed25519"
    <2>1. Judged(a) = ed25519Sign(a, addr, req)
        BY <1>2, Zenon DEF Judged
    <2> QED BY <2>1, BackendsJudge
<1>4. CASE kind = "awskms"
    <2>1. Judged(a) = awskmsSign(a, addr, req)
        BY <1>4, Zenon DEF Judged
    <2> QED BY <2>1, BackendsJudge
<1>5. CASE kind = "gcpkms"
    <2>1. Judged(a) = gcpkmsSign(a, addr, req)
        BY <1>5, Zenon DEF Judged
    <2> QED BY <2>1, BackendsJudge
<1>6. CASE kind = "vault"
    <2>1. Judged(a) = VaultSign(a, addr, req)
        BY <1>6, Zenon DEF Judged
    <2> QED BY <2>1, BackendsJudge
<1>7. CASE kind = "turnkey"
    <2>1. Judged(a) = TurnkeyAnswer(a)
        BY <1>7, Zenon DEF Judged
    <2>2. TurnkeyDo(a) # ""
        BY Zenon DEF TurnkeyDo
    <2>3. a.kind = "signature" => TurnkeyDo(a) = "ok"
        BY Zenon DEF TurnkeyDo
    <2>4. Judges(TurnkeySign(a, addr, req), a, addr, req.payload)
        BY BackendsJudge
    <2>5. CASE TurnkeyDo(a) = "ok"
        BY <2>1, <2>4, <2>5 DEF TurnkeyAnswer
    <2>6. CASE TurnkeyDo(a) # "ok"
        <3>1. Judged(a) = Err(TurnkeyDo(a))
            BY <2>1, <2>6 DEF TurnkeyAnswer
        <3>2. Failed(Judged(a)) /\ a.kind # "signature"
            BY <2>2, <2>3, <2>6, <3>1, Outcomes
        <3> QED BY <3>2 DEF Judges
    <2> QED BY <2>5, <2>6
<1> QED BY <1>1, <1>2, <1>4, <1>5, <1>6, <1>7

(* The wallet's signature goes under its address's key, unseen but for the wallet's  *)
(* own word; one that is not disowned is not refused.                                *)
LEMMA WalletIsSound ==
    ASSUME NEW a, kind = "wallet"
    PROVE  /\ a.kind = "signature" => ~Failed(Judged(a))
           /\ ~Failed(Judged(a)) => Contract!Sound(kind, addr, req.payload, Judged(a).value)
<1> DEFINE e == Element(addr, a.by, a.over)
           v == accountSignature(<<e>>)
<1>1. Judged(a) = walletSign(a, addr, req)
    BY Zenon DEF Judged
<1>2. a.kind = "signature" => Judged(a) = Value(v)
    BY <1>1 DEF walletSign
<1>3. ~Failed(Judged(a)) => Judged(a) = Value(v)
    <2>1. Failed(Err("keypair")) /\ Failed(Err("ErrSignatureMismatch"))
        BY Outcomes
    <2> QED BY <1>1, <2>1, Zenon DEF walletSign
<1>4. v.shape = "account" /\ v.sigs = <<e>> /\ e.pk = addr
    BY DEF accountSignature, Element
<1> HIDE DEF e, v
<1>5. Contract!Elements(v) = {e}
    BY <1>4 DEF Contract!Elements
<1>6. Contract!Sound(kind, addr, req.payload, v)
    BY <1>4, <1>5 DEF Contract!Sound, Contract!SelfVouched
<1> QED BY <1>2, <1>3, <1>6, Outcomes

(* A judged answer under the signer's own key is sound for a single-key backend.  *)
LEMMA JudgedIsSound ==
    ASSUME NEW r, NEW a, Judges(r, a, addr, req.payload), ~Failed(r),
           kind \in Contract!SingleKey
    PROVE  Contract!Sound(kind, addr, req.payload, r.value)
<1> DEFINE e == Element(addr, a.by, a.over)
<1>1. Verifies(e, req.payload) /\ r.value = accountSignature(<<e>>)
    BY DEF Judges
<1>2. r.value.shape = "account" /\ r.value.sigs = <<e>>
    BY <1>1 DEF accountSignature
<1>3. Contract!Elements(r.value) = {e}
    BY <1>2 DEF Contract!Elements
<1>4. e.pk = addr
    BY DEF Element
<1>5. Contract!Verifies(e, req.payload)
    BY <1>1 DEF Verifies, Contract!Verifies
<1>6. kind \notin {"multisig", "assertion", "exec"}
    BY DEF Contract!SingleKey
<1>7. r.value.sigs # <<>>
    BY <1>2
<1> HIDE DEF e
<1>8. {x.pk : x \in {e}} = {addr}
    BY <1>4
<1> QED BY <1>2, <1>3, <1>5, <1>6, <1>7, <1>8 DEF Contract!Sound

(* A helper's value is used only in time, and only when it is sound.               *)
LEMMA HelperIsSound ==
    ASSUME NEW a, NEW late \in {"live", "cancelled", "expired"}, kind = "exec",
           ~Failed(execAnswer(late, a, addr, req))
    PROVE  /\ late = "live"
           /\ Contract!Sound(kind, addr, req.payload, execAnswer(late, a, addr, req).value)
<1>1. /\ late = "live"
      /\ validateSignatureScVal(a.value, addr, req.payload)
      /\ execAnswer(late, a, addr, req) = Value(a.value)
    BY DEF execAnswer, Failed, Err
<1>2. execAnswer(late, a, addr, req).value = a.value
    BY <1>1, Outcomes
<1>3. a.value.shape = "account" =>
          a.value.sigs # <<>> /\ \A e \in Contract!Elements(a.value) :
                                    Contract!Verifies(e, req.payload)
    BY <1>1 DEF validateSignatureScVal, validateAccountSignatureVec, Elements, Verifies,
                Contract!Elements, Contract!Verifies
<1>4. /\ a.value.shape \notin {"void", "empty_vec"}
      /\ addr \in Keys => a.value.shape = "account"
    BY <1>1 DEF validateSignatureScVal
<1> QED BY <1>1, <1>2, <1>3, <1>4 DEF Contract!Sound, Contract!SingleKey

(* The remote client's value is the server's own signature, which the server makes *)
(* only for the address it serves and the payload of the preimage.                 *)
LEMMA RemoteIsSound ==
    ASSUME NEW a, NEW wire, NEW r,
           r = remoteSign(wire, ServeHTTP(addr, req, Holder, ed25519Sign(a, Holder, req)))
    PROVE  /\ ~Failed(r) => /\ req.payload = Payload(req.preimage)
                            /\ kind = "remote" => Contract!Sound(kind, addr, req.payload, r.value)
           /\ wire = "ok" /\ Honest(a, req.payload) /\ Holder = addr
                /\ Payload(req.preimage) = req.payload => ~Failed(r)
<1> DEFINE inner == ed25519Sign(a, Holder, req)
           response == ServeHTTP(addr, req, Holder, inner)
<1>1. Judges(inner, a, Holder, req.payload)
    BY BackendsJudge
<1> HIDE DEF inner
<1>2. 400 # 200 /\ 500 # 200
    OBVIOUS
<1>3. addr = Holder /\ Payload(req.preimage) = req.payload /\ ~Failed(inner) =>
          response.status = 200 /\ response.value = {inner.value}
    BY DEF ServeHTTP
<1>4. response.status = 200 =>
          addr = Holder /\ Payload(req.preimage) = req.payload /\ ~Failed(inner)
    BY <1>2 DEF ServeHTTP
<1> HIDE DEF response
<1>5. ~Failed(r) => /\ response.status = 200
                    /\ r = Value(CHOOSE v \in response.value : TRUE)
    BY DEF remoteSign, Failed, Err, response, inner
<1>6. wire = "ok" /\ response.status = 200 => ~Failed(r)
    BY DEF remoteSign, Failed, Value, response, inner
<1>7. ASSUME ~Failed(r) PROVE r.value = inner.value
    <2>1. (CHOOSE v \in response.value : TRUE) = inner.value
        BY <1>3, <1>4, <1>5, <1>7
    <2> QED BY <1>5, <1>7, <2>1, Outcomes
<1>8. ASSUME ~Failed(r), kind = "remote"
      PROVE  Contract!Sound(kind, addr, req.payload, r.value)
    <2>1. Judges(inner, a, addr, req.payload) /\ ~Failed(inner)
        BY <1>1, <1>4, <1>5, <1>8
    <2>2. Contract!Sound(kind, addr, req.payload, inner.value)
        BY <1>8, <2>1, JudgedIsSound DEF Contract!SingleKey
    <2> QED BY <1>7, <1>8, <2>2
<1>9. Honest(a, req.payload) /\ Holder = addr => ~Failed(inner)
    BY <1>1 DEF Judges, Honest
<1> QED BY <1>3, <1>4, <1>5, <1>6, <1>8, <1>9

(* The value of a passkey assertion that was not refused is a low-S signature of    *)
(* the credential over the payload.                                                 *)
LEMMA AssertionIsSound ==
    ASSUME kind = "assertion", sc.raw.s \in Int,
           PasskeyRefusal(sc.cred, sc.raw, sc.flags, sc.required, req.payload) = "ok"
    PROVE  Contract!Sound(kind, addr, req.payload, Secp256r1SignatureScVal(sc.cred, sc.raw))
<1> DEFINE s == sc.raw.s
           v == Secp256r1SignatureScVal(sc.cred, sc.raw)
           e == [pk |-> sc.cred, by |-> sc.raw.by, over |-> sc.raw.challenge.of,
                 s |-> normalizeP256LowS(s)]
<1>1. /\ sc.raw.challenge.of = req.payload
      /\ checkP256Scalars(s) /\ sc.raw.by = sc.cred
    BY DEF PasskeyRefusal, VerifyChallenge
<1>2. PICK half \in Int : half = Order \div 2 /\ 2 * half <= Order /\ Order <= 2 * half + 1
    BY SignerAssumption
<1>3. 0 < normalizeP256LowS(s) /\ normalizeP256LowS(s) < Order
        /\ normalizeP256LowS(s) <= half /\ normalizeP256LowS(s) \in Int
    BY <1>1, <1>2, SignerAssumption DEF checkP256Scalars, normalizeP256LowS
<1>4. /\ e.s = normalizeP256LowS(s) /\ e.pk = sc.cred /\ e.by = sc.raw.by
      /\ e.over = sc.raw.challenge.of
    OBVIOUS
<1>5. v.shape = "p256" /\ v.sigs = <<e>>
    BY DEF Secp256r1SignatureScVal
<1> HIDE DEF e, v
<1>6. Contract!Elements(v) = {e}
    BY <1>5 DEF Contract!Elements
<1>7. Contract!VerifySecp256r1(e, req.payload)
    BY <1>1, <1>2, <1>3, <1>4, SignerAssumption
    DEF Contract!VerifySecp256r1, Contract!checkP256Scalars, Contract!Verifies
<1> QED BY <1>5, <1>6, <1>7 DEF Contract!Sound, Contract!SingleKey, v

(* What a callback or a server of any make returns is handed through, and nothing is *)
(* promised of it.                                                                   *)
LEMMA PassThroughIsSound ==
    ASSUME NEW v, kind \in {"func", "passkey", "remote_other"}
    PROVE  Contract!Sound(kind, addr, req.payload, v)
BY DEF Contract!Sound, Contract!SingleKey, Contract!PassThrough

-----------------------------------------------------------------------------
(* The inductive step, one action at a time.                                     *)

(* A backend that has compared payload and preimage where it must, behind a pin   *)
(* that let the request through, may answer.                                      *)
LEMMA Permits ==
    ASSUME PinHeld, pc \in {"enter", "wait", "poll"},
           kind \in Contract!Inspecting => req.payload = Payload(req.preimage)
    PROVE  Contract!Permitted(kind, sc.pin, req)
BY DEF PinHeld, networkPinned, Contract!Permitted, Payload, Contract!Payload

(* An answer that is an error, or is permitted and sound, keeps AnswerSound.       *)
LEMMA AnswerKept ==
    ASSUME sc' = sc, addr' = addr,
           Failed(out') \/ /\ Contract!Permitted(kind, sc.pin, req)
                           /\ Contract!Sound(kind, addr, req.payload, out'.value)
    PROVE  AnswerSound'
BY DEF AnswerSound, kind, req

(* While it waits a backend has heard nothing.                                     *)
LEMMA NothingHeard ==
    ASSUME Waiting, pc \in {"wait", "poll"}
    PROVE  ~heard.honest /\ ~heard.late
BY DEF Waiting, Silence

(* The bytes of one APDU: never more than are left of the preimage.                *)
LEMMA ChunkFits ==
    ASSUME Typed, StreamBounded, pc = "wait", kind = "ledger"
    PROVE  /\ ChunkSize \in Nat /\ step + ChunkSize <= sc.length
           /\ LastChunk(ChunkSize) => step + ChunkSize = sc.length
<1>1. step \in Nat /\ sc.length \in Nat /\ step <= sc.length
    BY ScenarioAssumption DEF Typed, StreamBounded, ScenarioType
<1>2. Capacity \in Nat
    BY MachineAssumption DEF Capacity
<1> QED BY <1>1, <1>2 DEF ChunkSize, LastChunk

(* The constructors: a multisig is never made of a missing keypair.             *)
LEMMA NewStep ==
    ASSUME Inv, New PROVE Inv'
<1>Kept1. Typed' /\ PinHeld' /\ Waiting' /\ StreamBounded' /\ AnswerSound'
    BY DEF New, world, progress, history, Inv, Typed, Places, TxStates, PinHeld,
       networkPinned, req, Waiting, kind, Silence, StreamBounded, AnswerSound
<1>Kept2. HonestAnswerAccepted' /\ LateRefused' /\ TxsTracked'
    BY DEF New, world, progress, history, Inv, HonestAnswerAccepted, LateRefused,
       TxsTracked, kind
<1>Collected. Collected'
    <2>1. PICK a \in KeyAnswers :
              pc' = IF Constructed(a) = "ok" THEN "idle" ELSE "returned"
        BY DEF New
    <2>2. kind = "multisig" => Constructed(a) = newAccountMultiSigner
        BY Zenon DEF Constructed
    <2>3. newAccountMultiSigner = "ok" => NoKey \notin Range(sc.members)
        BY DEF newAccountMultiSigner
    <2> QED BY <2>1, <2>2, <2>3
        DEF New, world, progress, history, Inv, Collected, kind, req, Remaining
<1> QED
    BY <1>Kept1, <1>Kept2, <1>Collected DEF Inv

(* The network pin.                                                             *)
LEMMA PinSignerStep ==
    ASSUME Inv, PinSigner PROVE Inv'
<1>Kept1. Typed' /\ PinHeld' /\ Waiting' /\ StreamBounded' /\ Collected'
    BY DEF PinSigner, world, progress, history, Inv, Typed, Places, TxStates, PinHeld,
       networkPinned, req, Waiting, kind, Silence, StreamBounded, Collected, Remaining
<1>Kept2. AnswerSound' /\ HonestAnswerAccepted' /\ LateRefused' /\ TxsTracked'
    BY DEF PinSigner, world, progress, history, Inv, AnswerSound, kind, req,
       HonestAnswerAccepted, LateRefused, TxsTracked
<1> QED
    BY <1>Kept1, <1>Kept2 DEF Inv

(* The head of the retry loop.                                                  *)
LEMMA AttemptStep ==
    ASSUME Inv, Attempt PROVE Inv'
<1>Kept1. Typed' /\ PinHeld' /\ Waiting' /\ StreamBounded' /\ Collected'
    BY DEF Attempt, world, progress, history, Inv, Typed, Places, TxStates, PinHeld,
       networkPinned, req, Waiting, kind, Silence, StreamBounded, Collected, Remaining
<1>Kept2. AnswerSound' /\ HonestAnswerAccepted' /\ TxsTracked'
    BY DEF Attempt, world, progress, history, Inv, AnswerSound, kind, req,
       HonestAnswerAccepted, TxsTracked
<1>LateRefused. LateRefused'
    BY Outcomes DEF Attempt, world, progress, history, Inv, LateRefused
<1> QED
    BY <1>Kept1, <1>Kept2, <1>LateRefused DEF Inv

(* The early returns of a backend's Sign.                                       *)
LEMMA EnterStep ==
    ASSUME Inv, Enter PROVE Inv'
<1>1. EntryRefusal # ""
    BY DEF EntryRefusal, PasskeyRefusal
<1>2. EntryRefusal = "ok" /\ kind \in ChecksPreimage => Payload(req.preimage) = req.payload
    BY DEF EntryRefusal
<1>3. EntryRefusal = "ok" /\ kind = "assertion" =>
          PasskeyRefusal(sc.cred, sc.raw, sc.flags, sc.required, req.payload) = "ok"
    BY DEF EntryRefusal, ChecksPreimage
<1>4. sc' = sc /\ addr' = addr
    BY DEF Enter
<1>5. ~heard'.honest /\ ~heard'.late
    BY DEF Enter, Silence
<1>Kept. Typed' /\ PinHeld' /\ Collected' /\ TxsTracked'
    BY DEF Enter, Inv, Typed, Places, TxStates, PinHeld, networkPinned, req, Collected,
       kind, Remaining, TxsTracked
<1>Waiting. Waiting'
    BY <1>2 DEF Enter, Inv, Waiting, kind, req, Silence, Payload
<1>StreamBounded. StreamBounded'
    BY ScenarioAssumption DEF Enter, Inv, StreamBounded, kind, Typed, ScenarioType
<1>AnswerSound. AnswerSound'
    <2>1. CASE EntryRefusal # "ok"
        <3>1. out' = Err(EntryRefusal)
            BY <2>1 DEF Enter
        <3> QED BY <1>1, <1>4, <3>1, Outcomes, AnswerKept
    <2>2. CASE EntryRefusal = "ok" /\ kind = "assertion"
        <3>1. out' = Value(Secp256r1SignatureScVal(sc.cred, sc.raw))
            BY <2>2 DEF Enter
        <3>2. sc.raw.s \in Int
            BY ScenarioAssumption DEF Inv, Typed, ScenarioType
        <3>3. Contract!Sound(kind, addr, req.payload, out'.value)
            BY <1>3, <2>2, <3>1, <3>2, Outcomes, AssertionIsSound
        <3>4. Contract!Permitted(kind, sc.pin, req)
            BY <2>2, Permits DEF Inv, Enter, Contract!Inspecting
        <3> QED BY <1>4, <3>3, <3>4, AnswerKept
    <2>3. CASE EntryRefusal = "ok" /\ kind # "assertion"
        <3>1. pc' = "wait"
            BY <2>3 DEF Enter
        <3> QED BY <3>1 DEF AnswerSound
    <2> QED BY <2>1, <2>2, <2>3
<1>HonestAnswerAccepted. HonestAnswerAccepted'
    BY <1>5 DEF HonestAnswerAccepted
<1>LateRefused. LateRefused'
    BY <1>5 DEF LateRefused
<1> QED
    BY <1>Kept, <1>Waiting, <1>StreamBounded, <1>AnswerSound, <1>HonestAnswerAccepted,
       <1>LateRefused DEF Inv

(* The rest of the loop body.                                                   *)
LEMMA SettleStep ==
    ASSUME Inv, Settle PROVE Inv'
<1>Kept1. Typed' /\ PinHeld' /\ Waiting' /\ StreamBounded' /\ Collected'
    BY DEF Settle, world, progress, history, Inv, Typed, Places, TxStates, PinHeld,
       networkPinned, req, Waiting, kind, Silence, StreamBounded, Collected, Remaining
<1>Kept2. AnswerSound' /\ HonestAnswerAccepted' /\ LateRefused' /\ TxsTracked'
    BY DEF Settle, world, progress, history, Inv, AnswerSound, kind, req,
       HonestAnswerAccepted, LateRefused, TxsTracked
<1> QED
    BY <1>Kept1, <1>Kept2 DEF Inv

(* The wait between two attempts.                                               *)
LEMMA BackoffStep ==
    ASSUME Inv, Backoff PROVE Inv'
<1>Kept1. Typed' /\ PinHeld' /\ Waiting' /\ StreamBounded' /\ Collected'
    BY DEF Backoff, world, progress, history, Inv, Typed, Places, TxStates, PinHeld,
       networkPinned, req, Waiting, kind, Silence, StreamBounded, Collected, Remaining
<1>Kept2. AnswerSound' /\ HonestAnswerAccepted' /\ TxsTracked'
    BY DEF Backoff, world, progress, history, Inv, AnswerSound, kind, req,
       HonestAnswerAccepted, TxsTracked
<1>LateRefused. LateRefused'
    BY Outcomes DEF Backoff, world, progress, history, Inv, LateRefused
<1> QED
    BY <1>Kept1, <1>Kept2, <1>LateRefused DEF Inv

(* The backends that ask once.                                                  *)
LEMMA ExchangeStep ==
    ASSUME Inv, Exchange PROVE Inv'
<1>1. pc = "wait" /\ kind \in DOMAIN Refusals /\ sc' = sc /\ addr' = addr
    BY DEF Exchange, world
<1>2. PICK a : /\ out' = Judged(a)
               /\ heard' = [honest |-> Honest(a, Given), late |-> FALSE]
    BY DEF Exchange
<1>3. kind # "wallet" => Judges(out', a, addr, req.payload)
    BY <1>1, <1>2, AskedOnceJudges
<1>Kept1. Typed' /\ PinHeld' /\ Waiting' /\ StreamBounded' /\ Collected'
    BY DEF Exchange, world, progress, Inv, Typed, Places, TxStates, PinHeld,
       networkPinned, req, Waiting, kind, Silence, StreamBounded, Collected, Remaining
<1>Kept2. TxsTracked'
    BY DEF Exchange, world, progress, Inv, TxsTracked, kind
<1>AnswerSound. AnswerSound'
    <2>1. kind \in Contract!SingleKey
        BY <1>1 DEF Refusals, Contract!SingleKey
    <2>2. kind \in Contract!Inspecting => kind \in ChecksPreimage
        BY <1>1 DEF Refusals, Contract!Inspecting, ChecksPreimage
    <2>3. Contract!Permitted(kind, sc.pin, req)
        BY <1>1, <2>2, Permits DEF Inv, Waiting
    <2>4. ~Failed(out') => Contract!Sound(kind, addr, req.payload, out'.value)
        BY <1>2, <1>3, <2>1, JudgedIsSound, WalletIsSound
    <2> QED BY <1>1, <2>3, <2>4, AnswerKept
<1>HonestAnswerAccepted. HonestAnswerAccepted'
    <2>1. kind # "turnkey" => Given = req.payload
        BY DEF Given
    <2>2. kind # "turnkey" /\ Honest(a, Given) => ~Failed(out')
        BY <1>2, <1>3, <2>1, WalletIsSound DEF Judges, Honest
    <2> QED BY <1>1, <1>2, <2>2 DEF HonestAnswerAccepted, kind
<1>LateRefused. LateRefused'
    BY <1>2 DEF LateRefused
<1> QED
    BY <1>Kept1, <1>Kept2, <1>AnswerSound, <1>HonestAnswerAccepted, <1>LateRefused DEF
       Inv

(* A function of the application.                                               *)
LEMMA CallbackStep ==
    ASSUME Inv, Callback PROVE Inv'
<1>Kept1. Typed' /\ PinHeld' /\ Waiting' /\ StreamBounded' /\ Collected'
    BY DEF Callback, world, progress, history, Inv, Typed, Places, TxStates, PinHeld,
       networkPinned, req, Waiting, kind, Silence, StreamBounded, Collected, Remaining
<1>Kept2. TxsTracked'
    BY DEF Callback, world, progress, history, Inv, TxsTracked, kind
<1>AnswerSound. AnswerSound'
    <2>1. Contract!Permitted(kind, sc.pin, req)
        BY Permits DEF Callback, Inv, Contract!Inspecting
    <2>2. Contract!Sound(kind, addr, req.payload, out'.value)
        BY PassThroughIsSound DEF Callback
    <2> QED BY <2>1, <2>2, AnswerKept DEF Callback, world
<1>HonestAnswerAccepted. HonestAnswerAccepted'
    BY NothingHeard DEF Callback, history, Inv, HonestAnswerAccepted
<1>LateRefused. LateRefused'
    BY NothingHeard DEF Callback, history, Inv, LateRefused
<1> QED
    BY <1>Kept1, <1>Kept2, <1>AnswerSound, <1>HonestAnswerAccepted, <1>LateRefused DEF
       Inv

(* The remote client and a server of any make.                                  *)
LEMMA RemoteOtherSignStep ==
    ASSUME Inv, RemoteOtherSign PROVE Inv'
<1>Kept1. Typed' /\ PinHeld' /\ Waiting' /\ StreamBounded' /\ Collected'
    BY DEF RemoteOtherSign, world, progress, history, Inv, Typed, Places, TxStates, PinHeld,
       networkPinned, req, Waiting, kind, Silence, StreamBounded, Collected, Remaining
<1>Kept2. TxsTracked'
    BY DEF RemoteOtherSign, world, progress, history, Inv, TxsTracked, kind
<1>AnswerSound. AnswerSound'
    <2>1. Contract!Permitted(kind, sc.pin, req)
        BY Permits DEF RemoteOtherSign, Inv, Contract!Inspecting
    <2>2. Contract!Sound(kind, addr, req.payload, out'.value)
        BY PassThroughIsSound DEF RemoteOtherSign
    <2> QED BY <2>1, <2>2, AnswerKept DEF RemoteOtherSign, world
<1>HonestAnswerAccepted. HonestAnswerAccepted'
    BY NothingHeard DEF RemoteOtherSign, history, Inv, HonestAnswerAccepted
<1>LateRefused. LateRefused'
    BY NothingHeard DEF RemoteOtherSign, history, Inv, LateRefused
<1> QED
    BY <1>Kept1, <1>Kept2, <1>AnswerSound, <1>HonestAnswerAccepted, <1>LateRefused DEF
       Inv

(* The remote client and its server.                                            *)
LEMMA RemoteSignStep ==
    ASSUME Inv, RemoteSign PROVE Inv'
<1>1. pc = "wait" /\ kind = "remote" /\ sc' = sc /\ addr' = addr
    BY DEF RemoteSign, world
<1>2. PICK wire, a :
          /\ out' = remoteSign(wire, ServeHTTP(addr, req, Holder, ed25519Sign(a, Holder, req)))
          /\ heard' = [honest |-> /\ wire = "ok" /\ Honest(a, req.payload) /\ Holder = addr
                                  /\ Payload(req.preimage) = req.payload,
                       late |-> FALSE]
    BY DEF RemoteSign
<1>Kept1. Typed' /\ PinHeld' /\ Waiting' /\ StreamBounded' /\ Collected'
    BY DEF RemoteSign, world, progress, Inv, Typed, Places, TxStates, PinHeld,
       networkPinned, req, Waiting, kind, Silence, StreamBounded, Collected, Remaining
<1>Kept2. TxsTracked'
    BY DEF RemoteSign, world, progress, Inv, TxsTracked, kind
<1>AnswerSound. AnswerSound'
    <2>1. ~Failed(out') => Contract!Permitted(kind, sc.pin, req)
        BY <1>1, <1>2, RemoteIsSound, Permits DEF Inv
    <2>2. ~Failed(out') => Contract!Sound(kind, addr, req.payload, out'.value)
        BY <1>1, <1>2, RemoteIsSound
    <2> QED BY <1>1, <2>1, <2>2, AnswerKept
<1>HonestAnswerAccepted. HonestAnswerAccepted'
    BY <1>2, RemoteIsSound DEF HonestAnswerAccepted
<1>LateRefused. LateRefused'
    BY <1>2 DEF LateRefused
<1> QED
    BY <1>Kept1, <1>Kept2, <1>AnswerSound, <1>HonestAnswerAccepted, <1>LateRefused DEF
       Inv

(* A helper process ends, by itself or killed.                                  *)
LEMMA ExecStep ==
    ASSUME NEW a, Inv, ExecReturns(a) PROVE Inv'
<1>1. /\ pc = "wait" /\ kind = "exec" /\ sc' = sc /\ addr' = addr
      /\ out' = execAnswer(HelperContext, a, addr, req)
      /\ heard' = [honest |-> FALSE, late |-> HelperContext # "live"]
    BY DEF ExecReturns, world
<1>2. HelperContext \in {"live", "cancelled", "expired"}
    BY DEF HelperContext, Inv, Typed
<1>Kept1. Typed' /\ PinHeld' /\ Waiting' /\ StreamBounded' /\ Collected'
    BY DEF ExecReturns, world, progress, Inv, Typed, Places, TxStates, PinHeld,
       networkPinned, req, Waiting, kind, Silence, StreamBounded, Collected, Remaining
<1>Kept2. TxsTracked'
    BY DEF ExecReturns, world, progress, Inv, TxsTracked, kind
<1>AnswerSound. AnswerSound'
    <2>1. Contract!Permitted(kind, sc.pin, req)
        BY <1>1, Permits DEF Inv, Contract!Inspecting
    <2>2. ~Failed(out') => Contract!Sound(kind, addr, req.payload, out'.value)
        BY <1>1, <1>2, HelperIsSound
    <2> QED BY <1>1, <2>1, <2>2, AnswerKept
<1>HonestAnswerAccepted. HonestAnswerAccepted'
    BY <1>1 DEF HonestAnswerAccepted
<1>LateRefused. LateRefused'
    <2>1. heard'.late => HelperContext # "live"
        BY <1>1
    <2>2. heard'.late => Failed(out')
        BY <1>1, <1>2, <2>1, HelperIsSound
    <2>3. pc' = "inner"
        BY DEF ExecReturns
    <2> QED BY <2>2, <2>3 DEF LateRefused
<1> QED
    BY <1>Kept1, <1>Kept2, <1>AnswerSound, <1>HonestAnswerAccepted, <1>LateRefused DEF
       Inv

(* The next key of a multisig signs: its signature goes behind the ones of smaller *)
(* keys.                                                                        *)
LEMMA MultiSignStep ==
    ASSUME Inv, MultiSign PROVE Inv'
<1>1. /\ pc = "wait" /\ kind = "multisig" /\ sc' = sc /\ addr' = addr
      /\ pc' \in {"wait", "inner"}
    BY DEF MultiSign, world
<1>2. PICK pk, a, r :
          /\ r = IF ctx # "live" THEN Err("ctx") ELSE ed25519Sign(a, pk, req)
          /\ pk \in Range(sc.members) /\ NextMember(pk)
          /\ acc' = IF Failed(r) THEN acc ELSE acc \o r.value.sigs
          /\ IF Failed(r) THEN pc' = "inner" /\ out' = r
             ELSE IF Remaining = {pk}
                  THEN pc' = "inner" /\ out' = Value(accountSignature(acc'))
             ELSE UNCHANGED <<pc, out>>
    BY DEF MultiSign
<1> DEFINE e == Element(pk, a.by, a.over)
<1>3. ~Failed(r) => Verifies(e, req.payload) /\ r.value.sigs = <<e>>
    <2>1. Judges(ed25519Sign(a, pk, req), a, pk, req.payload)
        BY BackendsJudge
    <2>2. ~Failed(r) => r = ed25519Sign(a, pk, req)
        BY <1>2, Outcomes
    <2> QED BY <2>1, <2>2 DEF Judges, accountSignature
<1>4. pk \in Keys /\ pk \in Nat
    <2>1. sc.members \in Seq(Keys \cup {NoKey})
        BY ScenarioAssumption DEF Inv, Typed, ScenarioType
    <2>2. pk \in Keys \cup {NoKey}
        BY <1>2, <2>1 DEF Range
    <2>3. NoKey \notin Range(sc.members)
        BY <1>1 DEF Inv, Collected
    <2> QED BY <1>2, <2>2, <2>3, SignerAssumption
<1>5. ~Failed(r) => e \in Signature /\ e.pk = pk
    BY <1>3, <1>4, ScenarioAssumption
    DEF Verifies, Element, Signature, Inv, Typed, ScenarioType, Requests, req
<1> HIDE DEF e
<1>6. ASSUME ~Failed(r)
      PROVE  /\ NoKey \notin Range(sc.members)
             /\ acc' \in Seq(Signature) /\ acc' # <<>>
             /\ \A i \in DOMAIN acc' : Verifies(acc'[i], req.payload)
             /\ \A i, j \in DOMAIN acc' : i < j => acc'[i].pk < acc'[j].pk
             /\ \A i \in DOMAIN acc' : \A k \in Remaining' : k \in Keys => acc'[i].pk < k
    <2>1. acc' = Append(acc, e) /\ acc \in Seq(Signature)
        <3>1. acc \in Seq(Signature)
            BY <1>1 DEF Inv, Collected
        <3>2. acc' = acc \o <<e>>
            BY <1>2, <1>3, <1>6
        <3> QED BY <1>5, <1>6, <3>1, <3>2
    <2>2. /\ acc' \in Seq(Signature) /\ Len(acc') = Len(acc) + 1 /\ acc'[Len(acc')] = e
          /\ \A i \in DOMAIN acc : acc'[i] = acc[i]
          /\ DOMAIN acc' = DOMAIN acc \cup {Len(acc')}
        BY <1>5, <1>6, <2>1
    <2>3. \A i \in DOMAIN acc : acc[i].pk < pk
        BY <1>1, <1>2, <1>4 DEF Inv, Collected, NextMember
    <2>4. \A i, j \in DOMAIN acc' : i < j => acc'[i].pk < acc'[j].pk
        BY <1>1, <1>5, <1>6, <2>1, <2>2, <2>3 DEF Inv, Collected
    <2>5. Remaining' \subseteq Remaining \ {pk}
        BY <1>1, <1>5, <1>6, <2>2 DEF Remaining
    <2>6. \A k \in Remaining' : k \in Keys => pk < k
        BY <1>2, <1>4, <2>5, SignerAssumption DEF NextMember
    <2>7. \A i \in DOMAIN acc' : \A k \in Remaining' : k \in Keys => acc'[i].pk < k
        BY <1>1, <1>5, <1>6, <2>2, <2>5, <2>6 DEF Inv, Collected
    <2>8. \A i \in DOMAIN acc' : Verifies(acc'[i], req.payload)
        BY <1>1, <1>3, <1>6, <2>2 DEF Inv, Collected
    <2>9. NoKey \notin Range(sc.members)
        BY <1>1 DEF Inv, Collected
    <2> QED BY <2>2, <2>4, <2>7, <2>8, <2>9
<1>Typed. Typed'
    BY <1>1 DEF MultiSign, world, Inv, Typed, Places
<1>PinHeld. PinHeld'
    BY <1>1 DEF Inv, PinHeld, networkPinned, req
<1>Waiting. Waiting'
    BY <1>1 DEF MultiSign, world, history, Inv, Waiting, kind, req
<1>StreamBounded. StreamBounded'
    BY <1>1 DEF StreamBounded, kind
<1>Collected. Collected'
    <2>1. CASE Failed(r)
        BY <1>1, <1>2, <2>1 DEF Inv, Collected, kind, req, Remaining
    <2>2. CASE ~Failed(r)
        BY <1>1, <1>6, <2>2 DEF Collected, kind, req
    <2> QED BY <2>1, <2>2
<1>AnswerSound. AnswerSound'
    <2>1. CASE Failed(r)
        <3>1. out' = r
            BY <1>2, <2>1
        <3> QED BY <1>1, <2>1, <3>1, AnswerKept
    <2>2. CASE ~Failed(r) /\ Remaining = {pk}
        <3>1. out' = Value(accountSignature(acc'))
            BY <1>2, <2>2
        <3>2. out'.value = accountSignature(acc')
            BY <3>1, Outcomes
        <3>3. out'.value.shape = "account" /\ out'.value.sigs = acc'
            BY <3>2 DEF accountSignature
        <3>4. acc' # <<>> /\ \A x \in Contract!Elements(out'.value) :
                                Contract!Verifies(x, req.payload)
            BY <1>6, <2>2, <3>3 DEF Contract!Elements, Contract!Verifies, Verifies
        <3>5. Contract!Sound(kind, addr, req.payload, out'.value)
            BY <1>1, <1>6, <2>2, <3>3, <3>4
            DEF Contract!Sound, Contract!SingleKey, Contract!PassThrough
        <3>6. Contract!Permitted(kind, sc.pin, req)
            BY <1>1, Permits DEF Inv, Contract!Inspecting
        <3> QED BY <1>1, <3>5, <3>6, AnswerKept
    <2>3. CASE ~Failed(r) /\ Remaining # {pk}
        BY <1>1, <1>2, <2>3 DEF AnswerSound
    <2> QED BY <2>1, <2>2, <2>3
<1>HonestAnswerAccepted. HonestAnswerAccepted'
    BY <1>1, NothingHeard DEF MultiSign, history, Inv, HonestAnswerAccepted
<1>LateRefused. LateRefused'
    BY <1>1, NothingHeard DEF MultiSign, history, Inv, LateRefused
<1>TxsTracked. TxsTracked'
    BY <1>1 DEF MultiSign, history, Inv, TxsTracked, kind
<1> QED
    BY <1>Typed, <1>PinHeld, <1>Waiting, <1>StreamBounded, <1>Collected, <1>AnswerSound,
       <1>HonestAnswerAccepted, <1>LateRefused, <1>TxsTracked DEF Inv

(* One APDU.  Whatever the device is sent last completes the preimage, so what it *)
(* signed is what it was asked to sign.                                         *)
LEMMA SignPreimageStep ==
    ASSUME Inv, SignPreimage PROVE Inv'
<1>1. pc = "wait" /\ kind = "ledger" /\ sc' = sc /\ addr' = addr
    BY DEF SignPreimage, world
<1>2. /\ ChunkSize \in Nat /\ step + ChunkSize <= sc.length
      /\ LastChunk(ChunkSize) => step + ChunkSize = sc.length
    BY <1>1, ChunkFits DEF Inv
<1>3. Contract!Permitted(kind, sc.pin, req)
    BY <1>1, Permits DEF Inv, Waiting, ChecksPreimage
<1>4. ~heard.honest /\ ~heard.late
    BY <1>1, NothingHeard DEF Inv
<1>Kept. PinHeld' /\ Waiting' /\ Collected' /\ TxsTracked'
    BY DEF SignPreimage, world, Inv, PinHeld, networkPinned, req, Waiting, kind,
       Silence, Collected, Remaining, TxsTracked
<1>Typed. Typed'
    BY <1>1, <1>2 DEF SignPreimage, world, Inv, Typed, Places
<1>StreamBounded. StreamBounded'
    BY <1>1, <1>2 DEF SignPreimage, StreamBounded, Inv, Typed
<1>AnswerSound. AnswerSound'
    <2>1. CASE pc' = "inner"
        <3>1. PICK a : out' = LedgerSign(a, addr, req)
            BY <1>1, <2>1 DEF SignPreimage
        <3>2. ~Failed(out') => Contract!Sound(kind, addr, req.payload, out'.value)
            BY <1>1, <3>1, BackendsJudge, JudgedIsSound DEF Contract!SingleKey
        <3> QED BY <1>1, <1>3, <3>2, AnswerKept
    <2>2. CASE pc' # "inner"
        BY <2>2 DEF AnswerSound
    <2> QED BY <2>1, <2>2
<1>HonestAnswerAccepted. HonestAnswerAccepted'
    <2>1. CASE heard' = heard
        BY <1>4, <2>1 DEF HonestAnswerAccepted
    <2>2. CASE heard' # heard
        <3>1. LastChunk(ChunkSize)
            BY <2>2 DEF SignPreimage
        <3>2. step + ChunkSize = sc.length
            BY <1>2, <3>1
        <3>3. PICK a : /\ out' = LedgerSign(a, addr, req)
                       /\ heard' = [honest |-> Honest(a, req.preimage), late |-> FALSE]
            BY <2>2, <3>2 DEF SignPreimage
        <3>4. req.preimage = req.payload
            BY <1>1 DEF Inv, Waiting, ChecksPreimage, Payload
        <3> QED BY <3>3, <3>4, BackendsJudge DEF HonestAnswerAccepted, Judges, Honest
    <2> QED BY <2>1, <2>2
<1>LateRefused. LateRefused'
    <2>1. heard' = heard \/ ~heard'.late
        BY DEF SignPreimage
    <2> QED BY <1>4, <2>1 DEF LateRefused
<1> QED
    BY <1>Kept, <1>Typed, <1>StreamBounded, <1>AnswerSound, <1>HonestAnswerAccepted,
       <1>LateRefused DEF Inv

(* A transaction is submitted; an answer that does not come is remembered as lost. *)
LEMMA FireblocksSubmitStep ==
    ASSUME Inv, FireblocksSubmit PROVE Inv'
<1>Kept. PinHeld' /\ Waiting' /\ StreamBounded' /\ Collected' /\ TxsTracked'
    BY DEF FireblocksSubmit, world, Inv, PinHeld, networkPinned, req, Waiting, kind,
       Silence, StreamBounded, Collected, Remaining, TxsTracked
<1>Typed. Typed'
    BY DEF FireblocksSubmit, world, Inv, Typed, Places, TxStates
<1>AnswerSound. AnswerSound'
    <2>1. pc' = "inner" => Failed(out')
        BY Outcomes DEF FireblocksSubmit
    <2> QED BY <2>1 DEF AnswerSound
<1>HonestAnswerAccepted. HonestAnswerAccepted'
    BY NothingHeard DEF FireblocksSubmit, Inv, HonestAnswerAccepted
<1>LateRefused. LateRefused'
    BY NothingHeard DEF FireblocksSubmit, Inv, LateRefused
<1> QED
    BY <1>Kept, <1>Typed, <1>AnswerSound, <1>HonestAnswerAccepted, <1>LateRefused DEF
       Inv

(* A poll that finds the decision: the transaction is no longer open.           *)
LEMMA FireblocksPollStep ==
    ASSUME Inv, FireblocksPoll PROVE Inv'
<1>1. pc = "poll" /\ kind = "fireblocks" /\ sc' = sc /\ addr' = addr
    BY DEF FireblocksPoll, world, Inv, TxsTracked
<1>2. ~heard.honest /\ ~heard.late
    BY <1>1, NothingHeard DEF Inv
<1>Kept. Typed' /\ PinHeld' /\ Waiting' /\ StreamBounded' /\ Collected'
    BY DEF FireblocksPoll, world, progress, Inv, Typed, Places, TxStates, PinHeld,
       networkPinned, req, Waiting, kind, Silence, StreamBounded, Collected, Remaining
<1>AnswerSound. AnswerSound'
    <2>1. CASE Failed(out')
        BY <1>1, <2>1, AnswerKept
    <2>2. CASE ~Failed(out')
        <3>1. PICK a : out' = FireblocksAnswer(a)
            BY <2>2, Outcomes DEF FireblocksPoll
        <3>2. Contract!Sound(kind, addr, req.payload, out'.value)
            BY <1>1, <2>2, <3>1, FireblocksJudges, JudgedIsSound DEF Contract!SingleKey
        <3>3. Contract!Permitted(kind, sc.pin, req)
            BY <1>1, Permits DEF Inv, Waiting, ChecksPreimage
        <3> QED BY <1>1, <3>2, <3>3, AnswerKept
    <2> QED BY <2>1, <2>2
<1>HonestAnswerAccepted. HonestAnswerAccepted'
    <2>1. CASE heard' = heard
        BY <1>2, <2>1 DEF HonestAnswerAccepted
    <2>2. CASE heard' # heard
        <3>1. PICK a : /\ out' = FireblocksAnswer(a)
                       /\ heard' = [honest |-> Honest(a, req.payload), late |-> PollEnded]
            BY <2>2 DEF FireblocksPoll
        <3> QED BY <3>1, FireblocksJudges DEF HonestAnswerAccepted, Judges, Honest
    <2> QED BY <2>1, <2>2
<1>LateRefused. LateRefused'
    <2>1. ~PollEnded
        BY DEF FireblocksPoll
    <2>2. heard' = heard \/ ~heard'.late
        BY <2>1 DEF FireblocksPoll
    <2> QED BY <1>2, <2>2 DEF LateRefused
<1>TxsTracked. TxsTracked'
    <2>1. txs[Len(txs)] # "pending" /\ pc' = "inner" /\ txs' = txs /\ lost' = lost
        BY DEF FireblocksPoll, Current, progress
    <2> QED BY <1>1, <2>1 DEF Inv, TxsTracked
<1> QED
    BY <1>Kept, <1>AnswerSound, <1>HonestAnswerAccepted, <1>LateRefused, <1>TxsTracked
       DEF Inv

(* The wait ends without a decision: the transaction is cancelled unless the    *)
(* cancellation is lost.                                                        *)
LEMMA FireblocksGiveUpStep ==
    ASSUME Inv, FireblocksGiveUp PROVE Inv'
<1>1. pc = "poll"
    BY DEF FireblocksGiveUp
<1>2. txs \in Seq(TxStates) /\ txs # <<>> /\ Len(txs) \in DOMAIN txs
    BY <1>1 DEF Inv, Typed, TxsTracked
<1>3. PICK cancel \in cancelTransaction :
          /\ txs' = [txs EXCEPT ![Len(txs)] =
                         IF Current = "pending" /\ cancel = "cancelled" THEN "cancelled"
                         ELSE Current]
          /\ lost' = (lost \/ cancel = "lost")
    BY DEF FireblocksGiveUp
<1>Kept. PinHeld' /\ Waiting' /\ StreamBounded' /\ Collected'
    BY DEF FireblocksGiveUp, world, Inv, PinHeld, networkPinned, req, Waiting, kind,
       Silence, StreamBounded, Collected, Remaining
<1>Typed. Typed'
    <2>1. Current \in TxStates /\ "cancelled" \in TxStates
        BY <1>2 DEF Current, TxStates
    <2>2. PICK t \in TxStates : txs' = [txs EXCEPT ![Len(txs)] = t]
        BY <1>3, <2>1
    <2>3. txs' \in Seq(TxStates)
        BY <1>2, <2>2
    <2> QED BY <2>3 DEF FireblocksGiveUp, world, Inv, Typed, Places
<1>AnswerSound. AnswerSound'
    <2>1. Failed(out')
        BY Outcomes DEF FireblocksGiveUp
    <2> QED BY <2>1 DEF AnswerSound
<1>HonestAnswerAccepted. HonestAnswerAccepted'
    BY <1>1, NothingHeard DEF FireblocksGiveUp, Inv, HonestAnswerAccepted
<1>LateRefused. LateRefused'
    BY <1>1, NothingHeard DEF FireblocksGiveUp, Inv, LateRefused
<1>TxsTracked. TxsTracked'
    <2>1. pc' = "inner" /\ (lost' <=> lost \/ cancel = "lost")
        BY <1>3 DEF FireblocksGiveUp
    <2>2. ~lost' => \A i \in DOMAIN txs' : txs'[i] # "pending"
        BY <1>2, <1>3, <2>1 DEF Inv, TxsTracked, Typed, cancelTransaction, Current
    <2> QED BY <2>1, <2>2 DEF TxsTracked
<1> QED
    BY <1>Kept, <1>Typed, <1>AnswerSound, <1>HonestAnswerAccepted, <1>LateRefused,
       <1>TxsTracked DEF Inv

(* The caller's context ends.                                                   *)
LEMMA ContextEndsStep ==
    ASSUME Inv, ContextEnds PROVE Inv'
<1>Kept1. Typed' /\ PinHeld' /\ Waiting' /\ StreamBounded' /\ Collected'
    BY DEF ContextEnds, progress, history, Inv, Typed, Places, TxStates, PinHeld,
       networkPinned, req, Waiting, kind, Silence, StreamBounded, Collected, Remaining
<1>Kept2. AnswerSound' /\ HonestAnswerAccepted' /\ LateRefused' /\ TxsTracked'
    BY DEF ContextEnds, progress, history, Inv, AnswerSound, kind, req,
       HonestAnswerAccepted, LateRefused, TxsTracked
<1> QED
    BY <1>Kept1, <1>Kept2 DEF Inv

(* The backend's own deadline passes.                                           *)
LEMMA TimerFiresStep ==
    ASSUME Inv, TimerFires PROVE Inv'
<1>Kept1. Typed' /\ PinHeld' /\ Waiting' /\ StreamBounded' /\ Collected'
    BY DEF TimerFires, progress, history, Inv, Typed, Places, TxStates, PinHeld,
       networkPinned, req, Waiting, kind, Silence, StreamBounded, Collected, Remaining
<1>Kept2. AnswerSound' /\ HonestAnswerAccepted' /\ LateRefused' /\ TxsTracked'
    BY DEF TimerFires, progress, history, Inv, AnswerSound, kind, req,
       HonestAnswerAccepted, LateRefused, TxsTracked
<1> QED
    BY <1>Kept1, <1>Kept2 DEF Inv

(* A person decides.                                                            *)
LEMMA DecideStep ==
    ASSUME Inv, Decide PROVE Inv'
<1>Kept1. Typed' /\ PinHeld' /\ Waiting' /\ StreamBounded' /\ Collected'
    BY DEF Decide, world, history, Inv, Typed, Places, TxStates, PinHeld,
       networkPinned, req, Waiting, kind, Silence, StreamBounded, Collected, Remaining
<1>Kept2. AnswerSound' /\ HonestAnswerAccepted' /\ LateRefused' /\ TxsTracked'
    BY DEF Decide, world, history, Inv, AnswerSound, kind, req, HonestAnswerAccepted,
       LateRefused, TxsTracked
<1> QED
    BY <1>Kept1, <1>Kept2 DEF Inv

(* The holder's key is replaced.                                                *)
LEMMA RotateStep ==
    ASSUME Inv, Rotate PROVE Inv'
<1>Kept1. Typed' /\ PinHeld' /\ Waiting' /\ StreamBounded' /\ Collected'
    BY DEF Rotate, progress, history, Inv, Typed, Places, TxStates, PinHeld,
       networkPinned, req, Waiting, kind, Silence, StreamBounded, Collected, Remaining
<1>Kept2. AnswerSound' /\ HonestAnswerAccepted' /\ LateRefused' /\ TxsTracked'
    BY DEF Rotate, progress, history, Inv, AnswerSound, kind, req,
       HonestAnswerAccepted, LateRefused, TxsTracked
<1> QED
    BY <1>Kept1, <1>Kept2 DEF Inv

(* The invariant holds of every initial state.                                   *)
LEMMA InitInv == Init => Inv
<1> SUFFICES ASSUME Init PROVE Inv
    OBVIOUS
<1>1. Typed
    BY ScenarioAssumption DEF Init, Typed, Places, TxStates, ScenarioType
<1>2. Collected
    BY DEF Init, Collected, Remaining
<1>3. PinHeld /\ Waiting /\ StreamBounded /\ AnswerSound /\ HonestAnswerAccepted
    BY DEF Init, PinHeld, Waiting, StreamBounded, AnswerSound, HonestAnswerAccepted
<1>4. LateRefused /\ TxsTracked
    BY DEF Init, LateRefused, TxsTracked, Silence
<1> QED BY <1>1, <1>2, <1>3, <1>4 DEF Inv

(* And every step preserves it.                                                  *)
LEMMA NextInv == Inv /\ [Next]_vars => Inv'
<1> SUFFICES ASSUME Inv, [Next]_vars PROVE Inv'
    OBVIOUS
<1>1. CASE Program
    BY <1>1, NewStep, PinSignerStep, AttemptStep, EnterStep, SettleStep, BackoffStep,
       ExchangeStep, MultiSignStep, SignPreimageStep, CallbackStep, RemoteSignStep,
       RemoteOtherSignStep, ExecStep, FireblocksSubmitStep, FireblocksGiveUpStep DEF Program, ExecKilled
<1>2. CASE ExecSign
    BY <1>2, ExecStep DEF ExecSign
<1>3. CASE FireblocksPoll
    BY <1>3, FireblocksPollStep
<1>4. CASE ContextEnds \/ TimerFires \/ Decide \/ Rotate
    BY <1>4, ContextEndsStep, TimerFiresStep, DecideStep, RotateStep
<1>5. CASE Returns \/ UNCHANGED vars
    <2> SUFFICES ASSUME UNCHANGED vars PROVE Inv'
        BY <1>5 DEF Returns
    <2>1. Typed' /\ PinHeld' /\ Waiting' /\ StreamBounded'
        BY DEF vars, Inv, Typed, PinHeld, networkPinned, Waiting, StreamBounded, kind, req
    <2>2. Collected' /\ HonestAnswerAccepted' /\ LateRefused' /\ TxsTracked'
        BY DEF vars, Inv, Collected, Remaining, HonestAnswerAccepted, LateRefused,
               TxsTracked,
               kind, req
    <2>3. AnswerSound'
        BY DEF vars, Inv, AnswerSound, kind, req
    <2> QED BY <2>1, <2>2, <2>3 DEF Inv
<1> QED BY <1>1, <1>2, <1>3, <1>4, <1>5 DEF Next

-----------------------------------------------------------------------------
(* The theorems.                                                                 *)

(* Every reachable state of a Sign call satisfies the invariant: types, a pin that *)
(* holds for the whole call, and an answer that keeps the contract before any      *)
(* wrapper sees it.                                                                *)
THEOREM SignerSound == Spec => []Inv
BY InitInv, NextInv, PTL DEF Spec

(* A key holder that signs exactly what it was asked to sign is believed, by every  *)
(* backend but Turnkey's and for a preimage of any length (ledger.go, signPreimage). *)
THEOREM HonestHoldersBelieved == Spec => []HonestAnswerAccepted
<1>1. Inv => HonestAnswerAccepted
    BY DEF Inv
<1> QED BY <1>1, SignerSound, PTL

(* An answer that comes after its deadline is never what the caller gets, however   *)
(* often the call is retried (exec_signer.go, Sign; fireblocks.go, waitForSignature). *)
THEOREM LateAnswersDropped == Spec => []LateAnswerUnused
<1>1. Inv => LateAnswerUnused
    BY DEF Inv, LateRefused, LateAnswerUnused
<1> QED BY <1>1, SignerSound, PTL

(* A Fireblocks call that returns leaves no transaction a person could still        *)
(* approve, over any number of attempts, unless an answer of the API was lost.      *)
THEOREM TransactionsTakenBack == Spec => []NoOrphanTransaction
<1>1. Inv => NoOrphanTransaction
    BY DEF Inv, TxsTracked, NoOrphanTransaction
<1> QED BY <1>1, SignerSound, PTL

(* A possession check that passes has seen a signature of the address's own key     *)
(* over this payload, whatever the backend returned (possession.go).                *)
THEOREM PossessionIsProof == Spec => []PossessionProves
<1>1. PossessionProves
    BY DEF PossessionProves, CheckPossession, verifyAccountPossession, Verifies
<1> QED BY <1>1, PTL

-----------------------------------------------------------------------------
(* Refinement: a Sign call implements SignerContract, with everything between the  *)
(* question and the answer hidden.                                                 *)

(* No constructor reports success under another name.                              *)
LEMMA ConstructorsAnswer ==
    ASSUME NEW a PROVE Constructed(a) # ""
<1>1. /\ NewVaultSigner(a) # "" /\ NewTurnkeySigner(a) # "" /\ NewFireblocksSigner(a) # ""
      /\ NewLedgerSigner(a) # "" /\ newAccountMultiSigner # "" /\ NewAdapterSigner # ""
      /\ ParseWebAuthnAssertion(sc.raw) # ""
    BY DEF NewVaultSigner, NewTurnkeySigner, NewFireblocksSigner, NewLedgerSigner,
           newAccountMultiSigner, NewAdapterSigner, ParseWebAuthnAssertion
<1> QED BY <1>1, Zenon DEF Constructed

(* Construction: a ledger's address is learned from the device; a refusal ends the  *)
(* call before anybody is asked.                                                    *)
LEMMA NewRefines ==
    ASSUME Inv, New PROVE [Contract!Next]_(Contract!contractVars)
<1>1. PICK a \in KeyAnswers :
          /\ pc' = IF Constructed(a) = "ok" THEN "idle" ELSE "returned"
          /\ result' = IF Constructed(a) = "ok" THEN result ELSE Err(Constructed(a))
          /\ addr' = IF kind = "ledger" /\ Constructed(a) = "ok" THEN a.key ELSE addr
    BY DEF New
<1>2. pc = "new" /\ sc' = sc /\ Phase = "before"
    BY DEF New, world, Phase
<1>3. CASE Constructed(a) # "ok"
    <2>1. Phase' = "answered" /\ addr' = addr
        BY <1>1, <1>3 DEF Phase
    <2>2. result' = Err(Constructed(a))
        BY <1>1, <1>3
    <2>3. Failed(result')
        BY <2>2, ConstructorsAnswer, Outcomes
    <2>4. Contract!Refuse
        BY <1>2, <2>1, <2>3 DEF Contract!Refuse, Contract!Failed, Failed
    <2> QED BY <2>4 DEF Contract!Next
<1>4. CASE Constructed(a) = "ok" /\ kind = "ledger"
    <2>1. Constructed(a) = NewLedgerSigner(a)
        BY <1>4, Zenon DEF Constructed
    <2>2. a.kind = "key"
        BY <1>4, <2>1 DEF NewLedgerSigner
    <2>3. a.key = Holder
        BY <2>2 DEF KeyAnswers, KeyFailures
    <2>4. Holder = sc.holder
        <3>1. ring = <<sc.holder>>
            BY <1>2 DEF Inv, Typed
        <3>2. Len(ring) = 1 /\ ring[1] = sc.holder
            BY <3>1
        <3> QED BY <3>2 DEF Holder
    <2>5. addr' \in Keys
        BY <1>1, <1>4, <2>3, <2>4, ScenarioAssumption DEF Inv, Typed, ScenarioType, kind
    <2>6. Contract!Construct
        BY <1>1, <1>2, <1>4, <2>5 DEF Contract!Construct, Phase
    <2> QED BY <2>6 DEF Contract!Next
<1>5. CASE Constructed(a) = "ok" /\ kind # "ledger"
    BY <1>1, <1>2, <1>5 DEF Contract!contractVars, Phase
<1> QED BY <1>3, <1>4, <1>5

(* The pin refuses before the signer is asked, or lets the question through.        *)
LEMMA PinRefines ==
    ASSUME Inv, PinSigner PROVE [Contract!Next]_(Contract!contractVars)
<1>1. pc = "idle" /\ sc' = sc /\ addr' = addr /\ Phase = "before"
    BY DEF PinSigner, world, Phase
<1>2. CASE pc' = "loop"
    <2>1. result' = result /\ Phase' = "asked"
        BY <1>2 DEF PinSigner, Phase
    <2>2. Contract!Ask
        BY <1>1, <2>1 DEF Contract!Ask
    <2> QED BY <2>2 DEF Contract!Next
<1>3. CASE pc' # "loop"
    <2>1. pc' = "returned" /\ Failed(result')
        BY <1>3, Outcomes DEF PinSigner
    <2>2. Contract!Refuse
        BY <1>1, <2>1 DEF Contract!Refuse, Contract!Failed, Failed, Phase
    <2> QED BY <2>2 DEF Contract!Next
<1> QED BY <1>2, <1>3

(* A wrapper returns an error of its own, or what the backend returned.             *)
LEMMA ReturnRefines ==
    ASSUME Inv, Attempt \/ Settle \/ Backoff
    PROVE  [Contract!Next]_(Contract!contractVars)
<1>1. sc' = sc /\ addr' = addr /\ Phase = "asked"
    BY DEF Attempt, Settle, Backoff, world, Phase
<1>2. CASE pc' # "returned"
    <2>1. result' = result /\ Phase' = "asked"
        BY <1>2 DEF Attempt, Settle, Backoff, Phase
    <2> QED BY <1>1, <2>1 DEF Contract!contractVars
<1>3. CASE pc' = "returned"
    <2>1. \/ Failed(result')
          \/ /\ Contract!Permitted(sc.kind, sc.pin, sc.req)
             /\ Contract!Sound(sc.kind, addr, sc.req.payload, result'.value)
        <3>1. CASE Settle
            <4>1. result' = out /\ pc = "inner"
                BY <1>3, <3>1 DEF Settle
            <4> QED BY <4>1 DEF Inv, AnswerSound, kind, req
        <3>2. CASE Attempt \/ Backoff
            <4>1. result' = Err("ctx")
                BY <1>3, <3>2 DEF Attempt, Backoff
            <4> QED BY <4>1, Outcomes
        <3> QED BY <3>1, <3>2
    <2>2. Phase' = "answered"
        BY <1>3 DEF Phase
    <2>3. Contract!Answer
        BY <1>1, <2>1, <2>2 DEF Contract!Answer, Contract!Failed, Failed
    <2> QED BY <2>3 DEF Contract!Next
<1> QED BY <1>2, <1>3

(* The backend's exchanges and the world around the call are hidden.                *)
LEMMA RestIsHidden ==
    ASSUME Inv,
           \/ Enter \/ Exchange \/ MultiSign \/ SignPreimage \/ Callback \/ RemoteSign
           \/ RemoteOtherSign \/ ExecKilled \/ ExecSign \/ FireblocksSubmit \/ FireblocksPoll
           \/ FireblocksGiveUp
           \/ ContextEnds \/ TimerFires \/ Decide \/ Rotate \/ Returns \/ UNCHANGED vars
    PROVE  UNCHANGED Contract!contractVars
<1>1. sc' = sc /\ addr' = addr /\ result' = result
    BY DEF Enter, Exchange, MultiSign, SignPreimage, Callback, RemoteSign,
           RemoteOtherSign, ExecKilled, ExecSign,
           ExecReturns, FireblocksSubmit, FireblocksPoll, FireblocksGiveUp, ContextEnds,
           TimerFires, Decide, Rotate, Returns, vars, world
<1>2. Phase' = Phase
    <2>1. CASE \/ Enter \/ Exchange \/ MultiSign \/ SignPreimage \/ Callback \/ RemoteSign
               \/ RemoteOtherSign
        BY <2>1 DEF Enter, Exchange, MultiSign, SignPreimage, Callback, RemoteSign,
               RemoteOtherSign, Phase
    <2>2. CASE ExecKilled \/ ExecSign
        BY <2>2 DEF ExecKilled, ExecSign, ExecReturns, Phase
    <2>3. CASE FireblocksSubmit \/ FireblocksPoll \/ FireblocksGiveUp
        BY <2>3 DEF FireblocksSubmit, FireblocksPoll, FireblocksGiveUp, Phase
    <2>4. CASE ContextEnds \/ TimerFires \/ Decide \/ Rotate \/ Returns \/ UNCHANGED vars
        BY <2>4 DEF ContextEnds, TimerFires, Decide, Rotate, Returns, vars, Phase
    <2> QED BY <2>1, <2>2, <2>3, <2>4
<1> QED BY <1>1, <1>2 DEF Contract!contractVars

(* Every Signer keeps the contract AuthorizeEntry relies on: whatever devices and     *)
(* services answer and whatever ends in between, a call is answered once, with an     *)
(* error or with a value that is permitted and sound for its question (signer.go,     *)
(* type Signer).                                                                      *)
THEOREM SignImplementsContract == Spec => ImplementsContract
<1>1. Init => Contract!Init
    BY DEF Init, Contract!Init, Phase, Err, Contract!Err
<1>2. Inv /\ [Next]_vars => [Contract!Next]_(Contract!contractVars)
    BY NewRefines, PinRefines, ReturnRefines, RestIsHidden DEF Next, Program
<1> QED BY <1>1, <1>2, SignerSound, PTL DEF Spec, ImplementsContract, Contract!Spec
=============================================================================
