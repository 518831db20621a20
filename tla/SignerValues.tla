---------------------------- MODULE SignerValues ----------------------------
(***************************************************************************)
(* What the signing backends exchange with the world, and what each of      *)
(* them makes of an answer.  A backend's Sign is its early returns (Entry   *)
(* refusals), one or more exchanges, and a judgement of the answer: an      *)
(* error, or the signature value AuthorizeEntry writes into the entry.      *)
(*                                                                         *)
(* A G... address is the Ed25519 key it encodes, and SHA-256 is injective,   *)
(* so a payload is the preimage it hashes, and a payload hashed once more   *)
(* is nobody's payload.                                                     *)
(***************************************************************************)
EXTENDS Integers, Sequences

CONSTANTS
    Keys,         \* keys, numbered in byte order; an Ed25519 key is its own G... address
    Contracts,    \* C... addresses
    NoKey,        \* no key at all: bytes that verify under nothing, a nil keypair
    Networks,     \* network ids
    Foreign,      \* bytes that are no preimage's payload
    NoPin,        \* the signer is not pinned to a network
    Order,        \* the order of the P-256 group, small here
    MaxSignatures \* the most signatures an account vector may hold (20 in the code)

ASSUME SignerAssumption ==
    /\ Keys \subseteq Nat
    /\ Keys \cap Contracts = {} /\ NoKey \notin Keys \cup Contracts
    /\ NoPin \notin Networks
    /\ Order \in Nat \ {0} /\ MaxSignatures \in Nat \ {0}

Addresses == Keys \cup Contracts

\* "other" stands for every envelope type that is not one of the two authorization ones.
PreimageTypes == {"authorization", "authorization_with_address", "other"}
Preimages == [type: PreimageTypes, network: Networks]

\* A request is the preimage and the payload the caller says it hashes to.
Payload(preimage) == preimage
Rehashed(payload) == [sha256 |-> payload]
Requests == [preimage: Preimages, payload: Preimages]

(* One element of a signature: the public key presented, who really signed,    *)
(* what was signed, and the s scalar of an ECDSA signature.                    *)
Element(pk, by, over) == [pk |-> pk, by |-> by, over |-> over, s |-> 1]
Shapes == {"account", "p256", "custom", "void", "empty_vec", "scalar"}
Elements(v) == {v.sigs[i] : i \in DOMAIN v.sigs}

accountSignature(elements) == [shape |-> "account", sigs |-> elements]

\* ed25519.Verify, ecdsa.Verify: (r, s) and (r, n - s) verify alike.
Verifies(e, payload) == e.by = e.pk /\ e.over = payload

Err(name) == [err |-> name, value |-> [shape |-> "void", sigs |-> <<>>]]
Value(v) == [err |-> "", value |-> v]
Failed(r) == r.err # ""

-----------------------------------------------------------------------------
(* Answers of a service, device, helper or callback.  "signature" carries the  *)
(* bytes a key holder returned (by whom, over what), "value" a whole ScVal.    *)
Bare(kind) == [kind |-> kind, by |-> NoKey, over |-> Foreign]
Signed(by, over) == [kind |-> "signature", by |-> by, over |-> over]
Returned(v) == [kind |-> "value", value |-> v]

\* Mutant: the answer is taken on trust.
Judge_Trusting(errors, a, pk, payload) ==
    IF a.kind \in DOMAIN errors THEN Err(errors[a.kind])
    ELSE Value(accountSignature(<<Element(pk, a.by, a.over)>>))

\* Judge reads an answer: the backend's own error for each answer it refuses, and
\* otherwise the signature, checked against the key it must be made with.
Judge(errors, a, pk, payload) ==
    IF a.kind \in DOMAIN errors THEN Err(errors[a.kind])
    ELSE IF ~Verifies(Element(pk, a.by, a.over), payload) THEN Err("ErrSignatureMismatch")
    ELSE Value(accountSignature(<<Element(pk, a.by, a.over)>>))

ed25519Sign(a, address, req) ==
    Judge([failed |-> "keypair", short |-> "ErrSignatureMismatch"], a, address, req.payload)

\* The wallet's own keypair says whether the signature verifies ("disowned" if not);
\* nothing holds it against the key of the address it is presented under.
walletSign(a, address, req) ==
    IF a.kind = "failed" THEN Err("keypair")
    ELSE IF a.kind \in {"short", "disowned"} THEN Err("ErrSignatureMismatch")
    ELSE Value(accountSignature(<<Element(address, a.by, a.over)>>))

awskmsSign(a, address, req) ==
    Judge([unreachable |-> "transport", short |-> "ErrSignatureMismatch",
           none |-> "ErrSignatureMismatch"], a, address, req.payload)

gcpkmsSign(a, address, req) ==
    Judge([unreachable |-> "transport", short |-> "ErrSignatureMismatch",
           none |-> "ErrSignatureMismatch"], a, address, req.payload)

\* Vault does not look at the length: a short signature simply does not verify.
VaultSign(a, address, req) ==
    Judge([unreachable |-> "transport", unauthorized |-> "ErrVaultUnauthorized",
           not_found |-> "ErrVaultKeyNotFound", failed |-> "status", garbled |-> "decode",
           none |-> "decode", short |-> "ErrSignatureMismatch"], a, address, req.payload)

\* Turnkey is told to hash what it is sent, which is the payload already, and its
\* signature is held against the payload as it was.
TurnkeySign(a, address, req) ==
    Judge([none |-> "decode", short |-> "length", garbled |-> "decode",
           denied |-> "ErrPolicyDenied", failed |-> "activity", pending |-> "activity"],
          a, address, req.payload)

\* TurnkeySigner.do: what an HTTP status becomes; ok leaves the body to the caller.
TurnkeyDo(a) ==
    CASE a.kind = "unreachable" -> "transport"
      [] a.kind = "unauthorized" -> "ErrVaultUnauthorized"
      [] a.kind = "not_found" -> "status"
      [] OTHER -> "ok"

\* LedgerSigner.exchange: status words, and the length check of Sign.
LedgerSign(a, address, req) ==
    Judge([unreachable |-> "ErrLedgerUnavailable", locked |-> "ErrLedgerLocked",
           denied |-> "ErrLedgerDenied", blind |-> "ErrLedgerBlindSigningDisabled",
           wrong_app |-> "ErrLedgerWrongApp", failed |-> "ErrLedgerUnavailable",
           none |-> "ErrLedgerUnavailable", short |-> "ErrLedgerUnavailable"],
          a, address, req.payload)

-----------------------------------------------------------------------------
(* Passkeys.  An assertion is a set of decoded fields, each of which may be     *)
(* missing ("none") or malformed ("bad").                                       *)

\* The challenge in the client data: "of" under one of the six accepted encodings.
Challenges == [enc: {"accepted", "other", "bad", "none"}, of: Preimages]

\* ParseWebAuthnAssertion: the first field it refuses, in its order.
ParseWebAuthnAssertion(raw) ==
    IF ~raw.json THEN "ErrWebAuthnMalformedJSON"
    ELSE IF raw.type = "bad" THEN "ErrWebAuthnMalformedField"
    ELSE IF raw.authData = "bad" THEN "ErrWebAuthnMalformedField"
    ELSE IF raw.authData = "none" THEN "ErrWebAuthnMissingField"
    ELSE IF raw.authData = "short" THEN "ErrWebAuthnTruncatedAuthenticatorData"
    ELSE IF raw.clientData = "bad" THEN "ErrWebAuthnMalformedField"
    ELSE IF raw.clientData = "none" THEN "ErrWebAuthnMissingField"
    ELSE IF raw.signature = "bad" THEN "ErrWebAuthnMalformedField"
    ELSE IF raw.signature = "none" THEN "ErrWebAuthnMissingField"
    ELSE IF raw.clientData = "not_json" THEN "ErrWebAuthnMalformedJSON"
    ELSE IF raw.challenge.enc = "none" THEN "ErrWebAuthnMissingField"
    ELSE IF raw.challenge.enc = "bad" THEN "ErrWebAuthnMalformedField"
    ELSE "ok"

VerifyChallenge(raw, expected) ==
    raw.challenge.enc = "accepted" /\ raw.challenge.of = expected

checkP256Scalars(s) == 0 < s /\ s < Order

normalizeP256LowS(s) == IF s > Order \div 2 THEN Order - s ELSE s

\* VerifySecp256r1, which is what a passkey account does with the value.
VerifySecp256r1(e, payload) ==
    checkP256Scalars(e.s) /\ ~(e.s > Order \div 2) /\ Verifies(e, payload)

(* passkeyAssertionSigner.Sign: every early return after the context check.    *)
(* The signature in the assertion covers the client data, so it is over the    *)
(* payload the challenge names.                                                *)
PasskeyRefusal(cred, raw, flags, required, payload) ==
    IF cred = NoKey THEN "ErrMissingSigner"
    ELSE IF cred \notin Keys THEN "ErrVerificationFailed"   \* validP256PublicKey
    ELSE IF ~(required \subseteq flags) THEN "ErrVerificationFailed"
    ELSE IF ~VerifyChallenge(raw, payload) THEN "ErrSignatureMismatch"
    ELSE IF ~checkP256Scalars(raw.s) \/ raw.by # cred THEN "ErrSignatureMismatch"
    ELSE "ok"

Secp256r1SignatureScVal(cred, raw) ==
    [shape |-> "p256",
     sigs |-> <<[pk |-> cred, by |-> raw.by, over |-> raw.challenge.of,
                 s |-> normalizeP256LowS(raw.s)]>>]

\* NewPasskeySigner wraps a callback: it looks at the flags, then hands over.
NewPasskeySigner(flags, required, a) ==
    IF ~(required \subseteq flags) THEN Err("ErrVerificationFailed")
    ELSE IF a.kind = "nil" THEN Err("ErrMissingSigner")
    ELSE IF a.kind = "value" THEN Value(a.value)
    ELSE Err("callback")

signerFuncSign(a) ==
    IF a.kind = "nil" THEN Err("ErrMissingSigner")
    ELSE IF a.kind = "value" THEN Value(a.value)
    ELSE Err("callback")

-----------------------------------------------------------------------------
(* The external helper and the remote server return a whole ScVal.              *)

validateAccountSignatureVec(v, payload) ==
    \A e \in Elements(v) : Verifies(e, payload)

\* A G... target takes an account vector only; a C... target any structured value.
validateSignatureScVal(v, address, payload) ==
    /\ v.shape \notin {"void", "empty_vec", "scalar"}
    /\ address \in Keys => v.shape = "account"
    /\ v.shape = "account" =>
          v.sigs # <<>> /\ Len(v.sigs) <= MaxSignatures
          /\ validateAccountSignatureVec(v, payload)

\* Mutant: an answer that came is used even when the deadline has passed.
execAnswer_IgnoresDeadline(late, a, address, req) ==
    IF late # "live" /\ a.kind # "value" THEN Err("errExecSignerTimeout")
    ELSE IF a.kind # "value" THEN Err("errExecSignerMalformedOutput")
    ELSE IF ~validateSignatureScVal(a.value, address, req.payload)
         THEN Err("errExecSignerMalformedOutput")
    ELSE Value(a.value)

\* execSigner.Sign once the helper has ended: late tells how its context stands.
execAnswer(late, a, address, req) ==
    IF late = "expired" THEN Err("errExecSignerTimeout")
    ELSE IF late = "cancelled" THEN Err("ctx")
    ELSE IF a.kind \in {"unreachable", "failed"} THEN Err("errExecSignerExit")
    ELSE IF a.kind = "denied" THEN Err("errExecSignerRefused")
    ELSE IF a.kind # "value" THEN Err("errExecSignerMalformedOutput")
    ELSE IF ~validateSignatureScVal(a.value, address, req.payload)
         THEN Err("errExecSignerMalformedOutput")
    ELSE Value(a.value)

(* remote.Server: the reference server refuses a request for another address    *)
(* and a payload that is not the preimage's hash; otherwise it shows the        *)
(* preimage to its Approver, which cannot veto, and answers with what its own   *)
(* signer returned.                                                             *)
ServeHTTP(asked, req, serves, inner) ==
    IF asked # serves THEN [status |-> 400, value |-> {}]
    ELSE IF Payload(req.preimage) # req.payload THEN [status |-> 400, value |-> {}]
    ELSE IF Failed(inner) THEN [status |-> 500, value |-> {}]
    ELSE [status |-> 200, value |-> {inner.value}]

\* The client believes the server: it decodes the value and does not verify it.
remoteSign(wire, response) ==
    IF wire = "unreachable" THEN Err("transport")
    ELSE IF wire = "garbled" THEN Err("decode")
    ELSE IF response.status # 200 THEN Err("server refused")
    ELSE IF wire = "other_version" THEN Err("version")
    ELSE Value(CHOOSE v \in response.value : TRUE)
=============================================================================
