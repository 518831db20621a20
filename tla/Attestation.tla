----------------------------- MODULE Attestation -----------------------------
(***************************************************************************)
(* attestation.go: what the registration of a passkey proves.  Bytes are   *)
(* left out: a parsed structure is a record, a hash or a signed text is    *)
(* the record it was taken of, a key is a name.                            *)
(***************************************************************************)
EXTENDS Integers, Sequences, FiniteSets

CONSTANTS
  MaxCredentialIDLength,   \* 1023 in the code
  Registrations            \* what a relying party may be asked to verify

\* A certificate chain is a list, however long; nothing else is known of its input.
ASSUME AttestationAssumption ==
  \A r \in Registrations :
    Len(r.object.stmt.x5c) \in Nat /\ DOMAIN r.object.stmt.x5c = 1 .. Len(r.object.stmt.x5c)

VARIABLES
  registration,   \* the registration at hand
  attestation     \* what VerifyAttestation answered, {} before it has

attestationVars == <<registration, attestation>>

Malformed == "malformed"
Invalid == "invalid"
Unsupported == "unsupported"

\* The first of a list of answers that is a refusal, or "ok".
Refusal(answers) ==
  LET failed == {i \in DOMAIN answers : answers[i] # "ok"}
  IN  IF failed = {} THEN "ok" ELSE answers[CHOOSE i \in failed : \A j \in failed : i <= j]
MalformedIf(p) == IF p THEN Malformed ELSE "ok"
InvalidIf(p) == IF p THEN Invalid ELSE "ok"
UnsupportedIf(p) == IF p THEN Unsupported ELSE "ok"

\* RPID, Origin and Challenge are "" when they are missing from the request.
requestIncomplete(req) == req.rpID = "" \/ req.origin = "" \/ req.challenge = ""

checkRegistrationClientData(req) ==
  LET cd == req.clientData
  IN  Refusal(<<MalformedIf(~cd.json), InvalidIf(cd.type # "webauthn.create"),
                MalformedIf(cd.challenge = "undecodable"), InvalidIf(cd.challenge # req.challenge),
                InvalidIf(cd.origin # req.origin)>>)

parseAttestationObject(obj) == MalformedIf(obj.shape # "fmt, attStmt and authData")

parseCOSEKeyES256(key) ==
  Refusal(<<MalformedIf(key.shape = "not_map"), UnsupportedIf(key.shape = "other_algorithm"),
            MalformedIf(key.shape \in {"coordinates", "not_on_curve"})>>)

parseRegistrationAuthData(auth, req) ==
  Refusal(<<MalformedIf(auth.length = "prefix"), InvalidIf(auth.rpID # req.rpID),
            InvalidIf("UP" \notin auth.flags),
            InvalidIf(req.requireUserVerification /\ "UV" \notin auth.flags),
            InvalidIf("AT" \notin auth.flags), MalformedIf(auth.length = "credential"),
            MalformedIf(auth.idLen = 0 \/ auth.idLen > MaxCredentialIDLength \/ auth.length = "id"),
            parseCOSEKeyES256(auth.key),
            MalformedIf("ED" \in auth.flags /\ auth.extensions # "map"),
            MalformedIf("ED" \notin auth.flags /\ auth.extensions # "none"),
            MalformedIf(auth.trailing)>>)

\* Mutant: the AAGUID in the certificate is not compared with the reported one.
checkAAGUIDExtension_Unread(cert, aaguid) == InvalidIf(cert.critical)

\* aaguid is {} in a certificate without the extension.
checkAAGUIDExtension(cert, aaguid) ==
  Refusal(<<InvalidIf(cert.aaguid # {} /\ cert.critical), MalformedIf(cert.aaguid = {"not DER"}),
            InvalidIf(cert.aaguid # {} /\ cert.aaguid # {aaguid})>>)

checkPackedCertificate(cert, aaguid) ==
  Refusal(<<InvalidIf(cert.version # 3 \/ ~cert.subject \/ cert.ca),
            checkAAGUIDExtension(cert, aaguid)>>)

\* now lies in the certificate's validity, both ends included.
InForce(cert, now) == cert.notBefore <= now /\ now <= cert.notAfter

\* crypto/x509 with the rest of the list as intermediates: the leaf is a root
\* itself, or a path of any length leads from it to one, each certificate
\* signed (issuer) by the key of the next and all of them in force.  Path-length
\* and name constraints can only refuse more, and are left out.
ChainVerifies(certs, roots, now) ==
  /\ InForce(certs[1], now)
  /\ \/ certs[1] \in roots
     \/ \E n \in 1 .. Len(certs) : \E path \in [1 .. n -> 1 .. Len(certs)] :
          /\ path[1] = 1
          /\ \A i \in 2 .. n :
               /\ path[i] > 1 /\ certs[path[i]].ca /\ InForce(certs[path[i]], now)
               /\ certs[path[i - 1]].issuer = certs[path[i]].key
          /\ \E root \in roots : /\ root.ca /\ InForce(root, now)
                                 /\ certs[path[n]].issuer = root.key

Signs(sig, key, signed) == sig.by = key /\ sig.over = signed

\* The trust level a packed statement earns, or why it is refused.  roots is {}
\* when no pool was given, else {pool}; a pool without certificates verifies nothing.
verifyPackedStatement(stmt, auth, signed, req) ==
  LET leaf == stmt.x5c[1]
      early == Refusal(<<UnsupportedIf("ecdaaKeyId" \in stmt.members),
                         MalformedIf(~(stmt.members \subseteq {"alg", "sig", "x5c"})),
                         MalformedIf(~({"alg", "sig"} \subseteq stmt.members)),
                         UnsupportedIf(stmt.alg # "ES256")>>)
      certified == Refusal(<<MalformedIf(\E i \in DOMAIN stmt.x5c : ~stmt.x5c[i].parses),
                             UnsupportedIf(leaf.curve # "P-256"),
                             InvalidIf(~Signs(stmt.sig, leaf.key, signed)),
                             checkPackedCertificate(leaf, auth.aaguid),
                             InvalidIf(\E r \in req.roots : ~ChainVerifies(stmt.x5c, r, req.now))>>)
  IN  IF early # "ok" THEN early
      ELSE IF "x5c" \notin stmt.members
             THEN IF Signs(stmt.sig, auth.key.name, signed) THEN "self" ELSE Invalid
      ELSE IF Len(stmt.x5c) = 0 THEN Malformed
      ELSE IF certified # "ok" THEN certified
      ELSE IF req.roots = {} THEN "unrooted" ELSE "rooted"

\* What the statement earns is all the result goes by.
finish(trust, auth) ==
  [trust |-> trust, aaguid |-> auth.aaguid, key |-> auth.key.name, userVerified |-> "UV" \in auth.flags,
   aaguidAuthenticated |-> trust = "rooted", hardwareBacked |-> trust = "rooted"]

VerifyAttestation(req) ==
  LET obj == req.object
      auth == obj.authData
      refusal == Refusal(<<InvalidIf(requestIncomplete(req)), checkRegistrationClientData(req),
                           parseAttestationObject(obj), parseRegistrationAuthData(auth, req),
                           UnsupportedIf(obj.fmt \notin {"none", "packed"}),
                           InvalidIf(obj.fmt = "none" /\ obj.stmt.members # {})>>)
      trust == IF obj.fmt = "none" THEN "none"
               ELSE verifyPackedStatement(obj.stmt, auth, <<auth, req.clientData>>, req)
  IN  IF refusal # "ok" THEN [refused |-> {refusal}, result |-> {}]
      ELSE IF trust \in {Malformed, Invalid, Unsupported} THEN [refused |-> {trust}, result |-> {}]
      ELSE [refused |-> {}, result |-> {finish(trust, auth)}]

-----------------------------------------------------------------------------
AttestationInit == registration \in Registrations /\ attestation = {}

Register ==
  /\ attestation = {}
  /\ attestation' = {VerifyAttestation(registration)}
  /\ UNCHANGED registration

AttestationSpec == AttestationInit /\ [][Register]_attestationVars

\* What it is for a list of certificates to lead to the roots, without naming
\* a path: its leaf is in force and a root, or whoever holds the leaf's issuer to
\* be genuine, and with every certificate authority of the list that is in force
\* its issuer, holds a root in force to be genuine too.
VouchedFor(certs, roots, now) ==
  /\ InForce(certs[1], now)
  /\ \/ certs[1] \in roots
     \/ \A genuine \in SUBSET {certs[i].issuer : i \in DOMAIN certs} :
          /\ certs[1].issuer \in genuine
          /\ \A i \in DOMAIN certs :
               certs[i].ca /\ InForce(certs[i], now) /\ certs[i].key \in genuine => certs[i].issuer \in genuine
          => \E root \in roots : root.ca /\ InForce(root, now) /\ root.key \in genuine

\* No registration is trusted for more than it proves.  It is this ceremony's:
\* type, challenge, origin, relying party, and the user's presence and
\* verification as required.  Self attestation was signed by the credential
\* itself over this very registration; hardware is claimed only for a signature
\* of a certificate that leads, through however many others, to a root the caller
\* gave and that names the model reported, if it names one; and a statement with certificates that do
\* not lead to the caller's roots is refused, never passed as unrooted
\* (VerifyAttestation).
TrustIsEarned ==
  \A answer \in attestation : \A result \in answer.result :
    LET cd == registration.clientData
        stmt == registration.object.stmt
        auth == registration.object.authData
        SignedBy(key) == stmt.sig.by = key /\ stmt.sig.over = <<auth, cd>>
    IN  /\ cd.json /\ cd.type = "webauthn.create"
        /\ cd.challenge = registration.challenge /\ cd.origin = registration.origin
        /\ registration.challenge # "" /\ auth.rpID = registration.rpID /\ "UP" \in auth.flags
        /\ registration.requireUserVerification => result.userVerified
        /\ result.trust = "self" => SignedBy(auth.key.name) /\ result.key = auth.key.name
        /\ result.trust \in {"unrooted", "rooted"} =>
             SignedBy(stmt.x5c[1].key) /\ stmt.x5c[1].aaguid \subseteq {result.aaguid}
        /\ result.hardwareBacked \/ result.aaguidAuthenticated =>
             \E r \in registration.roots : VouchedFor(stmt.x5c, r, registration.now)
        /\ result.trust = "unrooted" => registration.roots = {}
==============================================================================
