---------------------------- MODULE Tools_proofs -----------------------------
(***************************************************************************)
(* Proofs about what a program or its user decides by: the verdict on a     *)
(* passkey registration (Attestation), for any registration; the documents  *)
(* and the exit code of the command line tool (Cli), for any command line;  *)
(* what is read of an envelope and written to it (Envelope), for any.       *)
(***************************************************************************)
EXTENDS Attestation, Cli, Envelope, WellFoundedInduction, TLAPS

\* A set of positions that is not empty has a least element.
LEMMA LeastPosition ==
  ASSUME NEW n \in Nat, NEW T \in SUBSET (1 .. n), T # {}
  PROVE  \E s \in T : \A t \in T : s <= t
<1>1. T \subseteq Nat
  OBVIOUS
<1>2. PICK s \in T : \A t \in T : ~(<<t, s>> \in OpToRel(<, Nat))
  BY <1>1, NatLessThanWellFounded, WFMin, Zenon
<1>3. \A t \in T : ~(t < s)
  BY <1>1, <1>2 DEF OpToRel
<1> QED  BY <1>1, <1>3

-----------------------------------------------------------------------------
(* VerifyAttestation.                                                         *)

\* The first refusal of a list of answers: "ok" means that there is none.
LEMMA RefusalFound ==
  ASSUME NEW n \in Nat, NEW answers, DOMAIN answers = 1 .. n
  PROVE  \/ Refusal(answers) = "ok" /\ \A i \in 1 .. n : answers[i] = "ok"
         \/ \E i \in 1 .. n : answers[i] # "ok" /\ Refusal(answers) = answers[i]
<1> DEFINE failed == {i \in 1 .. n : answers[i] # "ok"}
<1>1. CASE failed = {}
  BY <1>1 DEF Refusal
<1>2. CASE failed # {}
  <2>1. PICK s \in failed : \A t \in failed : s <= t
    BY <1>2, LeastPosition
  <2>2. Refusal(answers) = answers[CHOOSE i \in failed : \A j \in failed : i <= j]
    BY <1>2 DEF Refusal
  <2> HIDE DEF failed
  <2>3. \E i \in failed : Refusal(answers) = answers[i]
    BY <2>1, <2>2
  <2> QED  BY <2>3 DEF failed
<1> QED  BY <1>1, <1>2

Answers == {Malformed, Invalid, Unsupported, "ok"}

\* Refusals of a list are refusals.
LEMMA RefusalType ==
  ASSUME NEW n \in Nat, NEW answers, DOMAIN answers = 1 .. n,
         \A i \in 1 .. n : answers[i] \in Answers
  PROVE  Refusal(answers) \in Answers
BY RefusalFound DEF Answers

\* A condition that is refused did not hold if the answer is "ok".
LEMMA IfAnswers ==
  ASSUME NEW p
  PROVE  /\ MalformedIf(p) \in Answers /\ (MalformedIf(p) = "ok" => ~p)
         /\ InvalidIf(p) \in Answers /\ (InvalidIf(p) = "ok" => ~p)
         /\ UnsupportedIf(p) \in Answers /\ (UnsupportedIf(p) = "ok" => ~p)
BY DEF Answers, Malformed, Invalid, Unsupported, MalformedIf, InvalidIf, UnsupportedIf

\* checkRegistrationClientData passes only the data of this ceremony.
LEMMA ClientDataChecked ==
  ASSUME NEW req, checkRegistrationClientData(req) = "ok"
  PROVE  LET cd == req.clientData
         IN  /\ cd.json /\ cd.type = "webauthn.create"
             /\ cd.challenge = req.challenge /\ cd.origin = req.origin
<1> DEFINE cd == req.clientData
           answers == <<MalformedIf(~cd.json), InvalidIf(cd.type # "webauthn.create"),
                        MalformedIf(cd.challenge = "undecodable"),
                        InvalidIf(cd.challenge # req.challenge), InvalidIf(cd.origin # req.origin)>>
<1>1. /\ DOMAIN answers = 1 .. 5
      /\ answers[1] = MalformedIf(~cd.json)
      /\ answers[2] = InvalidIf(cd.type # "webauthn.create")
      /\ answers[4] = InvalidIf(cd.challenge # req.challenge)
      /\ answers[5] = InvalidIf(cd.origin # req.origin)
  OBVIOUS
<1>2. Refusal(answers) = "ok"
  BY DEF checkRegistrationClientData
<1> HIDE DEF answers
<1>3. \A i \in 1 .. 5 : answers[i] = "ok"
  BY <1>1, <1>2, RefusalFound
<1>4. /\ MalformedIf(~cd.json) = "ok" /\ InvalidIf(cd.type # "webauthn.create") = "ok"
      /\ InvalidIf(cd.challenge # req.challenge) = "ok" /\ InvalidIf(cd.origin # req.origin) = "ok"
  BY <1>1, <1>3
<1> QED
  BY <1>4 DEF MalformedIf, InvalidIf, Malformed, Invalid

\* parseRegistrationAuthData passes only this relying party's data, with the user's
\* presence and, where it is required, verification.
LEMMA AuthDataChecked ==
  ASSUME NEW auth, NEW req, parseRegistrationAuthData(auth, req) = "ok"
  PROVE  /\ auth.rpID = req.rpID /\ "UP" \in auth.flags
         /\ req.requireUserVerification => "UV" \in auth.flags
<1> DEFINE answers ==
             <<MalformedIf(auth.length = "prefix"), InvalidIf(auth.rpID # req.rpID),
               InvalidIf("UP" \notin auth.flags),
               InvalidIf(req.requireUserVerification /\ "UV" \notin auth.flags),
               InvalidIf("AT" \notin auth.flags), MalformedIf(auth.length = "credential"),
               MalformedIf(auth.idLen = 0 \/ auth.idLen > MaxCredentialIDLength \/ auth.length = "id"),
               parseCOSEKeyES256(auth.key),
               MalformedIf("ED" \in auth.flags /\ auth.extensions # "map"),
               MalformedIf("ED" \notin auth.flags /\ auth.extensions # "none"),
               MalformedIf(auth.trailing)>>
<1>1. /\ DOMAIN answers = 1 .. 11
      /\ answers[2] = InvalidIf(auth.rpID # req.rpID)
      /\ answers[3] = InvalidIf("UP" \notin auth.flags)
      /\ answers[4] = InvalidIf(req.requireUserVerification /\ "UV" \notin auth.flags)
  OBVIOUS
<1>2. Refusal(answers) = "ok"
  BY DEF parseRegistrationAuthData
<1> HIDE DEF answers
<1>3. \A i \in 1 .. 11 : answers[i] = "ok"
  BY <1>1, <1>2, RefusalFound
<1>4. /\ InvalidIf(auth.rpID # req.rpID) = "ok" /\ InvalidIf("UP" \notin auth.flags) = "ok"
      /\ InvalidIf(req.requireUserVerification /\ "UV" \notin auth.flags) = "ok"
  BY <1>1, <1>3
<1> QED
  BY <1>4 DEF InvalidIf, Invalid

\* checkAAGUIDExtension passes a certificate only if it names the reported model or none.
LEMMA AAGUIDChecked ==
  ASSUME NEW cert, NEW aaguid
  PROVE  /\ checkAAGUIDExtension(cert, aaguid) \in Answers
         /\ checkAAGUIDExtension(cert, aaguid) = "ok" => cert.aaguid \subseteq {aaguid}
<1> DEFINE answers == <<InvalidIf(cert.aaguid # {} /\ cert.critical),
                        MalformedIf(cert.aaguid = {"not DER"}),
                        InvalidIf(cert.aaguid # {} /\ cert.aaguid # {aaguid})>>
<1>1. /\ DOMAIN answers = 1 .. 3
      /\ answers[1] \in Answers /\ answers[2] \in Answers /\ answers[3] \in Answers
      /\ answers[3] = "ok" => cert.aaguid \subseteq {aaguid}
  BY DEF InvalidIf, MalformedIf, Invalid, Malformed, Answers
<1>2. checkAAGUIDExtension(cert, aaguid) = Refusal(answers)
  BY DEF checkAAGUIDExtension
<1> HIDE DEF answers
<1>3. \A i \in 1 .. 3 : answers[i] \in Answers
  BY <1>1
<1>4. Refusal(answers) = "ok" => \A i \in 1 .. 3 : answers[i] = "ok"
  BY <1>1, RefusalFound
<1>5. Refusal(answers) \in Answers
  BY <1>1, <1>3, RefusalType
<1> QED  BY <1>1, <1>2, <1>4, <1>5

\* So does checkPackedCertificate.
LEMMA CertificateChecked ==
  ASSUME NEW cert, NEW aaguid
  PROVE  /\ checkPackedCertificate(cert, aaguid) \in Answers
         /\ checkPackedCertificate(cert, aaguid) = "ok" => cert.aaguid \subseteq {aaguid}
<1> DEFINE answers == <<InvalidIf(cert.version # 3 \/ ~cert.subject \/ cert.ca),
                        checkAAGUIDExtension(cert, aaguid)>>
<1>1. /\ DOMAIN answers = 1 .. 2
      /\ answers[1] \in Answers /\ answers[2] = checkAAGUIDExtension(cert, aaguid)
  BY DEF InvalidIf, Answers
<1>2. checkPackedCertificate(cert, aaguid) = Refusal(answers)
  BY DEF checkPackedCertificate
<1> HIDE DEF answers
<1>3. \A i \in 1 .. 2 : answers[i] \in Answers
  BY <1>1, AAGUIDChecked
<1>4. Refusal(answers) = "ok" => \A i \in 1 .. 2 : answers[i] = "ok"
  BY <1>1, RefusalFound
<1>5. Refusal(answers) \in Answers
  BY <1>1, <1>3, RefusalType
<1> QED  BY <1>1, <1>2, <1>4, <1>5, AAGUIDChecked

\* What a packed statement earns, and from what.
LEMMA StatementEarns ==
  ASSUME NEW stmt, NEW auth, NEW signed, NEW req, NEW trust,
         trust = verifyPackedStatement(stmt, auth, signed, req),
         trust \notin {Malformed, Invalid, Unsupported}
  PROVE  \/ trust = "self" /\ Signs(stmt.sig, auth.key.name, signed)
         \/ /\ trust = IF req.roots = {} THEN "unrooted" ELSE "rooted"
            /\ Len(stmt.x5c) # 0
            /\ Signs(stmt.sig, stmt.x5c[1].key, signed)
            /\ stmt.x5c[1].aaguid \subseteq {auth.aaguid}
            /\ \A r \in req.roots : ChainVerifies(stmt.x5c, r, req.now)
<1> DEFINE leaf == stmt.x5c[1]
           first == <<UnsupportedIf("ecdaaKeyId" \in stmt.members),
                      MalformedIf(~(stmt.members \subseteq {"alg", "sig", "x5c"})),
                      MalformedIf(~({"alg", "sig"} \subseteq stmt.members)),
                      UnsupportedIf(stmt.alg # "ES256")>>
           then == <<MalformedIf(\E i \in DOMAIN stmt.x5c : ~stmt.x5c[i].parses),
                     UnsupportedIf(leaf.curve # "P-256"),
                     InvalidIf(~Signs(stmt.sig, leaf.key, signed)),
                     checkPackedCertificate(leaf, auth.aaguid),
                     InvalidIf(\E r \in req.roots : ~ChainVerifies(stmt.x5c, r, req.now))>>
<1>1. /\ DOMAIN first = 1 .. 4
      /\ first[1] \in Answers /\ first[2] \in Answers /\ first[3] \in Answers /\ first[4] \in Answers
  BY DEF UnsupportedIf, MalformedIf, Answers
<1>2. /\ DOMAIN then = 1 .. 5
      /\ then[1] \in Answers /\ then[2] \in Answers /\ then[3] \in Answers /\ then[5] \in Answers
      /\ then[4] = checkPackedCertificate(leaf, auth.aaguid)
      /\ then[3] = "ok" => Signs(stmt.sig, leaf.key, signed)
      /\ then[5] = "ok" => \A r \in req.roots : ChainVerifies(stmt.x5c, r, req.now)
  BY DEF UnsupportedIf, MalformedIf, InvalidIf, Invalid, Malformed, Unsupported, Answers
<1>3. trust = IF Refusal(first) # "ok" THEN Refusal(first)
              ELSE IF "x5c" \notin stmt.members
                     THEN IF Signs(stmt.sig, auth.key.name, signed) THEN "self" ELSE Invalid
              ELSE IF Len(stmt.x5c) = 0 THEN Malformed
              ELSE IF Refusal(then) # "ok" THEN Refusal(then)
              ELSE IF req.roots = {} THEN "unrooted" ELSE "rooted"
  BY DEF verifyPackedStatement
<1> HIDE DEF first, then
<1>4. Refusal(first) \in Answers
  <2>1. \A i \in 1 .. 4 : first[i] \in Answers
    BY <1>1
  <2> QED  BY <1>1, <2>1, RefusalType
<1>5. Refusal(then) \in Answers
  <2>1. \A i \in 1 .. 5 : then[i] \in Answers
    BY <1>2, CertificateChecked
  <2> QED  BY <1>2, <2>1, RefusalType
<1>6. Refusal(then) = "ok" => \A i \in 1 .. 5 : then[i] = "ok"
  BY <1>2, RefusalFound
<1>7. CASE trust = "self" /\ Signs(stmt.sig, auth.key.name, signed)
  BY <1>7
<1>8. CASE /\ Refusal(then) = "ok" /\ Len(stmt.x5c) # 0
           /\ trust = IF req.roots = {} THEN "unrooted" ELSE "rooted"
  BY <1>2, <1>6, <1>8, CertificateChecked
<1> QED  BY <1>3, <1>4, <1>5, <1>7, <1>8 DEF Answers

\* A chain that verifies is vouched for: along its path every issuer is genuine
\* to whoever holds the leaf's to be, by the least position where it would not be.
LEMMA ChainLeads ==
  ASSUME NEW certs, NEW roots, NEW now, Len(certs) \in Nat, Len(certs) # 0,
         DOMAIN certs = 1 .. Len(certs), ChainVerifies(certs, roots, now)
  PROVE  VouchedFor(certs, roots, now)
<1>1. InForce(certs[1], now)
  BY DEF ChainVerifies
<1>2. CASE certs[1] \in roots
  BY <1>1, <1>2 DEF VouchedFor
<1>3. CASE certs[1] \notin roots
  <2>1. PICK n \in 1 .. Len(certs) : \E path \in [1 .. n -> 1 .. Len(certs)] :
          /\ path[1] = 1
          /\ \A i \in 2 .. n :
               /\ path[i] > 1 /\ certs[path[i]].ca /\ InForce(certs[path[i]], now)
               /\ certs[path[i - 1]].issuer = certs[path[i]].key
          /\ \E root \in roots : /\ root.ca /\ InForce(root, now)
                                 /\ certs[path[n]].issuer = root.key
    BY <1>3 DEF ChainVerifies
  <2>2. PICK path \in [1 .. n -> 1 .. Len(certs)] :
          /\ path[1] = 1
          /\ \A i \in 2 .. n :
               /\ certs[path[i]].ca /\ InForce(certs[path[i]], now)
               /\ certs[path[i - 1]].issuer = certs[path[i]].key
          /\ \E root \in roots : /\ root.ca /\ InForce(root, now)
                                 /\ certs[path[n]].issuer = root.key
    BY <2>1
  <2>3. ASSUME NEW genuine,
               certs[1].issuer \in genuine,
               \A i \in DOMAIN certs :
                 certs[i].ca /\ InForce(certs[i], now) /\ certs[i].key \in genuine => certs[i].issuer \in genuine
        PROVE  \E root \in roots : root.ca /\ InForce(root, now) /\ root.key \in genuine
    <3> DEFINE Strays == {i \in 1 .. n : certs[path[i]].issuer \notin genuine}
    <3>1. Strays = {}
      <4> SUFFICES ASSUME Strays # {} PROVE FALSE
        OBVIOUS
      <4>1. n \in Nat /\ Strays \in SUBSET (1 .. n)
        OBVIOUS
      <4>2. PICK i \in Strays : \A j \in Strays : i <= j
        <5> HIDE DEF Strays
        <5> QED  BY <4>1, LeastPosition
      <4>3. i \in 2 .. n
        BY <2>2, <2>3
      <4>4. i - 1 \in 1 .. n /\ i - 1 \notin Strays
        BY <4>2, <4>3
      <4>5. certs[path[i]].key \in genuine
        BY <2>2, <4>3, <4>4
      <4> QED  BY <2>2, <2>3, <4>2, <4>3, <4>5
    <3> QED  BY <2>2, <3>1
  <2> QED  BY <1>1, <2>3 DEF VouchedFor
<1> QED  BY <1>2, <1>3

\* A registration that VerifyAttestation accepts passed every check.
LEMMA Accepted ==
  ASSUME NEW req, NEW result \in VerifyAttestation(req).result
  PROVE  /\ ~requestIncomplete(req)
         /\ checkRegistrationClientData(req) = "ok"
         /\ parseRegistrationAuthData(req.object.authData, req) = "ok"
         /\ \E trust :
              /\ result = finish(trust, req.object.authData)
              /\ \/ trust = "none"
                 \/ /\ trust \notin {Malformed, Invalid, Unsupported}
                    /\ trust = verifyPackedStatement(req.object.stmt, req.object.authData,
                                 <<req.object.authData, req.clientData>>, req)
<1> DEFINE obj == req.object
           auth == obj.authData
           answers == <<InvalidIf(requestIncomplete(req)), checkRegistrationClientData(req),
                        parseAttestationObject(obj), parseRegistrationAuthData(auth, req),
                        UnsupportedIf(obj.fmt \notin {"none", "packed"}),
                        InvalidIf(obj.fmt = "none" /\ obj.stmt.members # {})>>
           packed == verifyPackedStatement(obj.stmt, auth, <<auth, req.clientData>>, req)
           trust == IF obj.fmt = "none" THEN "none" ELSE packed
           refused(r) == [refused |-> {r}, result |-> {}]
           accepted == [refused |-> {}, result |-> {finish(trust, auth)}]
<1>1. /\ DOMAIN answers = 1 .. 6
      /\ answers[1] = "ok" => ~requestIncomplete(req)
      /\ answers[2] = checkRegistrationClientData(req)
      /\ answers[4] = parseRegistrationAuthData(auth, req)
  BY DEF InvalidIf, Invalid
<1>2. VerifyAttestation(req) = IF Refusal(answers) # "ok" THEN refused(Refusal(answers))
                               ELSE IF trust \in {Malformed, Invalid, Unsupported}
                                      THEN refused(trust)
                               ELSE accepted
  BY DEF VerifyAttestation
<1>3. accepted.result = {finish(trust, auth)} /\ \A r : refused(r).result = {}
  OBVIOUS
<1> HIDE DEF answers, refused, accepted
<1>4. /\ Refusal(answers) = "ok" /\ trust \notin {Malformed, Invalid, Unsupported}
      /\ result = finish(trust, auth)
  BY <1>2, <1>3
<1>5. \A i \in 1 .. 6 : answers[i] = "ok"
  BY <1>1, <1>4, RefusalFound
<1>6. trust = "none" \/ trust = packed
  OBVIOUS
<1> HIDE DEF trust
<1> QED  BY <1>1, <1>4, <1>5, <1>6

\* For any registration, VerifyAttestation trusts it for no more than it proves.
THEOREM TrustEarned == AttestationSpec => []TrustIsEarned
<1> DEFINE Inv == registration \in Registrations /\ TrustIsEarned
<1>1. AttestationInit => Inv
  BY DEF AttestationInit, TrustIsEarned
<1>2. Inv /\ [Register]_attestationVars => Inv'
  <2> SUFFICES ASSUME Inv, [Register]_attestationVars PROVE Inv'
    OBVIOUS
  <2>1. CASE UNCHANGED attestationVars
    BY <2>1 DEF attestationVars, TrustIsEarned
  <2>2. CASE Register
    <3>1. registration' = registration /\ attestation' = {VerifyAttestation(registration)}
      BY <2>2 DEF Register
    <3> DEFINE req == registration
               cd == req.clientData
               stmt == req.object.stmt
               auth == req.object.authData
               SignedBy(key) == stmt.sig.by = key /\ stmt.sig.over = <<auth, cd>>
    <3>2. ASSUME NEW result \in VerifyAttestation(req).result
          PROVE  /\ cd.json /\ cd.type = "webauthn.create"
                 /\ cd.challenge = req.challenge /\ cd.origin = req.origin
                 /\ req.challenge # "" /\ auth.rpID = req.rpID /\ "UP" \in auth.flags
                 /\ req.requireUserVerification => result.userVerified
                 /\ result.trust = "self" => SignedBy(auth.key.name) /\ result.key = auth.key.name
                 /\ result.trust \in {"unrooted", "rooted"} =>
                      SignedBy(stmt.x5c[1].key) /\ stmt.x5c[1].aaguid \subseteq {result.aaguid}
                 /\ result.hardwareBacked \/ result.aaguidAuthenticated =>
                      \E r \in req.roots : VouchedFor(stmt.x5c, r, req.now)
                 /\ result.trust = "unrooted" => req.roots = {}
      <4>1. /\ cd.json /\ cd.type = "webauthn.create"
            /\ cd.challenge = req.challenge /\ cd.origin = req.origin
        BY <3>2, Accepted, ClientDataChecked
      <4>2. req.challenge # ""
        BY <3>2, Accepted DEF requestIncomplete
      <4>3. /\ auth.rpID = req.rpID /\ "UP" \in auth.flags
            /\ req.requireUserVerification => "UV" \in auth.flags
        BY <3>2, Accepted, AuthDataChecked
      <4>4. PICK trust : /\ result = finish(trust, auth)
                         /\ \/ trust = "none"
                            \/ /\ trust \notin {Malformed, Invalid, Unsupported}
                               /\ trust = verifyPackedStatement(stmt, auth, <<auth, cd>>, req)
        BY <3>2, Accepted
      <4>5. /\ result.trust = trust /\ result.aaguid = auth.aaguid /\ result.key = auth.key.name
            /\ result.userVerified <=> "UV" \in auth.flags
            /\ result.aaguidAuthenticated <=> trust = "rooted"
            /\ result.hardwareBacked <=> trust = "rooted"
        BY <4>4 DEF finish
      <4>6. trust = "self" => SignedBy(auth.key.name)
        BY <4>4, StatementEarns DEF Signs
      <4>7. trust \in {"unrooted", "rooted"} =>
              /\ SignedBy(stmt.x5c[1].key) /\ stmt.x5c[1].aaguid \subseteq {auth.aaguid}
              /\ Len(stmt.x5c) # 0
              /\ trust = IF req.roots = {} THEN "unrooted" ELSE "rooted"
              /\ \A r \in req.roots : ChainVerifies(stmt.x5c, r, req.now)
        BY <4>4, StatementEarns DEF Signs
      <4>8. Len(stmt.x5c) \in Nat /\ DOMAIN stmt.x5c = 1 .. Len(stmt.x5c)
        BY AttestationAssumption
      <4>9. trust = "rooted" => \E r \in req.roots : VouchedFor(stmt.x5c, r, req.now)
        BY <4>7, <4>8, ChainLeads
      <4> QED  BY <4>1, <4>2, <4>3, <4>5, <4>6, <4>7, <4>9
    <3> QED  BY <3>1, <3>2 DEF TrustIsEarned
  <2> QED  BY <2>1, <2>2
<1> QED  BY <1>1, <1>2, PTL DEF AttestationSpec

-----------------------------------------------------------------------------
(* The command line tool: the documents it writes.                            *)

\* An outcome that a command gives with writeJSONError, or with its report.
Written(out, json) ==
  \E code, results : out = writeJSONError(json, code) \/ out = Reported(json, results, code)

\* One document in JSON mode, none in text mode; an error says the exit code.
Documented(out, json) ==
  \E d \in {Report, machineError(out.exit)} : out.docs = IF json THEN <<d>> ELSE <<>>

LEMMA WrittenDocumented ==
  ASSUME NEW json \in BOOLEAN, NEW out, Written(out, json)
  PROVE  Documented(out, json)
<1>1. PICK code, results : out = writeJSONError(json, code) \/ out = Reported(json, results, code)
  BY DEF Written
<1>2. CASE out = writeJSONError(json, code)
  <2>1. out.exit = code /\ out.docs = IF json THEN <<machineError(code)>> ELSE <<>>
    BY <1>2 DEF writeJSONError, Outcome
  <2> QED  BY <2>1 DEF Documented
<1>3. CASE out = Reported(json, results, code)
  <2>1. out.docs = IF json THEN <<Report>> ELSE <<>>
    BY <1>3 DEF Reported, Outcome
  <2> QED  BY <2>1 DEF Documented
<1> QED  BY <1>1, <1>2, <1>3

LEMMA SignWrites ==
  ASSUME NEW in, NEW json PROVE Written(runSign(in, json), json)
BY Zenon DEF Written, runSign, runSignBatch, runSignEntry, Each

LEMMA VerifyWrites ==
  ASSUME NEW in, NEW json PROVE Written(runVerify(in, json), json)
BY Zenon DEF Written, runVerify, runVerifyBatch, Each

LEMMA DiffWrites ==
  ASSUME NEW in, NEW json PROVE Written(runDiff(in, json), json)
BY Zenon DEF Written, runDiff, runDiffBatch, Each

LEMMA PayloadWrites ==
  ASSUME NEW in, NEW json PROVE Written(runPayload(in, json), json)
BY Zenon DEF Written, runPayload, Each

LEMMA DelegatesWrites ==
  ASSUME NEW in, NEW json PROVE Written(runDelegates(in, json), json)
BY Zenon DEF Written, runDelegates

LEMMA SimulateWrites ==
  ASSUME NEW in PROVE Written(runSimulate(in), FlagJSON(in))
BY Zenon DEF Written, runSimulate

LEMMA SubmitWrites ==
  ASSUME NEW in PROVE Written(runSubmit(in), FlagJSON(in))
BY Zenon DEF Written, runSubmit

\* inspect's report is JSON unless --text says otherwise.
LEMMA InspectWrites ==
  ASSUME NEW in, NEW json, ~in.text
  PROVE  Written(runInspect(in, json), json) \/ Written(runInspect(in, json), ~in.text)
BY Zenon DEF Written, runInspect, runInspectBatch, Each, Inspected

\* tree writes errors before its mode is settled by the flag alone.
LEMMA TreeWrites ==
  ASSUME NEW in
  PROVE  \/ Written(runTree(in), FlagJSON(in))
         \/ Written(runTree(in), FlagJSON(in) \/ "json" \in resolveFormatValue(in, "ascii"))
BY Zenon DEF Written, runTree, Inspected, Each

LEMMA ExplainWrites ==
  ASSUME NEW in
  PROVE  \/ Written(runExplainError(in), FlagJSON(in))
         \/ FlagJSON(in) /\ Written(runExplainError(in), TRUE)
         \/ ~FlagJSON(in) /\ runExplainError(in) = Outcome(ExitOK, {}, <<>>)
BY Zenon DEF Written, runExplainError

\* What a program that reads stdout goes by.
ReadsOne(out, wants) ==
  /\ \A i \in DOMAIN out.docs : out.docs[i].kind = "error" => out.docs[i].exit = out.exit
  /\ Len(out.docs) <= 1
  /\ wants => Len(out.docs) = 1

LEMMA DocumentedReadsOne ==
  ASSUME NEW out, NEW json \in BOOLEAN, NEW wants, Documented(out, json), wants => json
  PROVE  ReadsOne(out, wants)
<1>1. PICK d \in {Report, machineError(out.exit)} : out.docs = IF json THEN <<d>> ELSE <<>>
  BY DEF Documented
<1>2. d.kind = "error" => d.exit = out.exit
  BY <1>1 DEF Report, machineError
<1>3. CASE json
  <2>1. out.docs = <<d>>
    BY <1>1, <1>3
  <2>2. DOMAIN out.docs = 1 .. 1 /\ Len(out.docs) = 1 /\ out.docs[1] = d
    BY <2>1
  <2> QED  BY <1>2, <2>2 DEF ReadsOne
<1>4. CASE ~json
  <2>1. DOMAIN out.docs = {} /\ Len(out.docs) = 0
    BY <1>1, <1>4
  <2> QED  BY <1>4, <2>1 DEF ReadsOne
<1> QED  BY <1>3, <1>4

\* The flag settles the mode.
LEMMA FlagWins ==
  ASSUME NEW in, NEW default, FlagJSON(in)
  PROVE  resolveFormatValue(in, default) = {"json"}
<1>1. in.jsonFlag = "true" /\ in.jsonFlag # "false" /\ in.jsonFlag # "unset"
  BY DEF FlagJSON
<1> QED  BY <1>1, Zenon DEF resolveFormatValue

\* Without the flag, a command that reads the configuration goes by the setting.
LEMMA SettingDecides ==
  ASSUME NEW in, in.jsonFlag = "unset", resolveFormatValue(in, "text") # {},
         resolvePrecedence(in.format, in, "text") = "json"
  PROVE  resolveJSONMode(in)
<1>1. in.jsonFlag # "true" /\ in.jsonFlag # "false"
  OBVIOUS
<1>2. CASE in.format.flag = "unset" /\ in.format.env = "bad"
  <2>1. resolveFormatValue(in, "text") = {}
    BY <1>1, <1>2, Zenon DEF resolveFormatValue
  <2> QED  BY <2>1
<1>3. CASE ~(in.format.flag = "unset" /\ in.format.env = "bad")
  <2>1. resolveFormatValue(in, "text") = {resolvePrecedence(in.format, in, "text")}
    BY <1>1, <1>3, Zenon DEF resolveFormatValue
  <2> QED  BY <2>1 DEF resolveJSONMode
<1> QED  BY <1>2, <1>3

\* The first code of a list that is not zero: zero only if all of them are.
LEMMA FirstFound ==
  ASSUME NEW n \in Nat, NEW codes, DOMAIN codes = 1 .. n
  PROVE  First(codes) = ExitOK <=> \A i \in 1 .. n : codes[i] = ExitOK
<1> DEFINE bad == {i \in 1 .. n : codes[i] # ExitOK}
<1>1. CASE bad = {}
  BY <1>1 DEF First
<1>2. CASE bad # {}
  <2>1. PICK s \in bad : \A t \in bad : s <= t
    BY <1>2, LeastPosition
  <2>2. First(codes) = codes[CHOOSE i \in bad : \A j \in bad : i <= j]
    BY <1>2 DEF First
  <2> HIDE DEF bad
  <2>3. \E i \in bad : First(codes) = codes[i]
    BY <2>1, <2>2
  <2> QED  BY <2>3 DEF bad
<1> QED  BY <1>1, <1>2

\* A command goes on only when its mode could be settled.
LEMMA StartupSettles ==
  ASSUME NEW in, Startup(in) = ExitOK
  PROVE  loadConfig(in) = ExitOK /\ resolveFormatValue(in, "text") # {}
<1> DEFINE codes == <<loadConfig(in), UsageIf(resolveFormatValue(in, "text") = {})>>
<1>1. /\ DOMAIN codes = 1 .. 2 /\ codes[1] = loadConfig(in)
      /\ codes[2] = ExitOK => resolveFormatValue(in, "text") # {}
  BY DEF UsageIf, ExitOK, ExitUsageError
<1>2. First(codes) = ExitOK
  BY DEF Startup
<1> HIDE DEF codes
<1>3. \A i \in 1 .. 2 : codes[i] = ExitOK
  BY <1>1, <1>2, FirstFound
<1> QED  BY <1>1, <1>3

LEMMA DoctorReadsOne ==
  ASSUME NEW in PROVE ReadsOne(runDoctor(in), FlagJSON(in))
<1> DEFINE out == runDoctor(in)
           mode == resolveFormatValue(in, "text")
<1>1. CASE Written(out, FlagJSON(in))
  <2>1. FlagJSON(in) \in BOOLEAN
    BY DEF FlagJSON
  <2>2. PICK json \in BOOLEAN : json = FlagJSON(in)
    BY <2>1
  <2> QED  BY <1>1, <2>2, WrittenDocumented, DocumentedReadsOne
<1>2. CASE out = Outcome(GeneralIf(doctorFails(in)), {},
                         IF mode # {"json"} THEN <<>>
                         ELSE IF doctorFails(in) THEN <<machineError(ExitGeneralError)>> ELSE <<Report>>)
  <2>1. FlagJSON(in) => mode = {"json"}
    BY FlagWins
  <2> HIDE DEF mode
  <2>2. PICK failed \in BOOLEAN : failed = doctorFails(in)
    BY DEF doctorFails
  <2>3. out = Outcome(GeneralIf(failed), {},
                      IF mode # {"json"} THEN <<>>
                      ELSE IF failed THEN <<machineError(ExitGeneralError)>> ELSE <<Report>>)
    BY <1>2, <2>2
  <2> HIDE DEF out
  <2>4. /\ out.exit = IF failed THEN ExitGeneralError ELSE ExitOK
        /\ out.docs = IF mode # {"json"} THEN <<>>
                      ELSE IF failed THEN <<machineError(ExitGeneralError)>> ELSE <<Report>>
    BY <2>3 DEF Outcome, GeneralIf
  <2>5. PICK json \in BOOLEAN : json <=> mode = {"json"}
    OBVIOUS
  <2>6. Documented(out, json)
    BY <2>4, <2>5 DEF Documented
  <2> QED  BY <2>1, <2>5, <2>6, DocumentedReadsOne DEF out
<1>3. \/ Written(out, FlagJSON(in))
      \/ out = Outcome(GeneralIf(doctorFails(in)), {},
                       IF mode # {"json"} THEN <<>>
                       ELSE IF doctorFails(in) THEN <<machineError(ExitGeneralError)>> ELSE <<Report>>)
  BY Zenon DEF runDoctor, Written
<1> QED  BY <1>1, <1>2, <1>3

\* What each command runs.
LEMMA DispatchCases ==
  ASSUME NEW in
  PROVE  /\ in.command = "sign" => Dispatch(in) = runSign(in, resolveJSONMode(in))
         /\ in.command = "verify" => Dispatch(in) = runVerify(in, resolveJSONMode(in))
         /\ in.command = "diff" => Dispatch(in) = runDiff(in, resolveJSONMode(in))
         /\ in.command = "payload" => Dispatch(in) = runPayload(in, resolveJSONMode(in))
         /\ in.command = "delegates" => Dispatch(in) = runDelegates(in, resolveJSONMode(in))
         /\ in.command = "inspect" => Dispatch(in) = runInspect(in, resolveJSONMode(in))
         /\ in.command = "tree" => Dispatch(in) = runTree(in)
         /\ in.command = "simulate" => Dispatch(in) = runSimulate(in)
         /\ in.command = "submit" => Dispatch(in) = runSubmit(in)
         /\ in.command = "doctor" => Dispatch(in) = runDoctor(in)
         /\ in.command = "explain-error" => Dispatch(in) = runExplainError(in)
BY Zenon DEF Dispatch

\* A command that wrote in a mode the caller asked for wrote what it reads.
LEMMA WrittenReadsOne ==
  ASSUME NEW out, NEW json \in BOOLEAN, NEW wants, Written(out, json), wants => json
  PROVE  ReadsOne(out, wants)
BY WrittenDocumented, DocumentedReadsOne

\* Before --quiet, every command writes what its caller reads.
LEMMA RunReadsOne ==
  ASSUME NEW in, in.command \in Commands, ~(in.command = "inspect" /\ in.text)
  PROVE  ReadsOne(Run(in), WantsJSON(in))
<1>1. PICK flag \in BOOLEAN : flag = FlagJSON(in)
  BY DEF FlagJSON
<1>2. PICK json \in BOOLEAN : json = resolveJSONMode(in)
  <2>1. resolveJSONMode(in) \in BOOLEAN
    BY DEF resolveJSONMode
  <2> QED  BY <2>1
<1>3. PICK wants \in BOOLEAN : wants = WantsJSON(in)
  BY DEF WantsJSON
<1>4. CASE in.command \in configured /\ Startup(in) # ExitOK
  <2>1. Run(in) = writeJSONError(flag, Startup(in))
    BY <1>1, <1>4 DEF Run
  <2>2. Written(Run(in), flag)
    BY <2>1 DEF Written
  <2>3. wants => flag
    BY <1>1, <1>3, <1>4 DEF WantsJSON, FlagJSON
  <2> QED  BY <1>3, <2>2, <2>3, WrittenReadsOne
<1>5. CASE in.command \in configured /\ Startup(in) = ExitOK
  <2>1. Run(in) = Dispatch(in)
    BY <1>5 DEF Run
  <2>2. wants => json
    <3>1. CASE FlagJSON(in)
      BY <1>2, <3>1, FlagWins DEF resolveJSONMode
    <3>2. CASE ~FlagJSON(in) /\ wants
      <4>1. in.jsonFlag = "unset" /\ resolvePrecedence(in.format, in, "text") = "json"
        BY <1>3, <3>2 DEF WantsJSON, FlagJSON
      <4>2. resolveFormatValue(in, "text") # {}
        BY <1>5, StartupSettles
      <4> QED  BY <1>2, <4>1, <4>2, SettingDecides
    <3> QED  BY <3>1, <3>2
  <2>3. CASE in.command = "sign"
    BY <1>2, <1>3, <2>1, <2>2, <2>3, DispatchCases, SignWrites, WrittenReadsOne
  <2>4. CASE in.command = "verify"
    BY <1>2, <1>3, <2>1, <2>2, <2>4, DispatchCases, VerifyWrites, WrittenReadsOne
  <2>5. CASE in.command = "diff"
    BY <1>2, <1>3, <2>1, <2>2, <2>5, DispatchCases, DiffWrites, WrittenReadsOne
  <2>6. CASE in.command = "payload"
    BY <1>2, <1>3, <2>1, <2>2, <2>6, DispatchCases, PayloadWrites, WrittenReadsOne
  <2>7. CASE in.command = "delegates"
    BY <1>2, <1>3, <2>1, <2>2, <2>7, DispatchCases, DelegatesWrites, WrittenReadsOne
  <2>8. CASE in.command = "inspect"
    <3>1. PICK report \in BOOLEAN : report = ~in.text /\ report
      BY <2>8
    <3>2. Written(Run(in), json) \/ Written(Run(in), report)
      BY <1>2, <2>1, <2>8, <3>1, DispatchCases, InspectWrites
    <3> QED  BY <1>3, <2>2, <3>1, <3>2, WrittenReadsOne
  <2> QED  BY <1>5, <2>3, <2>4, <2>5, <2>6, <2>7, <2>8 DEF configured
<1>6. CASE in.command \notin configured
  <2>1. Run(in) = Dispatch(in)
    BY <1>6 DEF Run
  <2>2. wants => flag
    BY <1>1, <1>3, <1>6 DEF WantsJSON, FlagJSON
  <2>3. CASE in.command = "tree"
    <3>1. PICK mode \in BOOLEAN :
             mode = (FlagJSON(in) \/ "json" \in resolveFormatValue(in, "ascii"))
      OBVIOUS
    <3>2. Written(Run(in), flag) \/ Written(Run(in), mode)
      BY <1>1, <2>1, <2>3, <3>1, DispatchCases, TreeWrites
    <3>3. flag => mode
      BY <1>1, <3>1
    <3> QED  BY <1>3, <2>2, <3>2, <3>3, WrittenReadsOne
  <2>4. CASE in.command = "simulate"
    BY <1>1, <1>3, <2>1, <2>2, <2>4, DispatchCases, SimulateWrites, WrittenReadsOne
  <2>5. CASE in.command = "submit"
    BY <1>1, <1>3, <2>1, <2>2, <2>5, DispatchCases, SubmitWrites, WrittenReadsOne
  <2>6. CASE in.command = "doctor"
    BY <1>1, <1>3, <2>1, <2>2, <2>6, DispatchCases, DoctorReadsOne DEF ReadsOne
  <2>7. CASE in.command = "explain-error"
    <3>1. \/ Written(Run(in), flag)
          \/ flag /\ Written(Run(in), TRUE)
          \/ ~flag /\ Run(in) = Outcome(ExitOK, {}, <<>>)
      BY <1>1, <2>1, <2>7, DispatchCases, ExplainWrites
    <3>2. CASE ~flag /\ Run(in) = Outcome(ExitOK, {}, <<>>)
      <4>1. Run(in).docs = <<>>
        BY <3>2 DEF Outcome
      <4> QED  BY <1>3, <2>2, <3>2, <4>1 DEF ReadsOne
    <3> QED  BY <1>3, <2>2, <3>1, <3>2, WrittenReadsOne
  <2> QED  BY <1>6, <2>3, <2>4, <2>5, <2>6, <2>7 DEF Commands
<1> QED  BY <1>4, <1>5, <1>6

\* For any command line, a program that asked for JSON reads exactly one document.
THEOREM OneDocumentIsRead == CliSpec => []OneDocument
<1> DEFINE Inv == commandLine \in CommandLines /\ OneDocument
<1>1. CliInit => Inv
  BY DEF CliInit, OneDocument
<1>2. Inv /\ [Execute]_cliVars => Inv'
  <2> SUFFICES ASSUME Inv, [Execute]_cliVars PROVE Inv'
    OBVIOUS
  <2>1. CASE UNCHANGED cliVars
    BY <2>1 DEF cliVars, OneDocument
  <2>2. CASE Execute
    <3>1. commandLine' = commandLine /\ ended' = {runWithStdin(commandLine)}
      BY <2>2 DEF Execute
    <3> DEFINE in == commandLine
               out == runWithStdin(in)
    <3>2. ASSUME in.parses, in.level \in {"none", "quiet", "verbose"}, in.command \in Commands,
                 ~(in.command = "inspect" /\ in.text)
          PROVE  /\ \A i \in DOMAIN out.docs :
                      out.docs[i].kind = "error" => out.docs[i].exit = out.exit
                 /\ Len(out.docs) <= 1
                 /\ WantsJSON(in) /\ ~(in.level = "quiet" /\ out.exit = ExitOK) => Len(out.docs) = 1
      <4>1. in.level \notin {"both", "unreadable"} /\ in.command # "unknown"
        BY <3>2 DEF Commands, configured
      <4>2. out = verbosityOutput(in, Run(in))
        BY <3>2, <4>1 DEF runWithStdin
      <4>3. ReadsOne(Run(in), WantsJSON(in))
        BY <3>2, RunReadsOne
      <4>4. CASE in.level = "quiet" /\ Run(in).exit = ExitOK
        <5>1. out.docs = <<>> /\ out.exit = ExitOK
          BY <4>2, <4>4 DEF verbosityOutput, Outcome
        <5> QED  BY <4>4, <5>1
      <4>5. CASE ~(in.level = "quiet" /\ Run(in).exit = ExitOK)
        <5>1. out = Run(in)
          BY <4>2, <4>5 DEF verbosityOutput
        <5> QED  BY <4>3, <5>1 DEF ReadsOne
      <4> QED  BY <4>4, <4>5
    <3> QED  BY <3>1, <3>2 DEF OneDocument
  <2> QED  BY <2>1, <2>2
<1> QED  BY <1>1, <1>2, PTL DEF CliSpec

-----------------------------------------------------------------------------
(* The command line tool: what its exit code says.                            *)

\* The exit codes of a failure are not zero.
LEMMA FailuresAreNotOK ==
  /\ ExitGeneralError # ExitOK /\ ExitUsageError # ExitOK
  /\ ExitSigningRefusal # ExitOK /\ ExitVerificationFailed # ExitOK
BY DEF ExitOK, ExitGeneralError, ExitUsageError, ExitSigningRefusal, ExitVerificationFailed

\* A chain of two checks ends in zero only if none of them failed.
LEMMA First2 ==
  ASSUME NEW a, NEW b
  PROVE  First(<<a, b>>) = ExitOK <=> a = ExitOK /\ b = ExitOK
<1>1. PICK codes : codes = <<a, b>>
  OBVIOUS
<1>2. DOMAIN codes = 1 .. 2 /\ codes[1] = a /\ codes[2] = b
  BY <1>1
<1>3. First(codes) = ExitOK <=> \A i \in 1 .. 2 : codes[i] = ExitOK
  BY <1>2, FirstFound
<1> QED  BY <1>1, <1>2, <1>3

\* A chain of three checks ends in zero only if none of them failed.
LEMMA First3 ==
  ASSUME NEW a, NEW b, NEW c
  PROVE  First(<<a, b, c>>) = ExitOK <=> a = ExitOK /\ b = ExitOK /\ c = ExitOK
<1>1. PICK codes : codes = <<a, b, c>>
  OBVIOUS
<1>2. DOMAIN codes = 1 .. 3 /\ codes[1] = a /\ codes[2] = b /\ codes[3] = c
  BY <1>1
<1>3. First(codes) = ExitOK <=> \A i \in 1 .. 3 : codes[i] = ExitOK
  BY <1>2, FirstFound
<1> QED  BY <1>1, <1>2, <1>3

\* A chain of five checks ends in zero only if none of them failed.
LEMMA First5 ==
  ASSUME NEW a, NEW b, NEW c, NEW d, NEW e, First(<<a, b, c, d, e>>) = ExitOK
  PROVE  a = ExitOK /\ b = ExitOK /\ c = ExitOK /\ d = ExitOK /\ e = ExitOK
<1>1. PICK codes : codes = <<a, b, c, d, e>>
  OBVIOUS
<1>2. /\ DOMAIN codes = 1 .. 5 /\ codes[1] = a /\ codes[2] = b /\ codes[3] = c
      /\ codes[4] = d /\ codes[5] = e
  BY <1>1
<1>3. \A i \in 1 .. 5 : codes[i] = ExitOK
  BY <1>1, <1>2, FirstFound
<1> QED  BY <1>2, <1>3

\* A loop over the entries ends in zero only if every entry did.
LEMMA EachOK ==
  ASSUME NEW in, Possible(in), NEW codes, DOMAIN codes = DOMAIN in.items, First(codes) = ExitOK
  PROVE  \A i \in DOMAIN in.items : codes[i] = ExitOK
BY FirstFound DEF Possible

\* What an outcome says.
LEMMA OutcomeFields ==
  ASSUME NEW json \in BOOLEAN, NEW results, NEW code
  PROVE  /\ writeJSONError(json, code).exit = code /\ writeJSONError(json, code).results = {}
         /\ Reported(json, results, code).exit = code
         /\ Reported(json, results, code).results = results
BY DEF writeJSONError, Reported, Outcome

\* A line of a batch that decodes is an entry.
LEMMA LineDecoded ==
  ASSUME NEW item, item.line \in {"entry", "envelope", "garbage", "unread"},
         decodeBatchLine(item) = ExitOK
  PROVE  item.line = "entry"
<1>1. CASE item.line \in {"envelope", "garbage"}
  <2>1. UsageIf(item.line \in {"envelope", "garbage"}) = ExitUsageError
    BY <1>1 DEF UsageIf
  <2> QED  BY <2>1, First2, FailuresAreNotOK DEF decodeBatchLine
<1>2. CASE item.line = "unread"
  <2>1. GeneralIf(item.line = "unread") = ExitGeneralError
    BY <1>2 DEF GeneralIf
  <2> QED  BY <2>1, First2, FailuresAreNotOK DEF decodeBatchLine
<1> QED  BY <1>1, <1>2

\* Only a signing that worked gives zero.
LEMMA SigningCode ==
  ASSUME NEW error, exitCodeForSigningError(error) = ExitOK
  PROVE  error = "ok"
<1> SUFFICES ASSUME error # "ok" PROVE FALSE
  OBVIOUS
<1>1. exitCodeForSigningError(error) \in
        {ExitSigningRefusal, ExitVerificationFailed, ExitGeneralError}
  <2>1. CASE error \in {"ErrNoMatchingCredentialNode", "ErrAlreadySigned",
                        "ErrSourceAccountCredentials", "ErrMissingSigner", "errExecSignerRefused"}
    <3>1. error \notin {"ErrSignatureMismatch", "ErrInvalidExpiration"}
      BY <2>1
    <3> QED  BY <2>1, <3>1, Zenon DEF exitCodeForSigningError
  <2>2. CASE error \in {"ErrSignatureMismatch", "ErrInvalidExpiration"}
    <3>1. error \notin {"ErrNoMatchingCredentialNode", "ErrAlreadySigned",
                        "ErrSourceAccountCredentials", "ErrMissingSigner", "errExecSignerRefused"}
      BY <2>2
    <3> QED  BY <2>2, <3>1, Zenon DEF exitCodeForSigningError
  <2>3. CASE /\ error \notin {"ErrNoMatchingCredentialNode", "ErrAlreadySigned",
                        "ErrSourceAccountCredentials", "ErrMissingSigner", "errExecSignerRefused"}
             /\ error \notin {"ErrSignatureMismatch", "ErrInvalidExpiration"}
    BY <2>3, Zenon DEF exitCodeForSigningError
  <2> QED  BY <2>1, <2>2, <2>3
<1> QED  BY <1>1, FailuresAreNotOK

\* sign: zero only for all of the entries, and otherwise nothing is printed.
LEMMA SignTold ==
  ASSUME NEW in, Possible(in), NEW json \in BOOLEAN, NEW out, out = runSign(in, json)
  PROVE  /\ out.exit = ExitOK =>
              /\ \A i \in DOMAIN in.items : in.items[i].line = "entry" /\ in.items[i].authorize = "ok"
              /\ out.results = Everything(in)
         /\ out.exit # ExitOK => out.results = {}
<1> DEFINE rpc == resolveRPCURL(in)
           code == First(<<UsageIf(in.given \in {"both", "neither"}),
                           UsageIf(in.given = "entries" /\ in.for),
                           resolveNetwork(in, resolveNetworkValue(in), rpc), resolveValidUntil(in, rpc), resolveSigner(in)>>)
           lines == [i \in DOMAIN in.items |->
                       First(<<decodeBatchLine(in.items[i]), inferSingleEntryAddress(in, in.items[i]),
                               exitCodeForSigningError(in.items[i].authorize)>>)]
           batch == First(<<readBatchEntries(in), First(lines)>>)
           signings == [i \in DOMAIN in.items |-> exitCodeForSigningError(in.items[i].authorize)]
           single == First(<<resolveEntryArg(in), decodeEntryOrEnvelope(in),
                             UsageIf(in.shape = "envelope" /\ in.for),
                             First([i \in DOMAIN in.items |-> inferSingleEntryAddress(in, in.items[i])]),
                             First(signings)>>)
           all == Reported(json, Everything(in), ExitOK)
<1>1. out = IF code # ExitOK THEN writeJSONError(json, code)
            ELSE IF in.given = "entries"
                   THEN IF batch # ExitOK THEN writeJSONError(json, batch) ELSE all
            ELSE IF single # ExitOK THEN writeJSONError(json, single) ELSE all
  BY DEF runSign, runSignBatch, runSignEntry, Each, summary
<1>2. batch = ExitOK =>
        \A i \in DOMAIN in.items : in.items[i].line = "entry" /\ in.items[i].authorize = "ok"
  <2> SUFFICES ASSUME batch = ExitOK, NEW i \in DOMAIN in.items
               PROVE  in.items[i].line = "entry" /\ in.items[i].authorize = "ok"
    OBVIOUS
  <2>1. First(lines) = ExitOK
    BY First2
  <2>2. lines[i] = ExitOK
    BY <2>1, EachOK
  <2>3. decodeBatchLine(in.items[i]) = ExitOK
        /\ exitCodeForSigningError(in.items[i].authorize) = ExitOK
    BY <2>2, First3
  <2>4. in.items[i].line \in {"entry", "envelope", "garbage", "unread"}
    BY DEF Possible
  <2> QED  BY <2>3, <2>4, LineDecoded, SigningCode
<1>3. in.given # "entries" /\ single = ExitOK =>
        \A i \in DOMAIN in.items : in.items[i].line = "entry" /\ in.items[i].authorize = "ok"
  <2> SUFFICES ASSUME in.given # "entries", single = ExitOK, NEW i \in DOMAIN in.items
               PROVE  in.items[i].line = "entry" /\ in.items[i].authorize = "ok"
    OBVIOUS
  <2>1. First(signings) = ExitOK
    BY First5, Zenon
  <2>2. signings[i] = ExitOK
    BY <2>1, EachOK
  <2> QED  BY <2>2, SigningCode DEF Possible
<1> HIDE DEF code, lines, batch, signings, single, all
<1>4. \/ \E c : c # ExitOK /\ out = writeJSONError(json, c)
      \/ out = all /\ (batch = ExitOK \/ (in.given # "entries" /\ single = ExitOK))
  BY <1>1
<1>5. all.exit = ExitOK /\ all.results = Everything(in)
  BY OutcomeFields DEF all
<1> QED  BY <1>2, <1>3, <1>4, <1>5, OutcomeFields

\* A chain of four checks ends in zero only if none of them failed.
LEMMA First4 ==
  ASSUME NEW a, NEW b, NEW c, NEW d, First(<<a, b, c, d>>) = ExitOK
  PROVE  a = ExitOK /\ b = ExitOK /\ c = ExitOK /\ d = ExitOK
<1>1. PICK codes : codes = <<a, b, c, d>>
  OBVIOUS
<1>2. DOMAIN codes = 1 .. 4 /\ codes[1] = a /\ codes[2] = b /\ codes[3] = c /\ codes[4] = d
  BY <1>1
<1>3. \A i \in 1 .. 4 : codes[i] = ExitOK
  BY <1>1, <1>2, FirstFound
<1> QED  BY <1>2, <1>3

\* A command that prints a result for every entry, or an error.
LEMMA AllOrError ==
  ASSUME NEW json \in BOOLEAN, NEW code, NEW results, NEW out,
         out = IF code # ExitOK THEN writeJSONError(json, code) ELSE Reported(json, results, ExitOK)
  PROVE  out.exit = ExitOK => code = ExitOK /\ out.results = results
BY OutcomeFields

\* An entry with a report that says nothing against it is in order under verify.
LEMMA ReportIsGood ==
  ASSUME NEW in, in.validUntil \in Nat, NEW item, unreportable(in, item) = ExitOK, verdict(in, item) = ExitOK
  PROVE  /\ item.verify = "ok"
         /\ in.validUntil \in 1 .. MaxLedger => item.expiration = in.validUntil
         /\ \A i \in DOMAIN item.verdicts :
              item.verdicts[i] \in {"verified"} \cup IF in.allowUnsigned THEN {"unsigned"} ELSE {}
<1>1. item.verify = "ok" /\ ~ExpirationDiffers(in, item)
  BY FailuresAreNotOK DEF unreportable, VerificationIf, ExpirationDiffers
<1>2. ~verifyFailed(item, in.allowUnsigned)
  BY FailuresAreNotOK DEF verdict, VerificationIf, verifyFailed
<1>3. ASSUME in.validUntil \in 1 .. MaxLedger PROVE in.validUntil % (MaxLedger + 1) = in.validUntil
  BY <1>3, CliAssumption
<1> QED  BY <1>1, <1>2, <1>3 DEF ExpirationDiffers, verifyFailed

\* verify: zero only if every entry was read, reported on and found good.
LEMMA VerifyTold ==
  ASSUME NEW in, Possible(in), NEW json \in BOOLEAN, NEW out, out = runVerify(in, json),
         out.exit = ExitOK
  PROVE  /\ \A i \in DOMAIN in.items : LET item == in.items[i]
              IN /\ item.line = "entry" /\ item.verify = "ok"
                 /\ in.validUntil \in 1 .. MaxLedger => item.expiration = in.validUntil
                 /\ \A n \in DOMAIN item.verdicts :
                      item.verdicts[n] \in {"verified"} \cup IF in.allowUnsigned THEN {"unsigned"} ELSE {}
         /\ out.results = Everything(in)
<1> DEFINE early == First(<<resolveNetwork(in, resolveNetworkValue(in), resolveRPCURL(in)), readBatchEntries(in)>>)
           read == [i \in DOMAIN in.items |->
                      First(<<decodeBatchLine(in.items[i]), unreportable(in, in.items[i])>>)]
           codes == [i \in DOMAIN in.items |-> First(<<read[i], verdict(in, in.items[i])>>)]
           reports == [i \in DOMAIN in.items |-> unreportable(in, in.items[i])]
           verdicts == [i \in DOMAIN in.items |-> verdict(in, in.items[i])]
           code == First(<<UsageIf(in.given = "neither"), decodeEntryOrEnvelope(in),
                           resolveNetwork(in, resolveNetworkValue(in), resolveRPCURL(in)), First(reports)>>)
<1>1. out = IF in.given = "both" THEN writeJSONError(json, ExitUsageError)
            ELSE IF in.given = "entries"
                   THEN IF early # ExitOK THEN writeJSONError(json, early)
                        ELSE Reported(json, Passing(in, read), First(codes))
            ELSE IF code # ExitOK THEN writeJSONError(json, code)
            ELSE Reported(json, Everything(in), First(verdicts))
  BY DEF runVerify, runVerifyBatch, Each, summary
<1>2. First(codes) = ExitOK => Passing(in, read) = Everything(in) /\
        \A i \in DOMAIN in.items :
          /\ in.items[i].line = "entry"
          /\ unreportable(in, in.items[i]) = ExitOK /\ verdict(in, in.items[i]) = ExitOK
  <2> SUFFICES ASSUME First(codes) = ExitOK
               PROVE  Passing(in, read) = Everything(in) /\
                      \A i \in DOMAIN in.items :
                        /\ in.items[i].line = "entry"
                        /\ unreportable(in, in.items[i]) = ExitOK /\ verdict(in, in.items[i]) = ExitOK
    OBVIOUS
  <2>1. \A i \in DOMAIN in.items : codes[i] = ExitOK
    BY EachOK
  <2>2. \A i \in DOMAIN in.items : read[i] = ExitOK /\ verdict(in, in.items[i]) = ExitOK
    BY <2>1, First2
  <2>3. \A i \in DOMAIN in.items : decodeBatchLine(in.items[i]) = ExitOK
                                   /\ unreportable(in, in.items[i]) = ExitOK
    BY <2>2, First2
  <2>4. \A i \in DOMAIN in.items : in.items[i].line \in {"entry", "envelope", "garbage", "unread"}
    BY DEF Possible
  <2>5. Passing(in, read) = Everything(in)
    BY <2>2 DEF Passing, Everything
  <2>6. \A i \in DOMAIN in.items : in.items[i].line = "entry"
    BY <2>3, <2>4, LineDecoded
  <2> HIDE DEF read
  <2> QED  BY <2>2, <2>3, <2>5, <2>6
<1>3. in.given # "entries" /\ code = ExitOK /\ First(verdicts) = ExitOK =>
        \A i \in DOMAIN in.items :
          /\ in.items[i].line = "entry"
          /\ unreportable(in, in.items[i]) = ExitOK /\ verdict(in, in.items[i]) = ExitOK
  <2> SUFFICES ASSUME in.given # "entries", code = ExitOK, First(verdicts) = ExitOK
               PROVE  \A i \in DOMAIN in.items :
                        /\ in.items[i].line = "entry"
                        /\ unreportable(in, in.items[i]) = ExitOK /\ verdict(in, in.items[i]) = ExitOK
    OBVIOUS
  <2>1. First(reports) = ExitOK
    BY First4 DEF UsageIf
  <2>2. \A i \in DOMAIN in.items : reports[i] = ExitOK
    BY <2>1, EachOK
  <2>3. \A i \in DOMAIN in.items : verdicts[i] = ExitOK
    BY EachOK
  <2> QED  BY <2>2, <2>3 DEF Possible
<1> HIDE DEF early, read, codes, reports, verdicts, code
<1>4. \/ \E c : c # ExitOK /\ out = writeJSONError(json, c)
      \/ out = Reported(json, Passing(in, read), First(codes))
      \/ in.given # "entries" /\ code = ExitOK /\ out = Reported(json, Everything(in), First(verdicts))
  BY <1>1, FailuresAreNotOK
<1>5. /\ out.results = Everything(in)
      /\ \A i \in DOMAIN in.items :
          /\ in.items[i].line = "entry"
          /\ unreportable(in, in.items[i]) = ExitOK /\ verdict(in, in.items[i]) = ExitOK
  BY <1>2, <1>3, <1>4, OutcomeFields
<1>6. in.validUntil \in Nat
  BY DEF Possible
<1> QED  BY <1>5, <1>6, ReportIsGood

\* diff: zero only if every pair was read, compared and found clean.
LEMMA DiffTold ==
  ASSUME NEW in, Possible(in), in.command = "diff", NEW json \in BOOLEAN,
         NEW out, out = runDiff(in, json), out.exit = ExitOK
  PROVE  /\ \A i \in DOMAIN in.items : in.items[i].line = "entry" /\ in.items[i].diff = "clean"
         /\ out.results = Everything(in)
<1> DEFINE code == First(<<UsageIf(in.given \in {"both", "neither", "one_side"}
                                   \/ in.source = "both_stdin")>>)
           early == First(<<readBatchEntries(in), UsageIf(in.uneven)>>)
           read == [i \in DOMAIN in.items |->
                      First(<<decodeBatchLine(in.items[i]), GeneralIf(in.items[i].diff = "refused")>>)]
           codes == [i \in DOMAIN in.items |->
                       First(<<read[i], VerificationIf(in.items[i].diff = "stale")>>)]
           one == VerificationIf(in.items[1].diff = "stale")
<1>1. out = IF code # ExitOK THEN writeJSONError(json, code)
            ELSE IF in.given = "entries"
                   THEN IF early # ExitOK THEN writeJSONError(json, early)
                        ELSE Reported(json, Passing(in, read), First(codes))
            ELSE IF decodeEntry(in) # ExitOK THEN writeJSONError(json, decodeEntry(in))
            ELSE IF in.items[1].diff = "refused" THEN writeJSONError(json, ExitGeneralError)
            ELSE Reported(json, Everything(in), one)
  BY DEF runDiff, runDiffBatch, Each, summary
<1>2. First(codes) = ExitOK => Passing(in, read) = Everything(in) /\
        \A i \in DOMAIN in.items : in.items[i].line = "entry" /\ in.items[i].diff = "clean"
  <2> SUFFICES ASSUME First(codes) = ExitOK
               PROVE  Passing(in, read) = Everything(in) /\
                      \A i \in DOMAIN in.items : in.items[i].line = "entry" /\ in.items[i].diff = "clean"
    OBVIOUS
  <2>1. \A i \in DOMAIN in.items : codes[i] = ExitOK
    BY EachOK
  <2>2. \A i \in DOMAIN in.items : read[i] = ExitOK /\ VerificationIf(in.items[i].diff = "stale") = ExitOK
    <3> SUFFICES ASSUME NEW i \in DOMAIN in.items
                 PROVE  read[i] = ExitOK /\ VerificationIf(in.items[i].diff = "stale") = ExitOK
      OBVIOUS
    <3>1. PICK v : v = VerificationIf(in.items[i].diff = "stale")
      OBVIOUS
    <3>2. codes[i] = First(<<read[i], v>>)
      BY <3>1, Zenon
    <3> HIDE DEF read, codes
    <3> QED  BY <2>1, <3>1, <3>2, First2 DEF VerificationIf
  <2>3. \A i \in DOMAIN in.items : decodeBatchLine(in.items[i]) = ExitOK
                                   /\ GeneralIf(in.items[i].diff = "refused") = ExitOK
    <3> SUFFICES ASSUME NEW i \in DOMAIN in.items
                 PROVE  decodeBatchLine(in.items[i]) = ExitOK
                        /\ GeneralIf(in.items[i].diff = "refused") = ExitOK
      OBVIOUS
    <3>1. PICK v : v = GeneralIf(in.items[i].diff = "refused")
      OBVIOUS
    <3>2. read[i] = First(<<decodeBatchLine(in.items[i]), v>>)
      BY <3>1, Zenon
    <3> HIDE DEF read
    <3> QED  BY <2>2, <3>1, <3>2, First2 DEF GeneralIf
  <2>4. \A i \in DOMAIN in.items : /\ in.items[i].line \in {"entry", "envelope", "garbage", "unread"}
                                   /\ in.items[i].diff \in {"clean", "stale", "refused"}
    BY DEF Possible
  <2>5. Passing(in, read) = Everything(in)
    BY <2>2 DEF Passing, Everything
  <2>6. \A i \in DOMAIN in.items : in.items[i].diff # "stale" /\ in.items[i].diff # "refused"
    BY <2>2, <2>3, FailuresAreNotOK DEF VerificationIf, GeneralIf
  <2> QED  BY <2>3, <2>4, <2>5, <2>6, LineDecoded
<1>3. in.given # "entries" /\ in.items[1].diff # "refused" /\ one = ExitOK =>
        \A i \in DOMAIN in.items : in.items[i].line = "entry" /\ in.items[i].diff = "clean"
  BY FailuresAreNotOK DEF VerificationIf, Possible
<1> HIDE DEF code, early, read, codes, one
<1>4. \/ \E c : c # ExitOK /\ out = writeJSONError(json, c)
      \/ out = Reported(json, Passing(in, read), First(codes))
      \/ /\ in.given # "entries" /\ in.items[1].diff # "refused"
         /\ out = Reported(json, Everything(in), one)
  BY <1>1, FailuresAreNotOK
<1> QED  BY <1>2, <1>3, <1>4, OutcomeFields

\* payload: zero only if every entry has a payload, or is listed without one.
LEMMA PayloadTold ==
  ASSUME NEW in, Possible(in), in.command = "payload", NEW json \in BOOLEAN,
         NEW out, out = runPayload(in, json), out.exit = ExitOK
  PROVE  /\ \A i \in DOMAIN in.items : LET item == in.items[i]
              IN /\ item.line = "entry" /\ item.verify = "ok"
                 /\ item.arm = "source_account" => in.shape = "envelope"
         /\ out.results = Everything(in)
<1> DEFINE rpc == resolveRPCURL(in)
           payloads == [i \in DOMAIN in.items |-> preimageError(in, in.items[i])]
           code == First(<<resolveEntryArg(in), decodeEntryOrEnvelope(in), resolveNetwork(in, resolveNetworkValue(in), rpc),
                           resolveValidUntil(in, rpc), First(payloads)>>)
<1>1. out = IF code # ExitOK THEN writeJSONError(json, code) ELSE Reported(json, Everything(in), ExitOK)
  BY DEF runPayload, Each
<1>2. code = ExitOK /\ out.results = Everything(in)
  <2> HIDE DEF code
  <2> QED  BY <1>1, AllOrError
<1>3. First(payloads) = ExitOK
  BY <1>2, First5
<1>4. \A i \in DOMAIN in.items : preimageError(in, in.items[i]) = ExitOK
  BY <1>3, EachOK
<1>5. \A i \in DOMAIN in.items :
        /\ in.items[i].verify = "ok"
        /\ in.items[i].arm = "source_account" => in.shape = "envelope"
  BY <1>4, FailuresAreNotOK DEF preimageError, VerificationIf, Possible
<1>6. \A i \in DOMAIN in.items : in.items[i].line = "entry"
  BY DEF Possible
<1> QED  BY <1>2, <1>5, <1>6

\* Only a wrapping that worked gives zero.
LEMMA WrapCode ==
  ASSUME NEW error, wrapError(error) = ExitOK
  PROVE  error = "ok"
<1> SUFFICES ASSUME error # "ok" PROVE FALSE
  OBVIOUS
<1>1. wrapError(error) \in {ExitSigningRefusal, ExitVerificationFailed, ExitGeneralError}
  <2>1. CASE error \in {"ErrUnsupportedCredentials", "ErrAlreadySigned", "ErrDuplicateDelegate"}
    <3>1. error # "ErrInvalidExpiration"
      BY <2>1
    <3> QED  BY <2>1, <3>1, Zenon DEF wrapError
  <2>2. CASE error = "ErrInvalidExpiration"
    <3>1. error \notin {"ErrUnsupportedCredentials", "ErrAlreadySigned", "ErrDuplicateDelegate"}
      BY <2>2
    <3> QED  BY <2>2, <3>1, Zenon DEF wrapError
  <2>3. CASE /\ error \notin {"ErrUnsupportedCredentials", "ErrAlreadySigned", "ErrDuplicateDelegate"}
             /\ error # "ErrInvalidExpiration"
    BY <2>3, Zenon DEF wrapError
  <2> QED  BY <2>1, <2>2, <2>3
<1> QED  BY <1>1, FailuresAreNotOK

\* Only a simulation that worked gives zero.
LEMMA SimulateCode ==
  ASSUME NEW error, exitCodeForSimulateError(error) = ExitOK
  PROVE  error = "ok"
<1> SUFFICES ASSUME error # "ok" PROVE FALSE
  OBVIOUS
<1>1. exitCodeForSimulateError(error) \in {ExitUsageError, ExitGeneralError}
  <2>1. CASE error \in {"ErrDecodeLimit", "ErrNoInvokeOperation"}
    BY <2>1, Zenon DEF exitCodeForSimulateError
  <2>2. CASE error \notin {"ErrDecodeLimit", "ErrNoInvokeOperation"}
    BY <2>2, Zenon DEF exitCodeForSimulateError
  <2> QED  BY <2>1, <2>2
<1> QED  BY <1>1, FailuresAreNotOK

\* delegates: zero only if the entry was wrapped.
LEMMA DelegatesTold ==
  ASSUME NEW in, Possible(in), in.command = "delegates", NEW json \in BOOLEAN,
         NEW out, out = runDelegates(in, json), out.exit = ExitOK
  PROVE  /\ \A i \in DOMAIN in.items : in.items[i].line = "entry" /\ in.items[i].wrap = "ok"
         /\ out.results = Everything(in)
<1> DEFINE code == First(<<resolveEntryArg(in), decodeEntry(in), resolveValidUntil(in, resolveRPCURL(in)),
                           UsageIf(in.tree \in {"bad_json", "none"}), wrapError(in.items[1].wrap)>>)
<1>1. out = IF code # ExitOK THEN writeJSONError(json, code) ELSE Reported(json, Everything(in), ExitOK)
  BY DEF runDelegates
<1>2. code = ExitOK /\ out.results = Everything(in)
  <2> HIDE DEF code
  <2> QED  BY <1>1, AllOrError
<1>3. wrapError(in.items[1].wrap) = ExitOK
  BY <1>2, First5 DEF UsageIf
<1>4. in.items[1].wrap = "ok"
  BY <1>3, WrapCode
<1> QED  BY <1>2, <1>4 DEF Possible

\* The inspection loop ends in zero only if every entry was inspected.
LEMMA InspectionsHold ==
  ASSUME NEW in, Possible(in), Inspected(in) = ExitOK
  PROVE  \A i \in DOMAIN in.items : in.items[i].inspects
<1> DEFINE codes == [i \in DOMAIN in.items |-> GeneralIf(~in.items[i].inspects)]
<1>1. First(codes) = ExitOK
  BY Zenon DEF Inspected, Each
<1>2. \A i \in DOMAIN in.items : codes[i] = ExitOK
  BY <1>1, EachOK
<1> QED  BY <1>2, FailuresAreNotOK DEF GeneralIf

\* inspect: zero only if every entry was read and inspected.
LEMMA InspectTold ==
  ASSUME NEW in, Possible(in), NEW json \in BOOLEAN, NEW out, out = runInspect(in, json),
         out.exit = ExitOK
  PROVE  /\ \A i \in DOMAIN in.items : in.items[i].line = "entry" /\ in.items[i].inspects
         /\ out.results = Everything(in)
<1> DEFINE codes == [i \in DOMAIN in.items |->
                       First(<<decodeBatchLine(in.items[i]), GeneralIf(~in.items[i].inspects)>>)]
           code == First(<<UsageIf(in.given = "neither"), decodeEntryOrEnvelope(in), Inspected(in)>>)
<1>1. PICK asJSON \in BOOLEAN : asJSON = ~in.text
  <2>1. (~in.text) \in BOOLEAN
    OBVIOUS
  <2> QED  BY <2>1
<1>2. out = IF in.given = "both" THEN writeJSONError(json, ExitUsageError)
            ELSE IF in.given = "entries"
                   THEN IF readBatchEntries(in) # ExitOK THEN writeJSONError(json, readBatchEntries(in))
                        ELSE Reported(json, Passing(in, codes), First(codes))
            ELSE IF code # ExitOK THEN writeJSONError(json, code)
            ELSE IF in.text /\ in.shape = "envelope" THEN Outcome(2, {}, <<>>)
            ELSE Reported(asJSON, Everything(in), ExitOK)
  BY <1>1, Zenon DEF runInspect, runInspectBatch, Each, summary
<1>3. First(codes) = ExitOK => Passing(in, codes) = Everything(in) /\
        \A i \in DOMAIN in.items : in.items[i].line = "entry" /\ in.items[i].inspects
  <2> SUFFICES ASSUME First(codes) = ExitOK
               PROVE  Passing(in, codes) = Everything(in) /\
                      \A i \in DOMAIN in.items : in.items[i].line = "entry" /\ in.items[i].inspects
    OBVIOUS
  <2>1. \A i \in DOMAIN in.items : codes[i] = ExitOK
    BY EachOK
  <2>2. \A i \in DOMAIN in.items : in.items[i].line = "entry" /\ in.items[i].inspects
    <3> SUFFICES ASSUME NEW i \in DOMAIN in.items
                 PROVE  in.items[i].line = "entry" /\ in.items[i].inspects
      OBVIOUS
    <3>1. PICK v : v = GeneralIf(~in.items[i].inspects)
      OBVIOUS
    <3>2. codes[i] = First(<<decodeBatchLine(in.items[i]), v>>)
      BY <3>1, Zenon
    <3> HIDE DEF codes
    <3>3. decodeBatchLine(in.items[i]) = ExitOK /\ v = ExitOK
      BY <2>1, <3>2, First2
    <3>4. in.items[i].inspects
      BY <3>1, <3>3, FailuresAreNotOK DEF GeneralIf
    <3>5. in.items[i].line \in {"entry", "envelope", "garbage", "unread"}
      BY DEF Possible
    <3> QED  BY <3>3, <3>4, <3>5, LineDecoded
  <2>3. Passing(in, codes) = Everything(in)
    BY <2>1 DEF Passing, Everything
  <2> HIDE DEF codes
  <2> QED  BY <2>2, <2>3
<1>4. in.given # "entries" /\ code = ExitOK =>
        \A i \in DOMAIN in.items : in.items[i].line = "entry" /\ in.items[i].inspects
  <2> SUFFICES ASSUME in.given # "entries", code = ExitOK
               PROVE  \A i \in DOMAIN in.items : in.items[i].line = "entry" /\ in.items[i].inspects
    OBVIOUS
  <2>1. Inspected(in) = ExitOK
    BY First3 DEF UsageIf
  <2>2. \A i \in DOMAIN in.items : in.items[i].inspects
    BY <2>1, InspectionsHold
  <2> QED  BY <2>2 DEF Possible
<1> HIDE DEF codes, code
<1>5. \/ \E c : c # ExitOK /\ out = writeJSONError(json, c)
      \/ out = Reported(json, Passing(in, codes), First(codes))
      \/ out = Outcome(2, {}, <<>>)
      \/ in.given # "entries" /\ code = ExitOK /\ out = Reported(asJSON, Everything(in), ExitOK)
  BY <1>2, FailuresAreNotOK
<1>6. Outcome(2, {}, <<>>).exit # ExitOK
  BY DEF Outcome, ExitOK
<1>7. CASE out = Reported(json, Passing(in, codes), First(codes))
  BY <1>3, <1>7, OutcomeFields
<1>8. CASE in.given # "entries" /\ code = ExitOK /\ out = Reported(asJSON, Everything(in), ExitOK)
  BY <1>4, <1>8, OutcomeFields
<1> QED  BY <1>5, <1>6, <1>7, <1>8, OutcomeFields

\* tree: zero only if every entry was inspected.
LEMMA TreeTold ==
  ASSUME NEW in, Possible(in), in.command = "tree", NEW out, out = runTree(in), out.exit = ExitOK
  PROVE  /\ \A i \in DOMAIN in.items : in.items[i].line = "entry" /\ in.items[i].inspects
         /\ out.results = Everything(in)
<1> DEFINE mode == resolveFormatValue(in, "ascii")
           early == First(<<loadConfig(in),
                            UsageIf(in.format.flag \notin {"unset", "ascii", "dot"} \/ mode = {})>>)
           code == First(<<decodeEntryOrEnvelope(in), Inspected(in)>>)
<1>1. PICK flag \in BOOLEAN : flag = FlagJSON(in)
  BY DEF FlagJSON
<1>2. PICK json \in BOOLEAN : json = (FlagJSON(in) \/ "json" \in mode)
  <2>1. (FlagJSON(in) \/ "json" \in mode) \in BOOLEAN
    BY DEF FlagJSON
  <2> QED  BY <2>1
<1>3. out = IF early # ExitOK THEN writeJSONError(flag, early)
            ELSE IF code # ExitOK THEN writeJSONError(json, code)
            ELSE Reported(json, Everything(in), ExitOK)
  BY <1>1, <1>2, Zenon DEF runTree
<1>4. code = ExitOK => \A i \in DOMAIN in.items : in.items[i].inspects
  BY First2, InspectionsHold
<1> HIDE DEF early, code
<1>5. early = ExitOK
  BY <1>3, OutcomeFields
<1>6. code = ExitOK /\ out.results = Everything(in)
  BY <1>3, <1>5, AllOrError
<1> QED  BY <1>4, <1>6 DEF Possible

\* simulate: zero only if the simulation worked.
LEMMA SimulateTold ==
  ASSUME NEW in, Possible(in), in.command = "simulate", NEW out, out = runSimulate(in),
         out.exit = ExitOK
  PROVE  in.simulated = "ok" /\ out.results = Everything(in)
<1>1. PICK flag \in BOOLEAN : flag = FlagJSON(in)
  BY DEF FlagJSON
<1>2. PICK a, b, c, d : /\ a = UsageIf(in.source = "") /\ b = UsageIf(endpoint(in) = "")
                        /\ c = UsageIf(in.source = "broken_stdin") /\ d = UsageIf(in.shape # "envelope")
  OBVIOUS
<1> DEFINE code == First(<<a, b, c, d, exitCodeForSimulateError(in.simulated)>>)
<1>3. out = IF code # ExitOK THEN writeJSONError(flag, code) ELSE Reported(flag, Everything(in), ExitOK)
  BY <1>1, <1>2, Zenon DEF runSimulate
<1>4. code = ExitOK /\ out.results = Everything(in)
  <2> HIDE DEF code
  <2> QED  BY <1>3, AllOrError
<1>5. exitCodeForSimulateError(in.simulated) = ExitOK
  BY <1>4, First5
<1> QED  BY <1>4, <1>5, SimulateCode

\* A chain of eight checks ends in zero only if none of them failed.
LEMMA First8 ==
  ASSUME NEW a, NEW b, NEW c, NEW d, NEW e, NEW f, NEW g, NEW h,
         First(<<a, b, c, d, e, f, g, h>>) = ExitOK
  PROVE  g = ExitOK /\ h = ExitOK
<1>1. PICK codes : codes = <<a, b, c, d, e, f, g, h>>
  OBVIOUS
<1>2. DOMAIN codes = 1 .. 8 /\ codes[7] = g /\ codes[8] = h
  BY <1>1
<1>3. \A i \in 1 .. 8 : codes[i] = ExitOK
  BY <1>1, <1>2, FirstFound
<1> QED  BY <1>2, <1>3

\* submit: zero only if nothing that must be signed was unsigned and the transaction succeeded.
LEMMA SubmitTold ==
  ASSUME NEW in, Possible(in), in.command = "submit", NEW out, out = runSubmit(in),
         out.exit = ExitOK
  PROVE  /\ \A i \in DOMAIN in.items : LET item == in.items[i]
              IN ~in.allowUnsigned => \A n \in DOMAIN item.verdicts :
                   item.verdicts[n] = "unsigned" => n = 1 /\ item.arm = "address_with_delegates"
         /\ in.submitted = "SUCCESS"
         /\ out.results = Everything(in)
<1>1. PICK flag \in BOOLEAN : flag = FlagJSON(in)
  BY DEF FlagJSON
<1>2. PICK a, b, e : /\ a = UsageIf(in.source = "" \/ FlagValue(in.secret) = "")
                     /\ b = UsageIf(endpoint(in) = "")
                     /\ e = UsageIf(in.source = "broken_stdin" \/ in.shape # "envelope")
  OBVIOUS
<1>3. PICK unsigned : unsigned = IF in.allowUnsigned THEN ExitOK ELSE unsignedRefusal(in)
  OBVIOUS
<1>4. PICK sent : sent = GeneralIf(in.submitted \in {"refused", "lost"})
  OBVIOUS
<1>5. PICK failed : failed = GeneralIf(in.submitted = "FAILED")
  OBVIOUS
<1> DEFINE code == First(<<a, b, resolveNetwork(in, FlagValue(in.network), endpoint(in)), resolveSeedKeypair(in), e,
                           submitInputs(in), unsigned, sent>>)
<1>6. out = IF code # ExitOK THEN writeJSONError(flag, code) ELSE Reported(flag, Everything(in), failed)
  BY <1>1, <1>2, <1>3, <1>4, <1>5, Zenon DEF runSubmit
<1>7. code = ExitOK /\ failed = ExitOK /\ out.results = Everything(in)
  <2> HIDE DEF code
  <2> QED  BY <1>6, OutcomeFields
<1>8. unsigned = ExitOK /\ sent = ExitOK
  BY <1>7, First8
<1>9. in.submitted = "SUCCESS"
  BY <1>4, <1>5, <1>7, <1>8, FailuresAreNotOK DEF GeneralIf, Possible
<1>10. \A i \in DOMAIN in.items : LET item == in.items[i]
         IN ~in.allowUnsigned => \A n \in DOMAIN item.verdicts :
              item.verdicts[n] = "unsigned" => n = 1 /\ item.arm = "address_with_delegates"
  BY <1>3, <1>8, FailuresAreNotOK DEF unsignedRefusal, UsageIf, Possible
<1> QED  BY <1>7, <1>9, <1>10

\* doctor: zero only if the toolchain and the endpoint answered.
LEMMA DoctorTold ==
  ASSUME NEW in, NEW out, out = runDoctor(in), out.exit = ExitOK
  PROVE  in.toolchain /\ in.reachable
<1>1. PICK flag \in BOOLEAN : flag = FlagJSON(in)
  BY DEF FlagJSON
<1> DEFINE mode == resolveFormatValue(in, "text")
           code == First(<<loadConfig(in), UsageIf(mode = {}),
                           UsageIf(in.format.flag # "unset" /\ mode \cap {"text", "json"} = {})>>)
           docs == IF mode # {"json"} THEN <<>>
                   ELSE IF doctorFails(in) THEN <<machineError(ExitGeneralError)>> ELSE <<Report>>
<1>2. PICK failed : failed = GeneralIf(doctorFails(in))
  OBVIOUS
<1>3. out = IF code # ExitOK THEN writeJSONError(flag, code) ELSE Outcome(failed, {}, docs)
  BY <1>1, <1>2, Zenon DEF runDoctor
<1> HIDE DEF code, docs
<1>4. Outcome(failed, {}, docs).exit = failed
  BY DEF Outcome
<1>5. failed = ExitOK
  BY <1>3, <1>4, OutcomeFields
<1>6. ~doctorFails(in)
  BY <1>2, <1>5, FailuresAreNotOK DEF GeneralIf, doctorFails
<1> QED  BY <1>6 DEF doctorFails

\* explain-error: under --json zero only if the entry was inspected; in text form a result
\* for an entry that was.
LEMMA ExplainTold ==
  ASSUME NEW in, Possible(in), in.command = "explain-error", NEW out, out = runExplainError(in),
         out.exit = ExitOK
  PROVE  /\ \A i \in DOMAIN in.items :
              /\ in.items[i].line = "entry"
              /\ in.jsonFlag = "true" => in.items[i].inspects
         /\ in.items[1].inspects => out.results = Everything(in)
<1>1. PICK flag \in BOOLEAN : flag = FlagJSON(in)
  BY DEF FlagJSON
<1> DEFINE code == First(<<UsageIf(in.source = ""), decodeEntry(in)>>)
<1>2. out = IF code # ExitOK THEN writeJSONError(flag, code)
            ELSE IF in.items[1].inspects THEN Reported(flag, Everything(in), ExitOK)
            ELSE IF flag THEN writeJSONError(TRUE, ExitGeneralError)
            ELSE Outcome(ExitOK, {}, <<>>)
  BY <1>1, Zenon DEF runExplainError
<1> HIDE DEF code
<1>3. flag => in.items[1].inspects
  <2> SUFFICES ASSUME flag, ~in.items[1].inspects PROVE FALSE
    OBVIOUS
  <2>1. \E c : c # ExitOK /\ out = writeJSONError(TRUE, c)
    BY <1>2, FailuresAreNotOK
  <2> QED  BY <2>1, OutcomeFields
<1>4. in.items[1].inspects => out.results = Everything(in)
  BY <1>2, OutcomeFields
<1>5. DOMAIN in.items = {1} /\ in.items[1].line = "entry"
  BY DEF Possible
<1>6. in.jsonFlag = "true" => flag
  BY <1>1 DEF FlagJSON
<1> QED  BY <1>3, <1>4, <1>5, <1>6

\* What ExitTellsTruth says of an outcome that is not kept quiet.
Told(in, out) ==
  /\ out.exit = ExitOK =>
       /\ in.command # "doctor" => \A i \in DOMAIN in.items : InOrder(in, in.items[i])
       /\ in.command # "doctor" /\ (in.command = "explain-error" => in.items[1].inspects) =>
            out.results = Everything(in)
       /\ in.command = "submit" => in.submitted = "SUCCESS"
       /\ in.command = "simulate" => in.simulated = "ok"
       /\ in.command = "doctor" => in.toolchain /\ in.reachable
  /\ in.command = "sign" /\ out.exit # ExitOK => out.results = {}

\* An error is never taken for a success.
LEMMA ErrorsTold ==
  ASSUME NEW in, NEW json \in BOOLEAN, NEW code, code # ExitOK
  PROVE  Told(in, writeJSONError(json, code))
BY OutcomeFields DEF Told

\* Every command's exit code is true of what it was asked about.
LEMMA DispatchTold ==
  ASSUME NEW in, Possible(in), in.command \in Commands
  PROVE  Told(in, Dispatch(in))
<1>1. PICK json \in BOOLEAN : json = resolveJSONMode(in)
  <2>1. resolveJSONMode(in) \in BOOLEAN
    BY DEF resolveJSONMode
  <2> QED  BY <2>1
<1>2. PICK out : out = Dispatch(in)
  OBVIOUS
<1>3. CASE in.command = "sign"
  <2>1. out = runSign(in, json)
    BY <1>1, <1>2, <1>3, DispatchCases, Zenon
  <2> QED  BY <1>2, <1>3, <2>1, SignTold DEF Told, InOrder
<1>4. CASE in.command = "verify"
  <2>1. out = runVerify(in, json)
    BY <1>1, <1>2, <1>4, DispatchCases, Zenon
  <2> QED  BY <1>2, <1>4, <2>1, VerifyTold DEF Told, InOrder
<1>5. CASE in.command = "diff"
  <2>1. out = runDiff(in, json)
    BY <1>1, <1>2, <1>5, DispatchCases, Zenon
  <2> QED  BY <1>2, <1>5, <2>1, DiffTold DEF Told, InOrder
<1>6. CASE in.command = "payload"
  <2>1. out = runPayload(in, json)
    BY <1>1, <1>2, <1>6, DispatchCases, Zenon
  <2> QED  BY <1>2, <1>6, <2>1, PayloadTold DEF Told, InOrder
<1>7. CASE in.command = "delegates"
  <2>1. out = runDelegates(in, json)
    BY <1>1, <1>2, <1>7, DispatchCases, Zenon
  <2> QED  BY <1>2, <1>7, <2>1, DelegatesTold DEF Told, InOrder
<1>8. CASE in.command = "inspect"
  <2>1. out = runInspect(in, json)
    BY <1>1, <1>2, <1>8, DispatchCases, Zenon
  <2> QED  BY <1>2, <1>8, <2>1, InspectTold DEF Told, InOrder
<1>9. CASE in.command = "tree"
  <2>1. out = runTree(in)
    BY <1>2, <1>9, DispatchCases, Zenon
  <2> QED  BY <1>2, <1>9, <2>1, TreeTold DEF Told, InOrder
<1>10. CASE in.command = "simulate"
  <2>1. out = runSimulate(in)
    BY <1>2, <1>10, DispatchCases, Zenon
  <2>2. \A i \in DOMAIN in.items : in.items[i].line = "entry"
    BY <1>10 DEF Possible
  <2> QED  BY <1>2, <1>10, <2>1, <2>2, SimulateTold DEF Told, InOrder
<1>11. CASE in.command = "submit"
  <2>1. out = runSubmit(in)
    BY <1>2, <1>11, DispatchCases, Zenon
  <2>2. \A i \in DOMAIN in.items : in.items[i].line = "entry"
    BY <1>11 DEF Possible
  <2> QED  BY <1>2, <1>11, <2>1, <2>2, SubmitTold DEF Told, InOrder
<1>12. CASE in.command = "doctor"
  <2>1. out = runDoctor(in)
    BY <1>2, <1>12, DispatchCases, Zenon
  <2> QED  BY <1>2, <1>12, <2>1, DoctorTold DEF Told
<1>13. CASE in.command = "explain-error"
  <2>1. out = runExplainError(in)
    BY <1>2, <1>13, DispatchCases, Zenon
  <2> QED  BY <1>2, <1>13, <2>1, ExplainTold DEF Told, InOrder
<1> QED  BY <1>3, <1>4, <1>5, <1>6, <1>7, <1>8, <1>9, <1>10, <1>11, <1>12, <1>13
         DEF Commands, configured

\* And so is the exit code of a run that stops at its settings.
LEMMA RunTold ==
  ASSUME NEW in, Possible(in), in.command \in Commands
  PROVE  Told(in, Run(in))
<1>1. PICK flag \in BOOLEAN : flag = FlagJSON(in)
  BY DEF FlagJSON
<1>2. CASE in.command \in configured /\ Startup(in) # ExitOK
  <2>1. Run(in) = writeJSONError(flag, Startup(in))
    BY <1>1, <1>2, Zenon DEF Run
  <2> QED  BY <1>2, <2>1, ErrorsTold
<1>3. CASE ~(in.command \in configured /\ Startup(in) # ExitOK)
  <2>1. Run(in) = Dispatch(in)
    BY <1>3, Zenon DEF Run
  <2> QED  BY <2>1, DispatchTold
<1> QED  BY <1>2, <1>3

\* A script can go by the exit code.  For every set of command lines the tool may be run
\* with, and every width of a ledger number: zero means that everything asked about was
\* in order and, unless kept quiet, that each entry has its result; a sign that fails
\* prints no entry (runWithStdin and the commands' run functions).
THEOREM ExitCodeIsTrue == CliSpec => []ExitTellsTruth
<1> DEFINE Inv == commandLine \in CommandLines /\ ExitTellsTruth
<1>1. CliInit => Inv
  BY DEF CliInit, ExitTellsTruth
<1>2. Inv /\ [Execute]_cliVars => Inv'
  <2> SUFFICES ASSUME Inv, [Execute]_cliVars PROVE Inv'
    OBVIOUS
  <2>1. CASE UNCHANGED cliVars
    BY <2>1 DEF cliVars, ExitTellsTruth
  <2>2. CASE Execute
    <3>1. commandLine' = commandLine /\ ended' = {runWithStdin(commandLine)}
      BY <2>2 DEF Execute
    <3>2. PICK in : in = commandLine
      OBVIOUS
    <3>3. Possible(in)
      BY <3>2, CliAssumption
    <3>4. PICK out : out = runWithStdin(in)
      OBVIOUS
    <3>5. CASE in.level \in {"both", "unreadable"} \/ in.command = "unknown"
      <4>1. out = writeJSONError(FALSE, ExitUsageError)
        BY <3>4, <3>5 DEF runWithStdin
      <4>2. out.exit # ExitOK /\ out.results = {}
        BY <4>1, OutcomeFields, FailuresAreNotOK
      <4> QED  BY <3>1, <3>2, <3>4, <4>2 DEF ExitTellsTruth
    <3>6. CASE ~(in.level \in {"both", "unreadable"} \/ in.command = "unknown")
      <4>1. in.command \in Commands
        BY <3>3, <3>6 DEF Possible
      <4>2. PICK ran : ran = IF in.parses THEN Run(in) ELSE ParseError(in)
        OBVIOUS
      <4>3. Told(in, ran)
        <5>1. Told(in, ParseError(in))
          <6>1. PICK json \in BOOLEAN :
                  json = (FlagJSON(in) /\ in.command \in {"verify", "doctor", "explain-error"})
            <7>1. (FlagJSON(in) /\ in.command \in {"verify", "doctor", "explain-error"}) \in BOOLEAN
              OBVIOUS
            <7> QED  BY <7>1
          <6>2. ParseError(in) = writeJSONError(json, ExitUsageError)
            BY <6>1, Zenon DEF ParseError
          <6> QED  BY <6>2, ErrorsTold, FailuresAreNotOK
        <5> QED  BY <3>3, <4>1, <4>2, <5>1, RunTold
      <4>4. out = verbosityOutput(in, ran)
        BY <3>4, <3>6, <4>2, Zenon DEF runWithStdin
      <4>5. CASE in.level = "quiet" /\ ran.exit = ExitOK
        <5>1. out.exit = ExitOK
          BY <4>4, <4>5 DEF verbosityOutput, Outcome
        <5> QED  BY <3>1, <3>2, <3>4, <4>3, <4>5, <5>1 DEF ExitTellsTruth, Told
      <4>6. CASE ~(in.level = "quiet" /\ ran.exit = ExitOK)
        <5>1. out = ran
          BY <4>4, <4>6 DEF verbosityOutput
        <5> QED  BY <3>1, <3>2, <3>4, <4>3, <5>1 DEF ExitTellsTruth, Told
      <4> QED  BY <4>5, <4>6
    <3> QED  BY <3>5, <3>6
  <2> QED  BY <2>1, <2>2
<1> QED  BY <1>1, <1>2, PTL DEF CliSpec

-----------------------------------------------------------------------------
(* The readings of an envelope.                                               *)

\* FlattenSeq, by its partial results.
LEMMA FlattenDefined ==
  ASSUME NEW seqs, NEW n \in Nat, n # 0, Len(seqs) = n
  PROVE  \E f : /\ FlattenSeq(seqs) = f[n] /\ f[1] = seqs[1]
                /\ \A i \in 2 .. n : f[i] = f[i - 1] \o seqs[i]
<1> DEFINE J(a, b) == a \o b
           Q(k) == \E f : f = [i \in 1 .. k |-> IF i = 1 THEN seqs[i] ELSE J(f[i - 1], seqs[i])]
           T == {k \in 1 .. n : ~Q(k)}
<1> HIDE DEF J
<1>1. Q(1)
  <2>1. PICK f : f = [i \in 1 .. 1 |-> seqs[i]]
    OBVIOUS
  <2>2. f = [i \in 1 .. 1 |-> IF i = 1 THEN seqs[i] ELSE J(f[i - 1], seqs[i])]
    BY <2>1
  <2> QED  BY <2>2
<1>2. ASSUME NEW k \in 2 .. n, Q(k - 1) PROVE Q(k)
  <2>1. PICK f : f = [i \in 1 .. (k - 1) |-> IF i = 1 THEN seqs[i] ELSE J(f[i - 1], seqs[i])]
    BY <1>2
  <2>2. PICK g : g = [i \in 1 .. k |-> IF i < k THEN f[i] ELSE J(f[k - 1], seqs[k])]
    OBVIOUS
  <2>3. \A i \in 1 .. k : g[i] = IF i = 1 THEN seqs[i] ELSE J(g[i - 1], seqs[i])
    BY <2>1, <2>2
  <2>4. g = [i \in 1 .. k |-> g[i]]
    BY <2>2
  <2>5. g = [i \in 1 .. k |-> IF i = 1 THEN seqs[i] ELSE J(g[i - 1], seqs[i])]
    BY <2>3, <2>4
  <2> QED  BY <2>5
<1> HIDE DEF Q
<1>3. T = {}
  <2> SUFFICES ASSUME T # {} PROVE FALSE
    OBVIOUS
  <2>1. T \in SUBSET (1 .. n)
    OBVIOUS
  <2>2. PICK k \in T : \A t \in T : k <= t
    <3> HIDE DEF T
    <3> QED  BY <2>1, LeastPosition
  <2>3. k \in 1 .. n /\ ~Q(k)
    BY <2>2
  <2>4. k = 1 \/ (k \in 2 .. n /\ k - 1 \in 1 .. n /\ k - 1 \notin T)
    BY <2>2, <2>3
  <2>5. k = 1 \/ (k \in 2 .. n /\ Q(k - 1))
    BY <2>4
  <2> QED  BY <1>1, <1>2, <2>3, <2>5
<1>4. Q(n)
  BY <1>3
<1> DEFINE F == CHOOSE f : f = [i \in 1 .. n |-> IF i = 1 THEN seqs[i] ELSE J(f[i - 1], seqs[i])]
<1>5. F = [i \in 1 .. n |-> IF i = 1 THEN seqs[i] ELSE J(F[i - 1], seqs[i])]
  BY <1>4, Zenon DEF Q
<1>6. FlattenSeq(seqs) = F[n]
  BY Zenon DEF FlattenSeq, J
<1> HIDE DEF F
<1>7. PICK f : f = F
  OBVIOUS
<1>8. f = [i \in 1 .. n |-> IF i = 1 THEN seqs[i] ELSE J(f[i - 1], seqs[i])]
  BY <1>5, <1>7, Zenon
<1>9. f[1] = seqs[1] /\ \A i \in 2 .. n : f[i] = J(f[i - 1], seqs[i])
  BY <1>8
<1>10. \A i \in 2 .. n : f[i] = f[i - 1] \o seqs[i]
  BY <1>9, Zenon DEF J
<1> QED  BY <1>6, <1>7, <1>9, <1>10, Zenon

\* The entry at place j of operation i, and what EnvelopeEntries lists of operation i.
At(ops, i, j) == [operation |-> i, index |-> j, entry |-> ops[i].auth[j]]
Part(ops, i) == IF Invokes(ops[i]) THEN Located(ops, i) ELSE <<>>

IsOperations(ops) == IsSequence(ops) /\ \A i \in 1 .. Len(ops) : IsSequence(ops[i].auth)

Spots(ops) == UNION {{At(ops, i, j) : j \in 1 .. Len(ops[i].auth)} : i \in 1 .. Len(ops)}

\* es lists the entries of the first m operations, in order.
ListsUpTo(ops, m, es) ==
  /\ es \in Seq(Spots(ops))
  /\ \A k \in 1 .. Len(es) :
       /\ es[k].operation \in 1 .. m /\ Invokes(ops[es[k].operation])
       /\ es[k].index \in 1 .. Len(ops[es[k].operation].auth)
       /\ es[k] = At(ops, es[k].operation, es[k].index)
  /\ \A i \in 1 .. m : Invokes(ops[i]) =>
       \A j \in 1 .. Len(ops[i].auth) : \E k \in 1 .. Len(es) : es[k] = At(ops, i, j)
  /\ \A k, l \in 1 .. Len(es) :
       k < l => \/ es[k].operation < es[l].operation
                \/ es[k].operation = es[l].operation /\ es[k].index < es[l].index

\* The fields of a place.
LEMMA AtFields ==
  ASSUME NEW ops, NEW i, NEW j
  PROVE  At(ops, i, j).operation = i /\ At(ops, i, j).index = j /\ At(ops, i, j).entry = ops[i].auth[j]
BY DEF At

\* What is listed of one operation is a sequence of places, one for each of its entries.
LEMMA PartShape ==
  ASSUME NEW ops, IsOperations(ops), NEW i \in 1 .. Len(ops)
  PROVE  /\ Part(ops, i) \in Seq(Spots(ops))
         /\ Invokes(ops[i]) => /\ Part(ops, i) = Located(ops, i)
                               /\ Len(Part(ops, i)) = Len(ops[i].auth)
                               /\ \A j \in 1 .. Len(ops[i].auth) : Part(ops, i)[j] = At(ops, i, j)
         /\ ~Invokes(ops[i]) => Part(ops, i) = <<>> /\ Len(Part(ops, i)) = 0
<1>1. Len(ops[i].auth) \in Nat /\ DOMAIN ops[i].auth = 1 .. Len(ops[i].auth)
  <2>1. PICK a, n : a = ops[i].auth /\ n = Len(ops[i].auth)
    OBVIOUS
  <2>2. n \in Nat /\ a = [j \in 1 .. n |-> a[j]]
    BY <2>1, Zenon DEF IsOperations, IsSequence
  <2> QED  BY <2>1, <2>2
<1>2. Located(ops, i) = [j \in 1 .. Len(ops[i].auth) |-> At(ops, i, j)]
  BY <1>1, Zenon DEF Located, At
<1>3. \A j \in 1 .. Len(ops[i].auth) : At(ops, i, j) \in Spots(ops)
  <2> SUFFICES ASSUME NEW j \in 1 .. Len(ops[i].auth) PROVE At(ops, i, j) \in Spots(ops)
    OBVIOUS
  <2> DEFINE X == {At(ops, i, h) : h \in 1 .. Len(ops[i].auth)}
  <2>1. X \in {{At(ops, g, h) : h \in 1 .. Len(ops[g].auth)} : g \in 1 .. Len(ops)}
    OBVIOUS
  <2>2. At(ops, i, j) \in X
    OBVIOUS
  <2> QED  BY <2>1, <2>2, Zenon DEF Spots
<1>4. PICK n : n = Len(ops[i].auth)
  OBVIOUS
<1> DEFINE S == Spots(ops)
           G(j) == At(ops, i, j)
           L == [j \in 1 .. n |-> G(j)]
<1>5. n \in Nat /\ \A j \in 1 .. n : G(j) \in S
  BY <1>1, <1>3, <1>4
<1>6. L \in Seq(S) /\ Len(L) = n /\ \A j \in 1 .. n : L[j] = G(j)
  <2> HIDE DEF S, G
  <2> QED  BY <1>5
<1>7. Located(ops, i) = L
  BY <1>2, <1>4, Zenon
<1>8. CASE Invokes(ops[i])
  <2>1. Part(ops, i) = L
    BY <1>7, <1>8, Zenon DEF Part
  <2> HIDE DEF L
  <2> QED  BY <1>4, <1>6, <1>7, <1>8, <2>1, Zenon
<1>9. CASE ~Invokes(ops[i])
  <2>1. Part(ops, i) = <<>>
    BY <1>9, Zenon DEF Part
  <2>2. <<>> \in Seq(S) /\ Len(<<>>) = 0
    <3> HIDE DEF S
    <3> QED  OBVIOUS
  <2> QED  BY <1>9, <2>1, <2>2, Zenon
<1> QED  BY <1>8, <1>9, Zenon

\* A list of the first m - 1 operations, followed by the entries of the next, lists the first m.
LEMMA ListsNext ==
  ASSUME NEW ops, IsOperations(ops), Len(ops) \in Nat, NEW m \in 1 .. Len(ops), NEW es, ListsUpTo(ops, m - 1, es)
  PROVE  ListsUpTo(ops, m, es \o Part(ops, m))
<1> DEFINE S == Spots(ops)
<1>1. PICK p : p = Part(ops, m)
  OBVIOUS
<1>2. PICK r : r = es \o p
  OBVIOUS
<1>3. es \in Seq(S) /\ p \in Seq(S)
  BY <1>1, PartShape, Zenon DEF ListsUpTo
<1>4. /\ r \in Seq(S) /\ Len(r) = Len(es) + Len(p) /\ Len(es) \in Nat /\ Len(p) \in Nat
      /\ \A k \in 1 .. Len(es) : r[k] = es[k]
      /\ \A k \in 1 .. Len(p) : r[Len(es) + k] = p[k]
      /\ \A k \in 1 .. Len(r) : \/ k \in 1 .. Len(es)
                                \/ k - Len(es) \in 1 .. Len(p) /\ k = Len(es) + (k - Len(es))
  <2> HIDE DEF S
  <2> QED  BY <1>2, <1>3
<1>5. /\ Invokes(ops[m]) => /\ Len(p) = Len(ops[m].auth)
                            /\ \A j \in 1 .. Len(ops[m].auth) : p[j] = At(ops, m, j)
      /\ ~Invokes(ops[m]) => Len(p) = 0
  BY <1>1, PartShape, Zenon
<1>6. \A k \in 1 .. Len(p) : Invokes(ops[m]) /\ k \in 1 .. Len(ops[m].auth) /\ p[k] = At(ops, m, k)
  BY <1>4, <1>5
<1>7. \A k \in 1 .. Len(p) : p[k].operation = m /\ p[k].index = k
  <2> SUFFICES ASSUME NEW k \in 1 .. Len(p) PROVE p[k].operation = m /\ p[k].index = k
    OBVIOUS
  <2>1. p[k] = At(ops, m, k)
    BY <1>6
  <2>2. At(ops, m, k).operation = m /\ At(ops, m, k).index = k
    BY AtFields
  <2> QED  BY <2>1, <2>2
<1>8. /\ \A k \in 1 .. Len(es) :
          /\ es[k].operation \in 1 .. m - 1 /\ Invokes(ops[es[k].operation])
          /\ es[k].index \in 1 .. Len(ops[es[k].operation].auth)
          /\ es[k] = At(ops, es[k].operation, es[k].index)
      /\ \A i \in 1 .. m - 1 : Invokes(ops[i]) =>
          \A j \in 1 .. Len(ops[i].auth) : \E k \in 1 .. Len(es) : es[k] = At(ops, i, j)
      /\ \A k, l \in 1 .. Len(es) :
          k < l => \/ es[k].operation < es[l].operation
                   \/ es[k].operation = es[l].operation /\ es[k].index < es[l].index
  BY Zenon DEF ListsUpTo
<1>9. ASSUME NEW k \in 1 .. Len(r)
      PROVE  /\ r[k].operation \in 1 .. m /\ Invokes(ops[r[k].operation])
             /\ r[k].index \in 1 .. Len(ops[r[k].operation].auth)
             /\ r[k] = At(ops, r[k].operation, r[k].index)
  <2>1. CASE k \in 1 .. Len(es)
    <3>1. r[k] = es[k] /\ 1 .. m - 1 \subseteq 1 .. m
      BY <1>4, <2>1
    <3> QED  BY <1>8, <2>1, <3>1, Zenon
  <2>2. CASE k - Len(es) \in 1 .. Len(p) /\ k = Len(es) + (k - Len(es))
    <3>1. PICK j \in 1 .. Len(p) : j = k - Len(es)
      BY <2>2
    <3>2. r[k] = p[j] /\ m \in 1 .. m
      BY <1>4, <2>2, <3>1
    <3> QED  BY <1>6, <1>7, <3>2, Zenon
  <2> QED  BY <1>4, <2>1, <2>2
<1>10. ASSUME NEW i \in 1 .. m, Invokes(ops[i]), NEW j \in 1 .. Len(ops[i].auth)
       PROVE  \E k \in 1 .. Len(r) : r[k] = At(ops, i, j)
  <2>1. CASE i \in 1 .. m - 1
    <3>1. PICK k \in 1 .. Len(es) : es[k] = At(ops, i, j)
      BY <1>8, <1>10, <2>1, Zenon
    <3>2. k \in 1 .. Len(r) /\ r[k] = es[k]
      BY <1>4
    <3> QED  BY <3>1, <3>2, Zenon
  <2>2. CASE i = m
    <3>1. j \in 1 .. Len(p) /\ p[j] = At(ops, i, j)
      BY <1>5, <1>10, <2>2, Zenon
    <3>2. Len(es) + j \in 1 .. Len(r) /\ r[Len(es) + j] = p[j]
      BY <1>4, <3>1
    <3> QED  BY <3>1, <3>2, Zenon
  <2> QED  BY <2>1, <2>2
<1>11. ASSUME NEW k \in 1 .. Len(r), NEW l \in 1 .. Len(r), k < l
       PROVE  \/ r[k].operation < r[l].operation
              \/ r[k].operation = r[l].operation /\ r[k].index < r[l].index
  <2>1. CASE l \in 1 .. Len(es)
    <3>1. k \in 1 .. Len(es)
      BY <1>4, <1>11, <2>1
    <3>2. r[k] = es[k] /\ r[l] = es[l]
      BY <1>4, <2>1, <3>1
    <3>3. \/ es[k].operation < es[l].operation
          \/ es[k].operation = es[l].operation /\ es[k].index < es[l].index
      BY <1>8, <1>11, <2>1, <3>1, Zenon
    <3> QED  BY <3>2, <3>3, Zenon
  <2>2. CASE l - Len(es) \in 1 .. Len(p) /\ l = Len(es) + (l - Len(es))
    <3>1. r[l].operation = m /\ r[l].index = l - Len(es)
      BY <1>4, <1>7, <2>2
    <3>2. CASE k \in 1 .. Len(es)
      <4>1. r[k].operation \in 1 .. m - 1
        BY <1>4, <1>8, <3>2
      <4> QED  BY <3>1, <4>1
    <3>3. CASE k - Len(es) \in 1 .. Len(p) /\ k = Len(es) + (k - Len(es))
      <4>1. r[k].operation = m /\ r[k].index = k - Len(es)
        BY <1>4, <1>7, <3>3
      <4> QED  BY <1>4, <1>11, <3>1, <4>1
    <3> QED  BY <1>4, <3>2, <3>3
  <2> QED  BY <1>4, <2>1, <2>2
<1>12. ListsUpTo(ops, m, r)
  BY <1>4, <1>9, <1>10, <1>11, Zenon DEF ListsUpTo
<1> QED  BY <1>1, <1>2, <1>12, Zenon

\* EnvelopeEntries of the operations ops, by its partial results.
LEMMA EntriesInSteps ==
  ASSUME NEW ops, IsOperations(ops), Len(ops) # 0
  PROVE  \E f : /\ FlattenSeq([i \in DOMAIN ops |-> Part(ops, i)]) = f[Len(ops)] /\ f[1] = Part(ops, 1)
                /\ \A i \in 2 .. Len(ops) : f[i] = f[i - 1] \o Part(ops, i)
<1>1. PICK n : n = Len(ops)
  OBVIOUS
<1>2. n \in Nat /\ n # 0 /\ DOMAIN ops = 1 .. n
  <2>1. Len(ops) \in Nat /\ ops = [i \in 1 .. Len(ops) |-> ops[i]]
    BY Zenon DEF IsOperations, IsSequence
  <2> QED  BY <1>1, <2>1
<1>3. PICK seqs : seqs = [i \in 1 .. n |-> Part(ops, i)]
  OBVIOUS
<1>4. Len(seqs) = n /\ \A i \in 1 .. n : seqs[i] = Part(ops, i)
  BY <1>2, <1>3
<1>5. PICK f : /\ FlattenSeq(seqs) = f[n] /\ f[1] = seqs[1]
               /\ \A i \in 2 .. n : f[i] = f[i - 1] \o seqs[i]
  BY <1>2, <1>4, FlattenDefined, Zenon
<1>6. f[1] = Part(ops, 1) /\ 1 \in 1 .. n /\ \A i \in 2 .. n : i \in 1 .. n
  BY <1>2, <1>4, <1>5
<1>7. \A i \in 2 .. n : f[i] = f[i - 1] \o Part(ops, i)
  BY <1>4, <1>5, <1>6, Zenon
<1> QED  BY <1>1, <1>2, <1>3, <1>5, <1>6, <1>7, Zenon

\* EnvelopeEntries lists every entry once, in order, with its place.
LEMMA EntriesListed ==
  ASSUME NEW ops, IsOperations(ops), Len(ops) # 0
  PROVE  ListsUpTo(ops, Len(ops), FlattenSeq([i \in DOMAIN ops |-> Part(ops, i)]))
<1>1. PICK n : n = Len(ops)
  OBVIOUS
<1>2. n \in Nat /\ n # 0
  BY <1>1, Zenon DEF IsOperations, IsSequence
<1>3. PICK f : /\ FlattenSeq([i \in DOMAIN ops |-> Part(ops, i)]) = f[n] /\ f[1] = Part(ops, 1)
               /\ \A i \in 2 .. n : f[i] = f[i - 1] \o Part(ops, i)
  BY <1>1, EntriesInSteps, Zenon
<1>4. ListsUpTo(ops, 0, <<>>)
  BY DEF ListsUpTo
<1>5. ListsUpTo(ops, 1, f[1])
  <2>1. 1 \in 1 .. Len(ops) /\ 1 - 1 = 0 /\ Len(ops) \in Nat
    BY <1>1, <1>2
  <2>2. ListsUpTo(ops, 1, <<>> \o Part(ops, 1))
    BY <1>4, <2>1, ListsNext
  <2>3. Part(ops, 1) \in Seq(Spots(ops))
    BY <2>1, PartShape
  <2>4. PICK p : p = Part(ops, 1)
    OBVIOUS
  <2>5. <<>> \o p = p
    BY <2>3, <2>4
  <2> QED  BY <1>3, <2>2, <2>4, <2>5, Zenon
<1> DEFINE T == {m \in 1 .. n : ~ListsUpTo(ops, m, f[m])}
<1>6. T = {}
  <2> SUFFICES ASSUME T # {} PROVE FALSE
    OBVIOUS
  <2>1. T \in SUBSET (1 .. n)
    OBVIOUS
  <2>2. PICK m \in T : \A t \in T : m <= t
    <3> HIDE DEF T
    <3> QED  BY <1>2, <2>1, LeastPosition
  <2>3. m \in 1 .. n /\ ~ListsUpTo(ops, m, f[m])
    BY <2>2
  <2>4. m # 1
    BY <1>5, <2>3, Zenon
  <2>5. m \in 2 .. n /\ m - 1 \in 1 .. n /\ ~(m <= m - 1)
    BY <1>2, <2>3, <2>4
  <2>6. m - 1 \notin T
    BY <2>2, <2>5, Zenon
  <2>7. ListsUpTo(ops, m - 1, f[m - 1])
    BY <2>5, <2>6, Zenon
  <2>8. m \in 1 .. Len(ops) /\ Len(ops) \in Nat
    BY <1>1, <1>2, <2>3
  <2>9. ListsUpTo(ops, m, f[m - 1] \o Part(ops, m))
    BY <2>7, <2>8, ListsNext, Zenon
  <2> QED  BY <1>3, <2>3, <2>5, <2>9, Zenon
<1>7. n \in 1 .. n
  BY <1>2
<1> QED  BY <1>1, <1>3, <1>6, <1>7, Zenon

\* The entries of the only invocation are listed as they stand.
LEMMA OneInvocation ==
  ASSUME NEW ops, IsOperations(ops), NEW q \in 1 .. Len(ops),
         \A i \in 1 .. Len(ops) : Invokes(ops[i]) <=> i = q
  PROVE  FlattenSeq([i \in DOMAIN ops |-> Part(ops, i)]) = Located(ops, q)
<1>1. PICK n : n = Len(ops)
  OBVIOUS
<1>2. n \in Nat /\ n # 0 /\ q \in 1 .. n
  <2>1. Len(ops) \in Nat
    BY Zenon DEF IsOperations, IsSequence
  <2> QED  BY <1>1, <2>1
<1>3. PICK f : /\ FlattenSeq([i \in DOMAIN ops |-> Part(ops, i)]) = f[n] /\ f[1] = Part(ops, 1)
               /\ \A i \in 2 .. n : f[i] = f[i - 1] \o Part(ops, i)
  BY <1>1, <1>2, EntriesInSteps, Zenon
<1>4. PICK p : p = Located(ops, q)
  OBVIOUS
<1>5. p \in Seq(Spots(ops)) /\ \A i \in 1 .. n : Part(ops, i) = IF i = q THEN p ELSE <<>>
  <2>1. Part(ops, q) = p /\ p \in Seq(Spots(ops))
    BY <1>1, <1>2, <1>4, PartShape, Zenon
  <2>2. \A i \in 1 .. n : i # q => Part(ops, i) = <<>>
    BY <1>1, PartShape, Zenon
  <2> QED  BY <2>1, <2>2
<1> DEFINE Sofar(m) == IF m < q THEN <<>> ELSE p
           T == {m \in 1 .. n : f[m] # Sofar(m)}
<1>6. f[1] = Sofar(1)
  BY <1>2, <1>3, <1>5
<1>7. ASSUME NEW m \in 2 .. n, f[m - 1] = Sofar(m - 1) PROVE f[m] = Sofar(m)
  <2>1. f[m] = f[m - 1] \o Part(ops, m) /\ m \in 1 .. n
    BY <1>2, <1>3
  <2>2. p \o <<>> = p /\ <<>> \o p = p /\ <<>> \o <<>> = <<>>
    BY <1>5
  <2>3. CASE m < q
    <3>1. f[m - 1] = <<>> /\ Part(ops, m) = <<>> /\ Sofar(m) = <<>>
      BY <1>2, <1>5, <1>7, <2>1, <2>3
    <3> QED  BY <2>1, <2>2, <3>1, Zenon
  <2>4. CASE m = q
    <3>1. f[m - 1] = <<>> /\ Part(ops, m) = p /\ Sofar(m) = p
      BY <1>2, <1>5, <1>7, <2>1, <2>4
    <3> QED  BY <2>1, <2>2, <3>1, Zenon
  <2>5. CASE m > q
    <3>1. f[m - 1] = p /\ Part(ops, m) = <<>> /\ Sofar(m) = p
      BY <1>2, <1>5, <1>7, <2>1, <2>5
    <3> QED  BY <2>1, <2>2, <3>1, Zenon
  <2> QED  BY <1>2, <2>3, <2>4, <2>5
<1>8. T = {}
  <2> SUFFICES ASSUME T # {} PROVE FALSE
    OBVIOUS
  <2>1. T \in SUBSET (1 .. n)
    OBVIOUS
  <2>2. PICK m \in T : \A t \in T : m <= t
    <3> HIDE DEF T
    <3> QED  BY <1>2, <2>1, LeastPosition
  <2>3. m \in 1 .. n /\ f[m] # Sofar(m)
    BY <2>2
  <2> HIDE DEF Sofar
  <2>4. m # 1
    BY <1>6, <2>3, Zenon
  <2>5. m \in 2 .. n /\ m - 1 \in 1 .. n /\ ~(m <= m - 1)
    BY <1>2, <2>3, <2>4
  <2>6. f[m - 1] = Sofar(m - 1)
    BY <2>2, <2>5, Zenon
  <2> QED  BY <1>7, <2>3, <2>5, <2>6, Zenon
<1>9. f[n] = Sofar(n)
  <2> HIDE DEF Sofar
  <2>1. n \in 1 .. n
    BY <1>2
  <2> QED  BY <1>8, <2>1, Zenon
<1>10. f[n] = p
  BY <1>2, <1>9
<1> QED  BY <1>3, <1>4, <1>10, Zenon

\* An envelope's operations are numbered from one, and so are their entries.
LEMMA EnvelopeShape ==
  ASSUME NEW env, IsEnvelope(env)
  PROVE  /\ IsOperations(env.operations)
         /\ Len(env.operations) \in Nat /\ DOMAIN env.operations = 1 .. Len(env.operations)
<1>1. PICK ops : ops = env.operations
  OBVIOUS
<1>2. /\ IsSequence(ops)
      /\ \A i \in DOMAIN ops : IsSequence(ops[i].auth)
  BY <1>1, Zenon DEF IsEnvelope
<1>3. Len(ops) \in Nat /\ ops = [i \in 1 .. Len(ops) |-> ops[i]]
  BY <1>2, Zenon DEF IsSequence
<1>4. DOMAIN ops = 1 .. Len(ops)
  BY <1>3
<1>5. IsOperations(ops)
  BY <1>2, <1>4, Zenon DEF IsOperations
<1> QED  BY <1>1, <1>3, <1>4, <1>5, Zenon

\* EnvelopeEntries has one result, or none.
LEMMA EntriesOf ==
  ASSUME NEW env, IsEnvelope(env), NEW es \in EnvelopeEntries(env)
  PROVE  /\ Len(env.operations) # 0
         /\ es = FlattenSeq([i \in DOMAIN env.operations |-> Part(env.operations, i)])
         /\ ListsUpTo(env.operations, Len(env.operations), es)
<1>1. PICK ops \in {o \in envelopeOperations(env) :
                      /\ \E i \in DOMAIN o : Invokes(o[i])
                      /\ \A i \in DOMAIN o : Invokes(o[i]) => ~o[i].empty} :
        es = FlattenSeq([i \in DOMAIN ops |-> IF Invokes(ops[i]) THEN Located(ops, i) ELSE <<>>])
  BY Zenon DEF EnvelopeEntries
<1>2. ops = env.operations
  BY <1>1 DEF envelopeOperations
<1>3. \E i \in DOMAIN ops : Invokes(ops[i])
  BY <1>1
<1>4. Len(ops) # 0
  <2>1. DOMAIN ops = 1 .. Len(ops) /\ Len(ops) \in Nat
    BY <1>2, EnvelopeShape
  <2> QED  BY <1>3, <2>1
<1>5. es = FlattenSeq([i \in DOMAIN ops |-> Part(ops, i)])
  BY <1>1, Zenon DEF Part
<1>6. ListsUpTo(ops, Len(ops), es)
  BY <1>2, <1>4, <1>5, EnvelopeShape, EntriesListed, Zenon
<1> QED  BY <1>2, <1>4, <1>5, <1>6, Zenon

\* All gives every part one of its results.
LEMMA AllPicks ==
  ASSUME NEW parts, NEW r \in All(parts)
  PROVE  /\ DOMAIN r = DOMAIN parts /\ r = [i \in DOMAIN parts |-> r[i]]
         /\ \A i \in DOMAIN parts : r[i] \in parts[i]
<1>1. /\ \A i \in DOMAIN parts : parts[i] # {}
      /\ r = [i \in DOMAIN parts |-> CHOOSE x \in parts[i] : TRUE]
  BY Zenon DEF All
<1>2. \A i \in DOMAIN parts : r[i] = CHOOSE x \in parts[i] : TRUE
  BY <1>1
<1>3. \A i \in DOMAIN parts : r[i] \in parts[i]
  <2> SUFFICES ASSUME NEW i \in DOMAIN parts PROVE r[i] \in parts[i]
    OBVIOUS
  <2>1. \E x \in parts[i] : TRUE
    BY <1>1
  <2>2. (CHOOSE x \in parts[i] : TRUE) \in parts[i]
    BY <2>1, Zenon
  <2> QED  BY <1>2, <2>2
<1>4. r = [i \in DOMAIN parts |-> r[i]] /\ DOMAIN r = DOMAIN parts
  BY <1>1
<1> QED  BY <1>3, <1>4

\* All refuses only if a part does.
LEMMA AllAnswers ==
  ASSUME NEW parts, \A i \in DOMAIN parts : parts[i] # {}
  PROVE  All(parts) # {}
BY Zenon DEF All

\* Two lists that agree on operations and indices have the same places.
LEMMA SamePlaces ==
  ASSUME NEW a, NEW b, DOMAIN a = DOMAIN b,
         \A k \in DOMAIN b : a[k].operation = b[k].operation /\ a[k].index = b[k].index
  PROVE  Places(a) = Places(b)
BY DEF Places

\* EnvelopeEntries has at most one result.
LEMMA OneList ==
  ASSUME NEW env, IsEnvelope(env), NEW x \in EnvelopeEntries(env), NEW y \in EnvelopeEntries(env)
  PROVE  x = y
<1>1. x = FlattenSeq([i \in DOMAIN env.operations |-> Part(env.operations, i)])
  BY EntriesOf, Zenon
<1>2. y = FlattenSeq([i \in DOMAIN env.operations |-> Part(env.operations, i)])
  BY EntriesOf, Zenon
<1> QED  BY <1>1, <1>2, Zenon

\* What EnvelopePayloads files for the entry that is listed as e.
PayloadsAt(e, v) ==
  IF e.entry.credentials.type = "source_account"
    THEN {[operation |-> e.operation, index |-> e.index, payload |-> {}]}
    ELSE {[operation |-> e.operation, index |-> e.index, payload |-> {p}] : p \in Preimage(e.entry, v)}

\* EnvelopePayloads goes through the entries that are listed.
LEMMA PayloadsFiled ==
  ASSUME NEW env, IsEnvelope(env), NEW v, NEW es \in EnvelopeEntries(env)
  PROVE  EnvelopePayloads(env, v) = All([k \in DOMAIN es |-> PayloadsAt(es[k], v)])
<1>1. \A x \in EnvelopeEntries(env) : x = es
  BY OneList
<1>2. EnvelopePayloads(env, v)
        = UNION {All([k \in DOMAIN x |-> PayloadsAt(x[k], v)]) : x \in EnvelopeEntries(env)}
  BY Zenon DEF EnvelopePayloads, PayloadsAt
<1>3. EnvelopeEntries(env) = {es}
  BY <1>1
<1> DEFINE Filed(x) == All([k \in DOMAIN x |-> PayloadsAt(x[k], v)])
<1>4. EnvelopePayloads(env, v) = UNION {Filed(x) : x \in {es}}
  BY <1>2, <1>3, Zenon
<1> HIDE DEF Filed
<1>5. EnvelopePayloads(env, v) = Filed(es)
  BY <1>4
<1> QED  BY <1>5, Zenon DEF Filed

\* A payload and a report are filed under the place of their entry.
LEMMA ListsAligned ==
  ASSUME NEW env, IsEnvelope(env), NEW v, NEW es \in EnvelopeEntries(env),
         NEW list \in EnvelopePayloads(env, v) \cup InspectEnvelope(env)
  PROVE  Places(list) = Places(es)
<1>1. CASE list \in EnvelopePayloads(env, v)
  <2> DEFINE parts == [k \in DOMAIN es |-> PayloadsAt(es[k], v)]
  <2>1. list \in All(parts)
    BY <1>1, PayloadsFiled, Zenon
  <2>2. DOMAIN parts = DOMAIN es /\ \A k \in DOMAIN es : parts[k] = PayloadsAt(es[k], v)
    OBVIOUS
  <2>3. DOMAIN list = DOMAIN es /\ \A k \in DOMAIN es : list[k] \in PayloadsAt(es[k], v)
    <3> HIDE DEF parts
    <3>1. DOMAIN list = DOMAIN parts /\ \A k \in DOMAIN parts : list[k] \in parts[k]
      BY <2>1, AllPicks
    <3> QED  BY <2>2, <3>1
  <2>4. \A k \in DOMAIN es : list[k].operation = es[k].operation /\ list[k].index = es[k].index
    BY <2>3 DEF PayloadsAt
  <2> QED  BY <2>3, <2>4, SamePlaces
<1>2. CASE list \in InspectEnvelope(env)
  <2> DEFINE P(e, info) == [operation |-> e.operation, index |-> e.index, info |-> info]
             parts == [k \in DOMAIN es |-> {P(es[k], info) : info \in InspectEntry(es[k].entry)}]
  <2>1. \A x \in EnvelopeEntries(env) : x = es
    BY OneList
  <2>2. list \in All(parts)
    BY <1>2, <2>1, Zenon DEF InspectEnvelope
  <2>3. DOMAIN parts = DOMAIN es
    OBVIOUS
  <2>4. DOMAIN list = DOMAIN es /\ \A k \in DOMAIN es : list[k] \in parts[k]
    <3> HIDE DEF parts
    <3>1. DOMAIN list = DOMAIN parts /\ \A k \in DOMAIN parts : list[k] \in parts[k]
      BY <2>2, AllPicks
    <3> QED  BY <2>3, <3>1
  <2>5. \A k \in DOMAIN es : list[k].operation = es[k].operation /\ list[k].index = es[k].index
    BY <2>4
  <2> QED  BY <2>4, <2>5, SamePlaces
<1> QED  BY <1>1, <1>2

-----------------------------------------------------------------------------
\* There is one preimage of an entry, or none.
LEMMA OnePreimage ==
  ASSUME NEW entry, NEW v, NEW p \in Preimage(entry, v), NEW q \in Preimage(entry, v)
  PROVE  p = q
<1>1. PICK c : c = entry.credentials
  OBVIOUS
<1>2. CASE c.type = "address"
  <2>1. PICK x : x = [variant |-> c.type, nonce |-> c.v.nonce, expiration |-> v, root |-> entry.root]
    OBVIOUS
  <2>2. Preimage(entry, v) = {x}
    BY <1>1, <1>2, <2>1, Zenon DEF Preimage, isAddressBoundArm
  <2> QED  BY <2>2
<1>3. CASE isAddressBoundArm(c.type)
  <2>1. PICK x : x = [variant |-> "with_address", nonce |-> c.v.nonce, expiration |-> v,
                      root |-> entry.root, address |-> c.v.address]
    OBVIOUS
  <2>2. c.type # "address"
    BY <1>3 DEF isAddressBoundArm
  <2>3. Preimage(entry, v) = {x}
    BY <1>1, <1>3, <2>1, <2>2, Zenon DEF Preimage
  <2> QED  BY <2>3
<1>4. CASE c.type # "address" /\ ~isAddressBoundArm(c.type)
  <2>1. Preimage(entry, v) = {}
    BY <1>1, <1>4, Zenon DEF Preimage
  <2> QED  BY <2>1
<1> QED  BY <1>2, <1>3, <1>4

\* AuthorizeEnvelope replaces the entries of its invocations by what AuthorizeAll returned.
SignedOperation(op, results) == IF Invokes(op) THEN {[op EXCEPT !.auth = auth] : auth \in results} ELSE {op}

\* What AuthorizeEnvelope returns is the envelope with signed operations.
LEMMA SignedShape ==
  ASSUME NEW env, IsEnvelope(env), NEW cancelled, NEW authorized,
         NEW new \in AuthorizeEnvelope(env, cancelled, authorized)
  PROVE  /\ EnvelopeEntries(env) # {}
         /\ new = [env EXCEPT !.operations = new.operations]
         /\ [new EXCEPT !.operations = env.operations] = env
         /\ Len(new.operations) = Len(env.operations)
         /\ \A i \in DOMAIN env.operations :
              new.operations[i] \in SignedOperation(env.operations[i], authorized[i])
<1>1. PICK old : old = env.operations
  OBVIOUS
<1>2. Len(old) \in Nat /\ DOMAIN old = 1 .. Len(old)
  BY <1>1, EnvelopeShape
<1> DEFINE parts == [i \in DOMAIN old |-> SignedOperation(old[i], authorized[i])]
<1>3. /\ EnvelopeEntries(env) # {}
      /\ \E ops \in All(parts) : new = [env EXCEPT !.operations = ops]
  <2> DEFINE results == All([i \in DOMAIN env.operations |-> SignedOperation(env.operations[i], authorized[i])])
  <2>1. AuthorizeEnvelope(env, cancelled, authorized)
          = IF cancelled \/ EnvelopeEntries(env) = {} THEN {} ELSE {[env EXCEPT !.operations = ops] : ops \in results}
    BY Zenon DEF AuthorizeEnvelope, SignedOperation
  <2>2. results = All(parts)
    BY <1>1, Zenon
  <2> HIDE DEF results, parts
  <2>3. ~(cancelled \/ EnvelopeEntries(env) = {})
    BY <2>1
  <2>4. new \in {[env EXCEPT !.operations = ops] : ops \in results}
    BY <2>1, <2>3
  <2>5. \E ops \in results : new = [env EXCEPT !.operations = ops]
    BY <2>4
  <2> QED  BY <2>2, <2>3, <2>5
<1>4. PICK ops \in All(parts) : new = [env EXCEPT !.operations = ops]
  BY <1>3
<1>5. DOMAIN parts = DOMAIN old /\ \A i \in DOMAIN old : parts[i] = SignedOperation(old[i], authorized[i])
  OBVIOUS
<1>6. /\ ops = [i \in DOMAIN old |-> ops[i]]
      /\ \A i \in DOMAIN old : ops[i] \in SignedOperation(old[i], authorized[i])
  <2> HIDE DEF parts
  <2>1. ops = [i \in DOMAIN parts |-> ops[i]] /\ \A i \in DOMAIN parts : ops[i] \in parts[i]
    BY <1>4, AllPicks, Zenon
  <2> QED  BY <1>5, <2>1
<1>7. Len(ops) = Len(old)
  BY <1>2, <1>6
<1>8. env = [type |-> env.type, empty |-> env.empty, inner |-> env.inner, operations |-> env.operations]
  BY Zenon DEF IsEnvelope
<1>9. new.operations = ops
  BY <1>4, <1>8
<1>10. [new EXCEPT !.operations = env.operations] = env
  BY <1>4, <1>8
<1> QED  BY <1>1, <1>3, <1>4, <1>6, <1>7, <1>9, <1>10, Zenon

\* A signed operation is the operation but for its entries, and these are AuthorizeAll's.
LEMMA SignedEntries ==
  ASSUME NEW op, op = [type |-> op.type, empty |-> op.empty, auth |-> op.auth], IsSequence(op.auth),
         NEW results, NEW v, \A auth \in results : SignedFor(op.auth, auth, v),
         NEW new \in SignedOperation(op, results)
  PROVE  /\ [new EXCEPT !.auth = op.auth] = op
         /\ [j \in DOMAIN new.auth |-> Kept(new.auth[j])] = [j \in DOMAIN op.auth |-> Kept(op.auth[j])]
         /\ Invokes(op) => SignedFor(op.auth, new.auth, v)
<1>1. CASE Invokes(op)
  <2>1. PICK auth \in results : new = [op EXCEPT !.auth = auth]
    BY <1>1 DEF SignedOperation
  <2>2. new.auth = auth /\ [new EXCEPT !.auth = op.auth] = op
    BY <2>1
  <2>3. SignedFor(op.auth, auth, v)
    BY <2>1
  <2>4. PICK old : old = op.auth
    OBVIOUS
  <2>5. /\ IsSequence(auth) /\ IsSequence(old) /\ Len(auth) = Len(old)
        /\ \A j \in 1 .. Len(old) : Kept(auth[j]) = Kept(old[j])
    BY <2>3, <2>4, Zenon DEF SignedFor
  <2>6. DOMAIN auth = 1 .. Len(old) /\ DOMAIN old = 1 .. Len(old)
    BY <2>5 DEF IsSequence
  <2>7. [j \in DOMAIN auth |-> Kept(auth[j])] = [j \in DOMAIN old |-> Kept(old[j])]
    BY <2>5, <2>6
  <2> QED  BY <2>2, <2>3, <2>4, <2>7, Zenon
<1>2. CASE ~Invokes(op)
  <2>1. new = op
    BY <1>2 DEF SignedOperation
  <2>2. [op EXCEPT !.auth = op.auth] = op
    OBVIOUS
  <2> QED  BY <1>2, <2>1, <2>2, Zenon
<1> QED  BY <1>1, <1>2, Zenon

\* What AuthorizeEnvelope returns carries, at every place, what EnvelopePayloads says is signed there.
LEMMA SignedAligned ==
  ASSUME NEW env, IsEnvelope(env), NEW cancelled, NEW authorized, NEW v,
         \A i \in DOMAIN env.operations : \A auth \in authorized[i] :
           SignedFor(env.operations[i].auth, auth, v),
         NEW new \in AuthorizeEnvelope(env, cancelled, authorized)
  PROVE  /\ OnlySigned(env, new) /\ EnvelopePayloads(env, v) # {}
         /\ \A list \in EnvelopePayloads(env, v) : CarriesPayloads(env, new, list)
<1>1. PICK ops : ops = env.operations
  OBVIOUS
<1>2. PICK made : made = new.operations
  OBVIOUS
<1>3. \A i \in DOMAIN ops :
        /\ [made[i] EXCEPT !.auth = ops[i].auth] = ops[i]
        /\ [j \in DOMAIN made[i].auth |-> Kept(made[i].auth[j])] = [j \in DOMAIN ops[i].auth |-> Kept(ops[i].auth[j])]
        /\ Invokes(ops[i]) => SignedFor(ops[i].auth, made[i].auth, v)
  <2> SUFFICES ASSUME NEW i \in DOMAIN ops
               PROVE  /\ [made[i] EXCEPT !.auth = ops[i].auth] = ops[i]
                      /\ [j \in DOMAIN made[i].auth |-> Kept(made[i].auth[j])]
                           = [j \in DOMAIN ops[i].auth |-> Kept(ops[i].auth[j])]
                      /\ Invokes(ops[i]) => SignedFor(ops[i].auth, made[i].auth, v)
    BY Zenon
  <2>1. made[i] \in SignedOperation(ops[i], authorized[i])
    BY <1>1, <1>2, SignedShape, Zenon
  <2>2. ops[i] = [type |-> ops[i].type, empty |-> ops[i].empty, auth |-> ops[i].auth] /\ IsSequence(ops[i].auth)
    BY <1>1, Zenon DEF IsEnvelope
  <2>3. \A auth \in authorized[i] : SignedFor(ops[i].auth, auth, v)
    BY <1>1, Zenon
  <2>4. PICK op : op = ops[i]
    OBVIOUS
  <2>5. PICK m : m = made[i]
    OBVIOUS
  <2>6. /\ op = [type |-> op.type, empty |-> op.empty, auth |-> op.auth] /\ IsSequence(op.auth)
        /\ \A auth \in authorized[i] : SignedFor(op.auth, auth, v)
        /\ m \in SignedOperation(op, authorized[i])
    BY <2>1, <2>2, <2>3, <2>4, <2>5, Zenon
  <2>7. /\ [m EXCEPT !.auth = op.auth] = op
        /\ [j \in DOMAIN m.auth |-> Kept(m.auth[j])] = [j \in DOMAIN op.auth |-> Kept(op.auth[j])]
        /\ Invokes(op) => SignedFor(op.auth, m.auth, v)
    BY <2>6, SignedEntries, Zenon
  <2> QED  BY <2>4, <2>5, <2>7, Zenon
<1>4. PICK es : es \in EnvelopeEntries(env)
  <2>1. EnvelopeEntries(env) # {}
    BY SignedShape, Zenon
  <2> QED  BY <2>1
<1>5. /\ DOMAIN ops = 1 .. Len(ops) /\ ListsUpTo(ops, Len(ops), es)
  BY <1>1, <1>4, EnvelopeShape, EntriesOf, Zenon
<1>6. DOMAIN es = 1 .. Len(es)
  BY <1>5 DEF ListsUpTo
\* The entry that is listed in place k, and what was signed for it.
<1>7. ASSUME NEW k \in DOMAIN es
      PROVE  \E i \in DOMAIN ops : \E j \in 1 .. Len(ops[i].auth) :
               /\ es[k].operation = i /\ es[k].index = j /\ es[k].entry = ops[i].auth[j]
               /\ es[k].entry.credentials.type # "source_account" =>
                    \E p \in Preimage(es[k].entry, v) : Carries(ops[i].auth[j], made[i].auth[j], p)
  <2>1. PICK i, j : i = es[k].operation /\ j = es[k].index
    OBVIOUS
  <2>2. i \in 1 .. Len(ops) /\ Invokes(ops[i]) /\ j \in 1 .. Len(ops[i].auth) /\ es[k] = At(ops, i, j)
    BY <1>5, <1>6, <2>1, Zenon DEF ListsUpTo
  <2>3. i \in DOMAIN ops
    BY <1>5, <2>2, Zenon
  <2>4. PICK e : e = ops[i].auth[j]
    OBVIOUS
  <2>5. es[k].entry = e
    <3>1. At(ops, i, j).entry = ops[i].auth[j]
      BY AtFields
    <3> QED  BY <2>2, <2>4, <3>1, Zenon
  <2>6. SignedFor(ops[i].auth, made[i].auth, v)
    BY <1>3, <2>2, <2>3, Zenon
  <2>7. e.credentials.type # "source_account" => \E p \in Preimage(e, v) : Carries(ops[i].auth[j], made[i].auth[j], p)
    BY <2>2, <2>4, <2>6, Zenon DEF SignedFor
  <2> QED  BY <2>1, <2>2, <2>3, <2>4, <2>5, <2>7, Zenon
<1> DEFINE parts == [k \in DOMAIN es |-> PayloadsAt(es[k], v)]
<1>8. EnvelopePayloads(env, v) = All(parts)
  BY <1>4, PayloadsFiled, Zenon
<1>9. DOMAIN parts = DOMAIN es /\ \A k \in DOMAIN es : parts[k] = PayloadsAt(es[k], v)
  OBVIOUS
<1> HIDE DEF parts
<1>10. EnvelopePayloads(env, v) # {}
  <2>1. \A k \in DOMAIN es : PayloadsAt(es[k], v) # {}
    <3> SUFFICES ASSUME NEW k \in DOMAIN es PROVE PayloadsAt(es[k], v) # {}
      OBVIOUS
    <3>1. es[k].entry.credentials.type # "source_account" => \E p : p \in Preimage(es[k].entry, v)
      BY <1>7, Zenon
    <3> QED  BY <3>1 DEF PayloadsAt
  <2> QED  BY <1>8, <1>9, <2>1, AllAnswers, Zenon
<1>11. ASSUME NEW list \in EnvelopePayloads(env, v), NEW k \in DOMAIN list, NEW p \in list[k].payload
       PROVE  Carries(ops[list[k].operation].auth[list[k].index],
                      made[list[k].operation].auth[list[k].index], p)
  <2>1. DOMAIN list = DOMAIN parts /\ \A x \in DOMAIN parts : list[x] \in parts[x]
    BY <1>8, AllPicks
  <2>2. k \in DOMAIN es /\ list[k] \in PayloadsAt(es[k], v)
    BY <1>9, <2>1, Zenon
  <2>3. PICK i, j :
          /\ es[k].operation = i /\ es[k].index = j /\ es[k].entry = ops[i].auth[j]
          /\ es[k].entry.credentials.type # "source_account" =>
               \E q \in Preimage(es[k].entry, v) : Carries(ops[i].auth[j], made[i].auth[j], q)
    BY <1>7, <2>2, Zenon
  <2>4. PICK e : e = es[k]
    OBVIOUS
  <2>5. /\ list[k].operation = e.operation /\ list[k].index = e.index
        /\ e.entry.credentials.type # "source_account" /\ p \in Preimage(e.entry, v)
    BY <2>2, <2>4 DEF PayloadsAt
  <2>6. PICK q \in Preimage(e.entry, v) : Carries(ops[i].auth[j], made[i].auth[j], q)
    BY <2>3, <2>4, <2>5, Zenon
  <2>7. p = q
    BY <2>5, <2>6, OnePreimage
  <2> QED  BY <2>3, <2>4, <2>5, <2>6, <2>7, Zenon
<1>12. \A list \in EnvelopePayloads(env, v) : \A k \in DOMAIN list : \A p \in list[k].payload :
         Carries(ops[list[k].operation].auth[list[k].index],
                      made[list[k].operation].auth[list[k].index], p)
  BY <1>11, Zenon
<1>13. \A i \in DOMAIN ops : ButForAuth(ops[i], made[i])
  BY <1>3, Zenon DEF ButForAuth
<1>14. \A list \in EnvelopePayloads(env, v) : \A k \in DOMAIN list : \A p \in list[k].payload :
         Carries(env.operations[list[k].operation].auth[list[k].index],
                 new.operations[list[k].operation].auth[list[k].index], p)
  BY <1>1, <1>2, <1>12, Zenon
<1>15. \A i \in DOMAIN env.operations : ButForAuth(env.operations[i], new.operations[i])
  BY <1>1, <1>2, <1>13
<1>16. OnlySigned(env, new)
  <2>1. [new EXCEPT !.operations = env.operations] = env /\ Len(new.operations) = Len(env.operations)
    BY SignedShape
  <2> QED  BY <1>15, <2>1, Zenon DEF OnlySigned
<1> QED  BY <1>10, <1>14, <1>16, Zenon DEF CarriesPayloads

-----------------------------------------------------------------------------
\* A picked sequence of results is a sequence.
LEMMA AllOfSequence ==
  ASSUME NEW texts, IsSequence(texts), NEW parts, DOMAIN parts = DOMAIN texts, NEW es \in All(parts)
  PROVE  IsSequence(es)
<1>1. PICK n : n = Len(texts)
  OBVIOUS
<1>2. n \in Nat /\ texts = [k \in 1 .. n |-> texts[k]]
  BY <1>1, Zenon DEF IsSequence
<1>3. DOMAIN parts = 1 .. n
  BY <1>2
<1>4. es = [k \in DOMAIN parts |-> es[k]]
  BY AllPicks
<1>5. es = [k \in 1 .. n |-> es[k]]
  BY <1>3, <1>4
<1>6. Len(es) = n
  BY <1>2, <1>5
<1> QED  BY <1>2, <1>5, <1>6, Zenon DEF IsSequence

\* The entries of a simulation's answer are decoded to a sequence.
LEMMA RecordedSequence ==
  ASSUME NEW response, \A texts \in response.auth : IsSequence(texts), NEW es \in recordedAuthEntries(response)
  PROVE  IsSequence(es)
<1>1. response.auth # {}
  BY DEF recordedAuthEntries
<1>2. PICK texts : texts = CHOOSE a \in response.auth : TRUE
  OBVIOUS
<1>3. texts \in response.auth
  BY <1>1, <1>2
<1>4. PICK parts : parts = [k \in DOMAIN texts |-> DecodeAuthorizationEntry(texts[k], {})]
  OBVIOUS
<1>5. es \in All(parts)
  <2>1. recordedAuthEntries(response) = IF response.results # 1 \/ response.auth = {} THEN {} ELSE All(parts)
    BY <1>2, <1>4, Zenon DEF recordedAuthEntries
  <2> QED  BY <2>1
<1>6. DOMAIN parts = DOMAIN texts
  BY <1>4
<1> QED  BY <1>3, <1>5, <1>6, AllOfSequence, Zenon

\* What a record simulation puts together from the decoded envelope, its invocation and the entries.
RecordCases(env, es) ==
  [env : {env}, i : invokeOperationIndex(env), entries : {es},
   arms : All([k \in DOMAIN es |-> credentialArm(es[k])])]
Recorded(env, i, entries, arms) ==
  [envelope |-> attachRecordedAuth(env, i, entries),
   entries |-> [k \in DOMAIN entries |->
                  [operation |-> i, index |-> k, entry |-> entries[k], arm |-> arms[k]]]]
RecordedOf(response) == IF response.kind = "ok" THEN recordedAuthEntries(response) ELSE {}

\* SimulateRecord returns nothing but such a record of the envelope it decoded.
LEMMA RecordShape ==
  ASSUME NEW cancelled, NEW client, NEW text, NEW response, \A texts \in response.auth : IsSequence(texts),
         NEW r \in SimulateRecord(cancelled, client, text, response)
  PROVE  \E i, entries, arms :
           /\ i \in invokeOperationIndex(text.value) /\ IsSequence(entries)
           /\ r = Recorded(text.value, i, entries, arms)
<1> DEFINE D == DecodeTransactionEnvelope(text, {})
           R == RecordedOf(response)
           C == UNION {UNION {RecordCases(env, es) : env \in D} : es \in R}
<1>1. SimulateRecord(cancelled, client, text, response)
        = IF cancelled \/ ~client THEN {} ELSE {Recorded(q.env, q.i, q.entries, q.arms) : q \in C}
  BY Zenon DEF SimulateRecord, Recorded, RecordCases, RecordedOf
<1>2. D = DecodeTransactionEnvelope(text, {}) /\ R = RecordedOf(response)
      /\ C = UNION {UNION {RecordCases(env, es) : env \in D} : es \in R}
  BY Zenon
<1> HIDE DEF D, R, C
<1>3. \E q \in C : r = Recorded(q.env, q.i, q.entries, q.arms)
  BY <1>1
<1>4. PICK q \in C : r = Recorded(q.env, q.i, q.entries, q.arms)
  BY <1>3
<1>5. PICK env \in D, es \in R : q \in RecordCases(env, es)
  BY <1>2, <1>4
<1>6. q.env = env /\ q.i \in invokeOperationIndex(env) /\ q.entries = es
  BY <1>5 DEF RecordCases
<1>7. env = text.value
  BY <1>2, <1>5 DEF DecodeTransactionEnvelope, DecodeBounded
<1>8. IsSequence(es)
  <2>1. es \in recordedAuthEntries(response)
    BY <1>2, <1>5 DEF RecordedOf
  <2> QED  BY <2>1, RecordedSequence
<1>9. r = Recorded(text.value, q.i, es, q.arms)
  BY <1>4, <1>6, <1>7, Zenon
<1> QED  BY <1>6, <1>7, <1>8, <1>9, Zenon

\* The recorded entries stand where the record says, and nothing else is listed.
LEMMA RecordedAligned ==
  ASSUME NEW cancelled, NEW client, NEW text, NEW response, \A texts \in response.auth : IsSequence(texts),
         IsEnvelope(text.value), NEW r \in SimulateRecord(cancelled, client, text, response)
  PROVE  HoldsRecord(r)
<1>1. PICK i, entries, arms :
           /\ i \in invokeOperationIndex(text.value) /\ IsSequence(entries)
           /\ r = Recorded(text.value, i, entries, arms)
  BY RecordShape
<1>2. PICK env : env = text.value
  OBVIOUS
<1>3. PICK ops : ops = env.operations
  OBVIOUS
<1>4. PICK new : new = [ops EXCEPT ![i].auth = entries]
  OBVIOUS
<1>5. env = [type |-> env.type, empty |-> env.empty, inner |-> env.inner, operations |-> ops]
  BY <1>2, <1>3, Zenon DEF IsEnvelope
<1>6. r.envelope = [type |-> env.type, empty |-> env.empty, inner |-> env.inner, operations |-> new]
  <2>1. r.envelope = attachRecordedAuth(env, i, entries)
    BY <1>1, <1>2 DEF Recorded
  <2> QED  BY <1>3, <1>4, <1>5, <2>1 DEF attachRecordedAuth
<1>7. /\ i \in DOMAIN ops /\ \A x \in DOMAIN ops : Invokes(ops[x]) <=> x = i
  <2>1. PICK o \in innerTransaction(env) :
          i \in {x \in {y \in DOMAIN o : Invokes(o[y])} : {y \in DOMAIN o : Invokes(o[y])} = {x} /\ ~o[x].empty}
    BY <1>1, <1>2, Zenon DEF invokeOperationIndex
  <2>2. o = ops
    BY <1>3, <2>1 DEF innerTransaction
  <2> QED  BY <2>1, <2>2
<1>8. Len(ops) \in Nat /\ DOMAIN ops = 1 .. Len(ops) /\ ops = [x \in 1 .. Len(ops) |-> ops[x]]
      /\ \A x \in DOMAIN ops : ops[x] = [type |-> ops[x].type, empty |-> ops[x].empty, auth |-> ops[x].auth]
                               /\ IsSequence(ops[x].auth)
  <2>1. IsSequence(ops)
      /\ \A x \in DOMAIN ops : ops[x] = [type |-> ops[x].type, empty |-> ops[x].empty, auth |-> ops[x].auth]
                               /\ IsSequence(ops[x].auth)
    BY <1>2, <1>3, Zenon DEF IsEnvelope
  <2>2. Len(ops) \in Nat /\ DOMAIN ops = 1 .. Len(ops)
    BY <1>2, <1>3, EnvelopeShape, Zenon
  <2> QED  BY <2>1, <2>2, Zenon DEF IsSequence
<1>9. PICK op : op = [type |-> ops[i].type, empty |-> ops[i].empty, auth |-> entries]
  OBVIOUS
<1>10. /\ new = [x \in 1 .. Len(ops) |-> IF x = i THEN op ELSE ops[x]]
       /\ new[i] = op /\ \A x \in 1 .. Len(ops) : x # i => new[x] = ops[x]
  <2>1. [ops[i] EXCEPT !.auth = entries] = op
    BY <1>7, <1>8, <1>9
  <2>2. new = [ops EXCEPT ![i] = op]
    BY <1>4, <2>1
  <2> QED  BY <1>7, <1>8, <2>2
<1>11. Len(new) = Len(ops) /\ DOMAIN new = 1 .. Len(ops) /\ IsSequence(new)
  <2>1. Len(new) = Len(ops) /\ DOMAIN new = 1 .. Len(ops)
    BY <1>8, <1>10
  <2>2. new = [x \in 1 .. Len(ops) |-> new[x]]
    BY <1>10
  <2> QED  BY <1>8, <2>1, <2>2, Zenon DEF IsSequence
<1>12. op.type = ops[i].type /\ op.empty = ops[i].empty /\ op.auth = entries
  BY <1>9
<1>13. IsEnvelope(r.envelope)
  <2>1. \A x \in 1 .. Len(ops) : new[x] = [type |-> new[x].type, empty |-> new[x].empty, auth |-> new[x].auth]
                                  /\ IsSequence(new[x].auth)
    <3> SUFFICES ASSUME NEW x \in 1 .. Len(ops)
                 PROVE  new[x] = [type |-> new[x].type, empty |-> new[x].empty, auth |-> new[x].auth]
                        /\ IsSequence(new[x].auth)
      OBVIOUS
    <3>1. CASE x = i
      <4>1. op = [type |-> op.type, empty |-> op.empty, auth |-> op.auth] /\ IsSequence(op.auth)
        BY <1>1, <1>9, <1>12, Zenon
      <4> QED  BY <1>10, <3>1, <4>1, Zenon
    <3>2. CASE x # i
      BY <1>8, <1>10, <3>2, Zenon
    <3> QED  BY <3>1, <3>2
  <2>2. PICK e : e = r.envelope
    OBVIOUS
  <2>3. e = [type |-> e.type, empty |-> e.empty, inner |-> e.inner, operations |-> e.operations] /\ e.operations = new
    BY <1>6, <2>2
  <2>4. IsEnvelope(e)
    BY <1>11, <2>1, <2>3, Zenon DEF IsEnvelope
  <2> QED  BY <2>2, <2>4, Zenon
<1>14. r.envelope.operations = new
  BY <1>6
<1>15. \A x \in 1 .. Len(new) : Invokes(new[x]) <=> x = i
  <2> SUFFICES ASSUME NEW x \in 1 .. Len(ops) PROVE Invokes(new[x]) <=> x = i
    BY <1>11, Zenon
  <2>1. new[x].type = ops[x].type
    BY <1>10, <1>12, Zenon
  <2> QED  BY <1>7, <1>8, <2>1, Zenon DEF Invokes
<1>16. ASSUME NEW es \in EnvelopeEntries(r.envelope) PROVE Places(es) = Places(r.entries)
  <2>1. es = FlattenSeq([x \in DOMAIN new |-> Part(new, x)])
    BY <1>13, <1>14, <1>16, EntriesOf, Zenon
  <2>2. IsOperations(new) /\ i \in 1 .. Len(new)
    BY <1>7, <1>8, <1>11, <1>13, <1>14, EnvelopeShape, Zenon
  <2>3. es = Located(new, i)
    BY <1>15, <2>1, <2>2, OneInvocation, Zenon
  <2>4. DOMAIN new[i].auth = DOMAIN entries
    BY <1>10, <1>12, Zenon
  <2>5. DOMAIN es = DOMAIN entries /\ \A k \in DOMAIN entries : es[k].operation = i /\ es[k].index = k
    BY <2>3, <2>4 DEF Located
  <2>6. DOMAIN r.entries = DOMAIN entries
        /\ \A k \in DOMAIN entries : r.entries[k].operation = i /\ r.entries[k].index = k
    BY <1>1 DEF Recorded
  <2>7. PICK given : given = r.entries
    OBVIOUS
  <2>8. DOMAIN es = DOMAIN given
        /\ \A k \in DOMAIN given : es[k].operation = given[k].operation /\ es[k].index = given[k].index
    BY <2>5, <2>6, <2>7
  <2>9. Places(es) = Places(given)
    BY <2>8, SamePlaces
  <2> QED  BY <2>7, <2>9, Zenon
<1>17. ASSUME NEW k \in DOMAIN r.entries
       PROVE  new[r.entries[k].operation].auth[r.entries[k].index] = r.entries[k].entry
  <2>1. r.entries[k].operation = i /\ r.entries[k].index = k /\ r.entries[k].entry = entries[k]
    BY <1>1, <1>17 DEF Recorded
  <2> QED  BY <1>10, <1>12, <2>1, Zenon
<1> QED  BY <1>14, <1>16, <1>17, Zenon DEF HoldsRecord

-----------------------------------------------------------------------------
\* A caller's limits admit nothing that the defaults refuse.
LEMMA LimitsTighten ==
  ASSUME NEW text, NEW limits, text.length \in Nat, text.depth \in Nat,
         \A l \in limits : l.depth \in Nat /\ l.bytes \in Nat
  PROVE  DecodeTransactionEnvelope(text, limits) \subseteq DecodeTransactionEnvelope(text, {})
<1> SUFFICES ASSUME NEW e \in DecodeTransactionEnvelope(text, limits)
             PROVE  e \in DecodeTransactionEnvelope(text, {})
  OBVIOUS
<1>1. CASE limits = {}
  BY <1>1
<1>2. CASE limits # {}
  <2>1. PICK l : l = CHOOSE x \in limits : TRUE
    OBVIOUS
  <2>2. l \in limits
    BY <1>2, <2>1
  <2>3. /\ ~text.empty /\ validateLimitOptions(limits) /\ ~(text.length > EncodedLen(l.bytes))
        /\ ~(text.depth > l.depth) /\ ~text.garbled /\ e = text.value
    BY <1>2, <2>1 DEF DecodeTransactionEnvelope, DecodeBounded
  <2>4. l.depth \in Nat /\ l.bytes \in Nat /\ l.depth <= DepthLimit /\ l.bytes <= InputLimit
    BY <2>2, <2>3 DEF validateLimitOptions
  <2>5. DepthLimit \in Nat /\ InputLimit \in Nat
    BY EnvelopeAssumption
  <2>6. ~(text.depth > DepthLimit)
    BY <2>3, <2>4, <2>5
  <2>7. ~(text.length > EncodedLen(InputLimit))
    <3>1. PICK a, b : a = (l.bytes + 2) \div 3 /\ b = (InputLimit + 2) \div 3
      OBVIOUS
    <3>2. a \in Int /\ b \in Int /\ a <= b
      BY <2>4, <2>5, <3>1
    <3>3. ~(text.length > 4 * a)
      BY <2>3, <3>1 DEF EncodedLen
    <3>4. ~(text.length > 4 * b)
      BY <3>2, <3>3
    <3> QED  BY <3>1, <3>4 DEF EncodedLen
  <2>8. validateLimitOptions({})
    BY DEF validateLimitOptions
  <2> QED  BY <2>3, <2>6, <2>7, <2>8 DEF DecodeTransactionEnvelope, DecodeBounded
<1> QED  BY <1>1, <1>2

-----------------------------------------------------------------------------
\* The entries listed are exactly those of the invocations.
LEMMA ListedExactly ==
  ASSUME NEW ops, Len(ops) \in Nat, DOMAIN ops = 1 .. Len(ops), IsOperations(ops),
         NEW es, ListsUpTo(ops, Len(ops), es)
  PROVE  ListsEntries(ops, es)
<1> DEFINE Of(i) == {At(ops, i, j) : j \in DOMAIN ops[i].auth}
           I == {n \in DOMAIN ops : Invokes(ops[n])}
<1>1. DOMAIN es = 1 .. Len(es)
  BY DEF ListsUpTo
<1>2. \A i \in 1 .. Len(ops) : DOMAIN ops[i].auth = 1 .. Len(ops[i].auth)
  <2> SUFFICES ASSUME NEW i \in 1 .. Len(ops) PROVE DOMAIN ops[i].auth = 1 .. Len(ops[i].auth)
    OBVIOUS
  <2>1. PICK a, n : a = ops[i].auth /\ n = Len(ops[i].auth)
    OBVIOUS
  <2>2. n \in Nat /\ a = [j \in 1 .. n |-> a[j]]
    BY <2>1, Zenon DEF IsOperations, IsSequence
  <2> QED  BY <2>1, <2>2
<1>3. ASSUME NEW k \in DOMAIN es PROVE \E i \in I : es[k] \in Of(i)
  <2>1. PICK i, j : i = es[k].operation /\ j = es[k].index
    OBVIOUS
  <2>2. i \in 1 .. Len(ops) /\ Invokes(ops[i]) /\ j \in 1 .. Len(ops[i].auth) /\ es[k] = At(ops, i, j)
    BY <1>1, <1>3, <2>1, Zenon DEF ListsUpTo
  <2>3. i \in I /\ es[k] \in Of(i)
    BY <1>2, <2>2
  <2> QED  BY <2>3
<1>4. ASSUME NEW i \in I, NEW j \in DOMAIN ops[i].auth PROVE \E k \in DOMAIN es : es[k] = At(ops, i, j)
  <2>1. i \in 1 .. Len(ops) /\ Invokes(ops[i]) /\ j \in 1 .. Len(ops[i].auth)
    BY <1>2, <1>4
  <2> QED  BY <1>1, <2>1, Zenon DEF ListsUpTo
<1>5. {es[k] : k \in DOMAIN es} = UNION {Of(i) : i \in I}
  <2>1. \A k \in DOMAIN es : es[k] \in UNION {Of(i) : i \in I}
    <3> HIDE DEF Of, I
    <3> QED  BY <1>3
  <2>2. \A x \in UNION {Of(i) : i \in I} : \E k \in DOMAIN es : es[k] = x
    <3> SUFFICES ASSUME NEW i \in I, NEW x \in Of(i) PROVE \E k \in DOMAIN es : es[k] = x
      <4> HIDE DEF Of, I
      <4> QED  OBVIOUS
    <3>1. PICK j \in DOMAIN ops[i].auth : x = At(ops, i, j)
      OBVIOUS
    <3> QED  BY <1>4, <3>1
  <2> HIDE DEF Of, I
  <2> QED  BY <2>1, <2>2
<1>6. PICK left : left = {es[k] : k \in DOMAIN es}
  OBVIOUS
<1>7. left = UNION {{[operation |-> i, index |-> j, entry |-> ops[i].auth[j]] : j \in DOMAIN ops[i].auth} :
                      i \in {n \in DOMAIN ops : ops[n].type = "invoke_host_function"}}
  BY <1>5, <1>6, Zenon DEF At, Invokes
<1>8. \A k, l \in DOMAIN es :
        k < l => \/ es[k].operation < es[l].operation
                 \/ es[k].operation = es[l].operation /\ es[k].index < es[l].index
  BY <1>1, Zenon DEF ListsUpTo
<1> QED  BY <1>6, <1>7, <1>8, Zenon DEF ListsEntries

\* What EnvelopeEntries lists, in the terms of EnvelopeAligned.
LEMMA EntriesAligned ==
  ASSUME NEW env, IsEnvelope(env), NEW es \in EnvelopeEntries(env)
  PROVE  ListsEntries(env.operations, es)
<1>1. PICK ops : ops = env.operations
  OBVIOUS
<1>2. Len(ops) \in Nat /\ DOMAIN ops = 1 .. Len(ops) /\ IsOperations(ops)
  BY <1>1, EnvelopeShape, Zenon
<1>3. ListsUpTo(ops, Len(ops), es)
  BY <1>1, EntriesOf, Zenon
<1>4. ListsEntries(ops, es)
  BY <1>2, <1>3, ListedExactly, Zenon
<1> QED  BY <1>1, <1>4, Zenon

\* The four readings of an envelope speak of the same entries, whatever the envelope, what its
\* entries are inspected to be and what AuthorizeAll returned (EnvelopeAligned).
THEOREM PlacesAgree == EnvelopeSpec => []EnvelopeAligned
<1> DEFINE Inv == envelopeCall \in EnvelopeCalls /\ EnvelopeAligned
<1>1. EnvelopeInit => Inv
  BY DEF EnvelopeInit, EnvelopeAligned
<1>2. Inv /\ [Rewrite]_envelopeVars => Inv'
  <2>1. ASSUME Inv, Rewrite PROVE Inv'
    <3>1. PICK c : c = envelopeCall
      OBVIOUS
    <3>2. IsEnvelopeCall(c) /\ envelopeCall' = c
      BY <2>1, <3>1, EnvelopeAssumption, Zenon DEF Rewrite
    <3>3. IsEnvelope(c.env) /\ IsEnvelope(c.text.value)
      BY <3>2, Zenon DEF IsEnvelopeCall
    <3>4. \A i \in DOMAIN c.env.operations : \A auth \in c.authorized[i] :
            SignedFor(c.env.operations[i].auth, auth, c.validUntil)
      BY <3>2, Zenon DEF IsEnvelopeCall
    <3>5. /\ c.text.length \in Nat /\ c.text.depth \in Nat
          /\ \A l \in c.limits : l.depth \in Nat /\ l.bytes \in Nat
          /\ \A texts \in c.response.auth : IsSequence(texts)
      BY <3>2, Zenon DEF IsEnvelopeCall
    <3>6. PICK out :
            out = [entries |-> EnvelopeEntries(c.env), infos |-> InspectEnvelope(c.env),
                   payloads |-> EnvelopePayloads(c.env, c.validUntil),
                   signed |-> AuthorizeEnvelope(c.env, c.cancelled, c.authorized),
                   decoded |-> DecodeTransactionEnvelope(c.text, c.limits),
                   recorded |-> SimulateRecord(c.cancelled, c.client, c.text, c.response)]
      OBVIOUS
    <3>7. readings' = {out}
      BY <2>1, <3>1, <3>6, Zenon DEF Rewrite
    <3>8. /\ out.entries = EnvelopeEntries(c.env) /\ out.infos = InspectEnvelope(c.env)
          /\ out.payloads = EnvelopePayloads(c.env, c.validUntil)
          /\ out.signed = AuthorizeEnvelope(c.env, c.cancelled, c.authorized)
          /\ out.decoded = DecodeTransactionEnvelope(c.text, c.limits)
          /\ out.recorded = SimulateRecord(c.cancelled, c.client, c.text, c.response)
      BY <3>6
    <3>9. ASSUME NEW es \in out.entries
          PROVE  /\ ListsEntries(c.env.operations, es)
                 /\ \A list \in out.payloads \cup out.infos : Places(list) = Places(es)
      <4>1. es \in EnvelopeEntries(c.env)
        BY <3>8, <3>9
      <4>2. ListsEntries(c.env.operations, es)
        BY <3>3, <4>1, EntriesAligned
      <4>3. ASSUME NEW list \in out.payloads \cup out.infos PROVE Places(list) = Places(es)
        <5>1. list \in EnvelopePayloads(c.env, c.validUntil) \cup InspectEnvelope(c.env)
          BY <3>8, <4>3
        <5> QED  BY <3>3, <4>1, <5>1, ListsAligned
      <4> QED  BY <4>2, <4>3
    <3>10. ASSUME NEW env \in out.signed
           PROVE  /\ OnlySigned(c.env, env) /\ out.payloads # {}
                  /\ \A list \in out.payloads : CarriesPayloads(c.env, env, list)
      <4>1. env \in AuthorizeEnvelope(c.env, c.cancelled, c.authorized)
        BY <3>8, <3>10
      <4>2. /\ OnlySigned(c.env, env) /\ EnvelopePayloads(c.env, c.validUntil) # {}
            /\ \A list \in EnvelopePayloads(c.env, c.validUntil) : CarriesPayloads(c.env, env, list)
        BY <3>3, <3>4, <4>1, SignedAligned
      <4> QED  BY <3>8, <4>2
    <3>11. ASSUME NEW r \in out.recorded PROVE HoldsRecord(r)
      <4>1. r \in SimulateRecord(c.cancelled, c.client, c.text, c.response)
        BY <3>8, <3>11
      <4> QED  BY <3>3, <3>5, <4>1, RecordedAligned
    <3>12. out.decoded \subseteq DecodeTransactionEnvelope(c.text, {})
      BY <3>5, <3>8, LimitsTighten
    <3>13. EnvelopeAligned'
      BY <3>2, <3>7, <3>9, <3>10, <3>11, <3>12 DEF EnvelopeAligned
    <3> QED  BY <2>1, <3>2, <3>1, <3>13
  <2>2. ASSUME Inv, UNCHANGED envelopeVars PROVE Inv'
    BY <2>2 DEF envelopeVars, EnvelopeAligned
  <2> QED  BY <2>1, <2>2
<1>3. Inv => EnvelopeAligned
  OBVIOUS
<1> QED  BY <1>1, <1>2, <1>3, PTL DEF EnvelopeSpec
==============================================================================
