---------------------------- MODULE MCAttestation ----------------------------
(***************************************************************************)
(* Registrations for VerifyAttestation: one in order in each format, and    *)
(* every one that departs from it in at most two things.                    *)
(***************************************************************************)
EXTENDS Attestation

GoodAuthData ==
  [length |-> "full", rpID |-> "rp", flags |-> {"UP", "UV", "AT"}, aaguid |-> "model", idLen |-> 1,
   key |-> [shape |-> "ok", name |-> "credential"], extensions |-> "none", trailing |-> FALSE]
GoodClientData == [json |-> TRUE, type |-> "webauthn.create", challenge |-> "fresh", origin |-> "site"]
Leaf ==
  [parses |-> TRUE, key |-> "device", curve |-> "P-256", version |-> 3, subject |-> TRUE, ca |-> FALSE,
   critical |-> FALSE, aaguid |-> {"model"}, issuer |-> "vendor", notBefore |-> 4, notAfter |-> 5]
Authority(key, issuer) == [Leaf EXCEPT !.key = key, !.issuer = issuer, !.ca = TRUE, !.aaguid = {}]
Vendor == Authority("vendor", "root")
Root == Authority("root", "root")
\* The leaf, the vendor's product line and the vendor.
Line == Authority("line", "vendor")
Chain == <<[Leaf EXCEPT !.issuer = "line"], Line, Vendor>>

Registration(format, by, x5c) ==
  [rpID |-> "rp", origin |-> "site", challenge |-> "fresh", requireUserVerification |-> TRUE, roots |-> {{Root}},
   now |-> 5, clientData |-> GoodClientData,
   object |-> [shape |-> "fmt, attStmt and authData", fmt |-> format, authData |-> GoodAuthData,
               stmt |-> [members |-> IF format = "none" THEN {} ELSE {"alg", "sig"} \cup IF x5c = <<>> THEN {} ELSE {"x5c"},
                         alg |-> "ES256", sig |-> [by |-> by, over |-> <<GoodAuthData, GoodClientData>>], x5c |-> x5c]]]

GoodRegistrations ==
  {Registration("none", "nobody", <<>>), Registration("packed", "credential", <<>>),
   Registration("packed", "device", <<Leaf, Vendor>>),
   Registration("packed", "device", Chain)}

Departed(r) ==
  {[r EXCEPT !.rpID = x] : x \in {"", "other"}} \cup {[r EXCEPT !.challenge = x] : x \in {"", "stale"}}
  \cup {[r EXCEPT !.origin = "other"], [r EXCEPT !.roots = {}], [r EXCEPT !.roots = {{}}], [r EXCEPT !.roots = {{Leaf}}],
        [r EXCEPT !.roots = {{[Root EXCEPT !.notAfter = 4]}}], [r EXCEPT !.now = 3], [r EXCEPT !.now = 6],
        [r EXCEPT !.clientData.type = "webauthn.get"], [r EXCEPT !.clientData.challenge = "undecodable"],
        [r EXCEPT !.clientData.challenge = "stale"], [r EXCEPT !.clientData.json = FALSE],
        [r EXCEPT !.object.shape = "other"], [r EXCEPT !.object.fmt = "tpm"], [r EXCEPT !.object.fmt = "none"],
        [r EXCEPT !.requireUserVerification = FALSE], [r EXCEPT !.object.stmt.alg = "RS256"],
        [r EXCEPT !.object.stmt.sig.by = "stranger"], [r EXCEPT !.object.authData.aaguid = "other"],
        [r EXCEPT !.object.authData.idLen = 0], [r EXCEPT !.object.authData.idLen = MaxCredentialIDLength + 1],
        [r EXCEPT !.object.authData.trailing = TRUE], [r EXCEPT !.object.authData.rpID = "other"]}
  \cup {[r EXCEPT !.object.authData.flags = f] :
          f \in {{"UP", "AT"}, {"UV", "AT"}, {"UP", "UV"}, {"UP", "UV", "AT", "ED"}}}
  \cup {[r EXCEPT !.object.authData.extensions = x] : x \in {"map", "other"}}
  \cup {[r EXCEPT !.object.authData.length = x] : x \in {"prefix", "credential", "id"}}
  \cup {[r EXCEPT !.object.authData.key.shape = x] : x \in {"not_map", "other_algorithm", "not_on_curve"}}
  \cup {[r EXCEPT !.object.stmt.members = x] :
          x \in {{}, {"alg", "sig"}, {"sig"}, {"alg", "sig", "ecdaaKeyId"}, {"alg", "sig", "ver"}}}
  \* The authenticator may have signed what was departed to.
  \cup {[r EXCEPT !.object.stmt.sig.over = <<r.object.authData, r.clientData>>]}
  \cup IF r.object.stmt.x5c = <<>> THEN {}
       ELSE {[r EXCEPT !.object.stmt.x5c = x] : x \in {<<>>, <<Leaf>>, <<Vendor, Leaf>>, <<Chain[1], Vendor, Line>>, <<Chain[1], Line>>,
                                                    <<Chain[1], Authority("line", "line"), Vendor>>}}
              \cup {[r EXCEPT !.object.stmt.x5c[1] = c] :
                      c \in {[Leaf EXCEPT !.parses = FALSE], [Leaf EXCEPT !.curve = "P-384"], [Leaf EXCEPT !.version = 1],
                             [Leaf EXCEPT !.subject = FALSE], [Leaf EXCEPT !.ca = TRUE], [Leaf EXCEPT !.critical = TRUE],
                             [Leaf EXCEPT !.aaguid = {}], [Leaf EXCEPT !.aaguid = {"not DER"}],
                             [Leaf EXCEPT !.aaguid = {"other"}], [Leaf EXCEPT !.key = "credential"],
                             [Leaf EXCEPT !.issuer = "root"], [Leaf EXCEPT !.issuer = "stranger"]}}
              \cup UNION {{[r EXCEPT !.object.stmt.x5c[i].notAfter = 4], [r EXCEPT !.object.stmt.x5c[i].notBefore = 6],
                          [r EXCEPT !.object.stmt.x5c[i].ca = FALSE]} : i \in 2 .. Len(r.object.stmt.x5c)}

MCRegistrations ==
  LET one == UNION {Departed(r) : r \in GoodRegistrations}
      long == {r \in one : r.object.stmt.x5c = <<>> \/ Len(r.object.stmt.x5c) > 1}
  IN  GoodRegistrations \cup one \cup UNION {Departed(r) : r \in long}
==============================================================================
