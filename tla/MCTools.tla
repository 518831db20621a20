------------------------------- MODULE MCTools -------------------------------
(***************************************************************************)
(* The library's pure functions and the command line tool: every behaviour *)
(* picks one of them and one input in its initial state and computes the   *)
(* result in one step.                                                     *)
(***************************************************************************)
EXTENDS Policy, Envelope, MCAttestation, MCCli

CONSTANT Subjects   \* which of the functions below this run explores

VARIABLES subject, input, output

conversionVars == <<input, output>>
vars == <<subject, conversionVars, envelopeVars, attestationVars, cliVars>>

Pending == [done |-> FALSE]

-----------------------------------------------------------------------------
\* Canonical JSON: values of every arm, and trees up to one level too deep.

account == [kind |-> "account", id |-> 1]
contract == [kind |-> "contract", id |-> 1]
muxed == [kind |-> "muxed", id |-> 1]
text == [valid |-> TRUE, bytes |-> 1]
raw == [valid |-> FALSE, bytes |-> 2]

Val(type, v) == [type |-> type, v |-> v]
Absent == [nil |-> TRUE]
Items(s) == [nil |-> FALSE, items |-> s]
Pair(k, v) == [key |-> k, val |-> v]

wasm == Val("wasm", 7)
external == Val("external_ref", [owner |-> contract, tag |-> raw])

Leaves ==
  {Val("bool", FALSE), Val("void", 0), Val("ledger_key_contract_instance", 0),
   Val("u32", 0), Val("i32", -1), Val("u64", 5), Val("i64", -5), Val("timepoint", 0),
   Val("duration", 1), Val("u128", <<0, 3>>), Val("i128", <<-1, 3>>), Val("u256", <<0, 0, 0, 3>>),
   Val("i256", <<-1, 0, 0, 3>>), Val("bytes", <<1>>), Val("bytes", <<>>),
   Val("string", text), Val("string", raw), Val("symbol", text), Val("executable_tag", raw),
   Val("address", account), Val("address", contract), Val("address", muxed),
   Val("error", 3), Val("ledger_key_nonce", 4), Val("unknown", 0)}

RECURSIVE Nested(_)
Nested(n) == IF n = 0 THEN Val("void", 0) ELSE Val("vec", Items(<<Nested(n - 1)>>))

Trees ==
  {Val("vec", Absent), Val("vec", Items(<<>>)), Val("map", Absent), Val("map", Items(<<>>)),
   Val("vec", Items(<<Val("u32", 1), Val("bytes", <<2>>)>>)),
   Val("map", Items(<<Pair(Val("symbol", text), Val("i128", <<0, 9>>))>>)),
   Val("contract_instance", [executable |-> wasm, storage |-> Absent]),
   Val("contract_instance",
       [executable |-> external,
        storage |-> Items(<<Pair(Val("symbol", raw), Val("vec", Items(<<>>)))>>)])}
  \cup {Nested(n) : n \in 1 .. DepthLimit}

Call(args, subs) ==
  [function |-> Val("contract_fn", [contract |-> contract, name |-> text, args |-> args]),
   subs |-> subs]
Create(preimage) ==
  [function |-> Val("create_contract_host_fn", [preimage |-> preimage, executable |-> wasm]),
   subs |-> <<>>]
CreateV2(preimage, args) ==
  [function |-> Val("create_contract_v2_host_fn",
     [preimage |-> preimage, executable |-> Val("stellar_asset", 0), args |-> args]), subs |-> <<>>]

fromAddress == Val("from_address", [address |-> account, salt |-> 3])
fromAsset == Val("from_asset", [asset |-> "native"])

RECURSIVE Chained(_)
Chained(n) == IF n = 0 THEN Call(<<>>, <<>>) ELSE Call(<<>>, <<Chained(n - 1)>>)

Roots ==
  {Call(<<v>>, <<>>) : v \in Leaves \cup Trees}
    \cup {Create(fromAddress), Create(fromAsset), CreateV2(fromAddress, <<Val("u32", 1)>>)}
    \cup {Chained(n) : n \in 1 .. DepthLimit}

Credential(type, signature) ==
  Val(type, [address |-> account, nonce |-> -2, expiration |-> 9, signature |-> signature])
WithNodes(delegates) ==
  Val("address_with_delegates",
      [address |-> contract, nonce |-> 2, expiration |-> 9, signature |-> Val("void", 0),
       delegates |-> delegates])
Delegate(nested) == [address |-> account, signature |-> Val("void", 0), nested |-> nested]

RECURSIVE Delegated(_)
Delegated(n) == IF n = 0 THEN <<>> ELSE <<Delegate(Delegated(n - 1))>>

CanonicalCredentials ==
  {Val("source_account", 0), Credential("address", Val("void", 0)),
   Credential("address_v2", Val("vec", Items(<<Val("bytes", <<1>>)>>))), Val("unknown", 0)}
    \cup {WithNodes(Delegated(n)) : n \in 0 .. DepthLimit}

CanonicalEntries ==
  {[credentials |-> Credential("address", Val("void", 0)), root |-> r, size |-> 1] : r \in Roots}
    \cup {[credentials |-> c, root |-> Call(<<>>, <<>>), size |-> n] :
            c \in CanonicalCredentials, n \in 1 .. 2}

\* A document with one thing about it changed.
Stray == "bool" :> TRUE @@ "xdr" :> [xdr |-> Val("error", 3), plain |-> TRUE] @@ "nil" :> TRUE
Changed(doc) ==
  {Doc(doc.type, doc.fields @@ (n :> Stray[n])) : n \in DOMAIN Stray}
    \cup {Doc(doc.type, [m \in Fields(doc) \ {n} |-> doc.fields[m]]) : n \in Fields(doc)}
    \cup {Doc(t, doc.fields) : t \in {"void", "vec", "u64", "i64", "error", "address", "address_v2",
                                      "account", "contract", "contract_fn", "unknown"}}

Function(doc) == doc.root.fields["function"]
HasArg(doc) == Function(doc).type = "contract_fn" /\ Len(Function(doc).fields["args"]) = 1
WithFunction(doc, f) == [doc EXCEPT !.root.fields["function"] = f]
WithArg(doc, v) == [doc EXCEPT !.root.fields["function"].fields["args"] = <<v>>]

Altered(doc) ==
  {[doc EXCEPT !.schema = 2], [doc EXCEPT !.keys = "repeated"], [doc EXCEPT !.trailing = TRUE],
   [doc EXCEPT !.size = 2]}
  \cup {[doc EXCEPT !.credentials = c] : c \in Changed(doc.credentials)}
  \cup {WithFunction(doc, f) : f \in Changed(Function(doc))}
  \cup IF ~HasArg(doc) THEN {} ELSE {WithArg(doc, v) : v \in Changed(Function(doc).fields["args"][1])}
  \cup IF doc.credentials.type = "source_account" THEN {}
       ELSE {[doc EXCEPT !.credentials.fields["nonce"].plain = FALSE]}
              \cup {[doc EXCEPT !.credentials.fields["address"] = a] :
                      a \in Changed(doc.credentials.fields["address"])}

\* The two other spellings the decoder takes: an address as XDR, text as base64.
Respelled(doc) ==
  IF Function(doc).type # "contract_fn" THEN {}
  ELSE {WithFunction(doc, [Function(doc) EXCEPT !.fields["function_name"] =
                             Doc("text", "base64" :> EncodeBase64(<<text>>))]),
        WithFunction(doc, [Function(doc) EXCEPT !.fields["contract_address"] =
                             Doc("xdr", "xdr" :> [xdr |-> contract, plain |-> TRUE])])}

\* What the decoder lets pass although it is not there, or says nothing: a list left
\* out, null, an empty text, nil: false.
Without(doc, n) == Doc(doc.type, [m \in DOMAIN doc.fields \ {n} |-> doc.fields[m]])
Unlisted(doc, n) == {Without(doc, n), Doc(doc.type, (n :> Null) @@ doc.fields)}
Padded(doc, values) ==
  {Doc(doc.type, doc.fields @@ (n :> values[n])) : n \in DOMAIN values \ DOMAIN doc.fields}
Delegates(doc) ==
  IF doc.credentials.type = "address_with_delegates" THEN doc.credentials.fields["delegates"] ELSE <<>>

Unwritten(doc) ==
  {[doc EXCEPT !.root = r] :
     r \in IF doc.root.fields["sub_invocations"] = <<>> THEN Unlisted(doc.root, "sub_invocations") ELSE {}}
  \cup {[doc EXCEPT !.credentials.fields["delegates"] = <<d>>] :
          d \in IF Len(Delegates(doc)) = 1 /\ Delegates(doc)[1].fields["nested"] = <<>>
                  THEN Unlisted(Delegates(doc)[1], "nested") ELSE {}}
Nulled(doc) ==
  {[doc EXCEPT !.credentials = c] : c \in Padded(doc.credentials, "address" :> Null)}
  \cup {WithFunction(doc, f) : f \in Padded(Function(doc), "constructor_args" :> Null)}
  \cup IF ~HasArg(doc) THEN {}
       ELSE {WithArg(doc, v) : v \in Padded(Function(doc).fields["args"][1],
                                              "bool" :> Null @@ "xdr" :> Null @@ "nil" :> FALSE)}

\* A key beside its upper-case namesake, with another value.
Doubled(doc) ==
  {WithFunction(doc, f) :
     f \in Padded([Function(doc) EXCEPT !.type = "unknown"], "TYPE" :> Function(doc).type)}
  \cup IF doc.credentials.type = "source_account" THEN {}
       ELSE {[doc EXCEPT !.credentials = c] : c \in Padded(doc.credentials, "NONCE" :> FormatInt(7))}

\* An input is an entry to encode and decode, or a document made from its encoding.
CanonicalInputs ==
  UNION {LET docs == MarshalCanonicalJSON(e)
             Input(change, changed) == {[entry |-> e, docs |-> {d}, change |-> change] : d \in changed}
         IN  {[entry |-> e, docs |-> {}, change |-> "none"]}
               \cup Input("altered", UNION {Altered(d) : d \in docs})
               \cup Input("respelled", UNION {Respelled(d) : d \in docs})
               \cup Input("unwritten", UNION {Unwritten(d) : d \in docs})
               \cup Input("padded", UNION {Nulled(d) : d \in docs})
               \cup Input("doubled", UNION {Doubled(d) : d \in docs})
         : e \in CanonicalEntries}

-----------------------------------------------------------------------------
\* Diff: an entry before and after an edit.

other == [kind |-> "account", id |-> 2]
void == Val("void", 0)
sig(n) == Val("vec", Items(<<Val("bytes", <<n>>)>>))
Node(a, s, nested) == [address |-> a, signature |-> s, nested |-> nested]

DiffTrees ==
  {<<>>, <<Node(account, void, <<>>)>>, <<Node(account, sig(1), <<>>)>>,
   <<Node(account, sig(1), <<>>), Node(account, sig(2), <<>>)>>,
   <<Node(account, sig(1), <<>>), Node(other, sig(2), <<>>)>>,
   <<Node(other, sig(2), <<>>), Node(account, sig(1), <<>>)>>,
   <<Node(account, sig(2), <<Node(other, sig(1), <<>>)>>)>>, <<Node(muxed, void, <<>>)>>}
    \cup {Delegated(DepthLimit), Delegated(DepthLimit + 1)}

AddressData(nonces, expirations, signatures) ==
  [address : {account, other}, nonce : nonces, expiration : expirations, signature : signatures]

DiffCredentials ==
  {Val("source_account", 0), Val("unknown", 0)}
    \cup {Val(arm, c) : arm \in {"address", "address_v2"},
                        c \in AddressData({1, 2}, {9}, {void, sig(1)})}
    \cup {Val("address_with_delegates", c @@ "delegates" :> ds) :
            c \in AddressData({1}, {9, 10}, {void, sig(1)}), ds \in DiffTrees}

DiffRoots ==
  {Call(<<>>, <<>>), Call(<<Val("u32", 1)>>, <<>>), Call(<<Val("u32", 2)>>, <<>>),
   Call(<<>>, <<Call(<<Val("u32", 1)>>, <<>>)>>), Call(<<>>, <<Call(<<Val("u32", 2)>>, <<>>)>>),
   Create(fromAddress), Chained(DepthLimit)}

DiffEntry(c, r) == [credentials |-> c, root |-> r]
DiffInputs ==
  {[a |-> DiffEntry(c, Call(<<>>, <<>>)), b |-> DiffEntry(d, Call(<<>>, <<>>))] :
     c \in DiffCredentials, d \in DiffCredentials}
  \cup {[a |-> DiffEntry(c, r), b |-> DiffEntry(c, q)] :
          c \in {x \in DiffCredentials : x.type # "address_with_delegates" \/ x.v.expiration = 9},
          r \in DiffRoots, q \in DiffRoots}

-----------------------------------------------------------------------------
\* Policy: a tree whose calls are known, and a policy with at most two rules.

Invoke(c, name, args) == [contract |-> c, name |-> name, args |-> args]
Token == [kind |-> "contract", id |-> 2]

Amounts ==
  {Val("u64", 5), Val("u64", 6), Val("i64", 6), Val("u128", <<0, 6>>), Val("u128", <<1, 0>>),
   Val("i128", <<-1, 999>>), Val("i128", <<0, 6>>), Val("i128", <<1, 0>>),
   Val("vec", Items(<<Val("u64", 1), Val("u64", 6)>>)), Val("vec", Absent),
   Val("map", Items(<<Pair(Val("symbol", text), Val("vec", Items(<<Val("i128", <<0, 6>>)>>)))>>))}

PolicyCalls ==
  {Invoke(contract, "transfer", <<>>), Invoke(Token, "transfer", <<>>), Invoke(contract, "set_admin", <<>>),
   Invoke(contract, "upgrade", <<>>)} \cup {Invoke(contract, "transfer", <<v>>) : v \in Amounts}

RECURSIVE InChain(_)
InChain(calls) ==
  [function |-> Val("contract_fn", calls[1]),
   subs |-> IF Len(calls) = 1 THEN <<>> ELSE <<InChain(Tail(calls))>>]
UnderCreate(calls) ==
  [function |-> Create(fromAddress).function,
   subs |-> [i \in DOMAIN calls |-> [function |-> Val("contract_fn", calls[i]), subs |-> <<>>]]]

PolicyTrees ==
  {[calls |-> calls, tree |-> InChain(calls)] : calls \in PolicyCalls \X PolicyCalls}
  \cup {[calls |-> <<c>>, tree |-> UnderCreate(<<c>>)] : c \in PolicyCalls}
  \cup {[calls |-> calls, tree |-> InChain(calls)] :
          calls \in {[i \in 1 .. n |-> Invoke(contract, "transfer", <<>>)] : n \in 1 .. DepthLimit + 1}}

Rules ==
  NewContractAllowlistRule({contract})
  \cup {[name |-> "max_amount", max |-> 5], [name |-> "forbidden_sac_admin", additional |-> {"upgrade"}],
        [name |-> "function_allowlist", allowed |-> {"transfer", "upgrade"}], [name |-> "address_bound"]}

PolicyInputs ==
  {[calls |-> t.calls,
         policy |-> [cancelled |-> cancelled, cfg |-> DefaultRiskConfig, rules |-> rules, custom |-> custom],
         preimage |-> [type |-> type, invocation |-> t.tree, address |-> account, nonce |-> 1,
                       expiration |-> expiration]] :
          t \in PolicyTrees, cancelled \in {FALSE}, custom \in {"accepts"}, expiration \in {9},
          type \in {"authorization", "authorization_with_address"},
          rules \in {<<r>> : r \in Rules} \cup {<<r, q>> : r \in Rules, q \in {x \in Rules : x.name = "max_amount"}}}
  \cup {[calls |-> t.calls,
         policy |-> [cancelled |-> cancelled, cfg |-> cfg, rules |-> <<>>, custom |-> custom],
         preimage |-> [type |-> type, invocation |-> t.tree, address |-> address, nonce |-> 1,
                       expiration |-> expiration]] :
          t \in {[calls |-> <<c>>, tree |-> InChain(<<c>>)] : c \in {Invoke(contract, "transfer", <<>>)}},
          cancelled \in BOOLEAN, custom \in {"accepts", "refuses"}, expiration \in {0, 9},
          cfg \in {DefaultRiskConfig, [DefaultRiskConfig EXCEPT !.known = {Token}, !.currentLedger = 12]},
          address \in {account, muxed},
          type \in {"authorization", "authorization_with_address", "contract_id"}}

-----------------------------------------------------------------------------
\* Envelopes: every short list of operations, in every kind of envelope.

Op(type, auth) == [type |-> type, empty |-> FALSE, auth |-> auth]
AuthEntry(type, a, nonce) ==
  DiffEntry(Val(type, [address |-> a, nonce |-> nonce, expiration |-> 0, signature |-> void]), Call(<<>>, <<>>))
SourceEntry == DiffEntry(Val("source_account", 0), Call(<<>>, <<>>))

ValidUntil == 9

\* The contract account leaves its own signature to its delegates, or has given it.
DelegatesEntry(node) ==
  DiffEntry(Val("address_with_delegates",
                [address |-> contract, nonce |-> 6, expiration |-> 0, signature |-> void, delegates |-> <<node>>]),
            Call(<<>>, <<>>))
PartlySigned(entry) ==
  [entry EXCEPT !.credentials.v.expiration = ValidUntil,
                !.credentials.v.signature = Signature(CHOOSE p \in Preimage(entry, ValidUntil) : TRUE)]

Auths == {<<>>, <<AuthEntry("address", account, 1), SourceEntry>>, <<SourceEntry, AuthEntry("address_v2", other, 2)>>,
          <<AuthEntry("address_v2", muxed, 3)>>}
    \cup {<<AuthEntry("address_v2", account, 4), DelegatesEntry(Node(account, void, <<Node(other, void, <<>>)>>))>>,
          <<PartlySigned(DelegatesEntry(Node(other, void, <<Node(contract, void, <<>>)>>)))>>}
Operations ==
  {Op("payment", <<>>), [Op("invoke_host_function", <<>>) EXCEPT !.empty = TRUE]}
    \cup {Op("invoke_host_function", auth) : auth \in Auths}

Env(kind, ops) == [type |-> kind[1], empty |-> FALSE, inner |-> kind[2], operations |-> ops]
Tx == <<"tx", "none">>
Envelopes ==
  {Env(kind, ops) : kind \in {Tx, <<"tx_v0", "none">>, <<"tx_fee_bump", "tx">>, <<"tx_fee_bump", "tx_v0">>,
                              <<"scp_value", "none">>},
                    ops \in BoundedSeq(Operations, 2)}
  \cup {[Env(Tx, <<>>) EXCEPT !.empty = TRUE]}

Text(value) == [empty |-> FALSE, length |-> 4, depth |-> 1, garbled |-> FALSE, value |-> value]
Response(texts) == [kind |-> "ok", results |-> 1, auth |-> {texts}]
Recorded == <<Text(AuthEntry("address_v2", account, 5)), Text(SourceEntry)>>

Responses ==
  {Response(Recorded), Response(<<>>), [Response(<<>>) EXCEPT !.kind = "error"],
   [Response(<<>>) EXCEPT !.results = 0], [Response(<<>>) EXCEPT !.auth = {}],
   Response(<<[Text(SourceEntry) EXCEPT !.garbled = TRUE]>>), Response(<<Text(AuthEntry("address", muxed, 1))>>)}

SomeEnvelope == Env(Tx, <<Op("payment", <<>>), Op("invoke_host_function", <<>>)>>)

SignatureNodesOf(entry) == UNION {ToSet(nodes) : nodes \in diffNodes(entry)}

RECURSIVE SignedNodes(_, _, _)
SignedNodes(nodes, signers, signature) ==
  [i \in DOMAIN nodes |->
     [nodes[i] EXCEPT !.signature = IF nodes[i].address \in signers THEN signature ELSE @,
                      !.nested = SignedNodes(nodes[i].nested, signers, signature)]]

\* The signers' nodes of an entry signed, if it has any.
AuthorizedEntry(entry, signers) ==
  LET Named(n) == IF n.path = <<>> THEN entry.credentials.v.address ELSE Last(n.path).address
      signing == \E n \in SignatureNodesOf(entry) : Named(n) \in signers
      Sign(signature) ==
        LET top == [entry EXCEPT !.credentials.v.expiration = ValidUntil,
                                 !.credentials.v.signature =
                                    IF entry.credentials.v.address \in signers THEN signature ELSE @]
        IN  IF entry.credentials.type # "address_with_delegates" THEN top
            ELSE [top EXCEPT !.credentials.v.delegates = SignedNodes(@, signers, signature)]
  IN  {Sign(Signature(p)) : p \in IF signing THEN Preimage(entry, ValidUntil) ELSE {}}

\* An answer of AuthorizeAll: every entry that needs it signed by someone, or none.
Authorized(auth, signers) ==
  All([i \in DOMAIN auth |-> IF auth[i].credentials.type = "source_account" THEN {auth[i]}
                             ELSE AuthorizedEntry(auth[i], signers)])

EnvelopeCallOf(env, signers, cancelled, client, t, limits, response) ==
  [env |-> env, validUntil |-> ValidUntil, cancelled |-> cancelled, client |-> client, text |-> t,
   limits |-> limits, response |-> response,
   authorized |-> [i \in DOMAIN env.operations |-> Authorized(env.operations[i].auth, signers)]]

MCEnvelopeCalls ==
  {EnvelopeCallOf(env, {account, other}, FALSE, TRUE, Text(env), {}, response) :
     env \in Envelopes, response \in {Response(Recorded), Response(<<>>)}}
  \cup
  {EnvelopeCallOf(SomeEnvelope, signers, cancelled, client, t, limits, response) :
     signers \in {{}, {account}}, cancelled \in BOOLEAN, client \in BOOLEAN, response \in Responses,
     t \in [empty : BOOLEAN, length : {4, EncodedLen(InputLimit), EncodedLen(InputLimit) + 4},
               depth : {1, DepthLimit, DepthLimit + 1}, garbled : BOOLEAN, value : {SomeEnvelope}],
     limits \in {{}, {[depth |-> 1, bytes |-> InputLimit]}, {[depth |-> DepthLimit + 1, bytes |-> 3]},
                 {[depth |-> DepthLimit, bytes |-> InputLimit + 1]}}}

-----------------------------------------------------------------------------

Init ==
  /\ subject \in Subjects
  /\ \/ subject = "canonical" /\ input \in CanonicalInputs
     \/ subject = "diff" /\ input \in DiffInputs
     \/ subject = "policy" /\ input \in PolicyInputs
     \/ subject \in {"envelope", "attestation", "cli"} /\ input = Pending
  /\ output = Pending
  /\ IF subject = "envelope" THEN EnvelopeInit ELSE envelopeCall = Pending /\ readings = {}
  /\ IF subject = "attestation" THEN AttestationInit ELSE registration = Pending /\ attestation = {}
  /\ IF subject = "cli" THEN CliInit ELSE commandLine = Pending /\ ended = {}

\* An input with a document is decoded, one without is encoded and decoded.
RoundTrip ==
  /\ subject = "canonical" /\ output = Pending
  /\ LET docs == IF input.docs # {} THEN input.docs ELSE MarshalCanonicalJSON(input.entry)
     IN output' = [done |-> TRUE, docs |-> docs, entries |-> UNION {UnmarshalCanonicalJSON(d) : d \in docs}]

Compare ==
  /\ subject = "diff" /\ output = Pending
  /\ output' = [done |-> TRUE, diffs |-> DiffEntries(input.a, input.b)]

Ask ==
  /\ subject = "policy" /\ output = Pending
  /\ output' = [done |-> TRUE, answer |-> PolicySign(input.policy, input.preimage)]

Convert ==
  /\ RoundTrip \/ Compare \/ Ask
  /\ UNCHANGED <<subject, input, envelopeVars, attestationVars, cliVars>>

Next ==
  \/ Convert
  \/ subject = "envelope" /\ Rewrite /\ UNCHANGED <<subject, conversionVars, attestationVars, cliVars>>
  \/ subject = "attestation" /\ Register /\ UNCHANGED <<subject, conversionVars, envelopeVars, cliVars>>
  \/ subject = "cli" /\ Execute /\ UNCHANGED <<subject, conversionVars, envelopeVars, attestationVars>>

Spec == Init /\ [][Next]_vars

-----------------------------------------------------------------------------

\* A document that is accepted says exactly what its entry says: encoding the
\* entry gives the document back, so no value written in it was ignored or taken
\* for another.  The two alternative spellings are rewritten, and what they are
\* rewritten to means the same; a list left out is the empty one, and null and
\* its like change nothing.  A key beside its upper-case namesake is the one case
\* in which a value is ignored: nothing is said of it.  Every document the encoder
\* writes is accepted, one with empty bytes in it excepted (MarshalCanonicalJSON,
\* UnmarshalCanonicalJSON).
CanonicalFaithful ==
  subject = "canonical" /\ output.done =>
    /\ \A e \in output.entries :
         CASE input.change \in {"none", "altered"} -> MarshalCanonicalJSON(e) = output.docs
           [] input.change = "respelled" ->
                UNION {UnmarshalCanonicalJSON(d) : d \in MarshalCanonicalJSON(e)} = {e}
           [] input.change \in {"unwritten", "padded"} -> e = input.entry
           [] OTHER -> TRUE
    /\ input.docs = {} /\ output.docs # {} =>
         \/ output.entries = {input.entry}
         \/ input.entry.root = Call(<<Val("bytes", <<>>)>>, <<>>)

-----------------------------------------------------------------------------

\* What a signature over an entry covers (the two preimages of preimage.go); a
\* source-account entry is covered by the transaction's own signature.
Covered(e) ==
  IF e.credentials.type = "source_account" THEN <<"transaction", e.root>>
  ELSE LET c == e.credentials.v
       IN  IF e.credentials.type = "address"
             THEN <<"authorization", e.root, c.nonce, c.expiration>>
             ELSE <<"authorization_with_address", e.root, c.nonce, c.expiration, c.address>>

\* Equal but for the order of siblings, the same occurrence of an address in both.
RECURSIVE SameNodes(_, _)
SameNodes(ns, ms) ==
  /\ Len(ns) = Len(ms)
  /\ \A i \in DOMAIN ns : \E j \in DOMAIN ms :
       /\ Step(ns, i) = Step(ms, j) /\ ns[i].signature = ms[j].signature
       /\ SameNodes(ns[i].nested, ms[j].nested)
Reordered(a, b) ==
  /\ {a.credentials.type, b.credentials.type} = {"address_with_delegates"}
  /\ SameNodes(DelegatesOf(a), DelegatesOf(b))
  /\ [a EXCEPT !.credentials.v.delegates = <<>>] = [b EXCEPT !.credentials.v.delegates = <<>>]

\* A diff never passes for harmless an edit that changes what is signed, and
\* under one arm reports no other; a diff without changes is a diff of equals,
\* or of entries that differ in the order of sibling delegates only.
\* After such an edit every signature the old entry carried, as CredentialNodes
\* finds them, is listed as stale unless it was replaced, or removed with its
\* node; nothing else is listed (DiffEntries, CredentialNodes).
DiffFindsStale ==
  subject = "diff" /\ output.done =>
    \A r \in output.diffs :
      LET d == r.diff
          Gone(p) == \E c \in d.changes : c.path = p /\ c.kind \in {"signature", "delegate_removed"}
          Signed(e) == {node.path : node \in {n \in UNION {ToSet(ns) : ns \in CredentialNodes(e)} : n.signed}}
      IN  /\ Covered(input.a) # Covered(input.b) => d.payloadChanged
          /\ d.payloadChanged /\ input.a.credentials.type = input.b.credentials.type =>
               Covered(input.a) # Covered(input.b)
          /\ d.changes = {} <=> input.a = input.b \/ Reordered(input.a, input.b)
          /\ d.payloadChanged /\ input.b.credentials.type # "source_account" =>
               d.stale = {p \in Signed(input.a) : ~Gone(p)}
          /\ d.stale \subseteq Signed(input.a) \cap Signed(input.b)

\* The numbers a value holds, a half of a wide integer counting 0 .. 999.
RECURSIVE Numbers(_)
Numbers(val) ==
  CASE val.type \in {"u64", "i64"} -> {val.v}
    [] val.type \in {"u128", "i128"} -> {val.v[1] * 1000 + val.v[2]}
    [] val.type = "vec" /\ ~val.v.nil -> UNION {Numbers(x) : x \in ToSet(val.v.items)}
    [] val.type = "map" /\ ~val.v.nil -> UNION {Numbers(x.val) : x \in ToSet(val.v.items)}
    [] OTHER -> {}

\* The wrapped signer is asked exactly when nothing stands against it: every
\* call of the tree, however deep, is to a listed contract, of a listed
\* function, of no administrator's and within the amount, as the rules in
\* force say; the tree is within the depth that can be inspected; and, where the
\* preimage names the address, that can be written and the expiration is not
\* zero.  The expiration in a legacy preimage is not looked at, and address_bound
\* refuses nothing: it knows no credentials of the arm it is for (PolicySigner.Sign).
PolicyFailsClosed ==
  subject = "policy" /\ output.done =>
    LET p == input.preimage
        calls == ToSet(input.calls)
        Meets(rule, c) ==
          CASE rule.name = "contract_allowlist" -> c.contract \in rule.allowed
            [] rule.name = "max_amount" ->
                 \A v \in ToSet(c.args) : \A n \in Numbers(v) : n <= rule.max
            [] rule.name = "forbidden_sac_admin" -> c.name \notin {"set_admin"} \cup rule.additional
            [] rule.name = "function_allowlist" -> c.name \in rule.allowed
            [] rule.name = "address_bound" -> TRUE
    IN  output.answer = "inner" <=>
          /\ ~input.policy.cancelled /\ input.policy.custom = "accepts"
          /\ p.type # "contract_id" /\ Len(input.calls) <= DepthLimit
          /\ p.type = "authorization_with_address" => p.expiration # 0 /\ p.address.kind # "muxed"
          /\ \A rule \in ToSet(input.policy.rules), c \in calls : Meets(rule, c)

==============================================================================
