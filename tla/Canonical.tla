------------------------------ MODULE Canonical ------------------------------
(***************************************************************************)
(* canonical.go: an authorization entry as a JSON document, and back.      *)
(*                                                                         *)
(* A union value is [type, v].  Its document is [type, fields] with fields *)
(* a function on the keys that are written.  The decoder does not look at  *)
(* those but at the Go structure encoding/json fills from them: its checks *)
(* are then all of the form "exactly these fields".                        *)
(***************************************************************************)
EXTENDS Fallible, FiniteSetsExt, TLC

\* JSON's null; for account, contract and xdr, plain Go strings, also the empty text.
CONSTANT Null

NoFields == [name \in {} |-> 0]
Doc(type, fields) == [type |-> type, fields |-> fields]

(* encoding/json takes a key in any case for the field of that name, and the    *)
(* last of two for the field's value; rejectDuplicateJSONKeys compares keys as  *)
(* they are written, so both may be there.  Some keys in upper case, which      *)
(* stand after their lower-case namesakes:                                      *)
UpperCase == [type |-> "TYPE", bool |-> "BOOL", nonce |-> "NONCE"]
Spellings(doc, name) ==
  {k \in DOMAIN doc.fields : k = name \/ (name \in DOMAIN UpperCase /\ k = UpperCase[name])}
FieldOf(doc, name) ==
  doc.fields[IF Spellings(doc, name) = {name} THEN name ELSE UpperCase[name]]

\* null leaves a field as if it had not been written, and so does false in nil.
Names(doc) ==
  {k \in DOMAIN doc.fields : \A n \in DOMAIN UpperCase : k # UpperCase[n]}
    \cup {n \in DOMAIN UpperCase \ {"type"} : UpperCase[n] \in DOMAIN doc.fields}
Zero(name, value) == value = Null \/ (name = "nil" /\ value = FALSE)
Fields(doc) == {n \in Names(doc) : ~Zero(n, FieldOf(doc, n))}

TypeOf(doc) == IF UpperCase["type"] \in DOMAIN doc.fields THEN FieldOf(doc, "type") ELSE doc.type

\* A list without a pointer in its structure is empty when it is not written.
ListOf(doc, name) == IF name \in Fields(doc) THEN FieldOf(doc, name) ELSE <<>>

-----------------------------------------------------------------------------
\* Scalars.  A numeral or a base64 text that is not the one the encoder writes
\* for its value (leading zeros, padding bits) has plain = FALSE.

FormatInt(n) == [numeral |-> n, plain |-> TRUE]
decodeCanonicalInt64(s) == IF s.plain THEN {s.numeral} ELSE {}
decodeCanonicalUint64(s) == IF s.plain /\ s.numeral >= 0 THEN {s.numeral} ELSE {}

\* hex of a hash or a salt: 64 lower-case digits.
EncodeHex(h) == [hex |-> h, plain |-> TRUE]
decodeCanonicalHex(s) == IF s.plain THEN {s.hex} ELSE {}

EncodeBase64(bytes) == [base64 |-> bytes, plain |-> TRUE]
decodeCanonicalBase64(s) == IF s.plain /\ s.base64 # <<>> THEN {s.base64} ELSE {}

\* A string is [valid, bytes]: valid UTF-8 is written as it is, the rest in base64.
encodeCanonicalText(s) ==
  Doc("text", IF s.valid THEN "utf8" :> s ELSE "base64" :> EncodeBase64(<<s>>))

decodeCanonicalText(doc) ==
  CASE Fields(doc) = {"utf8"} -> {FieldOf(doc, "utf8")}
    [] Fields(doc) = {"base64"} -> {b[1] : b \in decodeCanonicalBase64(FieldOf(doc, "base64"))}
    [] OTHER -> {}

\* safeMarshalBase64 knows three Go types; a pointer to one is none of them.
safeMarshalBase64(goType, value) ==
  IF goType \in {"xdr.ScAddress", "xdr.Asset", "xdr.ScVal"}
    THEN {[xdr |-> value, plain |-> TRUE]} ELSE {}
decodeCanonicalXDR(s) == IF s.plain THEN {s.xdr} ELSE {}

\* The parts of a wide integer, most significant first; only the first is signed.
EncodeParts(parts) == [i \in DOMAIN parts |-> FormatInt(parts[i])]
decodeCanonicalParts(signed, docs) ==
  All([i \in DOMAIN docs |->
         IF signed /\ i = 1 THEN decodeCanonicalInt64(docs[i]) ELSE decodeCanonicalUint64(docs[i])])

-----------------------------------------------------------------------------
\* Addresses, preimages and executables.

\* FormatAddress spells accounts and contracts; any other kind falls back to XDR.
encodeCanonicalAddress(a) ==
  IF a.kind \in {"account", "contract"}
    THEN {Doc(a.kind, a.kind :> [strkey |-> a])}
    ELSE {Doc("xdr", "xdr" :> x) : x \in safeMarshalBase64("xdr.ScAddress", a)}

decodeCanonicalAddress(doc) ==
  CASE TypeOf(doc) \in {"account", "contract"} /\ Fields(doc) = {TypeOf(doc)} ->
         {a \in {FieldOf(doc, TypeOf(doc)).strkey} : a.kind = TypeOf(doc)}
    [] TypeOf(doc) = "xdr" /\ Fields(doc) = {"xdr"} -> decodeCanonicalXDR(FieldOf(doc, "xdr"))
    [] OTHER -> {}

encodeCanonicalPreimage(p) ==
  CASE p.type = "from_address" ->
         {Doc(p.type, "address" :> a @@ "salt" :> EncodeHex(p.v.salt)) :
            a \in encodeCanonicalAddress(p.v.address)}
    [] p.type = "from_asset" ->
         {Doc(p.type, "xdr" :> x) : x \in safeMarshalBase64("*xdr.Asset", p.v)}
    [] OTHER -> {}

decodeCanonicalPreimage(doc) ==
  CASE TypeOf(doc) = "from_address" /\ Fields(doc) = {"address", "salt"} ->
         {[type |-> TypeOf(doc), v |-> [address |-> a, salt |-> s]] :
            a \in decodeCanonicalAddress(FieldOf(doc, "address")),
            s \in decodeCanonicalHex(FieldOf(doc, "salt"))}
    [] TypeOf(doc) = "from_asset" /\ Fields(doc) = {"xdr"} ->
         {[type |-> TypeOf(doc), v |-> x] : x \in decodeCanonicalXDR(FieldOf(doc, "xdr"))}
    [] OTHER -> {}

encodeCanonicalExecutable(e) ==
  CASE e.type = "wasm" -> {Doc("wasm", "wasm_hash" :> EncodeHex(e.v))}
    [] e.type = "stellar_asset" -> {Doc("stellar_asset", NoFields)}
    [] e.type = "external_ref" ->
         {Doc("external_ref", "owner" :> o @@ "tag" :> encodeCanonicalText(e.v.tag)) :
            o \in encodeCanonicalAddress(e.v.owner)}
    [] OTHER -> {}

decodeCanonicalExecutable(doc) ==
  CASE TypeOf(doc) = "wasm" /\ Fields(doc) = {"wasm_hash"} ->
         {[type |-> "wasm", v |-> h] : h \in decodeCanonicalHex(FieldOf(doc, "wasm_hash"))}
    [] TypeOf(doc) = "stellar_asset" /\ Fields(doc) = {} -> {[type |-> "stellar_asset", v |-> 0]}
    [] TypeOf(doc) = "external_ref" /\ Fields(doc) = {"owner", "tag"} ->
         {[type |-> "external_ref", v |-> [owner |-> o, tag |-> t]] :
            o \in decodeCanonicalAddress(FieldOf(doc, "owner")),
            t \in decodeCanonicalText(FieldOf(doc, "tag"))}
    [] OTHER -> {}

-----------------------------------------------------------------------------
\* ScVals.  An absent vector, map or storage has nil = TRUE.

Plain == {"bool", "u32", "i32"}
Numerals == {"u64", "i64", "timepoint", "duration"}
Wide == {"u128", "i128", "u256", "i256"}
Texts == {"string", "symbol", "executable_tag"}
Opaque == {"error", "ledger_key_nonce"}
Empty == {"void", "ledger_key_contract_instance"}

checkTraversalDepth(depth) == depth <= DepthLimit

RECURSIVE encodeCanonicalScVal(_, _)

encodeCanonicalMap(entries, depth) ==
  All([i \in DOMAIN entries |->
         {[key |-> k, val |-> v] : k \in encodeCanonicalScVal(entries[i].key, depth),
                                   v \in encodeCanonicalScVal(entries[i].val, depth)}])

encodeCanonicalInstance(instance, depth) ==
  {Doc("instance", "executable" :> e @@ s) :
     e \in encodeCanonicalExecutable(instance.executable),
     s \in IF instance.storage.nil THEN {NoFields}
           ELSE {"storage" :> m : m \in encodeCanonicalMap(instance.storage.items, depth)}}

\* The value field of each arm; the arms no arm of the switch names are refused.
ScValField(value, depth) ==
  LET t == value.type
  IN CASE t \in Plain -> {t :> value.v}
       [] t \in Empty -> {NoFields}
       [] t \in Numerals -> {t :> FormatInt(value.v)}
       [] t \in Wide -> {t :> EncodeParts(value.v)}
       [] t = "bytes" -> {t :> EncodeBase64(value.v)}
       [] t \in Texts -> {t :> encodeCanonicalText(value.v)}
       [] t \in {"vec", "map"} /\ value.v.nil -> {"nil" :> TRUE}
       [] t = "vec" /\ ~value.v.nil ->
            {t :> d : d \in All([i \in DOMAIN value.v.items |->
                                   encodeCanonicalScVal(value.v.items[i], depth + 1)])}
       [] t = "map" /\ ~value.v.nil ->
            {t :> d : d \in encodeCanonicalMap(value.v.items, depth + 1)}
       [] t = "address" -> {t :> d : d \in encodeCanonicalAddress(value.v)}
       [] t = "contract_instance" ->
            {t :> d : d \in encodeCanonicalInstance(value.v, depth + 1)}
       [] t \in Opaque -> {"xdr" :> d : d \in safeMarshalBase64("xdr.ScVal", value)}
       [] OTHER -> {}

encodeCanonicalScVal(value, depth) ==
  IF ~checkTraversalDepth(depth) THEN {} ELSE {Doc(value.type, f) : f \in ScValField(value, depth)}

encodeCanonicalScVals(values, depth) ==
  All([i \in DOMAIN values |-> encodeCanonicalScVal(values[i], depth)])

\* Mutant: fields beside the wanted ones are ignored.
requireScValFields_Lenient(doc, want) == want \subseteq Fields(doc)

\* Exactly the wanted fields.
requireScValFields(doc, want) == Fields(doc) = want

RECURSIVE decodeCanonicalScVal(_, _)

decodeCanonicalMap(entries, depth) ==
  All([i \in DOMAIN entries |->
         {[key |-> k, val |-> v] : k \in decodeCanonicalScVal(entries[i].key, depth),
                                   v \in decodeCanonicalScVal(entries[i].val, depth)}])

decodeCanonicalInstance(doc, depth) ==
  {[executable |-> e, storage |-> s] :
     e \in decodeCanonicalExecutable(FieldOf(doc, "executable")),
     s \in IF "storage" \notin Fields(doc) THEN {[nil |-> TRUE]}
           ELSE {[nil |-> FALSE, items |-> m] :
                   m \in decodeCanonicalMap(FieldOf(doc, "storage"), depth)}}

\* The payload of a document whose fields are the ones its type wants.
ScValPayload(doc, depth) ==
  LET t == TypeOf(doc)
  IN CASE t \in Plain /\ requireScValFields(doc, {t}) -> {FieldOf(doc, t)}
       [] t \in Empty /\ requireScValFields(doc, {}) -> {0}
       [] t = "i64" /\ requireScValFields(doc, {t}) -> decodeCanonicalInt64(FieldOf(doc, t))
       [] t \in Numerals \ {"i64"} /\ requireScValFields(doc, {t}) ->
            decodeCanonicalUint64(FieldOf(doc, t))
       [] t \in Wide /\ requireScValFields(doc, {t}) ->
            decodeCanonicalParts(t \in {"i128", "i256"}, FieldOf(doc, t))
       [] t = "bytes" /\ requireScValFields(doc, {t}) -> decodeCanonicalBase64(FieldOf(doc, t))
       [] t \in Texts /\ requireScValFields(doc, {t}) -> decodeCanonicalText(FieldOf(doc, t))
       [] t \in {"vec", "map"} /\ "nil" \in Fields(doc) /\ requireScValFields(doc, {"nil"}) ->
            {[nil |-> TRUE]}
       [] t = "vec" /\ "nil" \notin Fields(doc) /\ requireScValFields(doc, {t}) ->
            {[nil |-> FALSE, items |-> s] :
               s \in All([i \in DOMAIN FieldOf(doc, t) |->
                            decodeCanonicalScVal(FieldOf(doc, t)[i], depth + 1)])}
       [] t = "map" /\ "nil" \notin Fields(doc) /\ requireScValFields(doc, {t}) ->
            {[nil |-> FALSE, items |-> s] : s \in decodeCanonicalMap(FieldOf(doc, t), depth + 1)}
       [] t = "address" /\ requireScValFields(doc, {t}) -> decodeCanonicalAddress(FieldOf(doc, t))
       [] t = "contract_instance" /\ requireScValFields(doc, {t}) ->
            decodeCanonicalInstance(FieldOf(doc, t), depth + 1)
       [] t \in Opaque /\ requireScValFields(doc, {"xdr"}) ->
            {x.v : x \in {y \in decodeCanonicalXDR(FieldOf(doc, "xdr")) : y.type = t}}
       [] OTHER -> {}

decodeCanonicalScVal(doc, depth) ==
  IF ~checkTraversalDepth(depth) THEN {}
  ELSE {[type |-> TypeOf(doc), v |-> v] : v \in ScValPayload(doc, depth)}

decodeCanonicalScVals(docs, depth) ==
  All([i \in DOMAIN docs |-> decodeCanonicalScVal(docs[i], depth)])

-----------------------------------------------------------------------------
\* Functions and invocations.

encodeCanonicalFunction(f, depth) ==
  CASE f.type = "contract_fn" ->
         {Doc(f.type, "contract_address" :> a @@ "args" :> s
                        @@ "function_name" :> encodeCanonicalText(f.v.name)) :
            a \in encodeCanonicalAddress(f.v.contract),
            s \in encodeCanonicalScVals(f.v.args, depth + 1)}
    [] f.type = "create_contract_host_fn" ->
         {Doc(f.type, "contract_id_preimage" :> p @@ "executable" :> e) :
            p \in encodeCanonicalPreimage(f.v.preimage),
            e \in encodeCanonicalExecutable(f.v.executable)}
    [] f.type = "create_contract_v2_host_fn" ->
         {Doc(f.type, "contract_id_preimage" :> p @@ "executable" :> e @@ "constructor_args" :> s) :
            p \in encodeCanonicalPreimage(f.v.preimage),
            e \in encodeCanonicalExecutable(f.v.executable),
            s \in encodeCanonicalScVals(f.v.args, depth + 1)}
    [] OTHER -> {}

decodeCanonicalFunction(doc, depth) ==
  CASE TypeOf(doc) = "contract_fn" /\ Fields(doc) = {"contract_address", "function_name", "args"} ->
         {[type |-> TypeOf(doc), v |-> [contract |-> a, name |-> n, args |-> s]] :
            a \in decodeCanonicalAddress(FieldOf(doc, "contract_address")),
            n \in decodeCanonicalText(FieldOf(doc, "function_name")),
            s \in decodeCanonicalScVals(FieldOf(doc, "args"), depth + 1)}
    [] TypeOf(doc) = "create_contract_host_fn"
         /\ Fields(doc) = {"contract_id_preimage", "executable"} ->
         {[type |-> TypeOf(doc), v |-> [preimage |-> p, executable |-> e]] :
            p \in decodeCanonicalPreimage(FieldOf(doc, "contract_id_preimage")),
            e \in decodeCanonicalExecutable(FieldOf(doc, "executable"))}
    [] TypeOf(doc) = "create_contract_v2_host_fn"
         /\ Fields(doc) = {"contract_id_preimage", "executable", "constructor_args"} ->
         {[type |-> TypeOf(doc), v |-> [preimage |-> p, executable |-> e, args |-> s]] :
            p \in decodeCanonicalPreimage(FieldOf(doc, "contract_id_preimage")),
            e \in decodeCanonicalExecutable(FieldOf(doc, "executable")),
            s \in decodeCanonicalScVals(FieldOf(doc, "constructor_args"), depth + 1)}
    [] OTHER -> {}

RECURSIVE encodeCanonicalInvocation(_, _)
encodeCanonicalInvocation(invocation, depth) ==
  IF ~checkTraversalDepth(depth) THEN {}
  ELSE {Doc("invocation", "function" :> f @@ "sub_invocations" :> s) :
          f \in encodeCanonicalFunction(invocation.function, depth + 1),
          s \in All([i \in DOMAIN invocation.subs |->
                       encodeCanonicalInvocation(invocation.subs[i], depth + 1)])}

RECURSIVE decodeCanonicalInvocation(_, _)
decodeCanonicalInvocation(doc, depth) ==
  IF ~checkTraversalDepth(depth) THEN {}
  ELSE {[function |-> f, subs |-> s] :
          f \in decodeCanonicalFunction(doc.fields["function"], depth + 1),
          s \in All([i \in DOMAIN ListOf(doc, "sub_invocations") |->
                       decodeCanonicalInvocation(ListOf(doc, "sub_invocations")[i], depth + 1)])}

-----------------------------------------------------------------------------
\* Credentials.

RECURSIVE encodeCanonicalDelegates(_, _)
encodeCanonicalDelegates(delegates, depth) ==
  IF ~checkTraversalDepth(depth) THEN {}
  ELSE All([i \in DOMAIN delegates |->
         {Doc("delegate", "address" :> a @@ "signature" :> s @@ "nested" :> n) :
            a \in encodeCanonicalAddress(delegates[i].address),
            s \in encodeCanonicalScVal(delegates[i].signature, depth + 1),
            n \in encodeCanonicalDelegates(delegates[i].nested, depth + 1)}])

RECURSIVE decodeCanonicalDelegates(_, _)
decodeCanonicalDelegates(docs, depth) ==
  IF ~checkTraversalDepth(depth) THEN {}
  ELSE All([i \in DOMAIN docs |->
         {[address |-> a, signature |-> s, nested |-> n] :
            a \in decodeCanonicalAddress(docs[i].fields["address"]),
            s \in decodeCanonicalScVal(docs[i].fields["signature"], depth + 1),
            n \in decodeCanonicalDelegates(ListOf(docs[i], "nested"), depth + 1)}])

encodeCanonicalAddressCredentials(c, depth) ==
  {"address" :> a @@ "nonce" :> FormatInt(c.v.nonce) @@ "signature" :> s
     @@ "signature_expiration_ledger" :> c.v.expiration :
     a \in encodeCanonicalAddress(c.v.address),
     s \in encodeCanonicalScVal(c.v.signature, depth + 1)}

encodeCanonicalCredentials(c) ==
  CASE c.type = "source_account" -> {Doc(c.type, NoFields)}
    [] c.type \in {"address", "address_v2"} ->
         {Doc(c.type, f) : f \in encodeCanonicalAddressCredentials(c, 0)}
    [] c.type = "address_with_delegates" ->
         {Doc(c.type, f @@ "delegates" :> d) :
            f \in encodeCanonicalAddressCredentials(c, 0),
            d \in encodeCanonicalDelegates(c.v.delegates, 1)}
    [] OTHER -> {}

AddressFields == {"address", "nonce", "signature", "signature_expiration_ledger"}

decodeCanonicalAddressCredentials(doc, depth) ==
  {[address |-> a, nonce |-> n, expiration |-> FieldOf(doc, "signature_expiration_ledger"),
    signature |-> s] :
     a \in decodeCanonicalAddress(FieldOf(doc, "address")),
     n \in decodeCanonicalInt64(FieldOf(doc, "nonce")),
     s \in decodeCanonicalScVal(FieldOf(doc, "signature"), depth + 1)}

decodeCanonicalCredentials(doc) ==
  CASE TypeOf(doc) = "source_account" /\ Fields(doc) = {} -> {[type |-> TypeOf(doc), v |-> 0]}
    [] TypeOf(doc) \in {"address", "address_v2"} /\ Fields(doc) = AddressFields ->
         {[type |-> TypeOf(doc), v |-> c] : c \in decodeCanonicalAddressCredentials(doc, 0)}
    [] TypeOf(doc) = "address_with_delegates" /\ Fields(doc) = AddressFields \cup {"delegates"} ->
         {[type |-> TypeOf(doc), v |-> c @@ "delegates" :> d] :
            c \in decodeCanonicalAddressCredentials(doc, 0),
            d \in decodeCanonicalDelegates(FieldOf(doc, "delegates"), 1)}
    [] OTHER -> {}

-----------------------------------------------------------------------------
\* Whole documents.  keys tells a document with a key written twice in the same
\* case or an unknown one, and trailing one with data after it; size is its bytes
\* in units of the limit.

CanonicalJSONSchemaVersion == 1

MarshalCanonicalJSON(entry) ==
  {[schema |-> CanonicalJSONSchemaVersion, keys |-> "known", trailing |-> FALSE, size |-> entry.size,
    credentials |-> c, root |-> r] :
     c \in encodeCanonicalCredentials(entry.credentials),
     r \in IF entry.size > 1 THEN {} ELSE encodeCanonicalInvocation(entry.root, 0)}

UnmarshalCanonicalJSON(doc) ==
  IF doc.size > 1 \/ doc.keys # "known" \/ doc.trailing \/ doc.schema # CanonicalJSONSchemaVersion
    THEN {}
    ELSE {[credentials |-> c, root |-> r, size |-> doc.size] :
            c \in decodeCanonicalCredentials(doc.credentials),
            r \in decodeCanonicalInvocation(doc.root, 0)}

==============================================================================
