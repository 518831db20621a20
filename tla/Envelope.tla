------------------------------ MODULE Envelope ------------------------------
(***************************************************************************)
(* The authorization entries inside a transaction envelope: envelope.go,   *)
(* rpcflow/simulate.go and the bounded decoders of decode.go.              *)
(*                                                                         *)
(* An envelope is [type, empty, inner, operations], an operation [type,    *)
(* empty, auth]; empty is an arm whose pointer is nil.  The module is about *)
(* places: what one entry is inspected to be is module Review's, and how   *)
(* one operation's entries are signed is module Batch's.                   *)
(***************************************************************************)
EXTENDS Fallible, SequencesExt

CONSTANTS
  InputLimit,        \* MaxDecodeInputBytes, 2^20 in the code
  InspectEntry(_),   \* Inspect: the set of its results for an entry
  SignatureNodes(_), \* credentialNodes: an entry's signatures, each [path, signature]
  EnvelopeCalls      \* what the functions below are called with: see IsEnvelopeCall

VARIABLES
  envelopeCall,      \* the arguments
  readings           \* what the functions made of them: empty until they were called

envelopeVars == <<envelopeCall, readings>>

-----------------------------------------------------------------------------
\* Decoding.  limits is {}, or one set of limits that must not be looser than the defaults.

EncodedLen(bytes) == 4 * ((bytes + 2) \div 3)

validateLimitOptions(limits) == \A l \in limits : l.depth <= DepthLimit /\ l.bytes <= InputLimit

\* text is [empty, length, depth, garbled, value]; length is that of the base64 text.
DecodeBounded(text, limits) ==
  LET depth == IF limits = {} THEN DepthLimit ELSE (CHOOSE l \in limits : TRUE).depth
      bytes == IF limits = {} THEN InputLimit ELSE (CHOOSE l \in limits : TRUE).bytes
  IN  IF text.empty \/ ~validateLimitOptions(limits) \/ text.length > EncodedLen(bytes)
           \/ text.depth > depth \/ text.garbled
        THEN {} ELSE {text.value}

DecodeAuthorizationEntry(text, limits) == DecodeBounded(text, limits)
DecodeTransactionEnvelope(text, limits) == DecodeBounded(text, limits)

-----------------------------------------------------------------------------
\* Reading.

envelopeOperations(env) ==
  IF ~env.empty /\ (env.type \in {"tx", "tx_v0"} \/ (env.type = "tx_fee_bump" /\ env.inner = "tx"))
    THEN {env.operations} ELSE {}

Invokes(op) == op.type = "invoke_host_function"

\* Mutant: operations are numbered among the invocations only.
Located_InvokeIndex(ops, i) ==
  [j \in DOMAIN ops[i].auth |->
     [operation |-> Cardinality({k \in 1 .. i : Invokes(ops[k])}), index |-> j, entry |-> ops[i].auth[j]]]

\* The entries of one operation, each with its place.
Located(ops, i) ==
  [j \in DOMAIN ops[i].auth |-> [operation |-> i, index |-> j, entry |-> ops[i].auth[j]]]

EnvelopeEntries(env) ==
  {FlattenSeq([i \in DOMAIN ops |-> IF Invokes(ops[i]) THEN Located(ops, i) ELSE <<>>]) :
     ops \in {o \in envelopeOperations(env) :
                /\ \E i \in DOMAIN o : Invokes(o[i])
                /\ \A i \in DOMAIN o : Invokes(o[i]) => ~o[i].empty}}

InspectEnvelope(env) ==
  UNION {All([k \in DOMAIN es |-> {[operation |-> es[k].operation, index |-> es[k].index, info |-> info] :
                                     info \in InspectEntry(es[k].entry)}]) : es \in EnvelopeEntries(env)}

\* Preimage, without the network: both variants.
Preimage(entry, validUntil) ==
  LET c == entry.credentials
  IN CASE c.type = "address" ->
            {[variant |-> c.type, nonce |-> c.v.nonce, expiration |-> validUntil, root |-> entry.root]}
       [] isAddressBoundArm(c.type) ->
            {[variant |-> "with_address", nonce |-> c.v.nonce, expiration |-> validUntil,
              root |-> entry.root, address |-> c.v.address]}
       [] OTHER -> {}

\* A source-account entry is listed and has no payload: its place keeps the others' aligned.
EnvelopePayloads(env, validUntil) ==
  UNION {All([k \in DOMAIN es |->
                LET At(payload) == [operation |-> es[k].operation, index |-> es[k].index, payload |-> payload]
                IN  IF es[k].entry.credentials.type = "source_account" THEN {At({})}
                    ELSE {At({p}) : p \in Preimage(es[k].entry, validUntil)}]) : es \in EnvelopeEntries(env)}

-----------------------------------------------------------------------------
\* Signing.  One AuthorizeAll call (module Batch) for every invocation: authorized[i] is
\* the set of its results for operation i.

AuthorizeEnvelope(env, cancelled, authorized) ==
  IF cancelled \/ EnvelopeEntries(env) = {} THEN {}
  ELSE {[env EXCEPT !.operations = ops] :
          ops \in All([i \in DOMAIN env.operations |->
                         LET op == env.operations[i]
                         IN  IF Invokes(op) THEN {[op EXCEPT !.auth = auth] : auth \in authorized[i]}
                             ELSE {op}])}

-----------------------------------------------------------------------------
\* Recording.  The simulation's entries replace those of the one invocation.

innerTransaction(env) ==
  IF ~env.empty /\ (env.type = "tx" \/ (env.type = "tx_fee_bump" /\ env.inner = "tx"))
    THEN {env.operations} ELSE {}

invokeOperationIndex(env) ==
  UNION {LET at == {i \in DOMAIN ops : Invokes(ops[i])}
         IN  {i \in at : at = {i} /\ ~ops[i].empty} : ops \in innerTransaction(env)}

\* response is [kind, results, auth]; auth holds texts, {} when the result carries none.
recordedAuthEntries(response) ==
  IF response.results # 1 \/ response.auth = {} THEN {}
  ELSE LET texts == CHOOSE a \in response.auth : TRUE
       IN  All([i \in DOMAIN texts |-> DecodeAuthorizationEntry(texts[i], {})])

attachRecordedAuth(env, i, entries) == [env EXCEPT !.operations[i].auth = entries]

credentialArm(entry) == {info.arm : info \in InspectEntry(entry)}

SimulateRecord(cancelled, client, text, response) ==
  IF cancelled \/ ~client THEN {}
  ELSE {[envelope |-> attachRecordedAuth(r.env, r.i, r.entries),
         entries |-> [k \in DOMAIN r.entries |->
                        [operation |-> r.i, index |-> k, entry |-> r.entries[k], arm |-> r.arms[k]]]] :
          r \in UNION {UNION {[env : {env}, i : invokeOperationIndex(env), entries : {es},
                               arms : All([k \in DOMAIN es |-> credentialArm(es[k])])] :
                                env \in DecodeTransactionEnvelope(text, {})} :
                         es \in IF response.kind = "ok" THEN recordedAuthEntries(response) ELSE {}}}

-----------------------------------------------------------------------------
\* The arguments of the functions, one envelope through all of them.

IsSequence(s) == Len(s) \in Nat /\ s = [i \in 1 .. Len(s) |-> s[i]]

IsEnvelope(env) ==
  /\ env = [type |-> env.type, empty |-> env.empty, inner |-> env.inner, operations |-> env.operations]
  /\ IsSequence(env.operations)
  /\ \A i \in DOMAIN env.operations :
       LET op == env.operations[i]
       IN  op = [type |-> op.type, empty |-> op.empty, auth |-> op.auth] /\ IsSequence(op.auth)

\* A signature is known by what it is over.
Signature(preimage) ==
  [type |-> "vec", v |-> [nil |-> FALSE, items |-> <<[type |-> "over", v |-> preimage]>>]]

\* entry, which was old, is signed for a preimage: it expires as the preimage says,
\* a node of it carries a signature over the preimage, and every signature that is
\* new is one.  Which nodes are signed is up to the signers: the top of a
\* delegates entry may stay void.
Carries(old, entry, preimage) ==
  /\ entry.credentials.v.expiration = preimage.expiration
  /\ \E n \in SignatureNodes(entry) : n.signature = Signature(preimage)
  /\ \A n \in SignatureNodes(entry) \ SignatureNodes(old) : n.signature = Signature(preimage)

\* What signing leaves alone of an entry.
Kept(entry) ==
  IF entry.credentials.type = "source_account" THEN entry
  ELSE [type |-> entry.credentials.type, address |-> entry.credentials.v.address,
        nonce |-> entry.credentials.v.nonce, root |-> entry.root,
        nodes |-> {n.path : n \in SignatureNodes(entry)}]

\* What AuthorizeAll may return for one operation's entries: all in their places,
\* each that needs it signed for its own preimage.
SignedFor(before, after, validUntil) ==
  /\ IsSequence(after) /\ Len(after) = Len(before)
  /\ \A j \in 1 .. Len(before) :
       /\ Kept(after[j]) = Kept(before[j])
       /\ before[j].credentials.type # "source_account" =>
            \E p \in Preimage(before[j], validUntil) : Carries(before[j], after[j], p)

IsEnvelopeCall(c) ==
  /\ IsEnvelope(c.env) /\ IsEnvelope(c.text.value)
  /\ \A i \in DOMAIN c.env.operations : \A auth \in c.authorized[i] :
       SignedFor(c.env.operations[i].auth, auth, c.validUntil)
  /\ c.text.length \in Nat /\ c.text.depth \in Nat
  /\ \A l \in c.limits : l.depth \in Nat /\ l.bytes \in Nat
  /\ \A texts \in c.response.auth : IsSequence(texts)

ASSUME EnvelopeAssumption ==
  /\ DepthLimit \in Nat /\ InputLimit \in Nat
  /\ \A c \in EnvelopeCalls : IsEnvelopeCall(c)

EnvelopeInit == envelopeCall \in EnvelopeCalls /\ readings = {}

Rewrite ==
  LET c == envelopeCall
  IN  /\ readings = {}
      /\ readings' = {[entries |-> EnvelopeEntries(c.env), infos |-> InspectEnvelope(c.env),
                       payloads |-> EnvelopePayloads(c.env, c.validUntil),
                       signed |-> AuthorizeEnvelope(c.env, c.cancelled, c.authorized),
                       decoded |-> DecodeTransactionEnvelope(c.text, c.limits),
                       recorded |-> SimulateRecord(c.cancelled, c.client, c.text, c.response)]}
      /\ UNCHANGED envelopeCall

EnvelopeSpec == EnvelopeInit /\ [][Rewrite]_envelopeVars

-----------------------------------------------------------------------------

Places(list) == [k \in DOMAIN list |-> <<list[k].operation, list[k].index>>]

\* es lists every entry of the invocations among ops, in order, with the place it has.
ListsEntries(ops, es) ==
  /\ {es[k] : k \in DOMAIN es} =
       UNION {{[operation |-> i, index |-> j, entry |-> ops[i].auth[j]] : j \in DOMAIN ops[i].auth} :
                i \in {n \in DOMAIN ops : ops[n].type = "invoke_host_function"}}
  /\ \A k, l \in DOMAIN es :
       k < l => \/ es[k].operation < es[l].operation
                \/ es[k].operation = es[l].operation /\ es[k].index < es[l].index

\* Operation new is op but for what signing changes of its entries.
ButForAuth(op, new) ==
  /\ [new EXCEPT !.auth = op.auth] = op
  /\ [j \in DOMAIN new.auth |-> Kept(new.auth[j])] = [j \in DOMAIN op.auth |-> Kept(op.auth[j])]

OnlySigned(env, new) ==
  /\ [new EXCEPT !.operations = env.operations] = env
  /\ Len(new.operations) = Len(env.operations)
  /\ \A i \in DOMAIN env.operations : ButForAuth(env.operations[i], new.operations[i])

\* Every payload of the list is what was signed at its place in new, which was env.
CarriesPayloads(env, new, list) ==
  \A k \in DOMAIN list : \A p \in list[k].payload :
    Carries(env.operations[list[k].operation].auth[list[k].index],
            new.operations[list[k].operation].auth[list[k].index], p)

\* The recorded envelope holds the recorded entries where the record says, and lists no other.
HoldsRecord(r) ==
  \A k \in DOMAIN r.entries :
    /\ r.envelope.operations[r.entries[k].operation].auth[r.entries[k].index] = r.entries[k].entry
    /\ \A es \in EnvelopeEntries(r.envelope) : Places(es) = Places(r.entries)

\* The four readings of an envelope speak of the same entries.  Each entry is
\* listed once, in order, with the place it really has; what EnvelopePayloads
\* says is to be signed for a place is what every signature that
\* AuthorizeEnvelope adds at that place covers, and one does; nothing else of the
\* envelope changes.  A
\* recorded envelope holds the recorded entries where the record says.  And a
\* caller's limits never admit an input that the defaults refuse
\* (EnvelopeEntries, EnvelopePayloads, InspectEnvelope, AuthorizeEnvelope,
\* SimulateRecord, DecodeTransactionEnvelope).
EnvelopeAligned ==
  \A out \in readings :
    /\ \A es \in out.entries :
         /\ ListsEntries(envelopeCall.env.operations, es)
         /\ \A list \in out.payloads \cup out.infos : Places(list) = Places(es)
    /\ \A env \in out.signed :
         /\ OnlySigned(envelopeCall.env, env) /\ out.payloads # {}
         /\ \A list \in out.payloads : CarriesPayloads(envelopeCall.env, env, list)
    /\ \A r \in out.recorded : HoldsRecord(r)
    /\ out.decoded \subseteq DecodeTransactionEnvelope(envelopeCall.text, {})
==============================================================================
