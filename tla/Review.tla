------------------------------- MODULE Review -------------------------------
(***************************************************************************)
(* What a person or a policy reads before signing: inspect.go, risk.go,    *)
(* diff.go and credential_nodes.go.                                        *)
(*                                                                         *)
(* Entries are those of module Canonical.  A path is the sequence of steps *)
(* down the tree; a function that may refuse returns the set of its        *)
(* results.  Lists whose order only affects layout are sets.               *)
(***************************************************************************)
EXTENDS Canonical, SequencesExt

CONSTANT LedgerSpan   \* ledger numbers are taken modulo this, 2^32 in the code

FormatAddress(a) == IF a.kind \in {"account", "contract"} THEN {a} ELSE {}

isSigned(value) ==
  /\ value.type # "void"
  /\ value.type = "vec" => ~value.v.nil /\ value.v.items # <<>>

AddressArms == {"address", "address_v2", "address_with_delegates"}
armName(credentials) ==
  IF credentials.type \in AddressArms \cup {"source_account"} THEN {credentials.type} ELSE {}

DelegatesOf(entry) ==
  IF entry.credentials.type = "address_with_delegates" THEN entry.credentials.v.delegates ELSE <<>>

-----------------------------------------------------------------------------
\* Walks over the credential nodes.

\* A repeated address among its siblings is told apart by how often it occurred before.
Step(delegates, i) ==
  [address |-> delegates[i].address,
   n |-> Cardinality({j \in 1 .. i : delegates[j].address = delegates[i].address})]

RECURSIVE diffNodesOf(_, _, _)
diffNodesOf(prefix, delegates, depth) ==
  IF ~checkTraversalDepth(depth) THEN {}
  ELSE LET Below(i) ==
             LET path == Append(prefix, Step(delegates, i))
             IN  {<<[path |-> path, signature |-> delegates[i].signature]>> \o nested :
                    nested \in diffNodesOf(path, delegates[i].nested, depth + 1)}
       IN  {FlattenSeq(parts) :
              parts \in All([i \in DOMAIN delegates |->
                               IF FormatAddress(delegates[i].address) = {} THEN {} ELSE Below(i)])}

diffNodes(entry) ==
  CASE entry.credentials.type = "source_account" -> {<<>>}
    [] entry.credentials.type \in AddressArms ->
         {<<[path |-> <<>>, signature |-> entry.credentials.v.signature]>> \o nodes :
            nodes \in diffNodesOf(<<>>, DelegatesOf(entry), 1)}
    [] OTHER -> {}

\* The nodes a range loop over CredentialNodes sees until it ends or meets an error.
RECURSIVE yieldDelegateNodes(_, _, _)
yieldDelegateNodes(delegates, prefix, depth) ==
  IF ~checkTraversalDepth(depth) THEN {}
  ELSE LET Below(i) ==
             LET path == Append(prefix, Step(delegates, i))
                 node == [address |-> delegates[i].address, path |-> path,
                          signed |-> isSigned(delegates[i].signature)]
             IN  {<<node>> \o nested :
                    nested \in IF delegates[i].nested = <<>> THEN {<<>>}
                               ELSE yieldDelegateNodes(delegates[i].nested, path, depth + 1)}
       IN  {FlattenSeq(parts) :
              parts \in All([i \in DOMAIN delegates |->
                               IF FormatAddress(delegates[i].address) = {} THEN {} ELSE Below(i)])}

CredentialNodes(entry) ==
  CASE entry.credentials.type = "source_account" -> {<<>>}
    [] entry.credentials.type \in AddressArms ->
         {<<[address |-> a, path |-> <<>>, signed |-> isSigned(entry.credentials.v.signature)]>> \o nodes :
            a \in FormatAddress(entry.credentials.v.address),
            nodes \in IF entry.credentials.type = "address_with_delegates"
                        THEN yieldDelegateNodes(DelegatesOf(entry), <<>>, 1) ELSE {<<>>}}
    [] OTHER -> {}

-----------------------------------------------------------------------------
\* DiffEntries.

Change(kind, path, affects) == [kind |-> kind, path |-> path, affects |-> affects]

diffContractFn(path, a, b) ==
  IF FormatAddress(a.contract) = {} \/ FormatAddress(b.contract) = {} THEN {}
  ELSE {{Change("invocation", <<path, f>>, TRUE) : f \in {g \in {"contract", "name"} : a[g] # b[g]}}
          \cup IF Len(a.args) # Len(b.args) THEN {Change("invocation", <<path, "args">>, TRUE)}
               ELSE {Change("invocation", <<path, "args", i>>, TRUE) :
                       i \in {j \in DOMAIN a.args : a.args[j] # b.args[j]}}}

\* Different kinds of function, or different numbers of children, end the comparison below.
RECURSIVE diffInvocation(_, _, _, _)
diffInvocation(path, a, b, depth) ==
  IF ~checkTraversalDepth(depth) THEN {}
  ELSE IF a.function.type # b.function.type THEN {{Change("invocation", <<path, "function">>, TRUE)}}
  ELSE {own \cup below :
          own \in IF a.function.type = "contract_fn" THEN diffContractFn(path, a.function.v, b.function.v)
                  ELSE {IF a.function = b.function THEN {}
                        ELSE {Change("invocation", <<path, "function">>, TRUE)}},
          below \in IF Len(a.subs) # Len(b.subs)
                      THEN {{Change("invocation", <<path, "subInvocations">>, TRUE)}}
                      ELSE {UNION Range(parts) :
                              parts \in All([i \in DOMAIN a.subs |->
                                diffInvocation(Append(path, i), a.subs[i], b.subs[i], depth + 1)])}}

\* Nodes are matched by path; a credentials node only one side has is the arm change's to report.
diffNodeSets(a, b) ==
  LET Paths(nodes) == {nodes[i].path : i \in DOMAIN nodes}
      At(nodes, p) == nodes[CHOOSE i \in DOMAIN nodes : nodes[i].path = p].signature
      shared == Paths(a) \cap Paths(b)
      same == {p \in shared : At(a, p) = At(b, p)}
  IN  [changes |-> {Change("delegate_removed", p, FALSE) : p \in Paths(a) \ (Paths(b) \cup {<<>>})}
                     \cup {Change("delegate_added", p, FALSE) : p \in Paths(b) \ (Paths(a) \cup {<<>>})}
                     \cup {Change("signature", p, FALSE) : p \in shared \ same},
       carriedOver |-> {p \in same : isSigned(At(a, p))},
       signaturesChanged |-> shared # same,
       signedBefore |-> \E i \in DOMAIN a : isSigned(a[i].signature)]

\* Mutant: a moved entry is not taken for a change of what is signed.
CredentialChanges_AddressIgnored(armA, armB, a, b) ==
  {Change(f, <<>>, f # "address") : f \in {g \in {"address", "nonce", "expiration"} : a[g] # b[g]}}

\* An address is signed only under two bound arms; otherwise the arm change is what counts.
CredentialChanges(armA, armB, a, b) ==
  {Change(f, <<>>, f = "address" => isAddressBoundArm(armA) /\ isAddressBoundArm(armB)) :
     f \in {g \in {"address", "nonce", "expiration"} : a[g] # b[g]}}

summarize(d, signedBefore) ==
  CASE d.identical -> "identical"
    [] ~d.identical /\ d.payloadChanged /\ d.stale # {} -> "stale"
    [] ~d.identical /\ d.payloadChanged /\ d.stale = {} ->
         IF ~d.signaturesChanged THEN "unsigned_edit"
         ELSE IF signedBefore THEN "re_sign" ELSE "first_signing"
    [] ~d.identical /\ ~d.payloadChanged ->
         IF d.signaturesChanged THEN "signatures_changed" ELSE "structural"

DiffEntries(a, b) ==
  LET addressed == {a.credentials.type, b.credentials.type} \subseteq AddressArms
      formats == addressed => FormatAddress(a.credentials.v.address) # {}
                              /\ FormatAddress(b.credentials.v.address) # {}
      Assemble(invocation, nodes) ==
        LET arm == {Change("arm", <<>>, TRUE) :
                      x \in {y \in {1} : a.credentials.type # b.credentials.type}}
            creds == IF addressed
                       THEN CredentialChanges(a.credentials.type, b.credentials.type,
                                              a.credentials.v, b.credentials.v)
                       ELSE {}
            changes == arm \cup creds \cup invocation \cup nodes.changes
            payloadChanged == \E c \in changes : c.affects
            d == [identical |-> a = b, payloadChanged |-> payloadChanged,
                  signaturesChanged |-> nodes.signaturesChanged, changes |-> changes,
                  stale |-> IF payloadChanged THEN nodes.carriedOver ELSE {}]
        IN  [diff |-> d, summary |-> summarize(d, nodes.signedBefore)]
  IN IF armName(a.credentials) = {} \/ armName(b.credentials) = {} \/ ~formats THEN {}
     ELSE {Assemble(invocation, diffNodeSets(x, y)) :
             invocation \in diffInvocation(<<>>, a.root, b.root, 1),
             x \in diffNodes(a), y \in diffNodes(b)}

-----------------------------------------------------------------------------
\* Inspect and Analyze.

RECURSIVE countSubInvocations(_, _)
countSubInvocations(subs, depth) ==
  IF ~checkTraversalDepth(depth) THEN {}
  ELSE {FoldSeq(+, Len(subs), counts) :
          counts \in All([i \in DOMAIN subs |-> countSubInvocations(subs[i].subs, depth + 1)])}

DescribeSignature(sig) ==
  CASE sig.type = "bytes" /\ Len(sig.v) = 64 -> "passkey"
    [] sig.type = "map" -> "map"
    [] OTHER -> "unknown"

RECURSIVE inspectDelegates(_, _)
inspectDelegates(nodes, depth) ==
  IF ~checkTraversalDepth(depth) THEN {}
  ELSE All([i \in DOMAIN nodes |->
         {[address |-> a, signed |-> isSigned(nodes[i].signature),
           shape |-> DescribeSignature(nodes[i].signature), nested |-> nested] :
            a \in FormatAddress(nodes[i].address),
            nested \in inspectDelegates(nodes[i].nested, depth + 1)}])

NoCredentials == [address |-> {}, nonce |-> 0, validUntil |-> 0, signed |-> FALSE, delegates |-> <<>>]

InspectCredentials(entry) ==
  LET c == entry.credentials
  IN CASE c.type = "source_account" -> {NoCredentials}
       [] c.type \in AddressArms ->
            {[address |-> {a}, nonce |-> c.v.nonce, validUntil |-> c.v.expiration,
              signed |-> isSigned(c.v.signature), delegates |-> ds] :
               a \in FormatAddress(c.v.address),
               ds \in IF c.type = "address_with_delegates" THEN inspectDelegates(c.v.delegates, 1)
                      ELSE {<<>>}}
       [] OTHER -> {}

InspectFunction(f) ==
  CASE f.type = "contract_fn" -> {[contract |-> {a}, name |-> {f.v.name}] : a \in FormatAddress(f.v.contract)}
    [] f.type \in {"create_contract_host_fn", "create_contract_v2_host_fn"} ->
         {[contract |-> {}, name |-> {}]}
    [] OTHER -> {}

Inspect(entry) ==
  {[arm |-> entry.credentials.type, bound |-> isAddressBoundArm(entry.credentials.type),
    credentials |-> c, function |-> f, subInvocations |-> n] :
     c \in InspectCredentials(entry), f \in InspectFunction(entry.root.function),
     n \in countSubInvocations(entry.root.subs, 1)}

\* Every delegate of an inspected tree with its depth.
RECURSIVE InfoNodes(_, _)
InfoNodes(delegates, depth) ==
  FlattenSeq([i \in DOMAIN delegates |->
    <<[depth |-> depth, signed |-> delegates[i].signed]>> \o InfoNodes(delegates[i].nested, depth + 1)])

analyzeDelegates(nodes, cfg) == \E i \in DOMAIN nodes : nodes[i].depth > cfg.maxDelegateDepth
countTotalDelegates(nodes) == Len(nodes)
countUnsignedDelegates(nodes) == Cardinality({i \in DOMAIN nodes : ~nodes[i].signed})

ledgerDelta(validUntil, current) == (validUntil - current) % LedgerSpan

critical == {"SOURCE_ACCOUNT_WITH_DELEGATES", "EXPIRATION_ZERO"}

\* The codes of the findings.  KnownContracts = {} and CurrentLedger = 0 switch a check off.
Analyze(entry, cfg) ==
  {LET nodes == InfoNodes(info.credentials.delegates, 1)
       validUntil == info.credentials.validUntil
       Holds(code) ==
         CASE code = "DELEGATE_DEPTH_EXCEEDED" -> analyzeDelegates(nodes, cfg)
           [] code = "DELEGATE_COUNT_HIGH" -> countTotalDelegates(nodes) > cfg.maxTotalDelegates
           [] code = "SUB_INVOCATION_COUNT_HIGH" -> info.subInvocations > cfg.maxSubInvocations
           [] code = "EXPIRATION_FAR_FUTURE" ->
                /\ cfg.currentLedger > 0 /\ validUntil > 0
                /\ ledgerDelta(validUntil, cfg.currentLedger) > cfg.maxDelta
           [] code = "CONTRACT_UNKNOWN" ->
                /\ cfg.known # {} /\ info.function.contract # {}
                /\ ~(info.function.contract \subseteq cfg.known)
           [] code = "UNSIGNED_DELEGATES" ->
                info.arm = "address_with_delegates" /\ countUnsignedDelegates(nodes) > 0
           [] code = "EXPIRATION_ZERO" -> validUntil = 0 /\ info.arm # "source_account"
           [] code = "SOURCE_ACCOUNT_WITH_DELEGATES" ->
                info.arm = "source_account" /\ info.credentials.delegates # <<>>
           [] code = "LEGACY_CREDENTIALS_NOT_ADDRESS_BOUND" -> info.arm = "address" /\ ~info.bound
   IN {code \in {"DELEGATE_DEPTH_EXCEEDED", "DELEGATE_COUNT_HIGH", "SUB_INVOCATION_COUNT_HIGH",
                 "EXPIRATION_FAR_FUTURE", "CONTRACT_UNKNOWN", "UNSIGNED_DELEGATES", "EXPIRATION_ZERO",
                 "SOURCE_ACCOUNT_WITH_DELEGATES", "LEGACY_CREDENTIALS_NOT_ADDRESS_BOUND"} : Holds(code)} :
     info \in Inspect(entry)}
==============================================================================
