-------------------------- MODULE Authorize_proofs --------------------------
(***************************************************************************)
(* Lemmas about AuthorizeEntry as a function of its arguments, for every    *)
(* entry and every call.  The proofs about the modules that call it         *)
(* (Signing, Coordinator, Batch) rest on them.                              *)
(***************************************************************************)
EXTENDS Authorize, SequenceTheorems, WellFoundedInduction, TLAPS

USE DEF Address, Ledger

\* A function on an initial segment of the naturals is a sequence of that length.
LEMMA FunctionIsSeq ==
    ASSUME NEW S, NEW n \in Nat, NEW f \in [1..n -> S]
    PROVE  f \in Seq(S) /\ Len(f) = n
OBVIOUS

\* A set of positions that is not empty has a least element.
LEMMA LeastOf ==
    ASSUME NEW n \in Nat, NEW T \in SUBSET (1..n), T # {}
    PROVE  \E s \in T : \A t \in T : s <= t
<1>1. T \subseteq Nat
  OBVIOUS
<1>2. PICK s \in T : \A t \in T : ~(<<t, s>> \in OpToRel(<, Nat))
  BY <1>1, NatLessThanWellFounded, WFMin, Zenon
<1>3. \A t \in T : ~(t < s)
  BY <1>1, <1>2 DEF OpToRel
<1> QED  BY <1>1, <1>3

\* A signed value is a record of SignedValues; the placeholders are not signed.
LEMMA SignedIsSignedValue ==
    ASSUME NEW s \in Signatures
    PROVE  isSigned(s) <=> s \in SignedValues
BY DEF Signatures, SignedValues, isSigned, Void, EmptyVec

\* Preimage yields a payload.
LEMMA PreimageType ==
    ASSUME NEW e \in Entries, NEW exp \in Ledger, NEW net \in Networks
    PROVE  /\ Preimage(e, exp, net) \in Payloads
           /\ Preimage(e, exp, net).network = net
BY DEF Preimage, Payloads, LegacyPreimages, BoundPreimages, Entries

\* An entry's preimages differ as soon as their expiration or their network does.
LEMMA PreimageInjective ==
    ASSUME NEW e \in Entries, NEW x, NEW y, NEW m, NEW n
    PROVE  Preimage(e, x, m) = Preimage(e, y, n) <=> x = y /\ m = n
<1>1. CASE IsAddressBound(e.arm)
  <2>1. /\ Preimage(e, x, m).exp = x /\ Preimage(e, x, m).network = m
        /\ Preimage(e, y, n).exp = y /\ Preimage(e, y, n).network = n
    BY <1>1 DEF Preimage
  <2> QED  BY <2>1
<1>2. CASE ~IsAddressBound(e.arm)
  <2>1. /\ Preimage(e, x, m).exp = x /\ Preimage(e, x, m).network = m
        /\ Preimage(e, y, n).exp = y /\ Preimage(e, y, n).network = n
    BY <1>2 DEF Preimage
  <2> QED  BY <2>1
<1> QED  BY <1>1, <1>2

(* The arguments of AuthorizeEntry whoever calls it: in a batch a signer may     *)
(* give another address than the one it was configured with.                   *)
AnyCalls ==
    {c \in [exp: Ledger, network: Networks \cup {NoNetwork},
            signer: [address: Address \cup {NoAddress, Malformed}, kind: SignerKinds],
            forAddress: Address \cup {NotGiven, NoAddress, Malformed},
            resign: Resigns] :
        c.signer.kind = "account" => c.signer.address \in Address}

\* The calls with a configured signer are among them.
LEMMA CallsAreAny == Calls \subseteq AnyCalls
<1> SUFFICES ASSUME NEW c \in Calls PROVE c \in AnyCalls
  OBVIOUS
<1>1. c.signer \in Signers
  BY DEF Calls
<1>2. /\ c.signer \in [address: Address \cup {NoAddress, Malformed}, kind: SignerKinds]
      /\ c.signer.kind = "account" => c.signer.address \in Address
  BY <1>1, AuthorizeAssumption
<1> QED  BY <1>2 DEF Calls, AnyCalls

\* An accepted call names a well-formed target, a network and a real signer.
LEMMA AcceptedCall ==
    ASSUME NEW e \in Entries, NEW c \in AnyCalls, Refusal(e, c) = "ok"
    PROVE  /\ e.arm \in AddressArms
           /\ c.exp \in Ledger /\ c.exp # 0
           /\ Target(c) \in Address
           /\ c.network \in Networks
           /\ c.signer.kind \in {"account", "custom", "void"}
           /\ e.arm = "address_with_delegates" => ValidateDelegateOrder(e)
           /\ ~BadSharedExpiration(e, c)
           /\ ~OverwritesSigned(e, c)
           /\ Matches(e, Target(c)) # {}
<1>1. c.signer \in [address: Address \cup {NoAddress, Malformed}, kind: SignerKinds]
  BY DEF AnyCalls
<1>2. Target(c) \in Address \cup {NotGiven, NoAddress, Malformed}
  BY <1>1 DEF AnyCalls, Target
<1>3. Target(c) # NoAddress /\ Target(c) # Malformed
  BY DEF Refusal
<1>4. Target(c) # NotGiven
  BY <1>1, AuthorizeAssumption, <1>3 DEF Target
<1>5. c.signer.kind \in {"account", "custom", "void"}
  BY <1>1 DEF Refusal, SignerKinds
<1>6. e.arm \in AddressArms /\ c.exp # 0 /\ c.network # NoNetwork
  BY DEF Refusal
<1>7. /\ e.arm = "address_with_delegates" => ValidateDelegateOrder(e)
      /\ ~BadSharedExpiration(e, c)
      /\ ~OverwritesSigned(e, c)
      /\ Matches(e, Target(c)) # {}
  BY DEF Refusal, MisorderedDelegates
<1> QED  BY <1>2, <1>3, <1>4, <1>5, <1>6, <1>7 DEF AnyCalls

\* What AuthorizeEntry hands back after the signer has answered.
LEMMA WrittenSignature ==
    ASSUME NEW e \in Entries, NEW c \in AnyCalls, Refusal(e, c) = "ok"
    PROVE  /\ SignatureOf(e, c) \in Signatures
           /\ isSigned(SignatureOf(e, c)) =>
                 /\ SignatureOf(e, c).origin = "signer"
                 /\ SignatureOf(e, c).target = Target(c)
                 /\ SignatureOf(e, c).payload = Preimage(e, c.exp, c.network)
                 /\ SignatureOf(e, c).payload.network = c.network
<1>1. /\ Target(c) \in Address /\ c.exp \in Ledger /\ c.network \in Networks
      /\ c.signer.kind \in {"account", "custom", "void"}
  BY AcceptedCall
<1>2. Preimage(e, c.exp, c.network) \in Payloads
      /\ Preimage(e, c.exp, c.network).network = c.network
  BY <1>1, PreimageType
<1>3. CASE c.signer.kind = "void"
  BY <1>3 DEF SignatureOf, Signatures, isSigned, Void
<1>4. CASE c.signer.kind # "void"
  <2>1. SignatureOf(e, c) = [kind |-> c.signer.kind, origin |-> "signer",
                             target |-> Target(c), key |-> KeyOf(c),
                             payload |-> Preimage(e, c.exp, c.network)]
    BY <1>4 DEF SignatureOf
  <2>2. KeyOf(c) \in Address
    BY <1>1 DEF KeyOf, AnyCalls, Address
  <2>3. SignatureOf(e, c) \in SignedValues
    BY <1>1, <1>2, <1>4, <2>1, <2>2 DEF SignedValues
  <2> QED  BY <1>2, <2>1, <2>3 DEF Signatures
<1> QED  BY <1>3, <1>4

(* What AuthorizeEntry writes when no early return was taken: the expiration    *)
(* it signed over, the signature on every node of the target, nothing else.    *)
LEMMA WrittenEntry ==
    ASSUME NEW e \in Entries, NEW c \in AnyCalls, Refusal(e, c) = "ok",
           NEW f, f = WriteSignature(e, c)
    PROVE  /\ f \in Entries
           /\ f.arm = e.arm /\ f.address = e.address /\ f.nonce = e.nonce
           /\ f.invocation = e.invocation /\ f.exp = c.exp
           /\ Len(f.nodes) = Len(e.nodes)
           /\ \A i \in 1..Len(e.nodes) :
                 /\ f.nodes[i].addr = e.nodes[i].addr
                 /\ f.nodes[i].above = e.nodes[i].above
                 /\ f.nodes[i].sig = IF e.nodes[i].addr = Target(c)
                                     THEN SignatureOf(e, c) ELSE e.nodes[i].sig
                 /\ e.nodes[i].addr # Target(c) => f.nodes[i] = e.nodes[i]
<1> DEFINE written == [i \in 1..Len(e.nodes) |->
                          IF e.nodes[i].addr = Target(c)
                          THEN [e.nodes[i] EXCEPT !.sig = SignatureOf(e, c)]
                          ELSE e.nodes[i]]
<1>1. e.nodes \in Seq(Nodes) /\ Len(e.nodes) \in Nat
  BY DEF Entries
<1>2. \A i \in 1..Len(e.nodes) : e.nodes[i] \in Nodes
  BY <1>1
<1>3. SignatureOf(e, c) \in Signatures /\ c.exp \in Ledger
  BY WrittenSignature, AcceptedCall
<1>4. \A i \in 1..Len(e.nodes) : written[i] \in Nodes
  BY <1>2, <1>3 DEF Nodes
<1>5. written \in Seq(Nodes) /\ Len(written) = Len(e.nodes)
  <2>1. written \in [1..Len(e.nodes) -> Nodes]
    BY <1>4
  <2> QED  BY <1>1, <2>1, FunctionIsSeq
<1>6. f = [e EXCEPT !.exp = c.exp, !.nodes = written]
  BY DEF WriteSignature
<1>7. f \in Entries /\ f.nodes = written
  BY <1>3, <1>5, <1>6 DEF Entries
<1>8. /\ f.arm = e.arm /\ f.address = e.address /\ f.nonce = e.nonce
      /\ f.invocation = e.invocation /\ f.exp = c.exp
  BY <1>6 DEF Entries
<1>9. ASSUME NEW i \in 1..Len(e.nodes)
      PROVE  /\ written[i].addr = e.nodes[i].addr
             /\ written[i].above = e.nodes[i].above
             /\ written[i].sig = IF e.nodes[i].addr = Target(c)
                                 THEN SignatureOf(e, c) ELSE e.nodes[i].sig
             /\ e.nodes[i].addr # Target(c) => written[i] = e.nodes[i]
  BY <1>2 DEF Nodes
<1> QED  BY <1>5, <1>7, <1>8, <1>9

\* buildDelegateNodes returns the descriptors it was given, in ascending path order.
LEMMA BuiltNodes ==
    ASSUME NEW ds \in Seq(Descriptors),
           \A i \in 1..Len(ds) : ds[i].addr # Malformed,
           NEW b \in buildDelegateNodes(ds)
    PROVE  /\ b \in Seq(Nodes) /\ Len(b) = Len(ds)
           /\ \A i \in 1..Len(b) : \E k \in 1..Len(ds) : b[i] = ds[k]
           /\ \A i \in 1..Len(b) : checkTraversalDepth(b[i])
           /\ \A i, j \in 1..Len(b) : i < j => LexLess(Path(b[i]), Path(b[j]))
<1>1. PICK p \in Arrangements(ds) : b = [i \in 1..Len(ds) |-> ds[p[i]]]
  BY DEF buildDelegateNodes
<1>2. Len(ds) \in Nat /\ p \in [1..Len(ds) -> 1..Len(ds)]
  BY <1>1 DEF Arrangements
<1>3. \A i \in 1..Len(ds) : p[i] \in 1..Len(ds) /\ b[i] = ds[p[i]]
  BY <1>1, <1>2
<1>4. \A k \in 1..Len(ds) : ds[k] \in Nodes
  <2>1. SUFFICES ASSUME NEW k \in 1..Len(ds) PROVE ds[k] \in Nodes
    OBVIOUS
  <2>2. ds[k] \in Descriptors /\ ds[k].addr # Malformed
    BY <2>1, ElementOfSeq
  <2> QED  BY <2>2 DEF Descriptors, Nodes
<1>5. b \in [1..Len(ds) -> Nodes]
  BY <1>1, <1>2, <1>4
<1>6. b \in Seq(Nodes) /\ Len(b) = Len(ds)
  BY <1>2, <1>5, FunctionIsSeq
<1>7. /\ \A i \in 1..Len(ds) : checkTraversalDepth(b[i])
      /\ \A i, j \in 1..Len(ds) : i < j => LexLess(Path(b[i]), Path(b[j]))
  BY DEF buildDelegateNodes
<1> QED  BY <1>3, <1>6, <1>7

\* Below one parent, ascending paths are ascending addresses.
LEMMA SiblingsAscend ==
    ASSUME NEW m \in Nodes, NEW n \in Nodes, m.above = n.above,
           LexLess(Path(m), Path(n))
    PROVE  m.addr < n.addr
<1> DEFINE s == n.above
<1>1. s \in Seq(Address) /\ Len(s) \in Nat /\ m.addr \in Address /\ n.addr \in Address
  BY DEF Nodes
<1>2. /\ Len(Path(m)) = Len(s) + 1 /\ Len(Path(n)) = Len(s) + 1
      /\ Path(m)[Len(s) + 1] = m.addr /\ Path(n)[Len(s) + 1] = n.addr
      /\ \A k \in 1..Len(s) : Path(m)[k] = s[k] /\ Path(n)[k] = s[k]
  BY <1>1, AppendProperties DEF Path
<1>3. \A k \in 1..Len(s) : s[k] \in Nat
  <2>1. \A k \in 1..Len(s) : s[k] \in Address
    BY <1>1, ElementOfSeq
  <2> QED  BY <2>1, EntryAssumption
<1> HIDE DEF s
<1>4. PICK k \in 1..(Len(s) + 1) :
         k = Len(s) + 2 \/ (k <= Len(s) + 1 /\ Path(m)[k] < Path(n)[k])
  BY <1>1, <1>2 DEF LexLess
<1>5. k = Len(s) + 1
  BY <1>1, <1>2, <1>3, <1>4
<1> QED  BY <1>1, <1>2, <1>4, <1>5

\* What WithDelegates hands back.
LEMMA WrappedTree ==
    ASSUME NEW e \in Entries, NEW exp \in Ledger, NEW ds \in Seq(Descriptors),
           NEW top \in Signatures, WrapRefusal(e, exp, ds) = "ok",
           NEW built \in buildDelegateNodes(ds),
           NEW f, f = Wrapped(e, exp, built, top)
    PROVE  /\ f \in Entries /\ WellFormed(f)
           /\ f.arm = "address_with_delegates"
           /\ ValidateDelegateOrder(f)
           /\ f.address = e.address /\ f.nonce = e.nonce /\ f.invocation = e.invocation
           /\ Len(f.nodes) >= 1 /\ f.nodes[1].sig = top
           /\ \A i \in 2..Len(f.nodes) : \E k \in 1..Len(ds) : f.nodes[i] = ds[k]
<1> DEFINE head == [addr |-> e.address, above |-> <<>>, sig |-> top]
<1>2. \A i \in 1..Len(ds) : ds[i].addr # Malformed
  BY DEF WrapRefusal
<1>3. /\ built \in Seq(Nodes) /\ Len(built) = Len(ds)
      /\ \A i \in 1..Len(built) : \E k \in 1..Len(ds) : built[i] = ds[k]
      /\ \A i \in 1..Len(built) : checkTraversalDepth(built[i])
      /\ \A i, j \in 1..Len(built) : i < j => LexLess(Path(built[i]), Path(built[j]))
  BY <1>2, BuiltNodes
<1>4. head \in Nodes
  BY DEF Nodes, Entries
<1>5. /\ <<head>> \o built \in Seq(Nodes)
      /\ Len(<<head>> \o built) = 1 + Len(built)
      /\ (<<head>> \o built)[1] = head
      /\ \A i \in 2..(1 + Len(built)) : (<<head>> \o built)[i] = built[i - 1]
  <2>1. <<head>> \in Seq(Nodes) /\ Len(<<head>>) = 1 /\ <<head>>[1] = head
    BY <1>4
  <2> HIDE DEF head
  <2>2. Len(built) \in Nat
    BY <1>3
  <2> QED  BY <1>3, <2>1, <2>2, ConcatProperties
<1>6. f = [e EXCEPT !.arm = "address_with_delegates", !.exp = exp,
                    !.nodes = <<head>> \o built]
  BY DEF Wrapped
<1>7. /\ f \in Entries /\ f.arm = "address_with_delegates"
      /\ f.address = e.address /\ f.nonce = e.nonce /\ f.invocation = e.invocation
      /\ f.nodes = <<head>> \o built
  BY <1>5, <1>6 DEF Entries, Arms
<1>8. Len(f.nodes) = 1 + Len(built) /\ Len(built) \in Nat
      /\ f.nodes[1] = head /\ \A i \in 2..(1 + Len(built)) : f.nodes[i] = built[i - 1]
  BY <1>3, <1>5, <1>7
<1>9. WellFormed(f)
  BY <1>7, <1>8 DEF WellFormed, AddressArms
<1>10. ValidateDelegateOrder(f)
  <2>1. \A i \in Delegates(f) : i - 1 \in 1..Len(built) /\ f.nodes[i] = built[i - 1]
    BY <1>8 DEF Delegates
  <2>2. \A i \in Delegates(f) : checkTraversalDepth(f.nodes[i])
    BY <1>3, <2>1
  <2>3. ASSUME NEW i \in Delegates(f), NEW j \in Delegates(f),
               i < j, f.nodes[i].above = f.nodes[j].above
        PROVE  f.nodes[i].addr < f.nodes[j].addr
    <3>1. i - 1 < j - 1
      BY <2>3, <1>8 DEF Delegates
    <3>2. LexLess(Path(built[i - 1]), Path(built[j - 1]))
      BY <1>3, <2>1, <3>1
    <3>3. built[i - 1] \in Nodes /\ built[j - 1] \in Nodes
      BY <1>3, <2>1
    <3> QED  BY <2>1, <2>3, <3>2, <3>3, SiblingsAscend
  <2> QED  BY <2>2, <2>3 DEF ValidateDelegateOrder
<1>11. /\ Len(f.nodes) >= 1 /\ f.nodes[1].sig = top
       /\ \A i \in 2..Len(f.nodes) : \E k \in 1..Len(ds) : f.nodes[i] = ds[k]
  <2>1. Len(f.nodes) >= 1 /\ head.sig = top /\ f.nodes[1] = head
    BY <1>8
  <2>2. ASSUME NEW i \in 2..Len(f.nodes) PROVE \E k \in 1..Len(ds) : f.nodes[i] = ds[k]
    <3>1. i \in 2..(1 + Len(built)) /\ i - 1 \in 1..Len(built)
      BY <1>8
    <3>2. f.nodes[i] = built[i - 1]
      BY <1>8, <3>1
    <3> QED  BY <1>3, <3>1, <3>2
  <2> QED  BY <2>1, <2>2
<1> QED  BY <1>7, <1>9, <1>10, <1>11
=============================================================================
