--------------------------- MODULE Signing_proofs ---------------------------
(***************************************************************************)
(* Proofs about Signing: every step keeps the entry well formed, and no     *)
(* sequence of calls leaves a signature that the host would reject.         *)
(***************************************************************************)
EXTENDS Wallet, Authorize_proofs, SequenceTheorems, TLAPS

USE DEF Address, Ledger

-----------------------------------------------------------------------------
(* Lemmas about the operators of Entry and Signing.                           *)

\* What WithDelegates hands back: no signature that AuthorizeEntry made.
LEMMA WrappedEntry ==
    ASSUME NEW e \in Entries, NEW exp \in Ledger, NEW ds \in DelegateTrees,
           NEW top \in Supplied, WrapRefusal(e, exp, ds) = "ok",
           NEW built \in buildDelegateNodes(ds),
           NEW f, f = Wrapped(e, exp, built, top)
    PROVE  /\ f \in Entries /\ WellFormed(f)
           /\ f.arm = "address_with_delegates"
           /\ ValidateDelegateOrder(f)
           /\ \A i \in 1..Len(f.nodes) :
                 isSigned(f.nodes[i].sig) => f.nodes[i].sig.origin = "caller"
<1>1. /\ ds \in Seq(Descriptors)
      /\ \A i \in 1..Len(ds) : isSigned(ds[i].sig) => ds[i].sig.origin = "caller"
      /\ top \in Signatures /\ (isSigned(top) => top.origin = "caller")
  BY SigningAssumption
<1>2. /\ f \in Entries /\ WellFormed(f) /\ f.arm = "address_with_delegates"
      /\ ValidateDelegateOrder(f) /\ f.nodes[1].sig = top
      /\ \A i \in 2..Len(f.nodes) : \E k \in 1..Len(ds) : f.nodes[i] = ds[k]
  BY <1>1, WrappedTree
<1>3. \A i \in 1..Len(f.nodes) : i = 1 \/ i \in 2..Len(f.nodes)
  BY <1>2 DEF Entries
<1> QED  BY <1>1, <1>2, <1>3

-----------------------------------------------------------------------------
(* The theorems.                                                              *)

\* Every reachable entry is one the XDR types allow: its nodes fit its arm, and the
\* top-level node is the entry's own address.
THEOREM TypeCorrect == Spec => []TypeOK
<1>1. Init => TypeOK
  BY SigningAssumption DEF Init, TypeOK, CallRecords, Results
<1>2. TypeOK /\ [Next]_vars => TypeOK'
  <2> SUFFICES ASSUME TypeOK, [Next]_vars PROVE TypeOK'
    OBVIOUS
  <2> USE DEF TypeOK
  <2>1. ASSUME NEW c \in Calls, AuthorizeSigned(c) PROVE TypeOK'
    <3>1. Refusal(entry, c) = "ok" /\ entry' = WriteSignature(entry, c)
      BY <2>1 DEF AuthorizeSigned
    <3>2. /\ entry' \in Entries
          /\ entry'.arm = entry.arm /\ entry'.address = entry.address
          /\ Len(entry'.nodes) = Len(entry.nodes)
          /\ \A i \in 1..Len(entry.nodes) :
                /\ entry'.nodes[i].addr = entry.nodes[i].addr
                /\ entry'.nodes[i].above = entry.nodes[i].above
      BY <3>1, WrittenEntry, CallsAreAny
    <3>3. entry.arm \in AddressArms /\ Len(entry.nodes) \in Nat
      BY <3>1, AcceptedCall, CallsAreAny DEF Entries
    <3>4. WellFormed(entry')
      BY <3>2, <3>3 DEF WellFormed
    <3>5. call' \in CallRecords
      BY <2>1 DEF AuthorizeSigned, Ended, MayOverwrite, CallRecords, Results
    <3> QED  BY <3>2, <3>4, <3>5
  <2>2. ASSUME NEW c \in Calls, AuthorizeRefused(c) \/ SignerFails(c) PROVE TypeOK'
    <3>1. Refusal(entry, c) \in Results
      BY DEF Refusal, Results
    <3>2. /\ UNCHANGED entry
          /\ call'.op = "AuthorizeEntry" /\ call'.overwrites = {}
          /\ call' \in [op: {"AuthorizeEntry"}, overwrites: {{}}, result: Results]
      BY <2>2, <3>1 DEF AuthorizeRefused, SignerFails, Ended, Results
    <3> QED  BY <3>2 DEF CallRecords
  <2>3. CASE AuthorizeCancelled
    BY <2>3 DEF AuthorizeCancelled, Ended, CallRecords, Results
  <2>4. ASSUME NEW exp \in Ledger, NEW ds \in DelegateTrees, NEW top \in Supplied,
               WithDelegates(exp, ds, top)
        PROVE  TypeOK'
    <3>1. PICK built \in buildDelegateNodes(ds) : entry' = Wrapped(entry, exp, built, top)
      BY <2>4 DEF WithDelegates
    <3>2. WrapRefusal(entry, exp, ds) = "ok"
      BY <2>4 DEF WithDelegates
    <3>3. entry' \in Entries /\ WellFormed(entry')
      BY <3>1, <3>2, WrappedEntry
    <3>4. call' \in CallRecords
      BY <2>4 DEF WithDelegates, Ended, CallRecords, Results
    <3> QED  BY <3>3, <3>4
  <2>5. ASSUME NEW exp \in Ledger, NEW ds \in DelegateTrees, WithDelegatesRefused(exp, ds)
        PROVE  TypeOK'
    BY <2>5 DEF WithDelegatesRefused, WrapRefusal, Ended, CallRecords, Results
  <2>6. CASE UpgradeToV2
    <3>1. entry.arm \in {"address", "address_v2"}
      BY <2>6 DEF UpgradeToV2, UpgradeRefusal
    <3>2. entry' = [entry EXCEPT !.arm = "address_v2"]
      BY <2>6 DEF UpgradeToV2
    <3>3. entry' \in Entries /\ WellFormed(entry')
      BY <3>1, <3>2 DEF Entries, Arms, WellFormed, AddressArms
    <3>4. call' \in CallRecords
      BY <2>6 DEF UpgradeToV2, Ended, CallRecords, Results
    <3> QED  BY <3>3, <3>4
  <2>7. CASE ArmUpgradeToV2
    <3>1. entry.arm \in {"address", "address_v2"} /\ Len(entry.nodes) = 1
      BY <2>7 DEF ArmUpgradeToV2, UpgradeRefusal, WellFormed
    <3> DEFINE n == entry.nodes[1]
               m == [n EXCEPT !.sig = Void]
               reset == <<m>>
    <3>2. n \in Nodes
      BY <3>1, ElementOfSeq DEF Entries
    <3>3. m \in Nodes /\ m.addr = n.addr /\ m.above = n.above
      BY <3>2 DEF Nodes, Signatures
    <3> HIDE DEF m
    <3>4. reset \in Seq(Nodes) /\ Len(reset) = 1 /\ reset[1] = m
      BY <3>3
    <3>5. entry' = [entry EXCEPT !.arm = "address_v2",
                                 !.nodes = IF entry.arm = "address" THEN reset ELSE entry.nodes]
      BY <2>7 DEF ArmUpgradeToV2, m
    <3> HIDE DEF reset
    <3>6. entry' \in Entries /\ entry'.arm = "address_v2" /\ entry'.address = entry.address
          /\ entry'.nodes = IF entry.arm = "address" THEN reset ELSE entry.nodes
      BY <3>4, <3>5 DEF Entries, Arms
    <3>7. WellFormed(entry')
      BY <3>1, <3>3, <3>4, <3>6 DEF WellFormed, AddressArms
    <3>8. call' \in CallRecords
      BY <2>7 DEF ArmUpgradeToV2, Ended, CallRecords, Results
    <3> QED  BY <3>6, <3>7, <3>8
  <2>8. CASE UpgradeRefused
    BY <2>8 DEF UpgradeRefused, UpgradeRefusal, Ended, CallRecords, Results
  <2>9. CASE UNCHANGED vars
    BY <2>9 DEF vars
  <2> QED  BY <2>1, <2>2, <2>3, <2>4, <2>5, <2>6, <2>7, <2>8, <2>9 DEF Next
<1> QED  BY <1>1, <1>2, PTL DEF Spec

\* An upgrade leaves a V2 entry as it is and touches a legacy one only while unsigned.
LEMMA UpgradeCases ==
    ASSUME TypeOK, UpgradeToV2 \/ ArmUpgradeToV2
    PROVE  \/ entry' = entry
           \/ /\ entry.arm = "address" /\ entry'.arm = "address_v2"
              /\ Len(entry.nodes) = 1 /\ ~isSigned(entry.nodes[1].sig)
              /\ Len(entry'.nodes) = 1 /\ ~isSigned(entry'.nodes[1].sig)
<1> USE DEF TypeOK
<1>1. entry.arm \in {"address", "address_v2"} /\ Len(entry.nodes) = 1
  BY DEF UpgradeToV2, ArmUpgradeToV2, UpgradeRefusal, WellFormed
<1>2. CASE entry.arm = "address_v2"
  <2>1. entry' = [entry EXCEPT !.arm = "address_v2"]
        \/ entry' = [entry EXCEPT !.arm = "address_v2", !.nodes = entry.nodes]
    BY <1>2 DEF UpgradeToV2, ArmUpgradeToV2
  <2>2. entry = [arm |-> "address_v2", address |-> entry.address, nonce |-> entry.nonce,
                 exp |-> entry.exp, invocation |-> entry.invocation, nodes |-> entry.nodes]
    BY <1>2 DEF Entries
  <2>3. entry' = [arm |-> "address_v2", address |-> entry.address, nonce |-> entry.nonce,
                  exp |-> entry.exp, invocation |-> entry.invocation, nodes |-> entry.nodes]
    BY <2>1 DEF Entries
  <2> QED  BY <2>2, <2>3
<1>3. CASE entry.arm = "address"
  <2>1. ~isSigned(entry.nodes[1].sig)
    BY <1>3 DEF UpgradeToV2, ArmUpgradeToV2, UpgradeRefusal
  <2>2. entry.nodes[1] \in Nodes
    BY <1>1, ElementOfSeq DEF Entries
  <2>3. CASE UpgradeToV2
    <3>1. entry'.nodes = entry.nodes /\ entry'.arm = "address_v2"
      BY <2>3 DEF UpgradeToV2, Entries
    <3> QED  BY <1>1, <1>3, <2>1, <3>1
  <2>4. CASE ArmUpgradeToV2
    <3>1. /\ entry'.nodes = <<[entry.nodes[1] EXCEPT !.sig = Void]>>
          /\ entry'.arm = "address_v2"
      BY <2>4, <1>3 DEF ArmUpgradeToV2, Entries
    <3>2. [entry.nodes[1] EXCEPT !.sig = Void].sig = Void
      BY <2>2 DEF Nodes
    <3>3. entry'.nodes[1] = [entry.nodes[1] EXCEPT !.sig = Void] /\ Len(entry'.nodes) = 1
      BY <3>1
    <3>4. ~isSigned(entry'.nodes[1].sig)
      BY <3>2, <3>3 DEF isSigned, Void
    <3> QED  BY <1>1, <1>3, <2>1, <3>1, <3>3, <3>4
  <2> QED  BY <2>3, <2>4
<1> QED  BY <1>1, <1>2, <1>3

\* Only AuthorizeEntry adds signatures: every other step leaves the entry alone or
\* yields one that AuthorizeEntry has not signed.
LEMMA StepCases ==
    ASSUME TypeOK, [Next]_vars
    PROVE  \/ \E c \in Calls : AuthorizeSigned(c)
           \/ entry' = entry
           \/ \A i \in 1..Len(entry'.nodes) :
                 isSigned(entry'.nodes[i].sig) => entry'.nodes[i].sig.origin # "signer"
<1> USE DEF TypeOK
<1>1. ASSUME NEW c \in Calls, AuthorizeRefused(c) \/ SignerFails(c) PROVE entry' = entry
  BY <1>1 DEF AuthorizeRefused, SignerFails
<1>2. CASE AuthorizeCancelled
  BY <1>2 DEF AuthorizeCancelled
<1>3. ASSUME NEW exp \in Ledger, NEW ds \in DelegateTrees, NEW top \in Supplied,
             WithDelegates(exp, ds, top)
      PROVE  \A i \in 1..Len(entry'.nodes) :
                isSigned(entry'.nodes[i].sig) => entry'.nodes[i].sig.origin # "signer"
  <2>1. PICK built \in buildDelegateNodes(ds) : entry' = Wrapped(entry, exp, built, top)
    BY <1>3 DEF WithDelegates
  <2>2. WrapRefusal(entry, exp, ds) = "ok"
    BY <1>3 DEF WithDelegates
  <2>3. \A i \in 1..Len(entry'.nodes) :
           isSigned(entry'.nodes[i].sig) => entry'.nodes[i].sig.origin = "caller"
    BY <2>1, <2>2, WrappedEntry
  <2> QED  BY <2>3
<1>4. ASSUME NEW exp \in Ledger, NEW ds \in DelegateTrees, WithDelegatesRefused(exp, ds)
      PROVE  entry' = entry
  BY <1>4 DEF WithDelegatesRefused
<1>5. ASSUME UpgradeToV2 \/ ArmUpgradeToV2
      PROVE  \/ entry' = entry
             \/ \A i \in 1..Len(entry'.nodes) :
                   isSigned(entry'.nodes[i].sig) => entry'.nodes[i].sig.origin # "signer"
  <2>1. CASE entry' = entry
    BY <2>1
  <2>2. CASE Len(entry'.nodes) = 1 /\ ~isSigned(entry'.nodes[1].sig)
    BY <2>2
  <2> QED  BY <1>5, <2>1, <2>2, UpgradeCases
<1>6. CASE UpgradeRefused
  BY <1>6 DEF UpgradeRefused
<1>7. CASE UNCHANGED vars
  BY <1>7 DEF vars
<1> QED  BY <1>1, <1>2, <1>3, <1>4, <1>5, <1>6, <1>7 DEF Next

\* An accepted call that leaves a signed node of another address alone keeps the
\* expiration: only the delegates arm has two nodes, and its guard pins it.
LEMMA ExpirationKept ==
    ASSUME TypeOK, NEW c \in Calls, Refusal(entry, c) = "ok",
           NEW i \in 1..Len(entry.nodes),
           isSigned(entry.nodes[i].sig), entry.nodes[i].addr # Target(c)
    PROVE  c.exp = entry.exp
<1>1. PICK k \in 1..Len(entry.nodes) : entry.nodes[k].addr = Target(c)
  BY AcceptedCall, CallsAreAny DEF TypeOK, Matches
<1>2. i # k /\ Len(entry.nodes) \in Nat
  BY <1>1 DEF TypeOK, Entries
<1>3. Len(entry.nodes) # 1
  BY <1>1, <1>2
<1>4. entry.arm = "address_with_delegates"
  BY <1>3, AcceptedCall, CallsAreAny DEF TypeOK, WellFormed, AddressArms
<1>5. AnySigned(entry)
  BY DEF AnySigned
<1> QED  BY <1>4, <1>5, AcceptedCall, CallsAreAny DEF TypeOK, BadSharedExpiration

\* No later call invalidates a signature: what AuthorizeEntry signed is, at every
\* later time, the payload the entry as it stands commits to.
THEOREM SignaturesStayValid == Spec => []SignaturesCoverEntry
<1>1. Init => SignaturesCoverEntry
  BY SigningAssumption DEF Init, SignaturesCoverEntry, SignedByLibrary
<1>2. TypeOK /\ SignaturesCoverEntry /\ [Next]_vars => SignaturesCoverEntry'
  <2> SUFFICES ASSUME TypeOK, SignaturesCoverEntry, [Next]_vars
               PROVE  SignaturesCoverEntry'
    OBVIOUS
  <2>1. CASE entry' = entry
    BY <2>1 DEF SignaturesCoverEntry, SignedByLibrary
  <2>2. CASE \A i \in 1..Len(entry'.nodes) :
                isSigned(entry'.nodes[i].sig) => entry'.nodes[i].sig.origin # "signer"
    BY <2>2 DEF SignaturesCoverEntry, SignedByLibrary
  <2>3. ASSUME NEW c \in Calls, AuthorizeSigned(c) PROVE SignaturesCoverEntry'
    <3>1. Refusal(entry, c) = "ok" /\ entry' = WriteSignature(entry, c)
      BY <2>3 DEF AuthorizeSigned
    <3>2. /\ entry'.arm = entry.arm /\ entry'.address = entry.address
          /\ entry'.nonce = entry.nonce /\ entry'.invocation = entry.invocation
          /\ entry'.exp = c.exp /\ Len(entry'.nodes) = Len(entry.nodes)
          /\ \A i \in 1..Len(entry.nodes) :
                entry'.nodes[i].sig = IF entry.nodes[i].addr = Target(c)
                                      THEN SignatureOf(entry, c) ELSE entry.nodes[i].sig
      BY <3>1, WrittenEntry, CallsAreAny DEF TypeOK
    <3>3. \A net : Preimage(entry', entry'.exp, net) = Preimage(entry, c.exp, net)
      BY <3>2 DEF Preimage
    <3>4. SUFFICES ASSUME NEW i \in 1..Len(entry.nodes),
                          isSigned(entry'.nodes[i].sig),
                          entry'.nodes[i].sig.origin = "signer"
                   PROVE  entry'.nodes[i].sig.payload
                            = Preimage(entry, c.exp, entry'.nodes[i].sig.payload.network)
      BY <3>2, <3>3 DEF SignaturesCoverEntry, SignedByLibrary
    <3>5. CASE entry.nodes[i].addr = Target(c)
      BY <3>1, <3>2, <3>4, <3>5, WrittenSignature, CallsAreAny DEF TypeOK
    <3>6. CASE entry.nodes[i].addr # Target(c)
      <4>1. entry'.nodes[i].sig = entry.nodes[i].sig
        BY <3>2, <3>6
      <4>2. c.exp = entry.exp
        BY <3>1, <3>4, <3>6, <4>1, ExpirationKept
      <4> QED  BY <3>4, <4>1, <4>2 DEF SignaturesCoverEntry, SignedByLibrary
    <3> QED  BY <3>5, <3>6
  <2> QED  BY <2>1, <2>2, <2>3, StepCases
<1> QED  BY <1>1, <1>2, TypeCorrect, PTL DEF Spec

\* A signature is on every node of its address, at every depth, and on no other.
THEOREM SignaturesFillEveryDepth == Spec => []EveryDepthFilled
<1>1. Init => EveryDepthFilled
  BY SigningAssumption DEF Init, EveryDepthFilled, SignedByLibrary
<1>2. TypeOK /\ EveryDepthFilled /\ [Next]_vars => EveryDepthFilled'
  <2> SUFFICES ASSUME TypeOK, EveryDepthFilled, [Next]_vars
               PROVE  EveryDepthFilled'
    OBVIOUS
  <2>1. CASE entry' = entry
    BY <2>1 DEF EveryDepthFilled, SignedByLibrary
  <2>2. CASE \A i \in 1..Len(entry'.nodes) :
                isSigned(entry'.nodes[i].sig) => entry'.nodes[i].sig.origin # "signer"
    BY <2>2 DEF EveryDepthFilled, SignedByLibrary
  <2>3. ASSUME NEW c \in Calls, AuthorizeSigned(c) PROVE EveryDepthFilled'
    <3>1. Refusal(entry, c) = "ok" /\ entry' = WriteSignature(entry, c)
      BY <2>3 DEF AuthorizeSigned
    <3>2. /\ Len(entry'.nodes) = Len(entry.nodes)
          /\ \A i \in 1..Len(entry.nodes) :
                /\ entry'.nodes[i].addr = entry.nodes[i].addr
                /\ entry'.nodes[i].sig = IF entry.nodes[i].addr = Target(c)
                                         THEN SignatureOf(entry, c) ELSE entry.nodes[i].sig
      BY <3>1, WrittenEntry, CallsAreAny DEF TypeOK
    <3>3. isSigned(SignatureOf(entry, c)) => SignatureOf(entry, c).target = Target(c)
      BY <3>1, WrittenSignature, CallsAreAny DEF TypeOK
    <3> QED  BY <3>2, <3>3 DEF EveryDepthFilled, SignedByLibrary
  <2> QED  BY <2>1, <2>2, <2>3, StepCases
<1> QED  BY <1>1, <1>2, TypeCorrect, PTL DEF Spec

\* AuthorizeEntry signs nothing the host would refuse outright, and nothing later
\* makes a signed entry so.
THEOREM SignedIsAcceptable == Spec => []SignedOnlyWhenAcceptable
<1>1. Init => SignedOnlyWhenAcceptable
  BY SigningAssumption DEF Init, SignedOnlyWhenAcceptable, SignedByLibrary
<1>2. TypeOK /\ SignedOnlyWhenAcceptable /\ [Next]_vars => SignedOnlyWhenAcceptable'
  <2> SUFFICES ASSUME TypeOK, SignedOnlyWhenAcceptable, [Next]_vars
               PROVE  SignedOnlyWhenAcceptable'
    OBVIOUS
  <2>1. CASE entry' = entry
    BY <2>1 DEF SignedOnlyWhenAcceptable, SignedByLibrary
  <2>2. CASE \A i \in 1..Len(entry'.nodes) :
                isSigned(entry'.nodes[i].sig) => entry'.nodes[i].sig.origin # "signer"
    BY <2>2 DEF SignedOnlyWhenAcceptable, SignedByLibrary
  <2>3. ASSUME NEW c \in Calls, AuthorizeSigned(c) PROVE SignedOnlyWhenAcceptable'
    <3>1. Refusal(entry, c) = "ok" /\ entry' = WriteSignature(entry, c)
      BY <2>3 DEF AuthorizeSigned
    <3>2. /\ entry'.arm = entry.arm /\ entry'.exp = c.exp
          /\ Len(entry'.nodes) = Len(entry.nodes)
          /\ \A i \in 1..Len(entry.nodes) :
                /\ entry'.nodes[i].addr = entry.nodes[i].addr
                /\ entry'.nodes[i].above = entry.nodes[i].above
      BY <3>1, WrittenEntry, CallsAreAny DEF TypeOK
    <3>3. c.exp # 0 /\ (entry.arm = "address_with_delegates" => ValidateDelegateOrder(entry))
      BY <3>1, AcceptedCall, CallsAreAny DEF TypeOK
    <3>4. Len(entry.nodes) \in Nat
      BY DEF TypeOK, Entries
    <3>5. ValidateDelegateOrder(entry) => ValidateDelegateOrder(entry')
      <4>1. Delegates(entry') = Delegates(entry) /\ Delegates(entry) \subseteq 1..Len(entry.nodes)
        BY <3>2, <3>4 DEF Delegates
      <4>2. \A i \in Delegates(entry) :
               /\ entry'.nodes[i].addr = entry.nodes[i].addr
               /\ entry'.nodes[i].above = entry.nodes[i].above
        BY <3>2, <4>1
      <4> QED  BY <4>1, <4>2 DEF ValidateDelegateOrder, checkTraversalDepth, depth
    <3> QED  BY <3>2, <3>3, <3>5 DEF SignedOnlyWhenAcceptable
  <2> QED  BY <2>1, <2>2, <2>3, StepCases
<1> QED  BY <1>1, <1>2, TypeCorrect, PTL DEF Spec

\* VerifyEntry accepts what AuthorizeEntry signed, for the network it was signed for
\* and no other, after any further calls.
THEOREM VerifyAcceptsSigned == Spec => []VerifyAgrees
<1>1. TypeOK /\ SignaturesCoverEntry /\ SignedOnlyWhenAcceptable => VerifyAgrees
  <2> SUFFICES ASSUME TypeOK, SignaturesCoverEntry, SignedOnlyWhenAcceptable,
                      NEW i \in 1..Len(entry.nodes), NEW net \in Networks,
                      SignedByLibrary(i), entry.nodes[i].addr \in Accounts,
                      entry.nodes[i].sig.kind = "account"
               PROVE  /\ ~VerifyRefuses(entry)
                      /\ VerifyEntry(entry, net)[i] = "verified"
                            <=> entry.nodes[i].sig.payload.network = net
    BY DEF VerifyAgrees
  <2>1. entry.arm \in AddressArms
    BY DEF TypeOK, WellFormed
  <2>2. entry.arm = "address_with_delegates" => ValidateDelegateOrder(entry)
    BY DEF SignedOnlyWhenAcceptable
  <2>3. ~VerifyRefuses(entry)
    BY <2>1, <2>2 DEF VerifyRefuses, AddressArms, ValidateDelegateOrder, Delegates,
                      TypeOK, WellFormed
  <2> DEFINE sig == entry.nodes[i].sig
  <2>4. isSigned(sig) /\ sig.payload = Preimage(entry, entry.exp, sig.payload.network)
    BY DEF SignaturesCoverEntry, SignedByLibrary
  <2>5. VerifyEntry(entry, net)[i] = "verified" <=> sig.payload = Preimage(entry, entry.exp, net)
    BY <2>4 DEF VerifyEntry, verifyNode
  <2>6. Preimage(entry, entry.exp, net).network = net
    BY DEF Preimage
  <2>7. sig.payload = Preimage(entry, entry.exp, net) <=> sig.payload.network = net
    BY <2>4, <2>6
  <2> QED  BY <2>3, <2>5, <2>7
<1> QED  BY <1>1, TypeCorrect, SignaturesStayValid, SignedIsAcceptable, PTL

\* No step replaces or drops a signature unless AllowResign covers its address.
THEOREM SignaturesAreKept == Spec => NoSilentOverwrite
<1> DEFINE Kept == \A i \in 1..Len(entry.nodes) :
                      isSigned(entry.nodes[i].sig) /\ entry.nodes[i].addr \notin call'.overwrites
                          => /\ i <= Len(entry'.nodes)
                             /\ entry'.nodes[i] = entry.nodes[i]
<1>1. TypeOK /\ [Next]_vars => [Kept]_vars
  <2> SUFFICES ASSUME TypeOK, Next PROVE Kept
    OBVIOUS
  <2>1. CASE entry' = entry
    BY <2>1 DEF TypeOK, Entries
  <2>2. ASSUME NEW c \in Calls, AuthorizeSigned(c) PROVE Kept
    <3>1. /\ Refusal(entry, c) = "ok" /\ entry' = WriteSignature(entry, c)
          /\ call'.overwrites = MayOverwrite(c)
      BY <2>2 DEF AuthorizeSigned, Ended
    <3>2. /\ Len(entry'.nodes) = Len(entry.nodes) /\ Len(entry.nodes) \in Nat
          /\ \A i \in 1..Len(entry.nodes) :
                entry.nodes[i].addr # Target(c) => entry'.nodes[i] = entry.nodes[i]
      BY <3>1, WrittenEntry, CallsAreAny DEF TypeOK, Entries
    <3>3. Target(c) \in Address /\ ~OverwritesSigned(entry, c)
      BY <3>1, AcceptedCall, CallsAreAny DEF TypeOK
    <3>4. ASSUME NEW i \in 1..Len(entry.nodes), isSigned(entry.nodes[i].sig),
                 entry.nodes[i].addr = Target(c)
          PROVE  Target(c) \in call'.overwrites
      <4>1. resignAllowed(c)
        BY <3>3, <3>4 DEF OverwritesSigned, Matches
      <4> QED  BY <3>1, <3>3, <4>1 DEF MayOverwrite
    <3> QED  BY <3>2, <3>4
  <2>3. ASSUME NEW exp \in Ledger, NEW ds \in DelegateTrees, NEW top \in Supplied,
               WithDelegates(exp, ds, top)
        PROVE  Kept
    <3>1. Len(entry.nodes) = 1 /\ ~isSigned(entry.nodes[1].sig)
      BY <2>3 DEF WithDelegates, WrapRefusal, TypeOK, WellFormed
    <3> QED  BY <3>1
  <2>4. ASSUME UpgradeToV2 \/ ArmUpgradeToV2 PROVE Kept
    BY <2>1, <2>4, UpgradeCases
  <2> QED
    BY <2>1, <2>2, <2>3, <2>4 DEF Next, AuthorizeRefused, SignerFails, AuthorizeCancelled,
       WithDelegatesRefused, UpgradeRefused
<1> QED  BY <1>1, TypeCorrect, PTL DEF Spec, NoSilentOverwrite

\* Once a delegates entry carries a signature no call moves its expiration or its arm.
THEOREM PayloadIsPinned == Spec => SharedPayloadPinned
<1> DEFINE Pinned == entry.arm = "address_with_delegates" /\ AnySigned(entry)
                        => entry'.arm = entry.arm /\ entry'.exp = entry.exp
<1>1. TypeOK /\ [Next]_vars => [Pinned]_vars
  <2> SUFFICES ASSUME TypeOK, Next, entry.arm = "address_with_delegates", AnySigned(entry)
               PROVE  entry'.arm = entry.arm /\ entry'.exp = entry.exp
    OBVIOUS
  <2>1. ASSUME NEW c \in Calls, AuthorizeSigned(c)
        PROVE  entry'.arm = entry.arm /\ entry'.exp = entry.exp
    <3>1. Refusal(entry, c) = "ok" /\ entry' = WriteSignature(entry, c)
      BY <2>1 DEF AuthorizeSigned
    <3>2. entry'.arm = entry.arm /\ entry'.exp = c.exp
      BY <3>1, WrittenEntry, CallsAreAny DEF TypeOK
    <3>3. ~BadSharedExpiration(entry, c)
      BY <3>1, AcceptedCall, CallsAreAny DEF TypeOK
    <3> QED  BY <3>2, <3>3 DEF BadSharedExpiration
  <2>2. ASSUME NEW exp \in Ledger, NEW ds \in DelegateTrees, NEW top \in Supplied
        PROVE  ~WithDelegates(exp, ds, top)
    BY DEF WithDelegates, WrapRefusal
  <2>3. ~UpgradeToV2 /\ ~ArmUpgradeToV2
    BY DEF UpgradeToV2, ArmUpgradeToV2, UpgradeRefusal
  <2> QED
    BY <2>1, <2>2, <2>3 DEF Next, AuthorizeRefused, SignerFails, AuthorizeCancelled,
       WithDelegatesRefused, UpgradeRefused
<1> QED  BY <1>1, TypeCorrect, PTL DEF Spec, SharedPayloadPinned

\* WithDelegates sorts every level: the tree it builds passes ValidateDelegateOrder.
THEOREM WrapsOrdered == Spec => WrapsAreOrdered
<1> DEFINE Ordered == entry.arm # "address_with_delegates"
                         /\ entry'.arm = "address_with_delegates"
                            => ValidateDelegateOrder(entry')
<1>1. TypeOK /\ [Next]_vars => [Ordered]_vars
  <2> SUFFICES ASSUME TypeOK, Next, entry.arm # "address_with_delegates",
                      entry'.arm = "address_with_delegates"
               PROVE  ValidateDelegateOrder(entry')
    OBVIOUS
  <2>1. entry' # entry
    OBVIOUS
  <2>2. ASSUME NEW c \in Calls PROVE ~AuthorizeSigned(c)
    <3>1. SUFFICES ASSUME AuthorizeSigned(c) PROVE FALSE
      OBVIOUS
    <3>2. entry'.arm = entry.arm
      BY <3>1, WrittenEntry, CallsAreAny DEF TypeOK, AuthorizeSigned
    <3> QED  BY <3>2
  <2>3. ~UpgradeToV2 /\ ~ArmUpgradeToV2
    BY <2>1, UpgradeCases
  <2>4. PICK exp \in Ledger, ds \in DelegateTrees, top \in Supplied :
           WithDelegates(exp, ds, top)
    BY <2>1, <2>2, <2>3 DEF Next, AuthorizeRefused, SignerFails, AuthorizeCancelled,
       WithDelegatesRefused, UpgradeRefused
  <2>5. PICK built \in buildDelegateNodes(ds) : entry' = Wrapped(entry, exp, built, top)
    BY <2>4 DEF WithDelegates
  <2>6. WrapRefusal(entry, exp, ds) = "ok"
    BY <2>4 DEF WithDelegates
  <2> QED  BY <2>5, <2>6, WrappedEntry DEF TypeOK
<1> QED  BY <1>1, TypeCorrect, PTL DEF Spec, WrapsAreOrdered

-----------------------------------------------------------------------------
(* The wallet SDK's readings of the entry (Wallet).                           *)

\* The first error found is the error of some place, and "ok" means no place has one.
LEMMA FirstErrorFound ==
    ASSUME NEW n \in Nat, NEW errors, DOMAIN errors = 1..n
    PROVE  \/ FirstError(errors) = "ok" /\ \A i \in 1..n : errors[i] = "ok"
           \/ \E i \in 1..n : FirstError(errors) = errors[i] /\ errors[i] # "ok"
<1>1. CASE \A i \in 1..n : errors[i] = "ok"
  BY <1>1 DEF FirstError
<1>2. CASE \E i \in 1..n : errors[i] # "ok"
  <2> DEFINE bad == {i \in 1..n : errors[i] # "ok"}
             Is(i) == errors[i] # "ok" /\ \A j \in 1..(i - 1) : errors[j] = "ok"
  <2>1. PICK s \in bad : \A t \in bad : s <= t
    BY <1>2, LeastOf
  <2>2. s \in DOMAIN errors /\ Is(s)
    BY <2>1
  <2>3. FirstError(errors) = errors[CHOOSE i \in DOMAIN errors : Is(i)]
    BY <1>2 DEF FirstError
  <2> HIDE DEF Is
  <2>4. PICK i \in DOMAIN errors : FirstError(errors) = errors[i] /\ Is(i)
    BY <2>2, <2>3
  <2> QED  BY <2>4 DEF Is
<1> QED  BY <1>1, <1>2

\* The part of the invariant the wallet's readings rest on.
EntryFacts == TypeOK /\ SignaturesCoverEntry /\ VerifyAgrees

\* walletsdk.VerifyEntry on an entry with a node of the account: it reports the error
\* of one of the account's nodes, or that none has one.
LEMMA WalletReads ==
    ASSUME TypeOK, NEW a \in Accounts, NEW net \in Networks, NEW x \in Ledger,
           Matches(entry, a) # {}
    PROVE  LET err(i) == NodeError(entry.nodes[i], a, Preimage(entry, x, net))
           IN  \/ /\ WalletVerifyEntry(entry, a, x, net) = "ok"
                  /\ \A i \in Matches(entry, a) : err(i) = "ok"
               \/ \E i \in Matches(entry, a) :
                     WalletVerifyEntry(entry, a, x, net) = err(i) /\ err(i) # "ok"
<1> DEFINE err(i) == NodeError(entry.nodes[i], a, Preimage(entry, x, net))
           errors == [i \in 1..Len(entry.nodes) |->
                         IF i \notin signatureNodes(entry, a) THEN "ok" ELSE err(i)]
<1>1. entry.arm \in AddressArms /\ Len(entry.nodes) \in Nat
  BY DEF TypeOK, WellFormed, Entries, Matches
<1>2. a # NoAddress /\ net # NoNetwork
  BY AuthorizeAssumption
<1>3. signatureNodes(entry, a) = Matches(entry, a)
  BY DEF signatureNodes, Matches
<1>4. WalletVerifyEntry(entry, a, x, net) = FirstError(errors)
  BY <1>1, <1>2, <1>3 DEF WalletVerifyEntry, AddressArms
<1>5. DOMAIN errors = 1..Len(entry.nodes)
  OBVIOUS
<1>6. \A i \in 1..Len(entry.nodes) :
         errors[i] = IF i \notin Matches(entry, a) THEN "ok" ELSE err(i)
  BY <1>3
<1>7. Matches(entry, a) \subseteq 1..Len(entry.nodes)
  BY DEF Matches
<1> HIDE DEF err, errors
<1>8. \/ FirstError(errors) = "ok" /\ \A i \in 1..Len(entry.nodes) : errors[i] = "ok"
      \/ \E i \in 1..Len(entry.nodes) : FirstError(errors) = errors[i] /\ errors[i] # "ok"
  BY <1>1, <1>5, FirstErrorFound
<1>9. \/ /\ WalletVerifyEntry(entry, a, x, net) = "ok"
         /\ \A i \in Matches(entry, a) : err(i) = "ok"
      \/ \E i \in Matches(entry, a) :
            WalletVerifyEntry(entry, a, x, net) = err(i) /\ err(i) # "ok"
  BY <1>4, <1>6, <1>7, <1>8
<1> QED  BY <1>9 DEF err

\* SignViaFreighter on an entry the library can verify: "ok" exactly when all the
\* account's nodes verify, and the wrong network only when another network verifies.
LEMMA FreighterReads ==
    ASSUME TypeOK, NEW a \in Accounts, NEW net \in Networks
    PROVE  /\ ViaFreighter(a, net) = "ErrWrongNetwork" => networkSignedFor(entry, net) # {}
           /\ Matches(entry, a) # {} /\ ~VerifyRefuses(entry) =>
                 (ViaFreighter(a, net) = "ok"
                     <=> \A i \in Matches(entry, a) : VerifyEntry(entry, net)[i] = "verified")
<1> DEFINE verdict(i) == VerifyEntry(entry, net)[i]
           err(i) == CASE verdict(i) = "verified" -> "ok"
                       [] verdict(i) \in {"unsigned", "cannot_check"} ->
                             "ErrUnreadableSignature"
                       [] OTHER -> IF networkSignedFor(entry, net) # {}
                                   THEN "ErrWrongNetwork" ELSE "ErrSignatureNotByKey"
           errors == [i \in 1..Len(entry.nodes) |->
                         IF i \notin nodesForAddress(entry, a) THEN "ok" ELSE err(i)]
<1>1. Len(entry.nodes) \in Nat /\ net # NoNetwork
  BY AuthorizeAssumption DEF TypeOK, Entries
<1>2. nodesForAddress(entry, a) = Matches(entry, a)
  BY DEF nodesForAddress, Matches
<1>3. [kind |-> "entry", entry |-> entry].kind = "entry"
      /\ [kind |-> "entry", entry |-> entry].entry = entry
  OBVIOUS
<1>4. ViaFreighter(a, net) = IF VerifyRefuses(entry) THEN "verify"
                             ELSE IF Matches(entry, a) = {} THEN "ErrSignatureNotFound"
                             ELSE FirstError(errors)
  BY <1>1, <1>2, <1>3, Zenon DEF ViaFreighter, SignViaFreighter
<1>5. \A i : /\ err(i) = "ok" <=> verdict(i) = "verified"
             /\ err(i) = "ErrWrongNetwork" => networkSignedFor(entry, net) # {}
  <2> HIDE DEF verdict
  <2> SUFFICES ASSUME NEW i
               PROVE  /\ err(i) = "ok" <=> verdict(i) = "verified"
                      /\ err(i) = "ErrWrongNetwork" => networkSignedFor(entry, net) # {}
    OBVIOUS
  <2>1. CASE verdict(i) = "verified"
    <3>1. err(i) = "ok"
      BY <2>1, Zenon
    <3> QED  BY <2>1, <3>1
  <2>2. CASE verdict(i) \in {"unsigned", "cannot_check"}
    <3>1. verdict(i) # "verified"
      BY <2>2
    <3>2. err(i) = "ErrUnreadableSignature"
      BY <2>2, <3>1, Zenon
    <3> QED  BY <3>1, <3>2
  <2>3. CASE verdict(i) # "verified" /\ verdict(i) \notin {"unsigned", "cannot_check"}
    <3>1. err(i) = IF networkSignedFor(entry, net) # {}
                   THEN "ErrWrongNetwork" ELSE "ErrSignatureNotByKey"
      BY <2>3, Zenon
    <3> QED  BY <2>3, <3>1
  <2> QED  BY <2>1, <2>2, <2>3
<1>6. DOMAIN errors = 1..Len(entry.nodes)
  BY Zenon
<1>7. \A i \in 1..Len(entry.nodes) :
         errors[i] = IF i \notin Matches(entry, a) THEN "ok" ELSE err(i)
  BY <1>2, Zenon
<1>8. Matches(entry, a) \subseteq 1..Len(entry.nodes)
  BY DEF Matches
<1> HIDE DEF err, errors
<1>9. \/ FirstError(errors) = "ok" /\ \A i \in 1..Len(entry.nodes) : errors[i] = "ok"
      \/ \E i \in 1..Len(entry.nodes) : FirstError(errors) = errors[i] /\ errors[i] # "ok"
  BY <1>1, <1>6, FirstErrorFound
<1>10. FirstError(errors) = "ErrWrongNetwork" => networkSignedFor(entry, net) # {}
  BY <1>5, <1>7, <1>9
<1>11. FirstError(errors) = "ok" <=> \A i \in Matches(entry, a) : err(i) = "ok"
  BY <1>7, <1>8, <1>9
<1> QED  BY <1>4, <1>5, <1>10, <1>11 DEF verdict

\* The wallet SDK and the library agree on every entry that a sequence of calls leads to.
THEOREM WalletsAgree == Spec => []WalletAgrees
<1>1. EntryFacts => WalletAgrees
  <2> SUFFICES ASSUME EntryFacts, NEW a \in Accounts, NEW net \in Networks
               PROVE  LET nodes == Matches(entry, a)
                          byKey == \A i \in nodes : entry.nodes[i].sig.key = a
                          here  == \A i \in nodes : entry.nodes[i].sig.payload.network = net
                          check(x) == WalletVerifyEntry(entry, a, x, net)
                      IN  /\ nodes # {} /\ (\A i \in nodes : SignedByLibrary(i)
                                                /\ entry.nodes[i].sig.kind = "account") =>
                                /\ \A x \in Ledger :
                                      check(x) = "ok" <=> byKey /\ here /\ x = entry.exp
                                /\ ViaFreighter(a, net) = "ok" <=> here
                          /\ Requirement(entry, a).wanted /\ ~Requirement(entry, a).signed =>
                                \A x \in Ledger :
                                    WalletVerifyEnvelope(<<entry>>, a, x, net) # "ok"
                          /\ ViaFreighter(a, net) = "ErrWrongNetwork" =>
                                \E other \in Networks \ {net} : \A i \in 1..Len(entry.nodes) :
                                    entry.nodes[i].sig.payload.network = other
    BY Zenon DEF WalletAgrees
  <2> DEFINE nodes == Matches(entry, a)
  <2>1. TypeOK /\ SignaturesCoverEntry /\ VerifyAgrees
    BY DEF EntryFacts
  <2>2. nodes \subseteq 1..Len(entry.nodes) /\ entry \in Entries
    BY <2>1 DEF Matches, TypeOK
  <2>3. \A i \in 1..Len(entry.nodes) : entry.nodes[i] \in Nodes
    BY <2>2, ElementOfSeq DEF Entries
  <2>4. ASSUME nodes # {},
               \A i \in nodes : SignedByLibrary(i) /\ entry.nodes[i].sig.kind = "account",
               NEW x \in Ledger
        PROVE  WalletVerifyEntry(entry, a, x, net) = "ok"
                  <=> /\ \A i \in nodes : entry.nodes[i].sig.key = a
                      /\ \A i \in nodes : entry.nodes[i].sig.payload.network = net
                      /\ x = entry.exp
    <3> DEFINE err(i) == NodeError(entry.nodes[i], a, Preimage(entry, x, net))
    <3>1. ASSUME NEW i \in nodes
          PROVE  err(i) = "ok" <=> /\ entry.nodes[i].sig.key = a
                                   /\ entry.nodes[i].sig.payload.network = net
                                   /\ x = entry.exp
      <4>1. entry.nodes[i].sig.payload
               = Preimage(entry, entry.exp, entry.nodes[i].sig.payload.network)
        BY <2>1, <2>2, <2>4 DEF SignaturesCoverEntry
      <4>2. entry.nodes[i].sig.payload = Preimage(entry, x, net)
               <=> entry.exp = x /\ entry.nodes[i].sig.payload.network = net
        BY <2>2, <4>1, PreimageInjective
      <4>3. parseAccountSignature(entry.nodes[i].sig)
        BY <2>4 DEF parseAccountSignature, SignedByLibrary
      <4> QED  BY <4>2, <4>3 DEF NodeError
    <3>2. \/ /\ WalletVerifyEntry(entry, a, x, net) = "ok"
             /\ \A i \in nodes : err(i) = "ok"
          \/ \E i \in nodes :
                WalletVerifyEntry(entry, a, x, net) = err(i) /\ err(i) # "ok"
      BY <2>1, <2>4, WalletReads
    <3> HIDE DEF err
    <3> QED  BY <2>4, <3>1, <3>2
  <2>5. ASSUME nodes # {},
               \A i \in nodes : SignedByLibrary(i) /\ entry.nodes[i].sig.kind = "account"
        PROVE  ViaFreighter(a, net) = "ok"
                  <=> \A i \in nodes : entry.nodes[i].sig.payload.network = net
    <3>1. \A i \in nodes :
             /\ ~VerifyRefuses(entry)
             /\ VerifyEntry(entry, net)[i] = "verified"
                   <=> entry.nodes[i].sig.payload.network = net
      <4>1. \A i \in nodes : entry.nodes[i].addr = a
        BY DEF Matches
      <4> QED  BY <2>1, <2>2, <2>5, <4>1 DEF VerifyAgrees
    <3> QED  BY <2>1, <2>5, <3>1, FreighterReads
  <2>6. ASSUME Requirement(entry, a).wanted, ~Requirement(entry, a).signed, NEW x \in Ledger
        PROVE  WalletVerifyEnvelope(<<entry>>, a, x, net) # "ok"
    <3> DEFINE err(i) == NodeError(entry.nodes[i], a, Preimage(entry, x, net))
               judged == WalletVerifyEntry(entry, a, x, net)
               errors == [i \in DOMAIN <<entry>> |->
                             LET e == WalletVerifyEntry(<<entry>>[i], a, x, net)
                             IN  IF <<entry>>[i].arm = "source_account"
                                      \/ e = "ErrSignatureNotFound"
                                 THEN "ok" ELSE e]
    <3>1. nodes # {} /\ \E i \in nodes : entry.nodes[i].sig = Void
      BY <2>6 DEF Requirement, signatureNodes, Matches
    <3>2. \A i : err(i) \in {"ok", "ErrUnreadableSignature", "ErrSignatureNotByKey"}
      BY DEF NodeError
    <3>3. \E i \in nodes : err(i) # "ok"
      BY <3>1 DEF NodeError, parseAccountSignature, isSigned, Void
    <3>4. \/ judged = "ok" /\ \A i \in nodes : err(i) = "ok"
          \/ \E i \in nodes : judged = err(i) /\ err(i) # "ok"
      BY <2>1, <3>1, WalletReads
    <3> HIDE DEF err
    <3>5. judged \in {"ErrUnreadableSignature", "ErrSignatureNotByKey"}
      BY <3>2, <3>3, <3>4
    <3>6. entry.arm # "source_account"
      BY <2>1, <2>2, <3>1 DEF TypeOK, WellFormed, AddressArms
    <3>7. DOMAIN errors = 1..1 /\ errors[1] = judged
      <4>1. DOMAIN <<entry>> = 1..1 /\ <<entry>>[1] = entry
        OBVIOUS
      <4> QED  BY <3>5, <3>6, <4>1
    <3>8. WalletVerifyEnvelope(<<entry>>, a, x, net) = FirstError(errors)
      BY DEF WalletVerifyEnvelope
    <3> HIDE DEF errors, judged
    <3>9. \/ FirstError(errors) = "ok" /\ \A i \in 1..1 : errors[i] = "ok"
          \/ \E i \in 1..1 : FirstError(errors) = errors[i] /\ errors[i] # "ok"
      BY <3>7, FirstErrorFound
    <3> QED  BY <3>5, <3>7, <3>8, <3>9
  <2>7. ASSUME ViaFreighter(a, net) = "ErrWrongNetwork"
        PROVE  \E other \in Networks \ {net} : \A i \in 1..Len(entry.nodes) :
                  entry.nodes[i].sig.payload.network = other
    <3>1. PICK other \in Networks \ {net} : Verified(entry, other)
      BY <2>1, <2>7, FreighterReads DEF networkSignedFor
    <3>2. ASSUME NEW i \in 1..Len(entry.nodes)
          PROVE  entry.nodes[i].sig.payload.network = other
      <4>1. verifyNode(entry.nodes[i], Preimage(entry, entry.exp, other)) = "verified"
        BY <3>1 DEF Verified, VerifyEntry
      <4>2. entry.nodes[i].sig.payload = Preimage(entry, entry.exp, other)
        BY <4>1 DEF verifyNode
      <4>3. entry.exp \in Ledger
        BY <2>2 DEF Entries
      <4> QED  BY <2>2, <4>2, <4>3, PreimageType
    <3> QED  BY <3>2
  <2> QED  BY <2>4, <2>5, <2>6, <2>7, Zenon
<1> QED
  BY <1>1, TypeCorrect, SignaturesStayValid, VerifyAcceptsSigned, PTL DEF EntryFacts
=============================================================================
