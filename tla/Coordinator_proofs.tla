------------------------- MODULE Coordinator_proofs -------------------------
(***************************************************************************)
(* Proofs about Coordinator, for every entry a session may be opened on and *)
(* any parties that answer, fail or answer again in any order.              *)
(***************************************************************************)
EXTENDS Coordinator, Authorize_proofs, FiniteSetTheorems

USE DEF Address, Ledger

\* Before a session is open nothing is recorded.
NothingBeforeOpen == phase # "open" => \A a \in Address : ~Recorded(a)

\* The map of an open session has every delegate's address, and an address that
\* is still unsigned in it is a delegate's.
MapTracksNodes ==
    phase = "open" =>
        /\ \A i \in Tracked : signedMap[held.nodes[i].addr] # "absent"
        /\ \A a \in Address : signedMap[a] = "false" => \E i \in Tracked : held.nodes[i].addr = a

SessionInv == TypeOK /\ NothingBeforeOpen /\ MapTracksNodes /\ RecordedWereSigned

\* Every node of the entry held has an address.
LEMMA HeldNodes ==
    ASSUME TypeOK
    PROVE  /\ Len(held.nodes) \in Nat
           /\ \A i \in Tracked : held.nodes[i] \in Nodes /\ held.nodes[i].addr \in Address
<1>1. held.nodes \in Seq(Nodes)
  BY DEF TypeOK, Entries
<1>2. Len(held.nodes) \in Nat /\ \A i \in 1..Len(held.nodes) : held.nodes[i] \in Nodes
  BY <1>1
<1>3. \A n \in Nodes : n.addr \in Address
  BY DEF Nodes
<1> QED  BY <1>2, <1>3 DEF Tracked, Delegates

\* What the signer answers inside an accepted Record: a signature over the
\* payload of the session, for the party that was asked.
LEMMA RecordAnswer ==
    ASSUME TypeOK, NEW target \in Address, NEW s \in Signers,
           Refusal(held, RecordCall(target, s)) = "ok"
    PROVE  /\ Answer(target, s) \in [target: Address, sig: Signatures]
           /\ Answer(target, s).target = target
           /\ isSigned(Answer(target, s).sig) =>
                Answer(target, s).sig.payload = Preimage(held, validUntil, network)
<1> DEFINE c == RecordCall(target, s)
<1>1. [given |-> FALSE, scope |-> {}] \in Resigns
  BY DEF Resigns
<1>2. c \in Calls /\ c.exp = validUntil /\ c.network = network
  BY <1>1, CoordinatorAssumption DEF RecordCall, Calls, TypeOK
<1>3. held \in Entries
  BY DEF TypeOK
<1> HIDE DEF c
<1>4. /\ SignatureOf(held, c) \in Signatures
      /\ isSigned(SignatureOf(held, c)) =>
           SignatureOf(held, c).payload = Preimage(held, c.exp, c.network)
  BY <1>2, <1>3, WrittenSignature, CallsAreAny DEF c
<1> QED  BY <1>2, <1>4 DEF Answer, c

\* Before NewCoordinator there is no session.
LEMMA CoordinatorInitial == Init => SessionInv
BY CoordinatorAssumption, EntryAssumption
DEF Init, SessionInv, TypeOK, NothingBeforeOpen, MapTracksNodes, RecordedWereSigned, Recorded

\* NewCoordinator opens a session in which every delegate is unsigned.
LEMMA NewCoordinatorKeeps ==
    ASSUME SessionInv, NEW exp \in Ledger, NEW net \in Networked, NewCoordinator(exp, net)
    PROVE  SessionInv'
<1>1. TypeOK
  BY DEF SessionInv
<1>2. CASE NewRefuses(held, exp)
  BY <1>1, <1>2
  DEF NewCoordinator, SessionInv, TypeOK, NothingBeforeOpen, MapTracksNodes, RecordedWereSigned,
      Recorded
<1>3. CASE ~NewRefuses(held, exp)
  <2>1. /\ phase' = "open" /\ validUntil' = exp /\ network' = net
        /\ held' = held /\ produced' = produced
        /\ signedMap' = buildNodes(held)
    BY <1>3 DEF NewCoordinator
  <2>2. TypeOK'
    BY <1>1, <1>3, <2>1 DEF TypeOK, NewRefuses, buildNodes
  <2>3. \A a \in Address : signedMap'[a] # "true"
    BY <2>1 DEF buildNodes
  <2>4. MapTracksNodes'
    BY <1>1, <2>1, HeldNodes DEF MapTracksNodes, buildNodes, Tracked
  <2> QED  BY <2>1, <2>2, <2>3, <2>4 DEF SessionInv, NothingBeforeOpen, RecordedWereSigned, Recorded
<1> QED  BY <1>2, <1>3

\* A Record that succeeds marks its party and nothing else.
LEMMA RecordKeeps ==
    ASSUME SessionInv, NEW target \in Address, NEW s \in Signers, RecordAnswered(target, s)
    PROVE  SessionInv'
<1>1. TypeOK /\ phase = "open"
  BY DEF SessionInv, RecordAnswered
<1>2. /\ Answer(target, s) \in [target: Address, sig: Signatures]
      /\ Answer(target, s).target = target
      /\ isSigned(Answer(target, s).sig) =>
           Answer(target, s).sig.payload = Preimage(held, validUntil, network)
  BY <1>1, RecordAnswer DEF RecordAnswered
<1>3. /\ produced' = produced \cup {Answer(target, s)}
      /\ signedMap' = [signedMap EXCEPT ![target] = "true"]
      /\ UNCHANGED <<phase, held, validUntil, network>>
  BY DEF RecordAnswered, RecordSucceeds
<1>4. TypeOK'
  BY <1>1, <1>2, <1>3 DEF TypeOK
<1>5. NothingBeforeOpen' /\ MapTracksNodes'
  BY <1>1, <1>3, HeldNodes DEF SessionInv, TypeOK, NothingBeforeOpen, MapTracksNodes, Tracked
<1>6. RecordedWereSigned'
  <2> SUFFICES ASSUME NEW a \in Address, Recorded(a)'
               PROVE  (\E p \in produced :
                         /\ p.target = a
                         /\ isSigned(p.sig) => p.sig.payload = Preimage(held, validUntil, network))'
    BY DEF RecordedWereSigned
  <2>1. CASE a = target
    BY <1>2, <1>3, <2>1
  <2>2. CASE a # target
    BY <1>1, <1>3, <2>2 DEF SessionInv, RecordedWereSigned, Recorded, TypeOK
  <2> QED  BY <2>1, <2>2
<1> QED  BY <1>4, <1>5, <1>6 DEF SessionInv

\* Every step keeps the invariant.
LEMMA CoordinatorStep == SessionInv /\ [Next]_vars => SessionInv'
<1> SUFFICES ASSUME SessionInv, [Next]_vars PROVE SessionInv'
  OBVIOUS
<1>1. CASE UNCHANGED vars
  BY <1>1 DEF vars, SessionInv, TypeOK, NothingBeforeOpen, MapTracksNodes, RecordedWereSigned,
              Recorded, Tracked
<1>2. ASSUME NEW target \in Address, NEW s \in Signers, RecordRefused(target, s)
      PROVE  UNCHANGED vars
  BY <1>2 DEF RecordRefused, RecordFails
<1> QED  BY <1>1, <1>2, NewCoordinatorKeeps, RecordKeeps DEF Next

-----------------------------------------------------------------------------

\* The session's fields stay well formed, and an open session holds an entry of
\* the delegates arm and a real expiration (NewCoordinator, Record).
THEOREM SessionWellFormed == Spec => []TypeOK
<1>1. SessionInv => TypeOK
  BY DEF SessionInv
<1> QED  BY <1>1, CoordinatorInitial, CoordinatorStep, PTL DEF Spec

\* Progress is earned: an address reported as signed has had a signer answer
\* for it, over this session's payload (Record).
THEOREM ProgressIsEarned == Spec => []RecordedWereSigned
<1>1. SessionInv => RecordedWereSigned
  BY DEF SessionInv
<1> QED  BY <1>1, CoordinatorInitial, CoordinatorStep, PTL DEF Spec

\* IsComplete, Remaining and State agree about when a session is complete, on
\* any tree, an address that appears at several depths included, and SignedCount
\* gives State's number where every mark belongs to one tracked node.
THEOREM SessionViewsAgree == Spec => []ViewsAgree
<1>1. ASSUME SessionInv, phase = "open"
      PROVE  /\ IsComplete <=> (Tracked # {} /\ Remaining = {})
             /\ IsComplete <=> (Tracked # {} /\ StateSignedCount = TotalCount)
             /\ OneNodePerMark => SignedCount = StateSignedCount
  <2> DEFINE marked == {i \in Tracked : Recorded(held.nodes[i].addr)}
  <2>1. /\ TypeOK
        /\ \A i \in Tracked : signedMap[held.nodes[i].addr] # "absent"
        /\ \A a \in Address : signedMap[a] = "false" => \E i \in Tracked : held.nodes[i].addr = a
    BY <1>1 DEF SessionInv, MapTracksNodes
  <2>2. \A i \in Tracked : signedMap[held.nodes[i].addr] \in {"false", "true"}
    BY <2>1, HeldNodes DEF TypeOK
  <2>3. IsComplete <=> Tracked # {} /\ marked = Tracked
    BY <2>1, <2>2, HeldNodes DEF IsComplete, Recorded
  <2>4. Remaining = {} <=> marked = Tracked
    BY DEF Remaining
  <2>5. IsFiniteSet(Tracked)
    BY <2>1, HeldNodes, FS_Interval DEF Tracked, Delegates
  <2>6. marked \in SUBSET Tracked
    OBVIOUS
  <2>7. StateSignedCount = TotalCount <=> marked = Tracked
    BY <2>5, <2>6, FS_Subset DEF StateSignedCount, TotalCount
  <2>8. ASSUME OneNodePerMark PROVE SignedCount = StateSignedCount
    <3> DEFINE names == {a \in Address : Recorded(a)}
               f == [i \in marked |-> held.nodes[i].addr]
    <3>1. f \in Bijection(marked, names)
      BY <2>1, <2>8, HeldNodes DEF OneNodePerMark, Bijection, Injection,
                                   IsInjective, Surjection
    <3>2. IsFiniteSet(marked)
      BY <2>5, <2>6, FS_Subset
    <3> HIDE DEF f, names, marked
    <3>3. Cardinality(marked) = Cardinality(names)
      BY <3>1, <3>2, FS_Bijection DEF ExistsBijection
    <3> QED  BY <3>3 DEF SignedCount, StateSignedCount, names, marked
  <2> QED  BY <2>3, <2>4, <2>7, <2>8
<1>2. SessionInv => ViewsAgree
  BY <1>1 DEF ViewsAgree
<1> QED  BY <1>2, CoordinatorInitial, CoordinatorStep, PTL DEF Spec
=============================================================================
