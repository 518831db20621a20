---------------------------- MODULE Shared_proofs -----------------------------
(***************************************************************************)
(* Proofs about the objects that goroutines or parties share: the two      *)
(* signers that several parties make a signature with (Threshold, Frost),  *)
(* the signer cache and the nonce tracker (Caches), and the HTTP service    *)
(* (Server).  They hold for any number of parties, calls, rounds,           *)
(* goroutines, nonces, clock ticks, and for any requests, whatever they     *)
(* contain, and any server configuration.                                  *)
(***************************************************************************)
EXTENDS Threshold, Frost, Caches, Server, FiniteSetTheorems, TLAPS

-----------------------------------------------------------------------------
(* ThresholdSigner.                                                         *)

\* Shares that parties sent for one round, no two with the same identifier.
FromRound(log, round, S) ==
  /\ IsFiniteSet(S)
  /\ \A s, u \in S : PartyID(s) = PartyID(u) => s = u
  /\ \A s \in S : <<round, s>> \in log

\* Enough of them to sign.
Assembled(log, round, S) == FromRound(log, round, S) /\ Cardinality(S) >= Quorum

Sessions == [round: Nat, shares: SUBSET Shares, complete: BOOLEAN, signature: SUBSET Shares]

SessionInv ==
  /\ session \in Sessions
  /\ begun \in Nat
  /\ FromRound(sent, session.round, session.shares)
  /\ session.complete => Assembled(sent, session.round, session.signature)

\* What Sign handed out last: nothing, or what one round assembled.
HandedInv == handed # NoSignature => \E round \in Nat : Assembled(sent, round, handed)

\* Shares with different identifiers are as many as their identifiers.
LEMMA AsManyIdentifiers ==
    ASSUME NEW S, IsFiniteSet(S), \A s, u \in S : PartyID(s) = PartyID(u) => s = u
    PROVE  Cardinality({PartyID(s) : s \in S}) = Cardinality(S)
<1> DEFINE T == {PartyID(s) : s \in S}
           id == [s \in S |-> PartyID(s)]
<1> HIDE DEF T
<1>1. \A s \in S : PartyID(s) \in T
  BY DEF T
<1>2. \A x \in T : \E s \in S : x = PartyID(s)
  BY DEF T
<1>3. id \in [S -> T]
  BY <1>1
<1>4. id \in Surjection(S, T)
  BY <1>2, <1>3 DEF Surjection
<1>5. id \in Injection(S, T)
  BY <1>3 DEF Injection, IsInjective
<1>6. Cardinality(T) = Cardinality(S)
  BY <1>4, <1>5, FS_Surjection
<1> QED  BY <1>6 DEF T

\* Contribute replaces the share with the same identifier: the shares stored
\* stay finite and keep one share per identifier.
LEMMA StoredFromRound ==
    ASSUME NEW log, NEW round, NEW S, NEW share,
           FromRound(log, round, S), <<round, share>> \in log
    PROVE  FromRound(log, round, Stored(S, share))
<1>1. IsFiniteSet({s \in S : PartyID(s) # PartyID(share)})
  BY FS_Subset DEF FromRound
<1>2. IsFiniteSet(Stored(S, share))
  BY <1>1, FS_AddElement DEF Stored
<1> QED  BY <1>2 DEF FromRound, Stored

\* Shares once sent stay sent.
LEMMA FromRoundStable ==
    ASSUME NEW log, NEW later, log \subseteq later, NEW round, NEW S
    PROVE  /\ FromRound(log, round, S) => FromRound(later, round, S)
           /\ Assembled(log, round, S) => Assembled(later, round, S)
BY DEF FromRound, Assembled

\* Assemble only ever signs with the shares in the session.
LEMMA AssembleKeeps ==
    ASSUME NEW s \in Sessions
    PROVE  /\ Assemble(s) \in Sessions
           /\ Assemble(s).round = s.round /\ Assemble(s).shares = s.shares
           /\ \/ Assemble(s).complete = s.complete /\ Assemble(s).signature = s.signature
              \/ Assemble(s).signature = s.shares /\ Cardinality(s.shares) >= Quorum
BY DEF Assemble, Sessions

\* A new signer holds no share and has handed out nothing.
LEMMA ThresholdInitial == ThresholdInit => SessionInv /\ HandedInv
BY FS_EmptySet DEF ThresholdInit, SessionInv, Sessions, FromRound, HandedInv, NoSignature

\* Every call on the signer keeps both invariants.
LEMMA ThresholdStep ==
    SessionInv /\ HandedInv /\ [ThresholdNext]_thresholdVars => SessionInv' /\ HandedInv'
<1> SUFFICES ASSUME SessionInv, HandedInv, [ThresholdNext]_thresholdVars
             PROVE  SessionInv' /\ HandedInv'
  OBVIOUS
<1> USE DEF SessionInv
<1>1. sent \subseteq sent'
  BY DEF ThresholdNext, ThresholdBegin, Contribute, ThresholdSign, thresholdVars
<1>2. /\ FromRound(sent', session.round, session.shares)
      /\ session.complete => Assembled(sent', session.round, session.signature)
  BY <1>1, FromRoundStable
<1>3. handed # NoSignature => \E round \in Nat : Assembled(sent', round, handed)
  BY <1>1, FromRoundStable DEF HandedInv
<1>4. CASE ThresholdBegin
  <2>1. FromRound(sent', begun + 1, {})
    BY FS_EmptySet DEF FromRound
  <2> QED  BY <1>3, <1>4, <2>1 DEF ThresholdBegin, NoSignature, Sessions, HandedInv
<1>5. ASSUME NEW round \in 0 .. MaxRounds, NEW share \in Shares, Contribute(round, share)
      PROVE  SessionInv' /\ HandedInv'
  <2>1. CASE round # session.round
    BY <1>2, <1>3, <1>5, <2>1 DEF Contribute, HandedInv
  <2>2. CASE round = session.round
    <3> DEFINE s == [session EXCEPT !.shares = Stored(session.shares, share)]
    <3>1. session' = Assemble(s) /\ handed' = handed /\ begun' = begun
      BY <1>5, <2>2 DEF Contribute
    <3>2. s \in Sessions
      BY DEF Stored, Sessions
    <3>3. /\ s.round = session.round /\ s.shares = Stored(session.shares, share)
          /\ s.complete = session.complete /\ s.signature = session.signature
      BY DEF Sessions
    <3> HIDE DEF s
    <3>4. FromRound(sent', s.round, s.shares)
      BY <1>2, <1>5, <2>2, <3>3, StoredFromRound DEF Contribute
    <3>5. session'.complete => Assembled(sent', session'.round, session'.signature)
      BY <1>2, <3>1, <3>2, <3>3, <3>4, AssembleKeeps DEF Assembled
    <3> QED  BY <1>3, <3>1, <3>2, <3>4, <3>5, AssembleKeeps DEF HandedInv
  <2> QED  BY <2>1, <2>2
<1>6. CASE ThresholdSign
  BY <1>2, <1>3, <1>6 DEF ThresholdSign, HandedInv, Sessions
<1>7. CASE UNCHANGED thresholdVars
  BY <1>2, <1>3, <1>7 DEF thresholdVars, HandedInv
<1> QED  BY <1>4, <1>5, <1>6, <1>7 DEF ThresholdNext

\* Whatever the order of Begin, Contribute and Sign calls, the signature of a
\* complete session is made of shares sent for its own round, a quorum of them
\* with different identifiers (Begin, Contribute).
THEOREM RoundsIsolated == ThresholdSpec => []RoundIsolation
<1>1. SessionInv => RoundIsolation
  BY AsManyIdentifiers DEF SessionInv, Sessions, Assembled, FromRound, RoundIsolation
<1> QED  BY <1>1, ThresholdInitial, ThresholdStep, PTL DEF ThresholdSpec

\* What Sign hands out is nil or a quorum of shares sent for one and the same
\* round, even when Begin has since abandoned that round (Sign).
THEOREM SignHandsOneRound == ThresholdSpec => []HandedInv
BY ThresholdInitial, ThresholdStep, PTL DEF ThresholdSpec

-----------------------------------------------------------------------------
(* FROST coordinator and signer.                                            *)

IsSeq(x) == \E S : x \in Seq(S)

\* A session record: the lists it collects are sequences.
IsSession(s) ==
  /\ s = [msg |-> s.msg, commits |-> s.commits, shares |-> s.shares,
          complete |-> s.complete, sig |-> s.sig]
  /\ s.complete \in BOOLEAN
  /\ IsSeq(s.commits) /\ IsSeq(s.shares)

\* The signature of a complete session verifies, and has a share at least.
Aggregated(s) == s.complete => s.sig # NoSig /\ IsSeq(s.sig) /\ Verifies(s.msg, s.sig, s.commits)

FrostSessionsInv == \A r \in DOMAIN sessions : IsSession(sessions[r]) /\ Aggregated(sessions[r])

\* A call has a session only between Begin and its return, and an answer it
\* gave is over its own payload.
CallsInv ==
  /\ pc \in [Callers -> {"unbuilt", "begin", "commit", "sign", "get", "returned"}]
  /\ DOMAIN result = Callers
  /\ \A c \in Callers :
       /\ pc[c] \in {"unbuilt", "begin", "returned"} => c \notin DOMAIN sessions
       /\ result[c].ok => \A i \in DOMAIN result[c].sig : result[c].sig[i].msg = Payload[c]

\* A list of commitments with one per participant has as many participants.
LEMMA DistinctCommitters ==
    ASSUME NEW commits, IsSeq(commits), ValidList(commits)
    PROVE  Cardinality({k.id : k \in ToSet(commits)}) = Len(commits)
<1> DEFINE T == {k.id : k \in ToSet(commits)}
           id == [i \in 1 .. Len(commits) |-> commits[i].id]
<1>1. /\ Len(commits) \in Nat /\ DOMAIN commits = 1 .. Len(commits)
      /\ \A i \in 1 .. Len(commits) : commits[i] \in ToSet(commits)
      /\ \A k \in ToSet(commits) : \E i \in 1 .. Len(commits) : k = commits[i]
  BY DEF IsSeq, ToSet
<1>2. /\ \A k \in ToSet(commits) : k.id \in T
      /\ \A x \in T : \E k \in ToSet(commits) : x = k.id
  OBVIOUS
<1> HIDE DEF T
<1>3. id \in [1 .. Len(commits) -> T]
  BY <1>1, <1>2
<1>4. id \in Surjection(1 .. Len(commits), T)
  BY <1>1, <1>2, <1>3 DEF Surjection
<1>5. id \in Injection(1 .. Len(commits), T)
  BY <1>1, <1>3 DEF Injection, IsInjective, ValidList
<1>6. IsFiniteSet(1 .. Len(commits)) /\ Cardinality(1 .. Len(commits)) = Len(commits)
  BY <1>1, FS_Interval
<1>7. Cardinality(T) = Len(commits)
  BY <1>4, <1>5, <1>6, FS_Surjection
<1> QED  BY <1>7 DEF T

\* A list with an element more is a list.
LEMMA AppendIsSeq ==
    ASSUME NEW x, IsSeq(x), NEW e
    PROVE  IsSeq(Append(x, e)) /\ Len(Append(x, e)) = Len(x) + 1
<1>1. PICK S : x \in Seq(S)
  BY DEF IsSeq
<1>2. x \in Seq(S \cup {e})
  BY <1>1
<1>3. Append(x, e) \in Seq(S \cup {e}) /\ Len(Append(x, e)) = Len(x) + 1
  BY <1>2
<1> QED  BY <1>3 DEF IsSeq

\* AddSignatureShare on a round that was still open: when the round is complete
\* after it, its signature verifies over its own message and commitments.
LEMMA WithShareAggregates ==
    ASSUME NEW s, IsSession(s), ~s.complete, NEW share
    PROVE  IsSession(WithShare(s, share)) /\ Aggregated(WithShare(s, share))
<1> DEFINE shares == Append(s.shares, share)
           sig == AggregateSignatures(s.msg, SubSeq(shares, 1, FrostThreshold), s.commits)
<1>1. IsSeq(shares)
  BY AppendIsSeq DEF IsSession
<1>2. Len(shares) >= FrostThreshold => IsSeq(SubSeq(shares, 1, FrostThreshold))
  BY <1>1, FrostAssumption DEF IsSeq
<1>3. sig # NoSig => sig = SubSeq(shares, 1, FrostThreshold) /\ Verifies(s.msg, sig, s.commits)
  BY DEF AggregateSignatures
<1> HIDE DEF shares, sig
<1>4. CASE Len(shares) >= FrostThreshold /\ sig # NoSig
  <2>1. WithShare(s, share) = [s EXCEPT !.shares = shares, !.sig = sig, !.complete = TRUE]
    BY <1>4 DEF WithShare, shares, sig
  <2>2. WithShare(s, share) = [msg |-> s.msg, commits |-> s.commits, shares |-> shares,
                               complete |-> TRUE, sig |-> sig]
    BY <2>1 DEF IsSession
  <2>3. IsSession(WithShare(s, share))
    BY <1>1, <2>2 DEF IsSession
  <2>4. IsSeq(sig)
    BY <1>2, <1>3, <1>4
  <2> QED  BY <1>3, <1>4, <2>2, <2>3, <2>4 DEF Aggregated
<1>5. CASE ~(Len(shares) >= FrostThreshold /\ sig # NoSig)
  <2>1. WithShare(s, share) = [s EXCEPT !.shares = shares]
    BY <1>5 DEF WithShare, shares, sig
  <2>2. WithShare(s, share) = [msg |-> s.msg, commits |-> s.commits, shares |-> shares,
                               complete |-> s.complete, sig |-> s.sig]
    BY <2>1 DEF IsSession
  <2> QED  BY <1>1, <2>2 DEF IsSession, Aggregated
<1> QED  BY <1>4, <1>5

\* The coordinator's five operations on the map of sessions keep its sessions
\* sound and change no other round: Begin,
LEMMA BeginKeeps ==
    ASSUME FrostSessionsInv, NEW round, Begin(round)
    PROVE  FrostSessionsInv' /\ DOMAIN sessions' = DOMAIN sessions \cup {round}
<1>1. IsSeq(<<>>)
  BY DEF IsSeq
<1>2. IsSession(Begun(Payload[round])) /\ Aggregated(Begun(Payload[round]))
  BY <1>1 DEF IsSession, Aggregated, Begun
<1> QED  BY <1>2 DEF FrostSessionsInv, Begin

\* AddCommitment, which a complete round refuses,
LEMMA AddCommitmentKeeps ==
    ASSUME FrostSessionsInv, NEW round, NEW commitment,
           AcceptsCommitment(round), AddCommitment(round, commitment)
    PROVE  FrostSessionsInv' /\ DOMAIN sessions' = DOMAIN sessions
<1> DEFINE s == sessions[round]
           t == [s EXCEPT !.commits = Append(s.commits, commitment)]
<1>1. /\ round \in DOMAIN sessions /\ ~s.complete /\ IsSession(s)
  BY DEF AcceptsCommitment, FrostSessionsInv
<1>2. t = [msg |-> s.msg, commits |-> Append(s.commits, commitment), shares |-> s.shares,
           complete |-> s.complete, sig |-> s.sig]
  BY <1>1 DEF IsSession
<1>3. IsSession(t) /\ Aggregated(t)
  BY <1>1, <1>2, AppendIsSeq DEF IsSession, Aggregated
<1>4. sessions' = [sessions EXCEPT ![round] = t]
  BY <1>1 DEF AddCommitment
<1> HIDE DEF s, t
<1> QED  BY <1>1, <1>3, <1>4 DEF FrostSessionsInv

\* AddSignatureShare, which a complete round refuses too,
LEMMA AddSignatureShareKeeps ==
    ASSUME FrostSessionsInv, NEW round, NEW share,
           AcceptsShare(round, share), AddSignatureShare(round, share)
    PROVE  FrostSessionsInv' /\ DOMAIN sessions' = DOMAIN sessions
<1>1. /\ round \in DOMAIN sessions
      /\ IsSession(WithShare(sessions[round], share))
      /\ Aggregated(WithShare(sessions[round], share))
  BY WithShareAggregates DEF AcceptsShare, FrostSessionsInv
<1> QED  BY <1>1 DEF AddSignatureShare, FrostSessionsInv

\* and Cleanup.
LEMMA CleanupKeeps ==
    ASSUME FrostSessionsInv, NEW round, Cleanup(round)
    PROVE  FrostSessionsInv' /\ DOMAIN sessions' = DOMAIN sessions \ {round}
BY DEF Cleanup, Restrict, FrostSessionsInv

\* A new coordinator has no session and no call has begun.
LEMMA FrostInitial == FrostInit => FrostSessionsInv /\ CallsInv
BY DEF FrostInit, FrostSessionsInv, CallsInv, Failed

\* A share that verifies is over the message it is verified for.
LEMMA VerifiedShares ==
    ASSUME NEW msg, NEW sig, NEW commits, Verifies(msg, sig, commits)
    PROVE  \A i \in DOMAIN sig : sig[i].msg = msg
BY DEF Verifies, VerifySignatureShare

\* Every step of a call, of the application or of a participant on its own
\* keeps the sessions sound and the calls' accounts of them.
LEMMA FrostStep ==
    FrostSessionsInv /\ CallsInv /\ [FrostNext]_frostVars => FrostSessionsInv' /\ CallsInv'
<1> SUFFICES ASSUME FrostSessionsInv, CallsInv, [FrostNext]_frostVars
             PROVE  FrostSessionsInv' /\ CallsInv'
  OBVIOUS
<1>0. ASSUME NEW c \in Callers, NEW next \in {"sign", "get"}, Step(c, next)
      PROVE  /\ pc' \in [Callers -> {"unbuilt", "begin", "commit", "sign", "get", "returned"}]
             /\ \A d \in Callers : pc'[d] = pc[d] \/ pc'[d] = next
  BY <1>0 DEF Step, CallsInv
<1>1. ASSUME NEW c \in Callers, FrostBegin(c) PROVE FrostSessionsInv' /\ CallsInv'
  BY <1>1, BeginKeeps DEF FrostBegin, CallsInv
<1>2. ASSUME NEW c \in Callers, NEW r, Return(c, r),
             r.ok => \A i \in DOMAIN r.sig : r.sig[i].msg = Payload[c]
      PROVE  FrostSessionsInv' /\ CallsInv'
  <2>1. FrostSessionsInv' /\ DOMAIN sessions' = DOMAIN sessions \ {c}
    BY <1>2, CleanupKeeps DEF Return
  <2> QED  BY <1>2, <2>1 DEF Return, CallsInv
<1>3. ASSUME NEW c \in Callers, Commit(c) PROVE FrostSessionsInv' /\ CallsInv'
  <2>1. CASE /\ AcceptsCommitment(c) /\ AddCommitment(c, Commitment(Participant(c), c))
             /\ Step(c, "sign") /\ UNCHANGED result
    <3>1. FrostSessionsInv' /\ DOMAIN sessions' = DOMAIN sessions
      BY <2>1, AddCommitmentKeeps
    <3> QED  BY <1>0, <2>1, <3>1 DEF CallsInv
  <2>2. CASE Return(c, Failed)
    BY <1>2, <2>2 DEF Failed
  <2> QED  BY <1>3, <2>1, <2>2 DEF Commit
<1>4. ASSUME NEW c \in Callers, ReadCommitments(c) PROVE FrostSessionsInv' /\ CallsInv'
  BY <1>4 DEF ReadCommitments, FrostSessionsInv, CallsInv
<1>5. ASSUME NEW c \in Callers, Sign(c) PROVE FrostSessionsInv' /\ CallsInv'
  <2>1. CASE Step(c, "get") /\ UNCHANGED <<sessions, result>>
    BY <1>0, <2>1 DEF FrostSessionsInv, CallsInv
  <2>2. CASE /\ AcceptsShare(c, ShareOf(c)) /\ AddSignatureShare(c, ShareOf(c))
             /\ Step(c, "get") /\ UNCHANGED result
    <3>1. FrostSessionsInv' /\ DOMAIN sessions' = DOMAIN sessions
      BY <2>2, AddSignatureShareKeeps
    <3> QED  BY <1>0, <2>2, <3>1 DEF CallsInv
  <2>3. CASE Return(c, Failed)
    BY <1>2, <2>3 DEF Failed
  <2> QED  BY <1>5, <2>1, <2>2, <2>3 DEF Sign
<1>6. ASSUME NEW c \in Callers, GetSignature(c) PROVE FrostSessionsInv' /\ CallsInv'
  <2> DEFINE s == sessions[c]
             good == s.complete /\ Verifies(Payload[c], s.sig, s.commits)
             r == IF good THEN [ok |-> TRUE, sig |-> s.sig] ELSE Failed
  <2>1. Return(c, r)
    BY <1>6 DEF GetSignature
  <2>2. CASE good
    <3>1. r = [ok |-> TRUE, sig |-> s.sig] /\ \A i \in DOMAIN s.sig : s.sig[i].msg = Payload[c]
      BY <2>2, VerifiedShares
    <3> QED  BY <1>2, <2>1, <3>1
  <2>3. CASE ~good
    BY <1>2, <2>1, <2>3 DEF Failed
  <2> QED  BY <2>2, <2>3
<1>7. ASSUME NEW c \in Callers, GiveUp(c) PROVE FrostSessionsInv' /\ CallsInv'
  BY <1>2, <1>7 DEF GiveUp, Failed
<1>8. ASSUME NEW c \in Callers, Cancel(c) PROVE FrostSessionsInv' /\ CallsInv'
  BY <1>8 DEF Cancel, FrostSessionsInv, CallsInv
<1>9. ASSUME NEW round \in OpenRounds, OpenRound(round) PROVE FrostSessionsInv' /\ CallsInv'
  <2>1. FrostSessionsInv' /\ DOMAIN sessions' = DOMAIN sessions \cup {round}
    BY <1>9, BeginKeeps DEF OpenRound
  <2>2. round \notin Callers
    BY FrostAssumption
  <2> QED  BY <1>9, <2>1, <2>2 DEF OpenRound, CallsInv
<1>10. ASSUME NEW round \in OpenRounds, DropRound(round) PROVE FrostSessionsInv' /\ CallsInv'
  BY <1>10, CleanupKeeps DEF DropRound, CallsInv
<1>11. ASSUME NEW p \in Loners, NEW round \in Rounds, LoneCommit(p, round)
       PROVE  FrostSessionsInv' /\ CallsInv'
  BY <1>11, AddCommitmentKeeps DEF LoneCommit, CallsInv
<1>12. ASSUME NEW p \in Loners, NEW round \in Rounds, LoneSign(p, round)
       PROVE  FrostSessionsInv' /\ CallsInv'
  BY <1>12 DEF LoneSign, FrostSessionsInv, CallsInv
<1>13. ASSUME NEW share \in loose, NEW round \in Rounds, Deliver(round, share)
       PROVE  FrostSessionsInv' /\ CallsInv'
  BY <1>13, AddSignatureShareKeeps DEF Deliver, CallsInv
<1>14. CASE UNCHANGED frostVars
  BY <1>14 DEF frostVars, FrostSessionsInv, CallsInv
<1> QED
  BY <1>1, <1>3, <1>4, <1>5, <1>6, <1>7, <1>8, <1>9, <1>10, <1>11, <1>12, <1>13, <1>14
  DEF FrostNext, FrostCall

\* In every behaviour of any number of calls and lone participants, the
\* sessions are sound and no call that has returned still has one.
THEOREM FrostSound == FrostSpec => [](FrostSessionsInv /\ CallsInv)
BY FrostInitial, FrostStep, PTL DEF FrostSpec

\* A complete round's signature is over its message, with one share from every
\* participant that committed, a threshold of different ones (AddSignatureShare).
THEOREM AggregatesAreTrue == FrostSpec => []AggregateTrue
<1>1. ASSUME NEW s, IsSession(s), Aggregated(s), s.complete
      PROVE  /\ Verifies(s.msg, s.sig, s.commits)
             /\ Cardinality({k.id : k \in Signers(s.sig)}) >= FrostThreshold
  <2>1. Verifies(s.msg, s.sig, s.commits) /\ s.sig # NoSig /\ IsSeq(s.sig)
    BY <1>1 DEF Aggregated
  <2>2. 1 \in DOMAIN s.sig
    BY <2>1 DEF IsSeq, NoSig
  <2>3. ValidList(s.commits) /\ Signers(s.sig) = ToSet(s.commits)
    BY <2>1, <2>2 DEF Verifies, VerifySignatureShare
  <2>4. Cardinality({k.id : k \in Signers(s.sig)}) = Len(s.commits)
    BY <1>1, <2>3, DistinctCommitters DEF IsSession
  <2> QED  BY <2>1, <2>3, <2>4 DEF ValidList
<1>2. FrostSessionsInv => AggregateTrue
  BY <1>1 DEF FrostSessionsInv, AggregateTrue
<1> QED  BY <1>2, FrostSound, PTL

\* A FROSTSigner.Sign call that has returned, whichever way, left no session
\* behind and answers with shares over its own payload (Sign, Cleanup).
THEOREM NoSessionIsLeaked == FrostSpec => []NoSessionLeak
<1>1. CallsInv => NoSessionLeak
  BY DEF CallsInv, NoSessionLeak
<1> QED  BY <1>1, FrostSound, PTL

-----------------------------------------------------------------------------
(* CachedSigner.                                                            *)

CacheType ==
  /\ ttl \in Int /\ clock \in Int
  /\ current \in Names
  /\ cached \in [address: Names, fetchedAt: Int]
  /\ holder \in Threads \cup {Free}
  /\ call \in [Threads -> [pc: {"idle", "fetch", "store", "returned"}, now: Int, address: Names]]
  /\ heldLast \in [Names -> Int]
  /\ heldSince \in SUBSET Names

\* The mutex is held exactly by the thread that is between the miss and the
\* end of its Address call.
HeldWhileFetching == \A t \in Threads : call[t].pc \in {"fetch", "store"} <=> holder = t

\* The history: no address was held later than now, and the current one is.
HistoryKept ==
  /\ \A a \in Names : heldLast[a] <= clock
  /\ heldLast[current] = clock
  /\ current \in heldSince

\* An address with the clock it is stamped with: it was the signer's own at
\* or after that clock, and since the last Invalidate.
HeldAt(a, at) == a \in heldSince /\ at <= heldLast[a]

\* What the cache holds, and what a fetch under way brings, are such pairs.
AnswersHeld ==
  /\ cached.address # NoAddress => HeldAt(cached.address, cached.fetchedAt)
  /\ \A t \in Threads :
       /\ call[t].pc \in {"fetch", "store"} => call[t].now <= clock
       /\ call[t].pc = "store" => HeldAt(call[t].address, call[t].now)

CacheInv == CacheType /\ HeldWhileFetching /\ HistoryKept /\ AnswersHeld

\* A new CachedSigner satisfies the invariant.
LEMMA CacheInitial == CacheInit => CacheInv
<1> SUFFICES ASSUME CacheInit PROVE CacheInv
  OBVIOUS
<1> USE CachesAssumption DEF CacheInit, Names, Idle
<1>1. CacheType
  BY DEF CacheType
<1>2. HeldWhileFetching
  BY DEF HeldWhileFetching
<1>3. HistoryKept
  BY DEF HistoryKept
<1>4. AnswersHeld
  BY DEF AnswersHeld
<1> QED  BY <1>1, <1>2, <1>3, <1>4 DEF CacheInv

\* Every step of the CachedSigner, its callers and the signer it wraps keeps
\* the invariant.  Only Invalidate takes addresses out of heldSince, and it
\* runs when no fetch is under way and leaves nothing cached.
LEMMA CacheStep == CacheInv /\ [CacheNext]_cacheVars => CacheInv'
<1> SUFFICES ASSUME CacheInv, [CacheNext]_cacheVars PROVE CacheInv'
  OBVIOUS
<1> USE CachesAssumption DEF CacheInv, CacheType, HeldWhileFetching, HistoryKept, AnswersHeld, HeldAt
<1>1. CASE Tick
  BY <1>1 DEF Tick
<1>2. ASSUME NEW a \in Names, Rotate(a) PROVE CacheInv'
  BY <1>2 DEF Rotate
<1>3. ASSUME NEW t \in Threads, Address(t) PROVE CacheInv'
  BY <1>3 DEF Address, Hit, Names
<1>4. ASSUME NEW t \in Threads, Fetched(t) PROVE CacheInv'
  BY <1>4 DEF Fetched
<1>5. ASSUME NEW t \in Threads, Store(t) PROVE CacheInv'
  BY <1>5 DEF Store
<1>6. ASSUME NEW t \in Threads, Again(t) PROVE CacheInv'
  BY <1>6 DEF Again, Idle, Names
<1>7. CASE Invalidate
  BY <1>7 DEF Invalidate, Names
<1>8. CASE UNCHANGED cacheVars
  BY <1>8 DEF cacheVars
<1> QED  BY <1>1, <1>2, <1>3, <1>4, <1>5, <1>6, <1>7, <1>8 DEF CacheNext

\* In every behaviour the mutex belongs to the thread that fetches and every
\* address in hand carries a stamp it was held at (CachedSigner).
THEOREM CacheSound == CacheSpec => []CacheInv
BY CacheInitial, CacheStep, PTL DEF CacheSpec

\* CachedSigner.Address never hands out an address older than its ttl, nor
\* one from before the last Invalidate, whatever rotations and Invalidate
\* calls overlap the fetch.
THEOREM CacheAnswersFresh == CacheSpec => CacheFresh
<1> DEFINE Fresh(t) ==
      call[t].pc # "returned" /\ call'[t].pc = "returned" =>
        /\ call'[t].address \in heldSince
        /\ ttl > 0 => call'[t].now - heldLast[call'[t].address] < ttl
<1>1. CacheInv /\ [CacheNext]_cacheVars => [\A t \in Threads : Fresh(t)]_cacheVars
  <2> SUFFICES ASSUME CacheInv, CacheNext, NEW t \in Threads,
                      call[t].pc # "returned", call'[t].pc = "returned"
               PROVE  /\ call'[t].address \in heldSince
                      /\ ttl > 0 => call'[t].now - heldLast[call'[t].address] < ttl
    OBVIOUS
  <2> USE CachesAssumption DEF CacheInv, CacheType, AnswersHeld, HeldAt
  <2>1. CASE Address(t)
    BY <2>1 DEF Address, Hit, Names
  <2>2. CASE Store(t)
    BY <2>2 DEF Store
  <2>3. CASE Fetched(t) \/ Again(t)
    BY <2>3 DEF Fetched, Again, Idle
  <2>4. ASSUME NEW u \in Threads, u # t, Address(u) \/ Fetched(u) \/ Store(u) \/ Again(u)
        PROVE  FALSE
    BY <2>4 DEF Address, Fetched, Store, Again
  <2>5. CASE Tick \/ Invalidate \/ \E a \in Names : Rotate(a)
    BY <2>5 DEF Tick, Invalidate, Rotate
  <2> QED  BY <2>1, <2>2, <2>3, <2>4, <2>5 DEF CacheNext
<1> QED  BY <1>1, CacheSound, PTL DEF CacheSpec, CacheFresh

-----------------------------------------------------------------------------
(* NonceTracker.                                                            *)

NonceType ==
  /\ reserved \in SUBSET Nonces
  /\ reserve \in [Threads -> [pc: {"start", "lock", "locked", "granted", "refused"},
                              nonce: Nonces, made: Nat]]
  /\ granted \in [Nonces -> Nat]

\* The mutex: at most one Reserve call is between its test and its write.
OneLocked ==
  \A t, u \in Threads : reserve[t].pc = "locked" /\ reserve[u].pc = "locked" => t = u

\* A call that passed its test still finds its nonce free when it writes.
TestStillHolds == \A t \in Threads : reserve[t].pc = "locked" => reserve[t].nonce \notin reserved

\* The map holds exactly the nonces granted, each granted once.
GrantedIsReserved == \A n \in Nonces : granted[n] = IF n \in reserved THEN 1 ELSE 0

NonceInv == NonceType /\ OneLocked /\ TestStillHolds /\ GrantedIsReserved

\* A new tracker satisfies the invariant.
LEMMA NonceInitial == NonceInit => NonceInv
<1> SUFFICES ASSUME NonceInit PROVE NonceInv
  OBVIOUS
<1>1. (CHOOSE n \in Nonces : TRUE) \in Nonces
  BY CachesAssumption
<1> QED  BY <1>1 DEF NonceInit, NonceInv, NonceType, OneLocked, TestStillHolds, GrantedIsReserved

\* Every step of a Reserve call keeps the invariant.
LEMMA NonceStep == NonceInv /\ [NonceNext]_nonceVars => NonceInv'
<1> SUFFICES ASSUME NonceInv, [NonceNext]_nonceVars PROVE NonceInv'
  OBVIOUS
<1> USE DEF NonceInv, NonceType, OneLocked, TestStillHolds, GrantedIsReserved
<1>1. ASSUME NEW t \in Threads, NEW n \in Nonces, NEW done \in BOOLEAN, ReserveStart(t, n, done)
      PROVE  NonceInv'
  BY <1>1 DEF ReserveStart
<1>2. ASSUME NEW t \in Threads, ReserveLock(t) PROVE NonceInv'
  BY <1>2 DEF ReserveLock, LockFree
<1>3. ASSUME NEW t \in Threads, ReserveWrite(t) PROVE NonceInv'
  BY <1>3 DEF ReserveWrite
<1>4. CASE UNCHANGED nonceVars
  BY <1>4 DEF nonceVars
<1> QED  BY <1>1, <1>2, <1>3, <1>4 DEF NonceNext

\* inMemoryNonceTracker.Reserve grants a nonce to one call at most, and the
\* nonce stays reserved, for any number of goroutines and nonces.
THEOREM NonceGrantedOnce == NonceSpec => []NonceOnce
<1>1. NonceInv => NonceOnce
  BY DEF NonceInv, NonceType, GrantedIsReserved, NonceOnce
<1> QED  BY <1>1, NonceInitial, NonceStep, PTL DEF NonceSpec


-----------------------------------------------------------------------------
(* The HTTP server: every request is counted once, the semaphore is freed   *)
(* on every path, and a process that reports success cut no request off.   *)

Serving == {"read", "decode", "entries", "unwind", "panic"}
Places == {"unsent", "route", "recover", "record", "finished"} \cup Serving
RequestRecords == [pc: Places, status: Int, at: Int, slot: BOOLEAN]

ServerType ==
  /\ cfg \in Configs
  /\ main \in [pc: {"load", "serve", "drain", "metrics", "exited"}, exit: Int, failed: BOOLEAN]
  /\ req \in [Requests -> RequestRecords]

\* The requests counted under a label: those that ran to their end with it.
CountedUnder(l) == {r \in Requests : req[r].pc = "finished" /\ Label(kind[r], req[r].status) = l}

EachCounted == \A l \in DOMAIN requests : requests[l] = Cardinality(CountedUnder(l))

\* A slot is held only between the semaphore and the deferred receive.
SlotsWhileServing == \A r \in Requests : req[r].slot => req[r].pc \in Serving

\* The semaphore is never over its size.
SlotsBounded == cfg.maxConcurrent > 0 => Cardinality(Slots) <= cfg.maxConcurrent

\* Once the API is drained nothing is under way, and only that way out is a success.
DrainedBeforeSuccess ==
  /\ main.exit = 0 => main.pc = "exited"
  /\ main.pc = "metrics" \/ main.exit = 0 => InFlight = {}

ServerInv ==
  /\ ServerType /\ EachCounted /\ SlotsWhileServing /\ SlotsBounded /\ DrainedBeforeSuccess

-----------------------------------------------------------------------------

\* A new process has counted nothing and holds no slot.
LEMMA ServerInitial == ServerInit => ServerInv
<1> SUFFICES ASSUME ServerInit PROVE ServerInv
  OBVIOUS
<1>1. ServerType /\ SlotsWhileServing /\ DrainedBeforeSuccess
  BY DEF ServerInit, ServerType, RequestRecords, Places, SlotsWhileServing, DrainedBeforeSuccess
<1>2. Slots = {} /\ \A l : CountedUnder(l) = {}
  BY DEF ServerInit, Slots, CountedUnder
<1>3. SlotsBounded
  BY <1>2, FS_EmptySet, ServerAssumption DEF ServerInit, SlotsBounded
<1>4. \A l \in DOMAIN requests : requests[l] = 0
  BY DEF ServerInit
<1>5. EachCounted
  BY <1>2, <1>4, FS_EmptySet DEF EachCounted
<1> QED  BY <1>1, <1>3, <1>5 DEF ServerInv

\* What one step of a request's goroutine may do: it changes its own record
\* only, takes a slot only when one is free, gives it back before it leaves
\* the handler, and is counted, under the status it sent, in its last step.
RequestMoves(r) ==
  /\ req[r].pc \notin {"unsent", "finished"}
  /\ req' \in [Requests -> RequestRecords]
  /\ \A o \in Requests \ {r} : req'[o] = req[o]
  /\ UNCHANGED <<cfg, main, kind>>
  /\ req'[r].slot => req'[r].pc \in Serving
  /\ req'[r].slot => req[r].slot \/ Cardinality(Slots) < cfg.maxConcurrent
  /\ \/ req'[r].pc # "finished" /\ requests' = requests
     \/ /\ req'[r].pc = "finished" /\ req'[r].status = req[r].status
        /\ requests' = Count(requests, {Label(kind[r], req[r].status)})

\* Every handler and middleware step is such a move.
LEMMA RequestStepMoves ==
    ASSUME ServerType, SlotsWhileServing, NEW r \in Requests, RequestNext(r)
    PROVE  RequestMoves(r)
<1>1. req \in [Requests -> RequestRecords] /\ (req[r].slot => req[r].pc \in Serving)
  BY DEF ServerType, SlotsWhileServing
<1> USE DEF RequestRecords, Places, Serving
<1>2. ASSUME NEW status \in Int, req[r].pc \in {"route", "read", "decode", "entries"},
             req' = [req EXCEPT ![r].pc = "unwind", ![r].status = status],
             UNCHANGED <<cfg, main, kind, requests>>
      PROVE  RequestMoves(r)
  BY <1>1, <1>2 DEF RequestMoves
<1>3. ASSUME NEW status \in Int, NEW also, writeError(r, status, also),
             req[r].pc \in {"route", "read", "decode", "entries"}
      PROVE  RequestMoves(r)
  BY <1>2, <1>3 DEF writeError
<1>4. ASSUME NEW to \in Serving, Proceed(r, to), req[r].pc \in {"read", "decode", "entries"}
      PROVE  RequestMoves(r)
  BY <1>1, <1>4 DEF Proceed, RequestMoves
<1>5. CASE Unmatched(r)
  <2>0. 404 \in Int
    OBVIOUS
  <2>1. PICK status \in Int :
          req' = [req EXCEPT ![r].pc = "unwind", ![r].status = status]
    BY <1>5, <2>0, Zenon DEF Unmatched
  <2> QED  BY <1>2, <1>5, <2>1 DEF Unmatched
<1>6. CASE healthzHandler(r)
  BY <1>2, <1>3, <1>6 DEF healthzHandler
<1>7. CASE verifyAdmit(r)
  <2>1. CASE \E status \in {401, 405, 503} : writeError(r, status, {})
    BY <1>3, <1>7, <2>1 DEF verifyAdmit
  <2>2. CASE ~\E status \in {401, 405, 503} : writeError(r, status, {})
    <3>1. /\ ~(Cardinality(Slots) >= cfg.maxConcurrent)
          /\ req' = [req EXCEPT ![r].pc = "read", ![r].slot = TRUE]
          /\ UNCHANGED <<cfg, main, kind, requests>>
          /\ req[r].pc = "route"
      BY <1>7, <2>2 DEF verifyAdmit
    <3>2. Cardinality(Slots) \in Nat /\ cfg.maxConcurrent \in Int
      BY FS_Subset, FS_CardinalityType, ServerAssumption DEF Slots, ServerType
    <3> QED  BY <1>1, <3>1, <3>2 DEF RequestMoves
  <2> QED  BY <2>1, <2>2
<1>8. CASE verifyRead(r)
  <2>1. req[r].pc = "read"
    BY <1>8 DEF verifyRead
  <2>2. (\E status \in {400, 413} : writeError(r, status, {})) \/ Proceed(r, "decode")
    BY <1>8 DEF verifyRead
  <2> QED  BY <1>3, <1>4, <2>1, <2>2
<1>9. CASE verifyDecode(r)
  BY <1>3, <1>4, <1>9 DEF verifyDecode
<1>10. CASE verifyNext(r)
  <2>1. \/ Proceed(r, "panic")
        \/ writeError(r, 400, {})
        \/ writeError(r, 400, {"expiration_mismatch"})
        \/ req' = [req EXCEPT ![r].at = @ + 1] /\ UNCHANGED <<cfg, main, kind, requests>>
    BY <1>10 DEF verifyNext
  <2>2. req[r].pc = "entries"
    BY <1>10 DEF verifyNext
  <2>3. CASE req' = [req EXCEPT ![r].at = @ + 1] /\ UNCHANGED <<cfg, main, kind, requests>>
    BY <1>1, <2>2, <2>3 DEF RequestMoves
  <2> QED  BY <1>3, <1>4, <2>1, <2>2, <2>3
<1>11. CASE verifyRespond(r)
  <2>0. 200 \in Int
    OBVIOUS
  <2>1. PICK status \in Int :
          req' = [req EXCEPT ![r].pc = "unwind", ![r].status = status]
    BY <1>11, <2>0, Zenon DEF verifyRespond
  <2> QED  BY <1>2, <1>11, <2>1 DEF verifyRespond
<1>12. CASE Unwind(r)
  BY <1>1, <1>12 DEF Unwind, RequestMoves
<1>13. CASE withRecovery(r)
  <2>0. 500 \in Int
    OBVIOUS
  <2>1. PICK status \in Int :
          req' = [req EXCEPT ![r].pc = "record", ![r].status = status]
    BY <1>13, <2>0, Zenon DEF withRecovery
  <2>2. req[r].pc = "recover" /\ UNCHANGED <<cfg, main, kind, requests>>
    BY <1>13 DEF withRecovery
  <2> QED  BY <1>1, <2>1, <2>2 DEF RequestMoves
<1>14. CASE withRequestLogging(r)
  BY <1>1, <1>14 DEF withRequestLogging, RequestMoves
<1> QED
  BY <1>5, <1>6, <1>7, <1>8, <1>9, <1>10, <1>11, <1>12, <1>13, <1>14 DEF RequestNext

\* A move keeps the counters true: the request that ends in it was not counted
\* before, and is counted under its label and no other.
LEMMA MoveKeepsCounters ==
    ASSUME ServerInv, NEW r \in Requests, RequestMoves(r)
    PROVE  EachCounted'
<1>1. ASSUME NEW l PROVE IsFiniteSet(CountedUnder(l))
  BY FS_Subset, ServerAssumption DEF CountedUnder
<1>2. /\ req[r].pc # "finished"
      /\ \A o \in Requests \ {r} : req'[o] = req[o]
      /\ kind' = kind
  BY DEF RequestMoves
<1>3. CASE req'[r].pc # "finished" /\ requests' = requests
  <2>1. \A l : CountedUnder(l)' = CountedUnder(l)
    BY <1>2, <1>3 DEF CountedUnder
  <2> QED  BY <1>3, <2>1 DEF ServerInv, EachCounted
<1>4. CASE /\ req'[r].pc = "finished" /\ req'[r].status = req[r].status
           /\ requests' = Count(requests, {Label(kind[r], req[r].status)})
  <2>0. PICK mine : mine = Label(kind[r], req[r].status)
    OBVIOUS
  <2>1. /\ DOMAIN requests' = DOMAIN requests
        /\ \A l \in DOMAIN requests :
             requests'[l] = IF l = mine THEN requests[l] + 1 ELSE requests[l]
    BY <1>4, <2>0 DEF Count
  <2>2. r \notin CountedUnder(mine) /\ CountedUnder(mine)' = CountedUnder(mine) \cup {r}
    BY <1>2, <1>4, <2>0 DEF CountedUnder
  <2>3. Cardinality(CountedUnder(mine)') = Cardinality(CountedUnder(mine)) + 1
    BY <1>1, <2>2, FS_AddElement
  <2>4. \A l : l # mine => CountedUnder(l)' = CountedUnder(l)
    BY <1>2, <1>4, <2>0 DEF CountedUnder
  <2>5. ASSUME NEW l \in DOMAIN requests PROVE requests'[l] = Cardinality(CountedUnder(l)')
    <3>1. requests[l] = Cardinality(CountedUnder(l))
      BY DEF ServerInv, EachCounted
    <3>2. CASE l = mine
      BY <2>1, <2>3, <3>1, <3>2
    <3>3. CASE l # mine
      BY <2>1, <2>4, <3>1, <3>3
    <3> QED  BY <3>2, <3>3
  <2> QED  BY <2>1, <2>5 DEF EachCounted
<1> QED  BY <1>3, <1>4 DEF RequestMoves

\* A move keeps the semaphore within its size: it takes a slot only when the
\* slots held were fewer.
LEMMA MoveKeepsSlots ==
    ASSUME ServerInv, NEW r \in Requests, RequestMoves(r)
    PROVE  SlotsWhileServing' /\ SlotsBounded'
<1>1. SlotsWhileServing'
  BY DEF ServerInv, SlotsWhileServing, RequestMoves
<1>2. IsFiniteSet(Slots) /\ Cardinality(Slots) \in Nat /\ cfg.maxConcurrent \in Int
  BY FS_Subset, FS_CardinalityType, ServerAssumption DEF Slots, ServerInv, ServerType
<1>3. CASE req'[r].slot /\ ~req[r].slot
  <2>1. Slots' = Slots \cup {r} /\ r \notin Slots
    BY <1>3 DEF Slots, RequestMoves
  <2>2. Cardinality(Slots') = Cardinality(Slots) + 1
    BY <1>2, <2>1, FS_AddElement
  <2> QED  BY <1>1, <1>2, <1>3, <2>2 DEF SlotsBounded, RequestMoves
<1>4. CASE ~(req'[r].slot /\ ~req[r].slot)
  <2>1. Slots' \subseteq Slots
    BY <1>4 DEF Slots, RequestMoves
  <2>2. Cardinality(Slots') <= Cardinality(Slots) /\ Cardinality(Slots') \in Nat
    BY <1>2, <2>1, FS_Subset, FS_CardinalityType
  <2> QED  BY <1>1, <1>2, <2>2 DEF SlotsBounded, RequestMoves, ServerInv
<1> QED  BY <1>3, <1>4

\* Steps of main's goroutine touch no request; it leaves the drain with success,
\* or for the metrics server, only when nothing is under way.
LEMMA MainKeeps ==
    ASSUME ServerInv, \/ MainLoad \/ ListenerFails \/ MainFailed \/ Signalled
                      \/ MainDrained \/ MainMetrics \/ MainTimeout
    PROVE  ServerInv'
<1>1. UNCHANGED <<cfg, kind, req, requests>>
  BY DEF MainLoad, ListenerFails, MainFailed, Signalled, MainDrained, MainMetrics, MainTimeout
<1>2. EachCounted' /\ SlotsWhileServing' /\ SlotsBounded' /\ InFlight' = InFlight
  BY <1>1 DEF ServerInv, EachCounted, CountedUnder, SlotsWhileServing, SlotsBounded, Slots, InFlight
<1>3. ServerType' /\ DrainedBeforeSuccess'
  <2> DEFINE Mains == [pc: {"load", "serve", "drain", "metrics", "exited"}, exit: Int, failed: BOOLEAN]
  <2>1. main \in Mains /\ DrainedBeforeSuccess
    BY DEF ServerInv, ServerType
  <2>2. ASSUME NEW code \in Int, Exit(code)
        PROVE  main' \in Mains /\ main'.pc = "exited" /\ main'.exit = code
    BY <2>1, <2>2 DEF Exit
  <2>3. ASSUME NEW to \in {"serve", "drain", "metrics"}, main' = [main EXCEPT !.pc = to]
        PROVE  main' \in Mains /\ main'.pc = to /\ main'.exit = main.exit
    BY <2>1, <2>3
  <2>4. CASE ListenerFails
    <3>1. main' \in Mains /\ main'.pc = main.pc /\ main'.exit = main.exit
      BY <2>1, <2>4 DEF ListenerFails
    <3> QED  BY <1>1, <1>2, <2>1, <3>1 DEF ServerInv, ServerType, DrainedBeforeSuccess
  <2>5. CASE Exit(1)
    <3>1. main' \in Mains /\ main'.pc = "exited" /\ main'.exit = 1
      BY <2>2, <2>5
    <3> QED  BY <1>1, <2>1, <3>1 DEF ServerInv, ServerType, DrainedBeforeSuccess
  <2>6. CASE Exit(0) /\ InFlight = {}
    <3>1. main' \in Mains /\ main'.pc = "exited"
      BY <2>2, <2>6
    <3> QED  BY <1>1, <1>2, <2>1, <2>6, <3>1 DEF ServerInv, ServerType, DrainedBeforeSuccess
  <2>7. CASE \E to \in {"serve", "drain", "metrics"} :
               /\ main' = [main EXCEPT !.pc = to]
               /\ main.pc # "exited" /\ (to = "metrics" => InFlight = {})
    BY <1>1, <1>2, <2>1, <2>3, <2>7 DEF ServerInv, ServerType, DrainedBeforeSuccess
  <2>8. MainDrained \/ MainMetrics => (Exit(0) /\ InFlight = {})
                                      \/ (main' = [main EXCEPT !.pc = "metrics"] /\ InFlight = {})
    BY <2>1 DEF MainDrained, MainMetrics, Drained, DrainedBeforeSuccess
  <2>9. MainLoad \/ Signalled \/ MainFailed \/ MainTimeout
          => Exit(1) \/ main' = [main EXCEPT !.pc = "serve"] \/ main' = [main EXCEPT !.pc = "drain"]
    BY DEF MainLoad, Signalled, MainFailed, MainTimeout
  <2>10. main.pc # "exited"
    BY DEF MainLoad, ListenerFails, MainFailed, Signalled, MainDrained, MainMetrics, MainTimeout
  <2> QED  BY <2>4, <2>5, <2>6, <2>7, <2>8, <2>9, <2>10
<1> QED  BY <1>2, <1>3 DEF ServerInv

\* A request accepted holds no slot and is not counted.
LEMMA AcceptKeeps ==
    ASSUME ServerInv, NEW r \in Requests, Accept(r)
    PROVE  ServerInv'
<1>1. ServerType' /\ SlotsWhileServing' /\ DrainedBeforeSuccess'
  BY DEF ServerInv, ServerType, RequestRecords, Places, Serving, SlotsWhileServing,
         DrainedBeforeSuccess, Accept
<1>2. Slots' = Slots /\ \A l : CountedUnder(l)' = CountedUnder(l)
  BY DEF Accept, Slots, CountedUnder, ServerInv, ServerType, RequestRecords
<1> QED  BY <1>1, <1>2 DEF ServerInv, EachCounted, SlotsBounded, Accept

\* Every step keeps the invariant.
LEMMA ServerStep == ServerInv /\ [ServerNext]_serverVars => ServerInv'
<1> SUFFICES ASSUME ServerInv, [ServerNext]_serverVars PROVE ServerInv'
  OBVIOUS
<1>1. ASSUME NEW r \in Requests, Running, RequestNext(r) PROVE ServerInv'
  <2>1. RequestMoves(r)
    BY <1>1, RequestStepMoves DEF ServerInv
  <2>2. EachCounted' /\ SlotsWhileServing' /\ SlotsBounded'
    BY <2>1, MoveKeepsCounters, MoveKeepsSlots
  <2>3. ServerType'
    BY <2>1 DEF ServerInv, ServerType, RequestMoves
  <2>4. DrainedBeforeSuccess'
    BY <1>1, <2>1 DEF ServerInv, DrainedBeforeSuccess, RequestMoves, Running, InFlight
  <2> QED  BY <2>2, <2>3, <2>4 DEF ServerInv
<1>2. CASE UNCHANGED serverVars
  BY <1>2 DEF serverVars, ServerInv, ServerType, EachCounted, CountedUnder, SlotsWhileServing,
              SlotsBounded, Slots, DrainedBeforeSuccess, InFlight
<1> QED  BY <1>1, <1>2, MainKeeps, AcceptKeeps DEF ServerNext

\* Every request answered is counted once under the status its client got, the
\* semaphore is never over its size and is freed on every path, panics included,
\* and exit 0 means that no request was cut off (withRequestLogging,
\* withRecovery, verifyHandler, main).
THEOREM EveryRequestAccounted == ServerSpec => []RequestsAccounted
<1>1. ASSUME ServerInv PROVE RequestsAccounted
  <2>1. \A l \in DOMAIN requests : requests[l] = Cardinality({r \in Requests :
          req[r].pc = "finished" /\ Label(kind[r], req[r].status) = l})
    BY <1>1 DEF ServerInv, EachCounted, CountedUnder
  <2>2. \A r \in Requests : req[r].pc \in {"unsent", "recover", "record", "finished"} => ~req[r].slot
    BY <1>1 DEF ServerInv, SlotsWhileServing, Serving
  <2>3. main.exit = 0 => InFlight = {} /\ Slots = {}
    BY <1>1, <2>2 DEF ServerInv, DrainedBeforeSuccess, InFlight, Slots
  <2> QED  BY <1>1, <2>1, <2>2, <2>3 DEF RequestsAccounted, ServerInv, SlotsBounded
<1> QED  BY <1>1, ServerInitial, ServerStep, PTL DEF ServerSpec

==============================================================================
