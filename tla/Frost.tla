-------------------------------- MODULE Frost --------------------------------
(***************************************************************************)
(* frost/frost.go: a FROST coordinator whose sessions are shared, under    *)
(* one mutex, by FROSTSigner.Sign calls that drive all their participants  *)
(* in turn and by participants that run on their own (separate processes   *)
(* in a deployment), which may commit late or deliver a share twice.       *)
(* The bytemare/frost library is external: a share binds its signer to a   *)
(* message and to the whole commitment list; an aggregate verifies when    *)
(* its shares are one from each committed signer.                          *)
(***************************************************************************)
EXTENDS Naturals, Sequences, FiniteSets, Functions, SequencesExt

CONSTANTS
  Callers,       \* concurrent FROSTSigner.Sign calls, each named by the round it begins
  OpenRounds,    \* rounds an application begins for participants on their own
  Drives,        \* Drives[c]: the participants of the call's FROSTSigner, in order
  Payload,       \* Payload[r]: the payload round r signs
  Loners,        \* participants that commit and sign on their own, in any round
  FrostThreshold, MaxSigners,
  MaxLoose,      \* bound: shares in flight
  MaxListed      \* bound: commitments, and shares, in a round others join

ASSUME FrostAssumption ==
  /\ FrostThreshold \in Nat /\ MaxSigners \in Nat /\ MaxListed \in Nat /\ MaxLoose \in Nat
  /\ Loners \subseteq 1 .. MaxSigners
  /\ Callers \cap OpenRounds = {}   \* Begin draws a number nobody else has

NoRound == 0
NoSig == <<>>
Rounds == Callers \cup OpenRounds   \* a round number is drawn once per Begin and never collides

VARIABLES
  sessions,   \* the coordinator's map from round to session
  pc,         \* where each FROSTSigner.Sign call is
  turn,       \* index into its participants
  snapshot,   \* the commitments its current participant signs over
  result,     \* what the call returned
  cancelled,  \* the call's context is done
  loose       \* the lone participants' shares, which may be delivered again

frostVars == <<sessions, pc, turn, snapshot, result, cancelled, loose>>

\* NewFROSTCoordinator, NewFROSTParticipant and NewFROSTSigner.
NewFROSTCoordinator == FrostThreshold >= 1 /\ FrostThreshold <= MaxSigners

NewFROSTParticipant(id) == id >= 1 /\ id <= MaxSigners

NewFROSTSigner(ps) == Len(ps) >= FrostThreshold /\ IsInjective(ps)

\* ValidateCommitmentList of the library: one commitment from each signer,
\* no fewer than the threshold and no more than there are signers.
ValidList(commits) ==
  /\ Len(commits) >= FrostThreshold /\ Len(commits) <= MaxSigners
  /\ \A i, j \in DOMAIN commits : commits[i].id = commits[j].id => i = j

VerifySignatureShare(share, msg, commits) ==
  /\ ValidList(commits)
  /\ share.msg = msg
  /\ share.over = ToSet(commits)
  /\ share.by \in ToSet(commits)

Signers(shares) == {shares[i].by : i \in DOMAIN shares}

\* The sum of the shares verifies under the group key for the message.
Verifies(msg, shares, commits) ==
  /\ \A i \in DOMAIN shares : VerifySignatureShare(shares[i], msg, commits)
  /\ Signers(shares) = ToSet(commits)
  /\ IsInjective([i \in DOMAIN shares |-> shares[i].by])

\* Mutant: the result is not verified against the group key.
AggregateSignatures_Unverified(msg, shares, commits) == shares

AggregateSignatures(msg, shares, commits) ==
  IF Verifies(msg, shares, commits) THEN shares ELSE NoSig

Begun(msg) == [msg |-> msg, commits |-> <<>>, shares |-> <<>>, complete |-> FALSE, sig |-> NoSig]

Begin(round) ==
  sessions' = [r \in DOMAIN sessions \cup {round} |->
                 IF r = round THEN Begun(Payload[round]) ELSE sessions[r]]

\* signer.Commit draws a nonce pair never drawn before, here numbered.
\* AddCommitment: refused for an unknown or a complete round; a second
\* commitment of the same participant is appended like any other.
AcceptsCommitment(round) == round \in DOMAIN sessions /\ ~sessions[round].complete

Commitment(id, round) ==
  [id |-> id, round |-> round,
   nonce |-> 1 + Len(SelectSeq(sessions[round].commits, LAMBDA k : k.id = id))]

AddCommitment(round, commitment) ==
  sessions' = [sessions EXCEPT ![round].commits = Append(@, commitment)]

\* GetCommitments: enough commitments, sorted; the order does not matter to
\* the library, so the list is handed out as a set.
GetCommitments(round) ==
  IF round \in DOMAIN sessions /\ Len(sessions[round].commits) >= FrostThreshold
    THEN ToSet(sessions[round].commits)
    ELSE {}

\* AddSignatureShare: a verified share is appended; when there are enough, the
\* first threshold of them are aggregated over all the commitments.  A failed
\* aggregation leaves the share appended and the round open.
AcceptsShare(round, share) ==
  /\ round \in DOMAIN sessions
  /\ ~sessions[round].complete
  /\ VerifySignatureShare(share, sessions[round].msg, sessions[round].commits)

WithShare(s, share) ==
  LET shares == Append(s.shares, share)
      sig == AggregateSignatures(s.msg, SubSeq(shares, 1, FrostThreshold), s.commits)
  IN  IF Len(shares) >= FrostThreshold /\ sig # NoSig
        THEN [s EXCEPT !.shares = shares, !.sig = sig, !.complete = TRUE]
        ELSE [s EXCEPT !.shares = shares]

AggregationFails(round, share) ==
  /\ Len(sessions[round].shares) + 1 >= FrostThreshold
  /\ ~WithShare(sessions[round], share).complete

AddSignatureShare(round, share) ==
  sessions' = [sessions EXCEPT ![round] = WithShare(@, share)]

Cleanup(round) == sessions' = Restrict(sessions, DOMAIN sessions \ {round})

-----------------------------------------------------------------------------
\* Mutant: a round that ends in an error keeps its session.
Return_LeavesErrors(c, r) ==
  /\ pc' = [pc EXCEPT ![c] = "returned"]
  /\ result' = [result EXCEPT ![c] = r]
  /\ IF r.ok THEN Cleanup(c) ELSE UNCHANGED sessions

\* FROSTSigner.Sign, one step per coordinator call; every way out passes the
\* deferred Cleanup.  Payload is what the preimage hashes to: a call with any
\* other is refused before Begin and has no session.
Return(c, r) ==
  /\ pc' = [pc EXCEPT ![c] = "returned"]
  /\ result' = [result EXCEPT ![c] = r]
  /\ Cleanup(c)

Failed == [ok |-> FALSE, sig |-> NoSig]

FrostInit ==
  /\ sessions = [r \in {} |-> Begun(0)]
  /\ pc = [c \in Callers |-> IF NewFROSTCoordinator /\ NewFROSTSigner(Drives[c]) THEN "begin" ELSE "unbuilt"]
  /\ turn = [c \in Callers |-> 1]
  /\ snapshot = [c \in Callers |-> {}]
  /\ result = [c \in Callers |-> Failed]
  /\ cancelled = [c \in Callers |-> FALSE]
  /\ loose = {}

FrostBegin(c) ==
  /\ pc[c] = "begin" /\ ~cancelled[c]
  /\ Begin(c)
  /\ pc' = [pc EXCEPT ![c] = "commit"]
  /\ UNCHANGED <<turn, snapshot, result, cancelled, loose>>

Participant(c) == Drives[c][turn[c]]

Step(c, next) ==
  IF turn[c] < Len(Drives[c])
    THEN turn' = [turn EXCEPT ![c] = @ + 1] /\ UNCHANGED pc
    ELSE turn' = [turn EXCEPT ![c] = 1] /\ pc' = [pc EXCEPT ![c] = next]

\* FROSTParticipant.Commit draws a nonce pair and publishes it; a round that
\* others have completed meanwhile takes no commitment, and ends the call.
Commit(c) ==
  /\ pc[c] = "commit" /\ ~cancelled[c]
  /\ \/ /\ AcceptsCommitment(c)
        /\ AddCommitment(c, Commitment(Participant(c), c))
        /\ Step(c, "sign")
        /\ UNCHANGED result
     \/ ~AcceptsCommitment(c) /\ Return(c, Failed) /\ UNCHANGED turn
  /\ UNCHANGED <<snapshot, cancelled, loose>>

\* FROSTParticipant.Sign reads the commitments under the lock and signs over
\* them after releasing it.
ReadCommitments(c) ==
  /\ pc[c] = "sign" /\ snapshot[c] = {} /\ ~cancelled[c]
  /\ GetCommitments(c) # {}
  /\ snapshot' = [snapshot EXCEPT ![c] = GetCommitments(c)]
  /\ UNCHANGED <<sessions, pc, turn, result, cancelled, loose>>

ShareOf(c) ==
  [by |-> CHOOSE k \in snapshot[c] : k.id = Participant(c),
   msg |-> Payload[c], over |-> snapshot[c]]

Sign(c) ==
  /\ pc[c] = "sign" /\ snapshot[c] # {} /\ ~cancelled[c]
  /\ snapshot' = [snapshot EXCEPT ![c] = {}]
  /\ \/ sessions[c].complete /\ Step(c, "get") /\ UNCHANGED <<sessions, result>>
     \/ /\ AcceptsShare(c, ShareOf(c)) /\ ~AggregationFails(c, ShareOf(c))
        /\ AddSignatureShare(c, ShareOf(c))
        /\ Step(c, "get")
        /\ UNCHANGED result
     \/ /\ ~sessions[c].complete
        /\ AcceptsShare(c, ShareOf(c)) => AggregationFails(c, ShareOf(c))
        /\ Return(c, Failed)
        /\ UNCHANGED turn
  /\ UNCHANGED <<cancelled, loose>>

\* GetSignature, then VerifySignature under the group key.
GetSignature(c) ==
  /\ pc[c] = "get"
  /\ LET s == sessions[c]
     IN  Return(c, IF s.complete /\ Verifies(Payload[c], s.sig, s.commits)
                     THEN [ok |-> TRUE, sig |-> s.sig] ELSE Failed)
  /\ UNCHANGED <<turn, snapshot, cancelled, loose>>

\* Every coordinator call looks at the context first; GetSignature does not.
GiveUp(c) ==
  /\ pc[c] \in {"begin", "commit", "sign"} /\ cancelled[c]
  /\ Return(c, Failed)
  /\ UNCHANGED <<turn, snapshot, cancelled, loose>>

Cancel(c) ==
  /\ pc[c] \notin {"unbuilt", "returned"} /\ ~cancelled[c]
  /\ cancelled' = [cancelled EXCEPT ![c] = TRUE]
  /\ UNCHANGED <<sessions, pc, turn, snapshot, result, loose>>

-----------------------------------------------------------------------------
\* The application begins a round, and drops it when it likes.  A share still in
\* flight for a dropped round finds no session: its number is not drawn again.
OpenRound(round) ==
  /\ round \notin DOMAIN sessions
  /\ Begin(round)
  /\ UNCHANGED <<pc, turn, snapshot, result, cancelled, loose>>

DropRound(round) ==
  /\ round \in DOMAIN sessions
  /\ Cleanup(round)
  /\ loose' = {s \in loose : s.by.round # round}
  /\ UNCHANGED <<pc, turn, snapshot, result, cancelled>>

\* A participant elsewhere that knows the round.
LoneCommit(p, round) ==
  /\ NewFROSTParticipant(p) /\ AcceptsCommitment(round)
  /\ Len(sessions[round].commits) < MaxListed
  /\ AddCommitment(round, Commitment(p, round))
  /\ UNCHANGED <<pc, turn, snapshot, result, cancelled, loose>>

\* Its Sign reads the commitments and the round's message; the share is on its
\* way to the coordinator, which may get it now, later, twice or never.
LoneSign(p, round) ==
  /\ Cardinality(loose) < MaxLoose
  /\ GetCommitments(round) # {}
  /\ \E k \in GetCommitments(round) :
       /\ k.id = p /\ k \notin {s.by : s \in loose}
       /\ loose' = loose \cup {[by |-> k, msg |-> sessions[round].msg, over |-> GetCommitments(round)]}
  /\ UNCHANGED <<sessions, pc, turn, snapshot, result, cancelled>>

Deliver(round, share) ==
  /\ AcceptsShare(round, share)
  /\ Len(sessions[round].shares) < MaxListed
  /\ AddSignatureShare(round, share)
  /\ UNCHANGED <<pc, turn, snapshot, result, cancelled, loose>>

FrostCall(c) ==
  \/ FrostBegin(c) \/ Commit(c) \/ ReadCommitments(c) \/ Sign(c) \/ GetSignature(c) \/ GiveUp(c)

FrostNext ==
  \/ \E c \in Callers : FrostCall(c) \/ Cancel(c)
  \/ \E round \in OpenRounds : OpenRound(round) \/ DropRound(round)
  \/ \E p \in Loners, round \in Rounds : LoneCommit(p, round) \/ LoneSign(p, round)
  \/ \E share \in loose, round \in Rounds : Deliver(round, share)

FrostSpec == FrostInit /\ [][FrostNext]_frostVars

-----------------------------------------------------------------------------
\* A round's signature is over the message the round was begun for, made by at
\* least a threshold of different participants, one share from each participant
\* that committed: late commitments and repeated shares stall a round, they
\* never make it hand out a signature nobody can verify (AddSignatureShare).
AggregateTrue ==
  \A r \in DOMAIN sessions : LET s == sessions[r] IN
    s.complete => /\ Verifies(s.msg, s.sig, s.commits)
                  /\ Cardinality({k.id : k \in Signers(s.sig)}) >= FrostThreshold

\* A FROSTSigner.Sign call that has returned, on whatever path, has left no
\* session behind, and what it returned is over its own payload (Sign, Cleanup).
NoSessionLeak ==
  \A c \in Callers : pc[c] = "returned" =>
    /\ c \notin DOMAIN sessions
    /\ result[c].ok => \A i \in DOMAIN result[c].sig : result[c].sig[i].msg = Payload[c]

\* "The participants must include at least threshold participants": a call on a
\* FROSTSigner built with so many, whose context stays live and whose rounds
\* nobody else joins, returns a signature (NewFROSTSigner, Sign).
ParticipantsSuffice ==
  \A c \in Callers : pc[c] = "returned" /\ ~cancelled[c] => result[c].ok

==============================================================================
