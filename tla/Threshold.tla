------------------------------ MODULE Threshold ------------------------------
(***************************************************************************)
(* threshold.go: the reference ThresholdSigner.  One session guarded by a  *)
(* mutex; Begin opens a round, parties Contribute shares to the round they *)
(* were told about, Sign hands out whatever the session has assembled.     *)
(* Rounds are 64 random bits: the model draws a number not drawn before,   *)
(* and 0 is the number the session holds before the first Begin.           *)
(***************************************************************************)
EXTENDS Naturals, FiniteSets

CONSTANTS
  Parties,     \* the addresses given to NewThresholdSigner, in order of the call
  Shares,      \* what a party may send; a share is a record [prefix, rest]
  Quorum,      \* the threshold argument
  MaxRounds    \* bound: rounds begun

ASSUME ThresholdAssumption == MaxRounds \in Nat /\ Quorum \in Nat

NoSignature == {}    \* the nil signature
MaxAccountSignatures == 20

VARIABLES
  built,       \* NewThresholdSigner succeeded
  session,     \* [round, shares, complete, signature]
  begun,       \* rounds drawn so far
  sent,        \* history: the shares parties sent, by the round they named
  handed       \* what the last Sign returned

thresholdVars == <<built, session, begun, sent, handed>>

\* NewThresholdSigner: the parties are distinct (Parties is a set), addresses,
\* and as many as the threshold; an account holds at most 20 signatures.
NewThresholdSigner ==
  /\ Parties # {}
  /\ Quorum >= 1 /\ Quorum <= Cardinality(Parties)
  /\ Quorum <= MaxAccountSignatures

\* The map of shares is keyed by a share's first 32 bytes.
PartyID(share) == share.prefix

Stored(shares, share) == {s \in shares : PartyID(s) # PartyID(share)} \cup {share}

\* The 64 bytes of the signature are the exclusive or of the stored shares,
\* which the set of those shares stands for: distinct keys, distinct shares.
Assemble(s) ==
  IF Cardinality(s.shares) >= Quorum
    THEN [s EXCEPT !.signature = s.shares, !.complete = TRUE]
    ELSE s

ThresholdInit ==
  /\ built = NewThresholdSigner
  /\ session = [round |-> 0, shares |-> {}, complete |-> FALSE, signature |-> NoSignature]
  /\ begun = 0
  /\ sent = {}
  /\ handed = NoSignature

\* Mutant: a new round starts with the shares of the last one.
ThresholdBegin_KeepsShares ==
  /\ built
  /\ begun < MaxRounds
  /\ begun' = begun + 1
  /\ session' = [session EXCEPT !.round = begun + 1, !.complete = FALSE, !.signature = NoSignature]
  /\ UNCHANGED <<built, sent, handed>>

ThresholdBegin ==
  /\ built
  /\ begun < MaxRounds
  /\ begun' = begun + 1
  /\ session' = [round |-> begun + 1, shares |-> {}, complete |-> FALSE, signature |-> NoSignature]
  /\ UNCHANGED <<built, sent, handed>>

\* A share for any other round than the session's is refused.
Contribute(round, share) ==
  /\ built
  /\ sent' = sent \cup {<<round, share>>}
  /\ IF round = session.round
       THEN session' = Assemble([session EXCEPT !.shares = Stored(@, share)])
       ELSE UNCHANGED session
  /\ UNCHANGED <<built, begun, handed>>

\* Sign ignores its payload; before completion it answers ErrMissingSigner.
ThresholdSign ==
  /\ built
  /\ handed' = IF session.complete THEN session.signature ELSE NoSignature
  /\ UNCHANGED <<built, session, begun, sent>>

ThresholdNext ==
  \/ ThresholdBegin
  \/ \E round \in 0 .. MaxRounds, share \in Shares : round <= begun /\ Contribute(round, share)
  \/ ThresholdSign

ThresholdSpec == ThresholdInit /\ [][ThresholdNext]_thresholdVars

\* What the session has assembled consists of shares sent for its own round,
\* at least Quorum of them with different identifiers: a share a slow party
\* sends for an abandoned round never completes the next one (Begin, Contribute).
RoundIsolation ==
  session.complete =>
    /\ \A s \in session.signature : <<session.round, s>> \in sent
    /\ Cardinality({PartyID(s) : s \in session.signature}) >= Quorum

==============================================================================
