---------------------------- MODULE Batch_proofs ----------------------------
(***************************************************************************)
(* Proofs about Batch for every job, any number of entries, signers,        *)
(* workers and key rotations.                                               *)
(*                                                                         *)
(* The invariant follows one slot from its matching to its end: the entry   *)
(* in it stays the caller's entry, the signers it still has to ask were     *)
(* matched to it, and it ends without an error only with a signature made   *)
(* in this call.  A second invariant, over it, follows an undisturbed call: *)
(* each slot stands where the turns of its entry's signers, one after the   *)
(* other and without any other entry, have brought it.                      *)
(***************************************************************************)
EXTENDS Batch, Authorize_proofs, TLAPS

USE DEF Address, Ledger

Errors ==
    {"none", "ErrUnsupportedCredentials", "plan", "depth", "ErrMissingSigner", "context",
     "signer", "verify", "source_account", "ErrInvalidExpiration", "address", "delegates",
     "ErrNoMatchingCredentialNode", "ErrAlreadySigned", "passphrase", "ok",
     "cannot_check", "unsigned", "invalid", "verified"}

SlotsOf(j) ==
    [stage: Stages, entry: Entries, todo: SUBSET (1..Len(j.signers)), err: Errors]

\* The entry e in position i carries a signature that a signer of call j made over it.
SignedHere(j, i, e, log) ==
    \E s \in 1..Len(j.signers) :
        /\ <<i, s>> \in log
        /\ j.signers[s].kind = "void"
           \/ \E n \in 1..Len(e.nodes) :
                /\ isSigned(e.nodes[n].sig)
                /\ e.nodes[n].sig.origin = "signer"
                /\ e.nodes[n].sig.payload = Preimage(e, j.exp, j.network)

\* Slot x in position i of call j, with the signers at addresses sa and log asked so far.
GoodSlot(j, i, x, sa, log) ==
    /\ x \in SlotsOf(j) /\ WellFormed(x.entry)
    /\ x.entry.address = j.entries[i].address /\ x.entry.nonce = j.entries[i].nonce
    /\ x.entry.invocation = j.entries[i].invocation
    /\ x.entry.arm = "source_account" => x.entry = j.entries[i]
    /\ x.stage = "matched" <=> x.todo # {}
    /\ x.err # "none" => x.stage = "done"
    /\ x.stage = "matched" =>
          /\ j.api # "VerifyAll" /\ x.entry.arm \in AddressArms
          /\ \A s \in x.todo : j.signers[s].kind # "nil" /\ sa[s] \in Address
    /\ x.stage = "verifying" => j.api = "VerifyAll"
    /\ x.stage = "done" /\ x.err = "none" /\ j.api # "VerifyAll" =>
          x.entry.arm = "source_account" \/ SignedHere(j, i, x.entry, log)

\* What the signers say of themselves: an account signer always names an address.
GoodSayings(j, sa) ==
    /\ sa \in [1..Len(j.signers) -> Address \cup {NoAddress, Malformed}]
    /\ \A s \in 1..Len(j.signers) : j.signers[s].kind = "account" => sa[s] \in Address

BatchInv ==
    /\ job \in Jobs /\ GoodSayings(job, says)
    /\ rotations \in 0..MaxRotations /\ ctx \in {"live", "cancelled"}
    /\ DOMAIN slots = Positions
    /\ \A i \in Positions : GoodSlot(job, i, slots[i], says, asked)
    /\ outcome.kind \in {"called", "running", "ok", "verified", "failed"}
    /\ \E c, a, o : outcome = [kind |-> outcome.kind, cause |-> c, at |-> a, out |-> o]
    /\ asked \subseteq Positions \X (1..Len(job.signers))
    /\ NoneLeftUnsigned /\ ValidatedBeforeAsked

-----------------------------------------------------------------------------
(* Lemmas about a job and its matching.                                       *)

\* A job's arguments, element by element.
LEMMA JobFacts ==
    ASSUME job \in Jobs
    PROVE  /\ Len(job.entries) \in Nat /\ Len(job.signers) \in Nat
           /\ \A i \in Positions : job.entries[i] \in Entries /\ WellFormed(job.entries[i])
           /\ \A s \in 1..Len(job.signers) :
                 /\ job.signers[s] \in [address: Address \cup {NoAddress, Malformed},
                                        kind: SignerKinds]
                 /\ job.signers[s].kind = "account" => job.signers[s].address \in Address
           /\ job.exp \in Ledger /\ job.network \in Networks \cup {NoNetwork}
           /\ \A p \in job.plans : p.delegates \in Seq(Descriptors) /\ p.top \in Signatures
           /\ job.api \in {"AuthorizeAll", "AuthorizeBatch", "VerifyAll"}
<1>1. IsJob(job)
  BY BatchAssumption
<1>2. \A i \in Positions : job.entries[i] \in Entries /\ WellFormed(job.entries[i])
  BY <1>1 DEF IsJob, Positions
<1>3. \A s \in 1..Len(job.signers) : job.signers[s] \in Signers
  BY <1>1 DEF IsJob
<1>4. \A s \in 1..Len(job.signers) :
         /\ job.signers[s] \in [address: Address \cup {NoAddress, Malformed},
                                kind: SignerKinds]
         /\ job.signers[s].kind = "account" => job.signers[s].address \in Address
  BY <1>3, AuthorizeAssumption
<1>5. Len(job.entries) \in Nat /\ Len(job.signers) \in Nat
  BY <1>1 DEF IsJob
<1> QED  BY <1>1, <1>2, <1>4, <1>5 DEF IsJob

\* A delegate plan that can be applied turns the entry into the caller's delegates entry.
LEMMA PreparedEntry ==
    ASSUME job \in Jobs, NEW e \in Entries, WellFormed(e), e.arm \in AddressArms,
           \A p \in PlanFor(job, e) : WrapRefusal(e, job.exp, p.delegates) = "ok"
    PROVE  /\ Prepared(job, e) \in Entries /\ WellFormed(Prepared(job, e))
           /\ Prepared(job, e).arm \in AddressArms
           /\ Prepared(job, e).address = e.address /\ Prepared(job, e).nonce = e.nonce
           /\ Prepared(job, e).invocation = e.invocation
<1>1. CASE PlanFor(job, e) = {}
  BY <1>1 DEF Prepared
<1>2. CASE PlanFor(job, e) # {}
  <2>1. PICK p \in PlanFor(job, e) : p = CHOOSE q \in PlanFor(job, e) : TRUE
    BY <1>2
  <2>2. p.delegates \in Seq(Descriptors) /\ p.top \in Signatures /\ job.exp \in Ledger
    BY <2>1, JobFacts DEF PlanFor
  <2>3. WrapRefusal(e, job.exp, p.delegates) = "ok"
    BY <2>1
  <2>4. buildDelegateNodes(p.delegates) # {}
    BY <2>3 DEF WrapRefusal
  <2>5. PICK b \in buildDelegateNodes(p.delegates) :
             b = CHOOSE c \in buildDelegateNodes(p.delegates) : TRUE
    BY <2>4
  <2>6. Prepared(job, e) = Wrapped(e, job.exp, b, p.top)
    BY <1>2, <2>1, <2>5 DEF Prepared
  <2>7. /\ Prepared(job, e) \in Entries /\ WellFormed(Prepared(job, e))
        /\ Prepared(job, e).arm = "address_with_delegates"
        /\ Prepared(job, e).address = e.address /\ Prepared(job, e).nonce = e.nonce
        /\ Prepared(job, e).invocation = e.invocation
    BY <2>2, <2>3, <2>6, WrappedTree
  <2> QED  BY <2>7 DEF AddressArms
<1> QED  BY <1>1, <1>2

\* Matching an entry yields a good slot: only real signers that gave an address of it.
LEMMA MatchedIsGood ==
    ASSUME job \in Jobs, GoodSayings(job, says), job.api # "VerifyAll", NEW i \in Positions,
           NEW log
    PROVE  GoodSlot(job, i, MatchedSlot(job, job.entries[i], says), says, log)
<1> DEFINE e == job.entries[i]
           err == MatchError(job, e, says)
           todo == signersForEntry(job, Prepared(job, e), says)
           x == MatchedSlot(job, e, says)
<1>1. e \in Entries /\ WellFormed(e) /\ Len(job.signers) \in Nat
  BY JobFacts
<1>2. CASE err # "none"
  <2>1. x = [stage |-> "done", entry |-> e, todo |-> {}, err |-> err]
    BY <1>2 DEF MatchedSlot
  <2>2. err \in Errors
    BY DEF MatchError, Errors
  <2> HIDE DEF err, x, e
  <2>3. x \in SlotsOf(job) /\ x.entry = e /\ x.todo = {} /\ x.err # "none" /\ x.stage = "done"
    BY <1>1, <1>2, <2>1, <2>2 DEF SlotsOf, Stages
  <2> QED  BY <1>1, <2>3 DEF GoodSlot, e, x
<1>3. CASE err = "none" /\ e.arm = "source_account"
  <2>1. x = [stage |-> "done", entry |-> e, todo |-> {}, err |-> "none"]
    BY <1>3 DEF MatchedSlot
  <2> HIDE DEF err, x, e
  <2>3. x \in SlotsOf(job) /\ x.entry = e /\ x.todo = {} /\ x.err = "none" /\ x.stage = "done"
    BY <1>1, <2>1 DEF SlotsOf, Stages, Errors
  <2> QED  BY <1>1, <1>3, <2>3 DEF GoodSlot, e, x
<1>4. CASE err = "none" /\ e.arm # "source_account"
  <2>1. /\ e.arm \in AddressArms /\ todo # {}
        /\ \A p \in PlanFor(job, e) : WrapRefusal(e, job.exp, p.delegates) = "ok"
    BY <1>4 DEF MatchError
  <2>2. /\ Prepared(job, e) \in Entries /\ WellFormed(Prepared(job, e))
        /\ Prepared(job, e).arm \in AddressArms
        /\ Prepared(job, e).address = e.address /\ Prepared(job, e).nonce = e.nonce
        /\ Prepared(job, e).invocation = e.invocation
    BY <1>1, <2>1, PreparedEntry
  <2>3. x = [stage |-> "matched", entry |-> Prepared(job, e), todo |-> todo, err |-> "none"]
    BY <1>4 DEF MatchedSlot
  <2>4. /\ todo \subseteq 1..Len(job.signers)
        /\ \A s \in todo : job.signers[s].kind # "nil" /\ says[s] \in Address
    <3>1. \A k \in 1..Len(Prepared(job, e).nodes) : Prepared(job, e).nodes[k].addr \in Address
      <4>1. Prepared(job, e).nodes \in Seq(Nodes)
        BY <2>2 DEF Entries
      <4>2. \A k \in 1..Len(Prepared(job, e).nodes) : Prepared(job, e).nodes[k] \in Nodes
        BY <4>1, ElementOfSeq
      <4> QED  BY <4>2 DEF Nodes
    <3> QED  BY <3>1 DEF signersForEntry
  <2> HIDE DEF err, x, e, todo
  <2>5. /\ x \in SlotsOf(job) /\ x.entry = Prepared(job, e) /\ x.todo = todo /\ x.err = "none"
        /\ x.stage = "matched"
    BY <2>2, <2>3, <2>4 DEF SlotsOf, Stages, Errors
  <2>6. Prepared(job, e).arm # "source_account"
    BY <2>2 DEF AddressArms
  <2> QED  BY <2>1, <2>2, <2>4, <2>5, <2>6 DEF GoodSlot, e, x
<1> QED  BY <1>2, <1>3, <1>4

-----------------------------------------------------------------------------
(* One slot moves, the others stay.                                           *)

\* What was signed stays signed when more signers have been asked.
LEMMA SlotStaysGood ==
    ASSUME NEW j, NEW i, NEW x, NEW sa, NEW log, NEW more,
           GoodSlot(j, i, x, sa, log), log \subseteq more
    PROVE  GoodSlot(j, i, x, sa, more)
<1>1. SignedHere(j, i, x.entry, log) => SignedHere(j, i, x.entry, more)
  BY DEF SignedHere
<1> QED  BY <1>1 DEF GoodSlot

(* A step of the call that leaves position i with the good slot x keeps the     *)
(* invariant, once what AuthorizeAll promises of its validation is looked at.  *)
LEMMA SlotStep ==
    ASSUME BatchInv, NEW i \in Positions, NEW x,
           slots' = [slots EXCEPT ![i] = x], GoodSlot(job, i, x, says, asked'),
           UNCHANGED <<job, says, rotations, ctx, outcome>>,
           asked \subseteq asked', asked' \subseteq Positions \X (1..Len(job.signers)),
           job.api = "AuthorizeAll" /\ asked' # {} =>
              /\ UnmatchedPlans = {}
              /\ x.stage # "waiting"
              /\ x.err \notin {"ErrUnsupportedCredentials", "plan", "depth",
                               "ErrMissingSigner"}
              /\ \A k \in Positions \ {i} :
                    /\ slots[k].stage # "waiting"
                    /\ slots[k].err \notin {"ErrUnsupportedCredentials", "plan", "depth",
                                            "ErrMissingSigner"}
    PROVE  BatchInv'
<1>1. Positions' = Positions /\ UnmatchedPlans' = UnmatchedPlans
  BY DEF Positions, UnmatchedPlans, PlanFor
<1>2. DOMAIN slots = Positions
  BY DEF BatchInv
<1>3. DOMAIN slots' = Positions /\ slots'[i] = x
      /\ \A k \in Positions : k # i => slots'[k] = slots[k]
  BY <1>2
<1>4. \A k \in Positions : GoodSlot(job', k, slots'[k], says', asked')
  <2>1. SUFFICES ASSUME NEW k \in Positions
                 PROVE  GoodSlot(job, k, slots'[k], says, asked')
    OBVIOUS
  <2>2. GoodSlot(job, k, slots[k], says, asked)
    BY DEF BatchInv
  <2>3. GoodSlot(job, k, slots[k], says, asked')
    BY <2>2, SlotStaysGood
  <2> QED  BY <1>3, <2>3
<1>5. NoneLeftUnsigned'
  <2>1. NoneLeftUnsigned
    BY DEF BatchInv
  <2> QED  BY <1>1, <2>1 DEF NoneLeftUnsigned
<1>6. ValidatedBeforeAsked'
  BY <1>1, <1>3 DEF ValidatedBeforeAsked
<1> QED  BY <1>1, <1>3, <1>4, <1>5, <1>6 DEF BatchInv

\* A slot that ends with an error keeps its entry.
LEMMA StoppedIsGood ==
    ASSUME BatchInv, NEW i \in Positions, NEW err \in Errors, err # "none", NEW log
    PROVE  /\ GoodSlot(job, i, Stopped(i, err), says, log)
           /\ Stopped(i, err).stage = "done" /\ Stopped(i, err).err = err
<1>1. GoodSlot(job, i, slots[i], says, asked)
  BY DEF BatchInv
<1>2. slots[i] \in SlotsOf(job)
  BY <1>1 DEF GoodSlot
<1>3. /\ Stopped(i, err) \in SlotsOf(job) /\ Stopped(i, err).entry = slots[i].entry
      /\ Stopped(i, err).stage = "done" /\ Stopped(i, err).todo = {}
      /\ Stopped(i, err).err = err
  BY <1>2 DEF Stopped, SlotsOf, Stages
<1> QED  BY <1>1, <1>3 DEF GoodSlot

\* AuthorizeEntry is called for a signer that was matched, at the address it gives now.
LEMMA CallIsAny ==
    ASSUME BatchInv, NEW i \in Positions, slots[i].stage = "matched"
    PROVE  /\ NextSigner(i) \in slots[i].todo /\ NextSigner(i) \in 1..Len(job.signers)
           /\ EntryCall(i) \in AnyCalls
           /\ EntryCall(i).exp = job.exp /\ EntryCall(i).network = job.network
           /\ EntryCall(i).signer.kind = job.signers[NextSigner(i)].kind
           /\ EntryCall(i).signer.kind # "nil"
           /\ Target(EntryCall(i)) \in Address
<1> DEFINE s == NextSigner(i)
           sig == [job.signers[s] EXCEPT !.address = says[s]]
<1>1. GoodSlot(job, i, slots[i], says, asked) /\ job \in Jobs /\ GoodSayings(job, says)
  BY DEF BatchInv
<1>2. slots[i].todo \in SUBSET (1..Len(job.signers)) /\ slots[i].todo # {}
  BY <1>1 DEF GoodSlot, SlotsOf
<1>3. Len(job.signers) \in Nat
  BY <1>1, JobFacts
<1>4. \E t \in slots[i].todo : \A u \in slots[i].todo : t <= u
  BY <1>2, <1>3, LeastOf
<1>5. s \in slots[i].todo /\ s \in 1..Len(job.signers)
  BY <1>2, <1>4 DEF NextSigner
<1>6. says[s] \in Address /\ job.signers[s].kind # "nil"
  BY <1>1, <1>5 DEF GoodSlot
<1>7. job.signers[s] \in [address: Address \cup {NoAddress, Malformed}, kind: SignerKinds]
  BY <1>1, <1>5, JobFacts
<1> HIDE DEF s
<1>8. /\ sig \in [address: Address \cup {NoAddress, Malformed}, kind: SignerKinds]
      /\ sig.kind = job.signers[s].kind /\ sig.address = says[s]
  BY <1>6, <1>7
<1>9. [given |-> FALSE, scope |-> {}] \in Resigns
  BY DEF Resigns
<1> HIDE DEF sig
<1>10. EntryCall(i) = [exp |-> job.exp, network |-> job.network, signer |-> sig,
                       forAddress |-> says[s], resign |-> [given |-> FALSE, scope |-> {}]]
  BY DEF EntryCall, s, sig
<1>11. job.exp \in Ledger /\ job.network \in Networks \cup {NoNetwork}
  BY <1>1, JobFacts
<1>12. PICK resign \in Resigns :
           EntryCall(i) = [exp |-> job.exp, network |-> job.network, signer |-> sig,
                           forAddress |-> says[s], resign |-> resign]
  BY <1>9, <1>10
<1>13. EntryCall(i) \in AnyCalls
  BY <1>6, <1>8, <1>11, <1>12 DEF AnyCalls
<1>14. says[s] # NotGiven
  BY <1>6, AuthorizeAssumption
<1>15. Target(EntryCall(i)) = says[s]
  BY <1>12, <1>14 DEF Target
<1> QED  BY <1>5, <1>6, <1>8, <1>12, <1>13, <1>15 DEF s

-----------------------------------------------------------------------------
(* One lemma per action.                                                      *)

LEMMA InitInv == Init => BatchInv
<1> SUFFICES ASSUME Init PROVE BatchInv
  OBVIOUS
<1>1. job \in Jobs /\ rotations \in 0..MaxRotations /\ ctx = "live"
  BY BatchAssumption DEF Init
<1>2. GoodSayings(job, says)
  BY <1>1, JobFacts DEF Init, GoodSayings
<1>3. DOMAIN slots = Positions
  BY DEF Init
<1>4. ASSUME NEW i \in Positions PROVE GoodSlot(job, i, slots[i], says, asked)
  <2>1. job.entries[i] \in Entries /\ WellFormed(job.entries[i])
    BY <1>1, JobFacts
  <2>2. slots[i] = [stage |-> "waiting", entry |-> job.entries[i], todo |-> {}, err |-> "none"]
    BY DEF Init
  <2>3. /\ slots[i] \in SlotsOf(job) /\ slots[i].stage = "waiting" /\ slots[i].todo = {}
        /\ slots[i].entry = job.entries[i] /\ slots[i].err = "none"
    BY <2>1, <2>2 DEF SlotsOf, Stages, Errors
  <2> QED  BY <2>1, <2>3 DEF GoodSlot
<1>5. outcome.kind = "called" /\ asked = {}
  BY DEF Init
<1>6. \E c, a, o : outcome = [kind |-> outcome.kind, cause |-> c, at |-> a, out |-> o]
  BY DEF Init
<1>7. NoneLeftUnsigned /\ ValidatedBeforeAsked
  BY <1>5 DEF NoneLeftUnsigned, ValidatedBeforeAsked
<1> QED  BY <1>1, <1>2, <1>3, <1>4, <1>5, <1>6, <1>7 DEF BatchInv

LEMMA MatchKeeps ==
    ASSUME BatchInv, NEW i \in Positions, MatchEntry(i) PROVE BatchInv'
<1>1. GoodSlot(job, i, MatchedSlot(job, job.entries[i], says), says, asked)
  BY MatchedIsGood DEF BatchInv, MatchEntry
<1>2. ~(job.api = "AuthorizeAll" /\ asked # {})
  BY DEF BatchInv, ValidatedBeforeAsked, MatchEntry
<1>3. /\ slots' = [slots EXCEPT ![i] = MatchedSlot(job, job.entries[i], says)]
      /\ UNCHANGED <<job, says, rotations, ctx, outcome>> /\ asked' = asked
      /\ asked \subseteq Positions \X (1..Len(job.signers))
  BY DEF MatchEntry, BatchInv
<1> QED  BY <1>1, <1>2, <1>3, SlotStep

\* What AuthorizeAll promised of the other slots when somebody had been asked already.
LEMMA StillValidated ==
    ASSUME BatchInv, job.api = "AuthorizeAll", asked # {}
    PROVE  /\ UnmatchedPlans = {}
           /\ \A k \in Positions :
                 /\ slots[k].stage # "waiting"
                 /\ slots[k].err \notin {"ErrUnsupportedCredentials", "plan", "depth",
                                         "ErrMissingSigner"}
BY DEF BatchInv, ValidatedBeforeAsked

LEMMA RefusedKeeps ==
    ASSUME BatchInv, NEW i \in Positions, SignRefused(i) PROVE BatchInv'
<1>1. slots[i].stage = "matched"
  BY DEF SignRefused, MaySignNext
<1>2. PICK err \in Errors :
           /\ slots' = [slots EXCEPT ![i] = Stopped(i, err)]
           /\ err \notin {"none", "ErrUnsupportedCredentials", "plan", "depth",
                          "ErrMissingSigner"}
  <2>1. CASE slots' = [slots EXCEPT ![i] = Stopped(i, "context")]
    BY <2>1 DEF Errors
  <2>2. CASE slots' = [slots EXCEPT ![i] = Stopped(i, Refusal(slots[i].entry, EntryCall(i)))]
    <3>1. slots[i].entry.arm \in AddressArms
      BY <1>1 DEF BatchInv, GoodSlot
    <3>2. EntryCall(i).signer.kind # "nil" /\ Target(EntryCall(i)) \in Address
      BY <1>1, CallIsAny
    <3>3. Target(EntryCall(i)) # NoAddress
      BY <3>2, AuthorizeAssumption
    <3>4. /\ Refusal(slots[i].entry, EntryCall(i)) \in Errors
          /\ Refusal(slots[i].entry, EntryCall(i)) \notin
                {"none", "ErrUnsupportedCredentials", "plan", "depth", "ErrMissingSigner"}
      BY <3>1, <3>2, <3>3 DEF Refusal, Errors
    <3> QED  BY <2>2, <3>4
  <2> QED  BY <2>1, <2>2 DEF SignRefused
<1>3. /\ GoodSlot(job, i, Stopped(i, err), says, asked)
      /\ Stopped(i, err).stage = "done" /\ Stopped(i, err).err = err
  BY <1>2, StoppedIsGood
<1>4. /\ UNCHANGED <<job, says, rotations, ctx, outcome>> /\ asked' = asked
      /\ asked \subseteq Positions \X (1..Len(job.signers))
  BY DEF SignRefused, BatchInv
<1>5. PICK x : x = Stopped(i, err)
  OBVIOUS
<1> QED  BY <1>2, <1>3, <1>4, <1>5, StillValidated, SlotStep

\* Asking a signer under AuthorizeAll: the whole batch has been validated.
LEMMA AskedAfterValidation ==
    ASSUME BatchInv, NEW i \in Positions, SignAsked(i)
    PROVE  /\ slots[i].stage = "matched"
           /\ asked \subseteq asked' /\ asked' \subseteq Positions \X (1..Len(job.signers))
           /\ <<i, NextSigner(i)>> \in asked'
           /\ job.api = "AuthorizeAll" =>
                 /\ UnmatchedPlans = {}
                 /\ \A k \in Positions : slots[k].stage # "waiting" /\ slots[k].err = "none"
<1>1. slots[i].stage = "matched" /\ MaySign(i)
  BY DEF SignAsked, MaySignNext
<1>2. NextSigner(i) \in 1..Len(job.signers)
  BY <1>1, CallIsAny
<1>3. asked' = asked \cup {<<i, NextSigner(i)>>}
  BY DEF SignAsked
<1>4. asked \subseteq Positions \X (1..Len(job.signers))
  BY DEF BatchInv
<1>5. \A k \in Positions : slots[k].err # "none" => slots[k].stage = "done"
  BY DEF BatchInv, GoodSlot
<1>6. job.api = "AuthorizeAll" =>
         /\ UnmatchedPlans = {}
         /\ \A k \in Positions : slots[k].stage # "waiting" /\ slots[k].err = "none"
  BY <1>1, <1>5 DEF MaySign, Failed
<1> QED  BY <1>1, <1>2, <1>3, <1>4, <1>6

LEMMA FailsKeeps ==
    ASSUME BatchInv, NEW i \in Positions, SignFails(i) PROVE BatchInv'
<1>1. SignAsked(i)
  BY DEF SignFails
<1>2. "signer" \in Errors /\ "signer" # "none"
  BY DEF Errors
<1>3. PICK x : x = Stopped(i, "signer")
  OBVIOUS
<1>4. GoodSlot(job, i, x, says, asked') /\ x.stage = "done" /\ x.err = "signer"
  BY <1>2, <1>3, StoppedIsGood
<1>5. slots' = [slots EXCEPT ![i] = x] /\ UNCHANGED <<job, says, rotations, ctx, outcome>>
  BY <1>3 DEF SignFails
<1> QED  BY <1>1, <1>4, <1>5, AskedAfterValidation, SlotStep

\* The signature goes over the entry as it is stored, so it covers what is returned.
LEMMA SignKeeps ==
    ASSUME BatchInv, NEW i \in Positions, SignEntry(i) PROVE BatchInv'
<1>1. SignAsked(i)
  BY DEF SignEntry
<1>2. /\ slots[i].stage = "matched" /\ <<i, NextSigner(i)>> \in asked'
      /\ Refusal(slots[i].entry, EntryCall(i)) = "ok"
  BY <1>1, AskedAfterValidation DEF SignAsked
<1>3. GoodSlot(job, i, slots[i], says, asked) /\ DOMAIN slots = Positions
  BY DEF BatchInv
<1>4. slots[i] \in SlotsOf(job) /\ slots[i].entry \in Entries /\ WellFormed(slots[i].entry)
  BY <1>3 DEF GoodSlot, SlotsOf
<1>5. /\ NextSigner(i) \in slots[i].todo /\ NextSigner(i) \in 1..Len(job.signers)
      /\ EntryCall(i) \in AnyCalls
      /\ EntryCall(i).exp = job.exp /\ EntryCall(i).network = job.network
      /\ EntryCall(i).signer.kind = job.signers[NextSigner(i)].kind
  BY <1>2, CallIsAny
<1>6. PICK s, e, f, rest :
         /\ s = NextSigner(i) /\ e = slots[i].entry /\ f = WriteSignature(e, EntryCall(i))
         /\ rest = slots[i].todo \ {s}
  OBVIOUS
<1>7. /\ f \in Entries /\ f.arm = e.arm /\ f.address = e.address /\ f.nonce = e.nonce
      /\ f.invocation = e.invocation /\ Len(f.nodes) = Len(e.nodes)
      /\ \A k \in 1..Len(e.nodes) :
            /\ f.nodes[k].addr = e.nodes[k].addr /\ f.nodes[k].above = e.nodes[k].above
            /\ f.nodes[k].sig = IF e.nodes[k].addr = Target(EntryCall(i))
                                THEN SignatureOf(e, EntryCall(i)) ELSE e.nodes[k].sig
  BY <1>2, <1>4, <1>5, <1>6, WrittenEntry
<1>8. WellFormed(f) /\ e.arm \in AddressArms
  <2>1. e.arm \in AddressArms /\ Len(e.nodes) \in Nat
    BY <1>2, <1>3, <1>4, <1>6 DEF GoodSlot, Entries
  <2> QED  BY <1>4, <1>6, <1>7, <2>1 DEF WellFormed
<1>9. SignedHere(job, i, f, asked')
  <2>1. CASE job.signers[s].kind = "void"
    BY <1>2, <1>5, <1>6, <2>1 DEF SignedHere
  <2>2. CASE job.signers[s].kind # "void"
    <3>1. PICK n \in 1..Len(e.nodes) : e.nodes[n].addr = Target(EntryCall(i))
      BY <1>2, <1>4, <1>5, <1>6, AcceptedCall DEF Matches
    <3>2. f.nodes[n].sig = SignatureOf(e, EntryCall(i))
      BY <1>7, <3>1
    <3>3. SignatureOf(e, EntryCall(i)) =
             [kind |-> job.signers[s].kind, origin |-> "signer",
              target |-> Target(EntryCall(i)), key |-> KeyOf(EntryCall(i)),
              payload |-> Preimage(e, job.exp, job.network)]
      BY <1>5, <1>6, <2>2 DEF SignatureOf
    <3>4. Preimage(f, job.exp, job.network) = Preimage(e, job.exp, job.network)
      BY <1>7 DEF Preimage
    <3>5. job.signers[s].kind \in {"account", "custom", "void"}
      BY <1>2, <1>4, <1>5, <1>6, AcceptedCall
    <3>6. /\ isSigned(f.nodes[n].sig) /\ f.nodes[n].sig.origin = "signer"
          /\ f.nodes[n].sig.payload = Preimage(f, job.exp, job.network)
      BY <2>2, <3>2, <3>3, <3>4, <3>5 DEF isSigned
    <3>7. n \in 1..Len(f.nodes)
      BY <1>7
    <3> QED  BY <1>2, <1>5, <1>6, <3>6, <3>7 DEF SignedHere
  <2> QED  BY <2>1, <2>2
<1>10. PICK stage, x :
          /\ stage = IF rest = {} THEN "done" ELSE "matched"
          /\ x = [slots[i] EXCEPT !.entry = f, !.todo = rest, !.stage = stage]
  OBVIOUS
<1>11. slots' = [slots EXCEPT ![i] = x]
  <2>1. slots[i].todo = {s} <=> rest = {}
    BY <1>5, <1>6
  <2>2. slots' = [slots EXCEPT ![i].entry = f, ![i].todo = rest, ![i].stage = stage]
    BY <1>6, <1>10, <2>1 DEF SignEntry
  <2> QED  BY <1>3, <1>10, <2>2
<1>12. /\ x \in SlotsOf(job) /\ x.entry = f /\ x.todo = rest /\ x.err = slots[i].err
       /\ x.stage = stage
  BY <1>4, <1>6, <1>7, <1>10 DEF SlotsOf, Stages
<1>13. /\ e.address = job.entries[i].address /\ e.nonce = job.entries[i].nonce
       /\ e.invocation = job.entries[i].invocation /\ slots[i].err = "none"
       /\ job.api # "VerifyAll"
       /\ \A t \in rest : job.signers[t].kind # "nil" /\ says[t] \in Address
  BY <1>2, <1>3, <1>6 DEF GoodSlot
<1>14. f.arm # "source_account"
  BY <1>7, <1>8 DEF AddressArms
<1>15. GoodSlot(job, i, x, says, asked')
  BY <1>7, <1>8, <1>9, <1>10, <1>12, <1>13, <1>14 DEF GoodSlot
<1>16. UNCHANGED <<job, says, rotations, ctx, outcome>>
  BY DEF SignEntry
<1>17. x.stage # "waiting" /\ x.err = "none"
  BY <1>10, <1>12, <1>13
<1> QED  BY <1>1, <1>11, <1>15, <1>16, <1>17, AskedAfterValidation, SlotStep

LEMMA TakeKeeps ==
    ASSUME BatchInv, NEW i \in Positions, TakeJob(i) PROVE BatchInv'
<1>1. /\ GoodSlot(job, i, slots[i], says, asked) /\ DOMAIN slots = Positions
      /\ job.api = "VerifyAll" /\ slots[i].stage = "waiting"
      /\ asked \subseteq Positions \X (1..Len(job.signers))
  BY DEF BatchInv, TakeJob
<1>2. PICK x : x = [slots[i] EXCEPT !.stage = "verifying"]
  OBVIOUS
<1>3. slots' = [slots EXCEPT ![i] = x]
  BY <1>1, <1>2 DEF TakeJob
<1>4. slots[i] \in SlotsOf(job)
  BY <1>1 DEF GoodSlot
<1>5. /\ x \in SlotsOf(job) /\ x.entry = slots[i].entry /\ x.todo = slots[i].todo
      /\ x.err = slots[i].err /\ x.stage = "verifying"
  BY <1>2, <1>4 DEF SlotsOf, Stages
<1>6. GoodSlot(job, i, x, says, asked)
  BY <1>1, <1>5 DEF GoodSlot
<1>7. UNCHANGED <<job, says, rotations, ctx, outcome>> /\ asked' = asked
  BY DEF TakeJob
<1> QED  BY <1>1, <1>3, <1>6, <1>7, SlotStep

\* VerifyAll reports one of the errors it knows.
LEMMA VerifyErrorKnown ==
    ASSUME NEW e \in Entries PROVE VerifyError(e, job.network) \in Errors
<1> DEFINE bad == {n \in 1..Len(e.nodes) :
                     VerifyEntry(e, job.network)[n] \notin {"verified", "unsigned"}}
           first == CHOOSE n \in bad : \A m \in bad : n <= m
<1>1. \A n \in 1..Len(e.nodes) : VerifyEntry(e, job.network)[n] \in Errors
  BY DEF VerifyEntry, verifyNode, Errors
<1>2. ASSUME bad # {} PROVE first \in bad
  <2>1. Len(e.nodes) \in Nat /\ bad \in SUBSET (1..Len(e.nodes))
    BY DEF Entries
  <2>2. \E n \in bad : \A m \in bad : n <= m
    BY <1>2, <2>1, LeastOf
  <2> HIDE DEF bad
  <2> QED  BY <2>2
<1>3. bad # {} => VerifyEntry(e, job.network)[first] \in Errors
  <2> SUFFICES ASSUME bad # {} PROVE VerifyEntry(e, job.network)[first] \in Errors
    OBVIOUS
  <2>1. first \in 1..Len(e.nodes)
    BY <1>2
  <2> HIDE DEF first
  <2> QED  BY <1>1, <2>1
<1>4. VerifyError(e, job.network) \in {"none", "ErrUnsupportedCredentials", "verify"}
      \/ (bad # {} /\ VerifyError(e, job.network) = VerifyEntry(e, job.network)[first])
  BY Zenon DEF VerifyError
<1> HIDE DEF bad, first
<1> QED  BY <1>3, <1>4 DEF Errors

LEMMA VerifyKeeps ==
    ASSUME BatchInv, NEW i \in Positions, VerifyJob(i) PROVE BatchInv'
<1>1. /\ GoodSlot(job, i, slots[i], says, asked) /\ DOMAIN slots = Positions
      /\ slots[i].stage = "verifying" /\ job \in Jobs
      /\ asked \subseteq Positions \X (1..Len(job.signers))
  BY DEF BatchInv, VerifyJob
<1>2. PICK err \in Errors : err = VerifyError(job.entries[i], job.network)
  BY <1>1, JobFacts, VerifyErrorKnown
<1>3. PICK x : x = [slots[i] EXCEPT !.stage = "done", !.err = err]
  OBVIOUS
<1>4. slots' = [slots EXCEPT ![i] = x]
  <2>1. slots' = [slots EXCEPT ![i].stage = "done", ![i].err = err]
    BY <1>2 DEF VerifyJob
  <2> QED  BY <1>1, <1>3, <2>1
<1>5. slots[i] \in SlotsOf(job) /\ job.api = "VerifyAll" /\ slots[i].todo = {}
  BY <1>1 DEF GoodSlot
<1>6. /\ x \in SlotsOf(job) /\ x.entry = slots[i].entry /\ x.todo = slots[i].todo
      /\ x.err = err /\ x.stage = "done"
  BY <1>3, <1>5 DEF SlotsOf, Stages
<1>7. GoodSlot(job, i, x, says, asked)
  BY <1>1, <1>5, <1>6 DEF GoodSlot
<1>8. UNCHANGED <<job, says, rotations, ctx, outcome>> /\ asked' = asked
  BY DEF VerifyJob
<1> QED  BY <1>1, <1>4, <1>5, <1>7, <1>8, SlotStep

\* A step that only sets the outcome has to answer for the result alone.
LEMMA OutcomeStep ==
    ASSUME BatchInv, UNCHANGED <<job, says, rotations, ctx, slots, asked>>,
           NEW kind \in {"called", "running", "ok", "verified", "failed"},
           NEW c, NEW a, NEW o,
           outcome' = [kind |-> kind, cause |-> c, at |-> a, out |-> o],
           kind = "ok" => NoneLeftUnsigned'
    PROVE  BatchInv'
<1>0. outcome'.kind = kind
  OBVIOUS
<1>1. Positions' = Positions /\ UnmatchedPlans' = UnmatchedPlans
  BY DEF Positions, UnmatchedPlans, PlanFor
<1>2. NoneLeftUnsigned'
  BY <1>0 DEF NoneLeftUnsigned
<1>3. ValidatedBeforeAsked'
  BY <1>1 DEF BatchInv, ValidatedBeforeAsked
<1>4. \A k \in Positions : GoodSlot(job', k, slots'[k], says', asked')
  BY DEF BatchInv
<1>5. \E d, b, u : outcome' = [kind |-> outcome'.kind, cause |-> d, at |-> b, out |-> u]
  BY <1>0
<1> QED  BY <1>0, <1>1, <1>2, <1>3, <1>4, <1>5 DEF BatchInv

LEMMA CallKeeps == ASSUME BatchInv, Call PROVE BatchInv'
<1>1. PICK c, a, o : outcome = [kind |-> outcome.kind, cause |-> c, at |-> a, out |-> o]
  BY DEF BatchInv
<1>2. CASE ctx = "cancelled"
  <2>1. PICK b, d, u : outcome' = [kind |-> "failed", cause |-> b, at |-> d, out |-> u]
    BY <1>2 DEF Call
  <2>2. UNCHANGED <<job, says, rotations, ctx, slots, asked>>
    BY DEF Call
  <2> QED  BY <2>1, <2>2, OutcomeStep
<1>3. CASE ctx # "cancelled"
  <2>1. outcome' = [outcome EXCEPT !.kind = "running"]
    BY <1>3 DEF Call
  <2>2. outcome' = [kind |-> "running", cause |-> c, at |-> a, out |-> o]
    BY <1>1, <2>1
  <2>3. UNCHANGED <<job, says, rotations, ctx, slots, asked>>
    BY DEF Call
  <2> QED  BY <2>2, <2>3, OutcomeStep
<1> QED  BY <1>2, <1>3

(* Returning the entries: no slot is left that did not end well, so every one   *)
(* holds the caller's entry with a signature of this call, or is a             *)
(* source-account entry.                                                       *)
LEMMA ReturnedIsSigned ==
    ASSUME BatchInv, ReturnsEntries, AllDone, ~AnyFailed, job.api # "VerifyAll",
           job' = job, slots' = slots, asked' = asked
    PROVE  NoneLeftUnsigned'
<1>1. Positions' = Positions /\ Len(job.entries) \in Nat
  BY JobFacts DEF Positions, BatchInv
<1>2. /\ outcome'.out = [i \in Positions |-> slots[i].entry]
      /\ \A i \in Positions : outcome'.out[i] = slots[i].entry
  BY DEF ReturnsEntries
<1>3. Len(outcome'.out) = Len(job.entries)
  <2>1. \A i \in 1..Len(job.entries) : slots[i].entry \in Entries
    BY DEF BatchInv, GoodSlot, SlotsOf, Positions
  <2>2. outcome'.out \in [1..Len(job.entries) -> Entries]
    BY <1>2, <2>1 DEF Positions
  <2> QED  BY <1>1, <2>2, FunctionIsSeq
<1>4. ASSUME NEW i \in Positions, NEW e, e = slots[i].entry
      PROVE  /\ [e EXCEPT !.arm = "", !.exp = 0, !.nodes = <<>>]
                    = [job.entries[i] EXCEPT !.arm = "", !.exp = 0, !.nodes = <<>>]
             /\ IF e.arm = "source_account" THEN e = job.entries[i]
                ELSE SignedHere(job, i, e, asked)
  <2>1. GoodSlot(job, i, slots[i], says, asked) /\ job.entries[i] \in Entries
    BY JobFacts DEF BatchInv
  <2>2. slots[i].stage = "done" /\ slots[i].err = "none"
    BY DEF AllDone, AnyFailed, Failed
  <2>3. e \in Entries /\ e.address = job.entries[i].address /\ e.nonce = job.entries[i].nonce
        /\ e.invocation = job.entries[i].invocation
    BY <1>4, <2>1 DEF GoodSlot, SlotsOf
  <2>4. PICK zero, empty, blank : zero = 0 /\ empty = <<>> /\ blank = ""
    OBVIOUS
  <2>5. [e EXCEPT !.arm = blank, !.exp = zero, !.nodes = empty]
           = [job.entries[i] EXCEPT !.arm = blank, !.exp = zero, !.nodes = empty]
    BY <2>1, <2>3 DEF Entries
  <2>6. [e EXCEPT !.arm = "", !.exp = 0, !.nodes = <<>>]
           = [job.entries[i] EXCEPT !.arm = "", !.exp = 0, !.nodes = <<>>]
    BY <2>4, <2>5, Zenon
  <2> QED  BY <1>4, <2>1, <2>2, <2>6 DEF GoodSlot
<1>5. \A i \in Positions :
         /\ [outcome'.out[i] EXCEPT !.arm = "", !.exp = 0, !.nodes = <<>>]
               = [job'.entries[i] EXCEPT !.arm = "", !.exp = 0, !.nodes = <<>>]
         /\ IF outcome'.out[i].arm = "source_account"
            THEN outcome'.out[i] = job'.entries[i]
            ELSE SignedHere(job', i, outcome'.out[i], asked')
  BY <1>2, <1>4, Zenon
<1>6. Len(outcome'.out) = Len(job'.entries)
  BY <1>3
<1> QED  BY <1>1, <1>5, <1>6, Zenon DEF NoneLeftUnsigned, SignedHere

LEMMA ReturnKeeps == ASSUME BatchInv, Return PROVE BatchInv'
<1>1. UNCHANGED <<job, says, rotations, ctx, slots, asked>> /\ Positions' = Positions
  BY DEF Return, Positions
<1>2. ASSUME NEW cause, NEW at, ReturnsError(cause, at) PROVE BatchInv'
  BY <1>1, <1>2, OutcomeStep DEF ReturnsError
<1>3. ASSUME ReturnsEntries, AllDone, ~AnyFailed, job.api # "VerifyAll"
      PROVE  BatchInv'
  <2>1. NoneLeftUnsigned'
    BY <1>1, <1>3, ReturnedIsSigned
  <2>2. PICK a, o : outcome' = [kind |-> "ok", cause |-> "none", at |-> a, out |-> o]
    BY <1>3 DEF ReturnsEntries
  <2> QED  BY <1>1, <2>1, <2>2, OutcomeStep
<1>4. CASE job.api = "AuthorizeAll" /\ AuthorizeAllReturns
  BY <1>2, <1>3, <1>4 DEF AuthorizeAllReturns
<1>5. CASE job.api = "AuthorizeBatch" /\ AuthorizeBatchReturns
  BY <1>2, <1>3, <1>5 DEF AuthorizeBatchReturns
<1>6. CASE job.api = "VerifyAll" /\ VerifyAllReturns
  <2>1. PICK a, o : outcome' = [kind |-> "verified", cause |-> "none", at |-> a, out |-> o]
    BY <1>6 DEF VerifyAllReturns
  <2> QED  BY <1>1, <2>1, OutcomeStep
<1> QED  BY <1>4, <1>5, <1>6 DEF Return

\* A key that moves gives another address, never none.
LEMMA RotateKeeps ==
    ASSUME BatchInv, NEW s \in 1..Len(job.signers), NEW a \in MovedTo, Rotate(s, a)
    PROVE  BatchInv'
<1>1. /\ UNCHANGED <<job, ctx, slots, outcome, asked>> /\ Positions' = Positions
      /\ UnmatchedPlans' = UnmatchedPlans
  BY DEF Rotate, Positions, UnmatchedPlans, PlanFor
<1>2. a \in Address /\ GoodSayings(job, says)
  BY BatchAssumption DEF BatchInv
<1>3. GoodSayings(job, says') /\ \A t \in 1..Len(job.signers) :
         says[t] \in Address => says'[t] \in Address
  BY <1>2 DEF GoodSayings, Rotate
<1>4. rotations' \in 0..MaxRotations
  BY BatchAssumption DEF BatchInv, Rotate
<1>5. ASSUME NEW k \in Positions PROVE GoodSlot(job, k, slots[k], says', asked)
  <2>1. GoodSlot(job, k, slots[k], says, asked)
    BY DEF BatchInv
  <2>2. slots[k].todo \subseteq 1..Len(job.signers)
    BY <2>1 DEF GoodSlot, SlotsOf
  <2> QED  BY <1>3, <2>1, <2>2 DEF GoodSlot
<1>6. NoneLeftUnsigned' /\ ValidatedBeforeAsked'
  <2>1. NoneLeftUnsigned'
    BY <1>1 DEF BatchInv, NoneLeftUnsigned
  <2> QED  BY <1>1, <2>1 DEF BatchInv, ValidatedBeforeAsked
<1> QED  BY <1>1, <1>3, <1>4, <1>5, <1>6 DEF BatchInv

LEMMA CancelKeeps == ASSUME BatchInv, Cancel \/ UNCHANGED vars PROVE BatchInv'
<1>1. /\ UNCHANGED <<job, says, rotations, slots, outcome, asked>> /\ Positions' = Positions
      /\ UnmatchedPlans' = UnmatchedPlans /\ ctx' \in {"live", "cancelled"}
  BY DEF Cancel, vars, Positions, UnmatchedPlans, PlanFor, BatchInv
<1>2. NoneLeftUnsigned'
  BY <1>1 DEF BatchInv, NoneLeftUnsigned
<1>3. ValidatedBeforeAsked'
  BY <1>1 DEF BatchInv, ValidatedBeforeAsked
<1> QED  BY <1>1, <1>2, <1>3 DEF BatchInv

LEMMA NextInv == BatchInv /\ [Next]_vars => BatchInv'
<1> SUFFICES ASSUME BatchInv, [Next]_vars PROVE BatchInv'
  OBVIOUS
<1>1. CASE \E i \in Positions : Step(i)
  BY <1>1, MatchKeeps, RefusedKeeps, FailsKeeps, SignKeeps, TakeKeeps, VerifyKeeps DEF Step
<1>2. CASE \E s \in 1..Len(job.signers), a \in MovedTo : Rotate(s, a)
  BY <1>2, RotateKeeps
<1> QED  BY <1>1, <1>2, CallKeeps, ReturnKeeps, CancelKeeps DEF Next

-----------------------------------------------------------------------------
(* The signers' turns: what one entry becomes, signer by signer.              *)

\* The first turn starts from the prepared entry; each takes up where the one before left off.
LEMMA TurnsDefined ==
    ASSUME NEW j, Len(j.signers) \in Nat, NEW e
    PROVE  /\ Turns(j, e)[0] = FirstTurn(j, e)
           /\ \A s \in 1..Len(j.signers) :
                 Turns(j, e)[s] = TurnTaken(j, e, Turns(j, e)[s - 1], s)
<1> DEFINE n == Len(j.signers)
           Q(k) == \E f : f = [s \in 0..k |-> IF s = 0 THEN FirstTurn(j, e)
                                              ELSE TurnTaken(j, e, f[s - 1], s)]
           T == {k \in 1..n : ~Q(k)}
<1>1. Q(0)
  <2>1. PICK f : f = [s \in 0..0 |-> FirstTurn(j, e)]
    OBVIOUS
  <2>2. f = [s \in 0..0 |-> IF s = 0 THEN FirstTurn(j, e) ELSE TurnTaken(j, e, f[s - 1], s)]
    BY <2>1
  <2> QED  BY <2>2
<1>2. ASSUME NEW k \in 1..n, Q(k - 1) PROVE Q(k)
  <2>1. PICK f : f = [s \in 0..(k - 1) |-> IF s = 0 THEN FirstTurn(j, e)
                                           ELSE TurnTaken(j, e, f[s - 1], s)]
    BY <1>2
  <2>2. PICK g : g = [s \in 0..k |-> IF s < k THEN f[s] ELSE TurnTaken(j, e, f[k - 1], k)]
    OBVIOUS
  <2>3. \A s \in 0..k : g[s] = IF s = 0 THEN FirstTurn(j, e) ELSE TurnTaken(j, e, g[s - 1], s)
    BY <2>1, <2>2
  <2>4. g = [s \in 0..k |-> g[s]]
    BY <2>2
  <2>5. g = [s \in 0..k |-> IF s = 0 THEN FirstTurn(j, e) ELSE TurnTaken(j, e, g[s - 1], s)]
    BY <2>3, <2>4
  <2> QED  BY <2>5
<1>3. n \in Nat
  OBVIOUS
<1> HIDE DEF Q, n
<1>4. T = {}
  <2> SUFFICES ASSUME T # {} PROVE FALSE
    OBVIOUS
  <2>1. T \in SUBSET (1..n)
    OBVIOUS
  <2>2. PICK k \in T : \A t \in T : k <= t
    <3> HIDE DEF T
    <3> QED  BY <1>3, <2>1, LeastOf
  <2>3. k \in 1..n /\ ~Q(k)
    BY <2>2
  <2>4. k - 1 = 0 \/ (k - 1 \in 1..n /\ k - 1 \notin T)
    BY <1>3, <2>2, <2>3
  <2>5. Q(k - 1)
    BY <1>1, <2>4
  <2> QED  BY <1>2, <2>3, <2>5
<1>5. Q(n)
  BY <1>1, <1>3, <1>4
<1>6. Turns(j, e) = [s \in 0..n |-> IF s = 0 THEN FirstTurn(j, e)
                                   ELSE TurnTaken(j, e, Turns(j, e)[s - 1], s)]
  BY <1>5, Zenon DEF Turns, Q, n
<1>7. PICK t : t = Turns(j, e)
  OBVIOUS
<1>8. t = [s \in 0..n |-> IF s = 0 THEN FirstTurn(j, e) ELSE TurnTaken(j, e, t[s - 1], s)]
  BY <1>6, <1>7, Zenon
<1> QED  BY <1>3, <1>7, <1>8 DEF n

\* Nothing changes while no matched signer has its turn, or once one was refused.
LEMMA TurnsRest ==
    ASSUME NEW j, Len(j.signers) \in Nat, NEW e,
           NEW k \in 0..Len(j.signers), NEW m \in k..Len(j.signers),
           \/ Turns(j, e)[k].err # "none"
           \/ \A s \in (k + 1)..m : s \notin signersForEntry(j, Prepared(j, e), Initially(j))
    PROVE  Turns(j, e)[m] = Turns(j, e)[k]
<1> DEFINE T == {t \in 1..m : t >= k /\ Turns(j, e)[t] # Turns(j, e)[k]}
<1>1. SUFFICES ASSUME T # {} PROVE FALSE
  BY m \in Nat
<1>2. T \in SUBSET (1..m) /\ m \in Nat
  OBVIOUS
<1>3. PICK t \in T : \A u \in T : t <= u
  <2> HIDE DEF T
  <2> QED  BY <1>1, <1>2, LeastOf
<1>4. t \in 1..m /\ t > k /\ Turns(j, e)[t] # Turns(j, e)[k]
  BY <1>3
<1>5. t - 1 = k \/ (t - 1 \in 1..m /\ t - 1 >= k /\ t - 1 \notin T)
  BY <1>3, <1>4
<1>6. Turns(j, e)[t - 1] = Turns(j, e)[k]
  BY <1>5
<1> HIDE DEF T
<1>7. Turns(j, e)[t] = TurnTaken(j, e, Turns(j, e)[k], t)
  <2>1. t \in 1..Len(j.signers)
    BY <1>4
  <2> QED  BY <1>6, <2>1, TurnsDefined
<1>8. \/ Turns(j, e)[k].err # "none"
      \/ t \notin signersForEntry(j, Prepared(j, e), Initially(j))
  BY <1>4
<1> QED  BY <1>4, <1>7, <1>8 DEF TurnTaken

-----------------------------------------------------------------------------
(* Without a disturbance every slot follows its entry's turns.                *)

\* Slot x in position i of call j stands where the turns of its signers have brought it.
InTurn(j, i, x) ==
    LET e   == j.entries[i]
        all == signersForEntry(j, Prepared(j, e), Initially(j))
    IN  /\ x.stage = "matched" =>
              /\ MatchError(j, e, Initially(j)) = "none" /\ e.arm # "source_account"
              /\ \E k \in x.todo :
                    /\ x.todo = {s \in all : s >= k}
                    /\ Turns(j, e)[k - 1] = [entry |-> x.entry, err |-> "none"]
        /\ x.stage = "done" =>
              /\ x.err = InTurnError(j, e)
              /\ x.err = "none" =>
                    x.entry = IF e.arm = "source_account" THEN e ELSE SignedInTurn(j, e).entry

\* Every slot that VerifyAll has finished holds the verdict on its own entry.
VerdictsOwn(j, sl) ==
    \A i \in 1..Len(j.entries) :
        sl[i].stage = "done" => sl[i].err = VerifyError(j.entries[i], j.network)

SlotsInTurn(j, sl) == \A i \in 1..Len(j.entries) : InTurn(j, i, sl[i])

\* What ScheduleDoesNotMatter says of the result, and what it rests on.
ScheduleInv ==
    /\ ctx = "cancelled" => disturbed
    /\ job.api = "VerifyAll" => VerdictsOwn(job, slots)
    /\ ~disturbed => says = Initially(job)
    /\ ~disturbed /\ job.api # "VerifyAll" => SlotsInTurn(job, slots)
    /\ ScheduleDoesNotMatter

\* VerifyAll has nothing to say of an entry exactly when every signature on it verifies.
LEMMA VerdictMeans ==
    ASSUME NEW e \in Entries, NEW net
    PROVE  VerifyError(e, net) = "none" <=>
              \/ e.arm = "source_account"
              \/ /\ e.arm \in AddressArms /\ ~VerifyRefuses(e) /\ net # NoNetwork
                 /\ \A n \in 1..Len(e.nodes) :
                       isSigned(e.nodes[n].sig) => VerifyEntry(e, net)[n] = "verified"
                 /\ \A n \in 1..Len(e.nodes) : e.nodes[n].addr \in Accounts
<1> DEFINE v(n) == VerifyEntry(e, net)[n]
           bad == {n \in 1..Len(e.nodes) : v(n) \notin {"verified", "unsigned"}}
           first == CHOOSE n \in bad : \A m \in bad : n <= m
<1>1. \A n \in 1..Len(e.nodes) :
         /\ v(n) # "none"
         /\ v(n) \in {"verified", "unsigned"} <=>
               /\ e.nodes[n].addr \in Accounts
               /\ isSigned(e.nodes[n].sig) => v(n) = "verified"
  BY DEF VerifyEntry, verifyNode
<1>2. bad # {} => first \in bad
  <2>1. Len(e.nodes) \in Nat /\ bad \in SUBSET (1..Len(e.nodes))
    BY DEF Entries
  <2>2. bad # {} => \E n \in bad : \A m \in bad : n <= m
    <3> HIDE DEF bad
    <3> QED  BY <2>1, LeastOf
  <2> HIDE DEF bad
  <2> QED  BY <2>2
<1>3. bad # {} => v(first) # "none"
  <2> HIDE DEF first, v
  <2> QED  BY <1>1, <1>2
<1>4. VerifyError(e, net) = IF e.arm = "source_account" THEN "none"
                            ELSE IF e.arm \notin AddressArms THEN "ErrUnsupportedCredentials"
                            ELSE IF net = NoNetwork \/ VerifyRefuses(e) THEN "verify"
                            ELSE IF bad = {} THEN "none"
                            ELSE v(first)
  BY Zenon DEF VerifyError
<1>5. bad = {} <=> \A n \in 1..Len(e.nodes) :
                      /\ e.nodes[n].addr \in Accounts
                      /\ isSigned(e.nodes[n].sig) => v(n) = "verified"
  <2> HIDE DEF v
  <2> QED  BY <1>1
<1>6. VerifyError(e, net) = "none" <=>
         \/ e.arm = "source_account"
         \/ e.arm \in AddressArms /\ ~VerifyRefuses(e) /\ net # NoNetwork /\ bad = {}
  <2> HIDE DEF bad, first, v
  <2> QED  BY <1>3, <1>4
<1> HIDE DEF bad, first
<1> QED  BY <1>5, <1>6

\* A result stays what it was while the call and its outcome do.
LEMMA ResultStays ==
    ASSUME ScheduleDoesNotMatter, job' = job, outcome' = outcome, disturbed => disturbed'
    PROVE  ScheduleDoesNotMatter'
BY DEF ScheduleDoesNotMatter, Positions

\* One slot moves along its entry's turns, the others stay.
LEMMA InTurnStep ==
    ASSUME BatchInv, ScheduleInv, NEW i \in Positions, NEW x, job.api # "VerifyAll",
           slots' = [slots EXCEPT ![i] = x], ~disturbed => InTurn(job, i, x),
           UNCHANGED <<job, says, ctx, outcome, disturbed>>
    PROVE  ScheduleInv'
<1>1. DOMAIN slots = Positions
  BY DEF BatchInv
<1>2. ASSUME ~disturbed PROVE SlotsInTurn(job, slots')
  BY <1>1, <1>2 DEF SlotsInTurn, ScheduleInv, Positions
<1>3. ScheduleDoesNotMatter'
  BY ResultStays DEF ScheduleInv
<1> QED  BY <1>2, <1>3 DEF ScheduleInv

\* Once somebody disturbed the call, nothing but the verdicts is promised.
LEMMA DisturbedStep ==
    ASSUME ScheduleInv, disturbed', job' = job, outcome' = outcome,
           job.api = "VerifyAll" => slots' = slots
    PROVE  ScheduleInv'
<1>1. ScheduleDoesNotMatter'
  BY ResultStays DEF ScheduleInv
<1> QED  BY <1>1 DEF ScheduleInv

\* A matched entry has its first signer's turn before it, nothing having been signed.
LEMMA MatchInTurn ==
    ASSUME job \in Jobs, NEW i \in Positions
    PROVE  InTurn(job, i, MatchedSlot(job, job.entries[i], Initially(job)))
<1> DEFINE e == job.entries[i]
           err == MatchError(job, e, Initially(job))
           all == signersForEntry(job, Prepared(job, e), Initially(job))
           x == MatchedSlot(job, e, Initially(job))
<1>1. CASE err # "none"
  <2>1. x = [stage |-> "done", entry |-> e, todo |-> {}, err |-> err]
    BY <1>1 DEF MatchedSlot
  <2>2. InTurnError(job, e) = err
    BY <1>1 DEF InTurnError
  <2> HIDE DEF err, x, e
  <2> QED  BY <1>1, <2>1, <2>2 DEF InTurn, e, x
<1>2. CASE err = "none" /\ e.arm = "source_account"
  <2>1. x = [stage |-> "done", entry |-> e, todo |-> {}, err |-> "none"]
    BY <1>2 DEF MatchedSlot
  <2>2. InTurnError(job, e) = "none"
    BY <1>2 DEF InTurnError
  <2> HIDE DEF err, x, e
  <2> QED  BY <1>2, <2>1, <2>2 DEF InTurn, e, x
<1>3. CASE err = "none" /\ e.arm # "source_account"
  <2>1. x = [stage |-> "matched", entry |-> Prepared(job, e), todo |-> all, err |-> "none"]
    BY <1>3 DEF MatchedSlot
  <2>2. all # {}
    BY <1>3 DEF MatchError
  <2>3. all \in SUBSET (1..Len(job.signers)) /\ Len(job.signers) \in Nat
    BY JobFacts DEF signersForEntry
  <2> HIDE DEF err, x, e, all
  <2>4. PICK k \in all : \A s \in all : k <= s
    BY <2>2, <2>3, LeastOf
  <2>5. k \in 1..Len(job.signers) /\ k - 1 \in 0..Len(job.signers)
    BY <2>3
  <2>6. \A s \in 1..(k - 1) : s \notin all
    BY <2>4, <2>5
  <2>7. Turns(job, e)[k - 1] = Turns(job, e)[0]
    BY <2>3, <2>5, <2>6, TurnsRest DEF all
  <2>8. Turns(job, e)[0] = [entry |-> Prepared(job, e), err |-> "none"]
    BY <2>3, TurnsDefined DEF FirstTurn
  <2>9. all = {s \in all : s >= k}
    BY <2>3, <2>4
  <2>10. \E l \in x.todo : /\ x.todo = {s \in all : s >= l}
                           /\ Turns(job, e)[l - 1] = [entry |-> x.entry, err |-> "none"]
    BY <2>1, <2>4, <2>7, <2>8, <2>9
  <2>11. x.stage = "matched" /\ MatchError(job, e, Initially(job)) = "none"
    BY <1>3, <2>1 DEF err
  <2> QED  BY <1>3, <2>10, <2>11 DEF InTurn, e, x, all
<1> QED  BY <1>1, <1>2, <1>3

LEMMA MatchSchedule ==
    ASSUME BatchInv, ScheduleInv, NEW i \in Positions, MatchEntry(i) PROVE ScheduleInv'
<1>1. /\ slots' = [slots EXCEPT ![i] = MatchedSlot(job, job.entries[i], says)]
      /\ job.api # "VerifyAll" /\ UNCHANGED <<job, says, ctx, outcome, disturbed>>
  BY DEF MatchEntry
<1>2. ~disturbed => says = Initially(job)
  BY DEF ScheduleInv
<1>3. ~disturbed => InTurn(job, i, MatchedSlot(job, job.entries[i], says))
  BY <1>2, MatchInTurn DEF BatchInv
<1> QED  BY <1>1, <1>3, InTurnStep

(* The signer whose turn it is in a matched slot: AuthorizeBatch and            *)
(* AuthorizeAll ask it exactly what it would be asked were there no other      *)
(* entry, and of the entry the turns before it have left.                      *)
LEMMA WhoseTurn ==
    ASSUME BatchInv, ScheduleInv, ~disturbed, NEW i \in Positions, slots[i].stage = "matched",
           NEW e, e = job.entries[i],
           NEW all, all = signersForEntry(job, Prepared(job, e), Initially(job)),
           NEW k, k = NextSigner(i)
    PROVE  /\ job.api # "VerifyAll" /\ e.arm # "source_account"
           /\ MatchError(job, e, Initially(job)) = "none"
           /\ k \in all /\ all \in SUBSET (1..Len(job.signers)) /\ Len(job.signers) \in Nat
           /\ slots[i].todo = {s \in all : s >= k}
           /\ Turns(job, e)[k - 1] = [entry |-> slots[i].entry, err |-> "none"]
           /\ EntryCall(i) = TurnCall(job, k)
<1>1. GoodSlot(job, i, slots[i], says, asked) /\ job \in Jobs
  BY DEF BatchInv
<1>2. job.api # "VerifyAll"
  BY <1>1 DEF GoodSlot
<1>3. InTurn(job, i, slots[i])
  BY <1>2 DEF ScheduleInv, SlotsInTurn, Positions
<1>4. all \in SUBSET (1..Len(job.signers)) /\ Len(job.signers) \in Nat
  BY <1>1, JobFacts DEF signersForEntry
<1>5. /\ MatchError(job, e, Initially(job)) = "none" /\ e.arm # "source_account"
      /\ \E l \in slots[i].todo :
            /\ slots[i].todo = {s \in all : s >= l}
            /\ Turns(job, e)[l - 1] = [entry |-> slots[i].entry, err |-> "none"]
  BY <1>3 DEF InTurn
<1>6. PICK l \in slots[i].todo :
            /\ slots[i].todo = {s \in all : s >= l}
            /\ Turns(job, e)[l - 1] = [entry |-> slots[i].entry, err |-> "none"]
  BY <1>5
<1>7. l \in all /\ \A t \in slots[i].todo : l <= t
  BY <1>4, <1>6
<1>8. k = l
  <2>1. k \in slots[i].todo /\ \A t \in slots[i].todo : k <= t
    BY <1>7 DEF NextSigner
  <2>2. k \in Nat /\ l \in Nat /\ k <= l /\ l <= k
    BY <1>4, <1>6, <1>7, <2>1
  <2> QED  BY <2>2
<1>9. EntryCall(i) = TurnCall(job, k)
  <2>1. k \in 1..Len(job.signers)
    BY <1>4, <1>7, <1>8
  <2>2. job.signers[k] \in [address: Address \cup {NoAddress, Malformed}, kind: SignerKinds]
    BY <1>1, <2>1, JobFacts
  <2>3. says[k] = job.signers[k].address
    BY <2>1 DEF ScheduleInv, Initially
  <2>4. [job.signers[k] EXCEPT !.address = says[k]] = job.signers[k]
    BY <2>2, <2>3
  <2>5. EntryCall(i) =
           [exp |-> job.exp, network |-> job.network,
            signer |-> [job.signers[k] EXCEPT !.address = says[k]], forAddress |-> says[k],
            resign |-> [given |-> FALSE, scope |-> {}]]
    BY Zenon DEF EntryCall
  <2> QED  BY <2>3, <2>4, <2>5, Zenon DEF TurnCall
<1> QED  BY <1>2, <1>4, <1>5, <1>6, <1>7, <1>8, <1>9

\* The turn of signer k itself, when it can be asked and when it is refused.
LEMMA TurnOf ==
    ASSUME job \in Jobs, NEW e,
           NEW k \in signersForEntry(job, Prepared(job, e), Initially(job)),
           NEW f, Turns(job, e)[k - 1] = [entry |-> f, err |-> "none"]
    PROVE  /\ Refusal(f, TurnCall(job, k)) = "ok" =>
                 Turns(job, e)[k] = [entry |-> WriteSignature(f, TurnCall(job, k)), err |-> "none"]
           /\ Refusal(f, TurnCall(job, k)) # "ok" =>
                 Turns(job, e)[k] = [entry |-> f, err |-> Refusal(f, TurnCall(job, k))]
<1>1. k \in 1..Len(job.signers) /\ Len(job.signers) \in Nat
  BY JobFacts DEF signersForEntry
<1>2. PICK before : before = Turns(job, e)[k - 1]
  OBVIOUS
<1>3. Turns(job, e)[k] = TurnTaken(job, e, before, k)
  BY <1>1, <1>2, TurnsDefined
<1>4. before.entry = f /\ before.err = "none"
  BY <1>2
<1> QED  BY <1>3, <1>4 DEF TurnTaken

LEMMA RefusedSchedule ==
    ASSUME BatchInv, ScheduleInv, NEW i \in Positions, SignRefused(i) PROVE ScheduleInv'
<1>1. /\ slots[i].stage = "matched" /\ UNCHANGED <<job, says, ctx, outcome, disturbed>>
      /\ job.api # "VerifyAll" /\ slots[i] \in SlotsOf(job) /\ job \in Jobs
  BY DEF SignRefused, MaySignNext, BatchInv, GoodSlot
<1>2. CASE disturbed
  <2>1. PICK x : slots' = [slots EXCEPT ![i] = x]
    BY DEF SignRefused
  <2> QED  BY <1>1, <1>2, <2>1, InTurnStep
<1>3. CASE ~disturbed
  <2>1. PICK err, e, all, k, n :
           /\ err = Refusal(slots[i].entry, EntryCall(i)) /\ e = job.entries[i]
           /\ all = signersForEntry(job, Prepared(job, e), Initially(job))
           /\ k = NextSigner(i) /\ n = Len(job.signers)
    OBVIOUS
  <2>2. slots' = [slots EXCEPT ![i] = Stopped(i, err)] /\ err # "ok"
    BY <1>3, <2>1 DEF SignRefused, ScheduleInv
  <2>3. /\ e.arm # "source_account" /\ MatchError(job, e, Initially(job)) = "none"
        /\ k \in all /\ all \in SUBSET (1..n) /\ n \in Nat
        /\ Turns(job, e)[k - 1] = [entry |-> slots[i].entry, err |-> "none"]
        /\ EntryCall(i) = TurnCall(job, k)
    BY <1>1, <1>3, <2>1, WhoseTurn
  <2>4. Turns(job, e)[k] = [entry |-> slots[i].entry, err |-> err]
    <3>1. /\ k \in signersForEntry(job, Prepared(job, e), Initially(job))
          /\ Refusal(slots[i].entry, TurnCall(job, k)) = err
      BY <2>1, <2>3
    <3> QED  BY <1>1, <2>2, <2>3, <3>1, TurnOf
  <2>5. err # "none"
    BY <2>1 DEF Refusal
  <2>6. Turns(job, e)[k].err # "none" /\ k \in 0..n /\ n \in k..n
    BY <2>3, <2>4, <2>5
  <2>7. Turns(job, e)[n] = Turns(job, e)[k]
    BY <2>1, <2>3, <2>6, TurnsRest
  <2>8. InTurnError(job, e) = err
    BY <2>1, <2>3, <2>4, <2>7 DEF InTurnError, SignedInTurn
  <2>9. PICK x : x = Stopped(i, err)
    OBVIOUS
  <2>10. x.stage = "done" /\ x.err = err
    BY <1>1, <2>9 DEF Stopped, SlotsOf
  <2>11. InTurn(job, i, x)
    BY <2>1, <2>5, <2>8, <2>10 DEF InTurn
  <2> QED  BY <1>1, <2>2, <2>9, <2>11, InTurnStep
<1> QED  BY <1>2, <1>3

LEMMA FailsSchedule ==
    ASSUME BatchInv, ScheduleInv, NEW i \in Positions, SignFails(i) PROVE ScheduleInv'
<1>1. slots[i].stage = "matched" /\ job.api # "VerifyAll"
  BY DEF SignFails, SignAsked, MaySignNext, BatchInv, GoodSlot
<1> QED  BY <1>1, DisturbedStep DEF SignFails

LEMMA SignSchedule ==
    ASSUME BatchInv, ScheduleInv, NEW i \in Positions, SignEntry(i) PROVE ScheduleInv'
<1>1. /\ slots[i].stage = "matched" /\ UNCHANGED <<job, says, ctx, outcome, disturbed>>
      /\ Refusal(slots[i].entry, EntryCall(i)) = "ok"
      /\ job.api # "VerifyAll" /\ slots[i] \in SlotsOf(job) /\ slots[i].err = "none"
      /\ job \in Jobs /\ DOMAIN slots = Positions
  BY DEF SignEntry, SignAsked, MaySignNext, BatchInv, GoodSlot
<1>2. PICK e, all, k, n, f, rest, stage, x :
         /\ e = job.entries[i] /\ all = signersForEntry(job, Prepared(job, e), Initially(job))
         /\ k = NextSigner(i) /\ n = Len(job.signers)
         /\ f = WriteSignature(slots[i].entry, EntryCall(i))
         /\ rest = slots[i].todo \ {k} /\ stage = IF rest = {} THEN "done" ELSE "matched"
         /\ x = [slots[i] EXCEPT !.entry = f, !.todo = rest, !.stage = stage]
  OBVIOUS
<1>3. slots' = [slots EXCEPT ![i] = x]
  <2>1. k \in slots[i].todo
    BY <1>1, <1>2, CallIsAny
  <2>2. slots[i].todo = {k} <=> rest = {}
    BY <1>2, <2>1
  <2>3. slots' = [slots EXCEPT ![i].entry = f, ![i].todo = rest, ![i].stage = stage]
    BY <1>2, <2>2 DEF SignEntry
  <2> QED  BY <1>1, <1>2, <2>3
<1>4. x.entry = f /\ x.todo = rest /\ x.stage = stage /\ x.err = "none"
  BY <1>1, <1>2 DEF SlotsOf
<1>5. ASSUME ~disturbed PROVE InTurn(job, i, x)
  <2>1. /\ e.arm # "source_account" /\ MatchError(job, e, Initially(job)) = "none"
        /\ k \in all /\ all \in SUBSET (1..n) /\ n \in Nat
        /\ slots[i].todo = {s \in all : s >= k}
        /\ Turns(job, e)[k - 1] = [entry |-> slots[i].entry, err |-> "none"]
        /\ EntryCall(i) = TurnCall(job, k)
    BY <1>1, <1>2, <1>5, WhoseTurn
  <2>2. Turns(job, e)[k] = [entry |-> f, err |-> "none"]
    <3>1. /\ k \in signersForEntry(job, Prepared(job, e), Initially(job))
          /\ Refusal(slots[i].entry, TurnCall(job, k)) = "ok"
          /\ f = WriteSignature(slots[i].entry, TurnCall(job, k))
      BY <1>1, <1>2, <2>1
    <3>2. PICK g : g = slots[i].entry
      OBVIOUS
    <3>3. Turns(job, e)[k - 1] = [entry |-> g, err |-> "none"]
      BY <2>1, <3>2
    <3>4. Turns(job, e)[k] = [entry |-> WriteSignature(g, TurnCall(job, k)), err |-> "none"]
      BY <1>1, <3>1, <3>2, <3>3, TurnOf
    <3> QED  BY <3>1, <3>2, <3>4
  <2>3. rest = {s \in all : s > k} /\ rest \in SUBSET (1..n)
    BY <1>2, <2>1
  <2>4. CASE rest = {}
    <3>1. k \in 0..n /\ n \in k..n /\ \A s \in (k + 1)..n : s \notin all
      BY <2>1, <2>3, <2>4
    <3>2. Turns(job, e)[n] = Turns(job, e)[k]
      <4>1. /\ Len(job.signers) \in Nat /\ k \in 0..Len(job.signers) /\ n \in k..Len(job.signers)
            /\ \A s \in (k + 1)..n : s \notin signersForEntry(job, Prepared(job, e), Initially(job))
        BY <1>2, <2>1, <3>1
      <4> QED  BY <4>1, TurnsRest
    <3>3. SignedInTurn(job, e).entry = f /\ SignedInTurn(job, e).err = "none"
      BY <1>2, <2>2, <3>2 DEF SignedInTurn
    <3>4. InTurnError(job, e) = "none"
      BY <2>1, <3>3 DEF InTurnError
    <3>5. x.stage = "done"
      BY <1>2, <1>4, <2>4
    <3> QED  BY <1>2, <1>4, <2>1, <3>3, <3>4, <3>5 DEF InTurn
  <2>5. CASE rest # {}
    <3>1. PICK l \in rest : \A s \in rest : l <= s
      BY <2>1, <2>3, <2>5, LeastOf
    <3>2. /\ l \in 1..n /\ l > k /\ k \in 0..n /\ l - 1 \in k..n
          /\ \A s \in (k + 1)..(l - 1) : s \notin all
      BY <2>1, <2>3, <3>1
    <3>3. Turns(job, e)[l - 1] = Turns(job, e)[k]
      <4>1. /\ Len(job.signers) \in Nat /\ k \in 0..Len(job.signers)
            /\ l - 1 \in k..Len(job.signers)
            /\ \A s \in (k + 1)..(l - 1) : s \notin signersForEntry(job, Prepared(job, e), Initially(job))
        BY <1>2, <2>1, <3>2
      <4> QED  BY <4>1, TurnsRest
    <3>4. rest = {s \in all : s >= l}
      <4>1. \A s \in all : s \in 1..n /\ (s >= l => s > k) /\ (s \in rest => s >= l)
        BY <2>1, <3>1, <3>2
      <4> QED  BY <2>3, <4>1
    <3>5. x.stage = "matched"
      BY <1>2, <1>4, <2>5
    <3>6. \E m \in x.todo : /\ x.todo = {s \in all : s >= m}
                            /\ Turns(job, e)[m - 1] = [entry |-> x.entry, err |-> "none"]
      BY <1>4, <2>2, <3>1, <3>3, <3>4
    <3> QED  BY <1>2, <2>1, <3>5, <3>6 DEF InTurn
  <2> QED  BY <2>4, <2>5
<1> QED  BY <1>1, <1>3, <1>5, InTurnStep

LEMMA TakeSchedule ==
    ASSUME BatchInv, ScheduleInv, NEW i \in Positions, TakeJob(i) PROVE ScheduleInv'
<1>1. /\ job.api = "VerifyAll" /\ UNCHANGED <<job, says, ctx, outcome, disturbed>>
      /\ slots' = [slots EXCEPT ![i].stage = "verifying"] /\ DOMAIN slots = Positions
      /\ slots[i] \in SlotsOf(job)
  BY DEF TakeJob, BatchInv, GoodSlot
<1>2. /\ slots'[i].stage = "verifying"
      /\ \A k \in Positions : k # i => slots'[k] = slots[k]
  BY <1>1 DEF SlotsOf
<1>3. VerdictsOwn(job, slots')
  BY <1>1, <1>2 DEF ScheduleInv, VerdictsOwn, Positions
<1>4. ScheduleDoesNotMatter'
  BY <1>1, ResultStays DEF ScheduleInv
<1> QED  BY <1>1, <1>3, <1>4 DEF ScheduleInv

LEMMA VerifySchedule ==
    ASSUME BatchInv, ScheduleInv, NEW i \in Positions, VerifyJob(i) PROVE ScheduleInv'
<1>1. /\ slots[i].stage = "verifying" /\ UNCHANGED <<job, says, ctx, outcome, disturbed>>
      /\ DOMAIN slots = Positions /\ slots[i] \in SlotsOf(job) /\ job.api = "VerifyAll"
  BY DEF VerifyJob, BatchInv, GoodSlot
<1>2. PICK err : err = VerifyError(job.entries[i], job.network)
  OBVIOUS
<1>3. slots' = [slots EXCEPT ![i].stage = "done", ![i].err = err]
  BY <1>2 DEF VerifyJob
<1>4. slots'[i].err = err /\ \A k \in Positions : k # i => slots'[k] = slots[k]
  BY <1>1, <1>3 DEF SlotsOf
<1>5. VerdictsOwn(job, slots')
  BY <1>1, <1>2, <1>4 DEF ScheduleInv, VerdictsOwn, Positions
<1>6. ScheduleDoesNotMatter'
  BY <1>1, ResultStays DEF ScheduleInv
<1> QED  BY <1>1, <1>5, <1>6 DEF ScheduleInv

\* A step that only sets the outcome has to answer for the result alone.
LEMMA ReturnStep ==
    ASSUME ScheduleInv, UNCHANGED <<job, says, ctx, slots, disturbed>>, ScheduleDoesNotMatter'
    PROVE  ScheduleInv'
BY DEF ScheduleInv

LEMMA CallSchedule == ASSUME BatchInv, ScheduleInv, Call PROVE ScheduleInv'
<1>1. UNCHANGED <<job, says, ctx, slots, disturbed>>
  BY DEF Call
<1>2. CASE ctx = "cancelled"
  <2>1. outcome'.kind = "failed" /\ disturbed'
    BY <1>1, <1>2 DEF Call, ScheduleInv
  <2>2. ScheduleDoesNotMatter'
    BY <2>1 DEF ScheduleDoesNotMatter
  <2> QED  BY <1>1, <2>2, ReturnStep
<1>3. CASE ctx # "cancelled"
  <2>1. PICK c, a, o : outcome = [kind |-> outcome.kind, cause |-> c, at |-> a, out |-> o]
    BY DEF BatchInv
  <2>2. outcome'.kind = "running"
    BY <1>3, <2>1 DEF Call
  <2>3. ScheduleDoesNotMatter'
    BY <2>2 DEF ScheduleDoesNotMatter
  <2> QED  BY <1>1, <2>3, ReturnStep
<1> QED  BY <1>2, <1>3

\* An undisturbed call that returns its entries returns them as their turns left them.
LEMMA EntriesInTurn ==
    ASSUME BatchInv, ScheduleInv, ReturnsEntries, AllDone, ~AnyFailed, job.api # "VerifyAll",
           job' = job, disturbed' = disturbed
    PROVE  ScheduleDoesNotMatter'
<1>1. /\ outcome'.kind = "ok" /\ Positions' = Positions
      /\ \A i \in Positions : outcome'.out[i] = slots[i].entry
  BY DEF ReturnsEntries, Positions
<1>2. ASSUME ~disturbed, NEW i \in Positions
      PROVE  /\ InTurnError(job, job.entries[i]) = "none"
             /\ outcome'.out[i] = IF job.entries[i].arm = "source_account" THEN job.entries[i]
                                  ELSE SignedInTurn(job, job.entries[i]).entry
  <2>1. InTurn(job, i, slots[i])
    BY <1>2 DEF ScheduleInv, SlotsInTurn, Positions
  <2>2. slots[i].stage = "done" /\ slots[i].err = "none"
    BY DEF AllDone, AnyFailed, Failed
  <2> QED  BY <1>1, <2>1, <2>2 DEF InTurn
<1> QED  BY <1>1, <1>2 DEF ScheduleDoesNotMatter

\* AuthorizeBatch reports the first entry, by position, whose turns end with an error.
LEMMA FirstFailureInTurn ==
    ASSUME BatchInv, ScheduleInv, AllDone, AnyFailed, job.api = "AuthorizeBatch",
           ReturnsError(slots[FirstFailure].err, FirstFailure),
           job' = job, disturbed' = disturbed
    PROVE  ScheduleDoesNotMatter'
<1> DEFINE T == {i \in Positions : Failed(i)}
<1>1. Len(job.entries) \in Nat
  BY JobFacts DEF BatchInv
<1>2. \E i \in Positions : Failed(i) /\ \A j \in 1..(i - 1) : ~Failed(j)
  <2>1. T \in SUBSET (1..Len(job.entries)) /\ T # {}
    BY DEF AnyFailed, Positions
  <2>2. PICK i \in T : \A t \in T : i <= t
    <3> HIDE DEF T
    <3> QED  BY <1>1, <2>1, LeastOf
  <2>3. i \in 1..Len(job.entries) /\ Failed(i)
    BY <2>2 DEF Positions
  <2>4. \A j \in 1..(i - 1) : ~Failed(j)
    <3>1. SUFFICES ASSUME NEW j \in 1..(i - 1), Failed(j) PROVE FALSE
      OBVIOUS
    <3>2. j \in Positions /\ j < i
      BY <1>1, <2>3 DEF Positions
    <3>3. j \in T
      BY <3>1, <3>2
    <3> QED  BY <2>2, <2>3, <3>2, <3>3
  <2> QED  BY <2>3, <2>4 DEF Positions
<1> HIDE DEF T
<1>3. PICK at : at = FirstFailure
  OBVIOUS
<1>4. at \in Positions /\ Failed(at) /\ \A j \in 1..(at - 1) : ~Failed(j)
  BY <1>2, <1>3 DEF FirstFailure
<1>5. outcome'.kind = "failed" /\ outcome'.cause = slots[at].err /\ outcome'.at = at
  BY <1>3 DEF ReturnsError
<1>6. ASSUME ~disturbed, NEW j \in Positions
      PROVE  slots[j].err = InTurnError(job, job.entries[j])
  <2>1. InTurn(job, j, slots[j])
    BY <1>6 DEF ScheduleInv, SlotsInTurn, Positions
  <2>2. slots[j].stage = "done"
    BY DEF AllDone
  <2> QED  BY <2>1, <2>2 DEF InTurn
<1>7. ASSUME ~disturbed, NEW j \in 1..(at - 1) PROVE InTurnError(job, job.entries[j]) = "none"
  <2>1. j \in Positions
    BY <1>1, <1>4 DEF Positions
  <2> QED  BY <1>4, <1>6, <1>7, <2>1 DEF Failed, AllDone
<1>8. ~disturbed => slots[at].err = InTurnError(job, job.entries[at]) /\ slots[at].err # "none"
  BY <1>4, <1>6 DEF Failed
<1> QED  BY <1>5, <1>7, <1>8 DEF ScheduleDoesNotMatter

\* The verdicts come out in their places, whoever reached them.
LEMMA VerdictsReturned ==
    ASSUME BatchInv, ScheduleInv, job.api = "VerifyAll", VerifyAllReturns, job' = job
    PROVE  ScheduleDoesNotMatter'
<1>1. /\ outcome'.kind = "verified" /\ Positions' = Positions
      /\ outcome'.out = [i \in Positions |-> slots[i].err]
  BY DEF VerifyAllReturns, Positions
<1>2. DOMAIN outcome'.out = Positions
  BY <1>1
<1>3. \A i \in Positions : /\ outcome'.out[i] = VerifyError(job.entries[i], job.network)
                           /\ job.entries[i] \in Entries
  <2>1. SUFFICES ASSUME NEW i \in Positions
                 PROVE  /\ slots[i].err = VerifyError(job.entries[i], job.network)
                        /\ job.entries[i] \in Entries
    BY <1>1
  <2>2. slots[i].stage = "done"
    BY DEF VerifyAllReturns, AllDone
  <2> QED  BY <2>2, JobFacts DEF ScheduleInv, VerdictsOwn, Positions, BatchInv
<1>4. \A i \in Positions :
         outcome'.out[i] = "none" <=>
            \/ job.entries[i].arm = "source_account"
            \/ /\ job.entries[i].arm \in AddressArms /\ ~VerifyRefuses(job.entries[i])
               /\ job.network # NoNetwork
               /\ \A n \in 1..Len(job.entries[i].nodes) :
                     isSigned(job.entries[i].nodes[n].sig) =>
                        VerifyEntry(job.entries[i], job.network)[n] = "verified"
               /\ \A n \in 1..Len(job.entries[i].nodes) :
                     job.entries[i].nodes[n].addr \in Accounts
  BY <1>3, VerdictMeans
<1> QED  BY <1>1, <1>2, <1>4 DEF ScheduleDoesNotMatter

LEMMA ReturnSchedule == ASSUME BatchInv, ScheduleInv, Return PROVE ScheduleInv'
<1>1. UNCHANGED <<job, says, ctx, slots, disturbed>>
  BY DEF Return
<1>2. ASSUME NEW cause, NEW at, ReturnsError(cause, at),
             job.api = "AuthorizeAll" \/ disturbed
      PROVE  ScheduleDoesNotMatter'
  <2>1. outcome'.kind = "failed"
    BY <1>2 DEF ReturnsError
  <2> QED  BY <1>1, <1>2, <2>1 DEF ScheduleDoesNotMatter
<1>3. CASE job.api = "AuthorizeAll" /\ AuthorizeAllReturns
  BY <1>1, <1>2, <1>3, EntriesInTurn, ReturnStep DEF AuthorizeAllReturns
<1>4. CASE job.api = "AuthorizeBatch" /\ AuthorizeBatchReturns
  <2>1. ctx = "cancelled" => disturbed
    BY DEF ScheduleInv
  <2> QED  BY <1>1, <1>2, <1>4, <2>1, EntriesInTurn, FirstFailureInTurn, ReturnStep
           DEF AuthorizeBatchReturns
<1>5. CASE job.api = "VerifyAll" /\ VerifyAllReturns
  BY <1>1, <1>5, VerdictsReturned, ReturnStep
<1> QED  BY <1>3, <1>4, <1>5 DEF Return

LEMMA InitSchedule == Init => ScheduleInv
<1> SUFFICES ASSUME Init PROVE ScheduleInv
  OBVIOUS
<1>1. /\ ctx = "live" /\ outcome.kind = "called" /\ says = Initially(job)
      /\ \A i \in Positions : slots[i].stage = "waiting"
  BY DEF Init, Initially
<1>2. SlotsInTurn(job, slots) /\ VerdictsOwn(job, slots)
  BY <1>1 DEF SlotsInTurn, InTurn, VerdictsOwn, Positions
<1>3. ScheduleDoesNotMatter
  BY <1>1 DEF ScheduleDoesNotMatter
<1> QED  BY <1>1, <1>2, <1>3 DEF ScheduleInv

LEMMA NextSchedule == BatchInv /\ ScheduleInv /\ [Next]_vars => ScheduleInv'
<1> SUFFICES ASSUME BatchInv, ScheduleInv, [Next]_vars PROVE ScheduleInv'
  OBVIOUS
<1>1. CASE \E i \in Positions : Step(i)
  BY <1>1, MatchSchedule, RefusedSchedule, FailsSchedule, SignSchedule, TakeSchedule,
     VerifySchedule DEF Step
<1>2. ASSUME Cancel \/ \E s \in 1..Len(job.signers), a \in MovedTo : Rotate(s, a)
      PROVE  ScheduleInv'
  BY <1>2, DisturbedStep DEF Cancel, Rotate
<1>3. CASE UNCHANGED vars
  <2>1. UNCHANGED <<job, says, ctx, slots, disturbed, outcome>>
    BY <1>3 DEF vars
  <2>2. ScheduleDoesNotMatter'
    BY <2>1, ResultStays DEF ScheduleInv
  <2> QED  BY <2>1, <2>2, ReturnStep
<1> QED  BY <1>1, <1>2, <1>3, CallSchedule, ReturnSchedule DEF Next

-----------------------------------------------------------------------------
(* The theorems.                                                              *)

(* The invariant of a batch holds under every schedule, whatever keys move,    *)
(* signers fail or contexts are cancelled.                                     *)
THEOREM BatchSound == Spec => []BatchInv
BY InitInv, NextInv, PTL DEF Spec

\* Every slot of a call has the shape the goroutines rely on.
THEOREM BatchTypeCorrect == Spec => []TypeOK
<1>1. BatchInv => TypeOK
  BY DEF BatchInv, GoodSayings, GoodSlot, SlotsOf, TypeOK
<1> QED  BY <1>1, BatchSound, PTL

(* AuthorizeAll and AuthorizeBatch return the caller's entries in their places, *)
(* none without a signature made in this call over the entry as returned.      *)
THEOREM BatchLeavesNoneUnsigned == Spec => []NoneLeftUnsigned
<1>1. BatchInv => NoneLeftUnsigned
  BY DEF BatchInv
<1> QED  BY <1>1, BatchSound, PTL

(* AuthorizeAll asks no signer before the whole batch was validated.           *)
THEOREM BatchValidatesFirst == Spec => []ValidatedBeforeAsked
<1>1. BatchInv => ValidatedBeforeAsked
  BY DEF BatchInv
<1> QED  BY <1>1, BatchSound, PTL

(* Whatever order the goroutines run in, an undisturbed call returns each entry *)
(* as its own signers' turns leave it, or the first entry's error, and         *)
(* VerifyAll's verdicts are those of each entry alone.                         *)
THEOREM ScheduleIsIrrelevant == Spec => []ScheduleDoesNotMatter
<1>1. Spec => []ScheduleInv
  BY BatchSound, InitSchedule, NextSchedule, PTL DEF Spec
<1>2. ScheduleInv => ScheduleDoesNotMatter
  BY DEF ScheduleInv
<1> QED  BY <1>1, <1>2, PTL
=============================================================================
