# soroauth in TLA+

TLA+ specifications of soroauth, the Go library and tools that build, sign, verify,
review and submit Soroban authorization entries. TLC checks them on small instances;
TLAPS proves the safety properties of every part but three for every value of the
constants. The specifications are translated from the Go sources; where a comment and
the code disagree, the module follows the code, and a run shows the difference where
one could be stated.

## The system

| Part | State | Operations | Interacts with | What makes it correct |
| --- | --- | --- | --- | --- |
| Entry signing: `authorize.go`, `preimage.go`, `arm.go`, `delegates.go`, `upgrade.go` | none of its own: the entry parties pass around | `AuthorizeEntry`, `WithDelegates`, `UpgradeToV2` | asks a `Signer` | no call invalidates, drops or misplaces a signature |
| Verification: `verify.go`, `adapters/walletsdk` | none | `VerifyEntry`, the wallet's own check, `SignViaFreighter` | reads an entry | agrees with what was signed |
| Coordination session: `coordinator.go` | entry, expiration, map of addresses | `NewCoordinator`, `Record`, views | `AuthorizeEntry` | the views agree, progress is earned, a session completes |
| Batches: `batch.go`, `batch_sign.go` | one slot per entry, a semaphore, a worker pool | `AuthorizeAll`, `AuthorizeBatch`, `VerifyAll` | `AuthorizeEntry`, `WithDelegates`, signers | all or nothing, no dependence on the schedule, always returns |
| Submission: `rpcflow/`, `expiration.go` | the call's snapshot of the account | `SignAndSubmit`, `Submit`, `SimulateRecord` | Soroban RPC, `AuthorizeAll` | priced with signatures, retries land once, what may land is known to the caller |
| Signers: `signer.go`, `ledger.go`, `vault.go`, `webauthn.go`, `secp256r1.go`, `fireblocks/`, `turnkey/`, `remote/`, KMS adapters, the exec helper | address fixed at construction, pending approvals, a chunked exchange | constructor, `Address`, `Sign`, `CheckPossession` | devices, services, helper processes, people | one answer per question, sound for its address and payload; a late or lost answer is never used |
| Signer wrappers: `signer_cache.go`, `network_pinned_signer.go`, `WithRetry`, `noncetracker.go` | cached address, reserved nonces | `Address`, `Invalidate`, `Reserve` | signers | no stale address, no nonce twice |
| Multi-party signers: `threshold.go`, `frost/` | rounds, commitments, shares | `Begin`, `Contribute`, commitments, aggregation | participants | a signature is the work of one round and verifies; no session is left behind |
| Envelopes and decoding: `envelope.go`, `decode.go` | none | reading, rewriting, bounded decoding | simulation results | entries and signatures keep their places |
| Documents and review: `canonical.go`, `inspect.go`, `risk.go`, `diff.go`, `credential_nodes.go` | none | encode, decode, inspect, diff | people and policies | what is read is what is signed; a stale signature is named |
| Policy and attestation: `policy/`, `attestation.go` | rules | `PolicySigner.Sign`, `VerifyAttestation` | signers, authenticators | fail closed; trust is earned |
| Service: `server/` | semaphore, counters, configuration | requests, signals | `VerifyEntry` | requests are accounted for, shutdown drains |
| Command line tool: `cmd/soroauth` | none | its commands | all of the above | exit code, printed entries and documents tell the same story |

The hard behaviours are: many parties editing one value in an order nobody controls; an
expiration shared by all signatures of a tree; signers whose address or key changes
while a call runs; goroutines behind a semaphore with errors, panics and cancellation;
RPC calls, remote signers and approval services whose answer is lost after they took
effect, and retries; people who decide after a timeout; participants that are late,
send twice or are too many; pairs of separately written walks, encoders and verifiers
that must agree. `PROJECT.json` lists them as hazards, each at its line.

## Modules

| Module | Models |
| --- | --- |
| `Entry` | entries, preimages, delegate trees, `VerifyEntry`, as values and functions |
| `Authorize` | `AuthorizeEntry` and `WithDelegates` as functions: which early return, what is written |
| `Signing` | the life of one entry under any sequence of calls; composed from `Authorize` |
| `Wallet` | `walletsdk.VerifyEntry`, `VerifyEnvelope`, `Requirements`, `SignViaFreighter`, of the entries of `Signing` |
| `Coordinator` | a session; calls `Authorize` |
| `Batch` | one `AuthorizeAll`, `AuthorizeBatch` or `VerifyAll` call; calls `Authorize` |
| `RpcFlow` | a caller, `rpcflow`, and an external RPC and network |
| `SignerValues` | what signing backends exchange with the world and how each judges an answer |
| `SignerContract` | the abstract specification: what `AuthorizeEntry` may rely on of any `Signer` |
| `Signers` | one `Sign` call on any of fifteen backends, with wrappers, exchanges, timeouts, rotation |
| `Threshold` | the reference `ThresholdSigner` and its rounds |
| `Frost` | the FROST coordinator, `FROSTSigner.Sign` calls and participants on their own |
| `Caches` | `CachedSigner` and the nonce tracker under concurrent calls |
| `Server` | the HTTP service from configuration to exit |
| `Fallible` | what the next four share: results of functions that may refuse |
| `Canonical` | the canonical JSON encoder and decoder |
| `Review` | `Inspect`, `Analyze`, `DiffEntries`, the credential node walk; on `Canonical`'s values |
| `Policy` | the policy signer and its rules; on `Review` |
| `Envelope` | reading and rewriting envelopes, `SimulateRecord`, bounded decoding |
| `Attestation` | `VerifyAttestation` |
| `Cli` | how a run of each command ends |
| `Authorize_proofs` | lemmas about `AuthorizeEntry` and `WithDelegates` that several proofs use |
| `Signing_proofs` | the theorems about `Signing` and `Wallet` |
| `Coordinator_proofs`, `Batch_proofs`, `RpcFlow_proofs`, `Signers_proofs` | the theorems about those modules |
| `Shared_proofs` | the theorems about `Threshold`, `Frost`, `Caches` and `Server` |
| `Tools_proofs` | the theorems about `Attestation`, `Cli` and `Envelope` |
| `MCSigning`, `MCCoordinator`, `MCBatch`, `MCSigners`, `MCShared`, `MCTools` | instances for TLC |
| `MCAttestation`, `MCCli` | the inputs of `Attestation` and `Cli` in `MCTools` |

**Data.** In the signing core an address is a number, in the order of XDR encodings
(`bytes.Compare`). A tree is the preorder list `credentialNodes` returns, each node with
the addresses above it. A payload is its preimage: SHA-256 is taken to be injective,
and a network id to be its passphrase. A signature is a record of its shape, who made
it, for which address, with which key and over which payload; `ed25519.Verify` holds
exactly of that payload. The invocation tree is opaque there: signing never looks into
it. Lines that only format errors, emit hooks or copy values are in the mapped ranges
and have no state.

**Signing and Wallet.** `entry` is the value the parties hold, `call` the last call. All
operations copy, so a refused call leaves `entry` unchanged. `Refusal` lists the early
returns of `AuthorizeEntry` in their order. `origin` on a signature tells the library's
signatures from the values a caller brought along: about those nothing is promised
except that they are not silently replaced. `Wallet` is evaluated on every reachable
`entry`: it is a second implementation of the walk and of the signature reader.

**Coordinator.** `held`, `validUntil`, `network`, `signedMap` are the struct's fields;
`produced` is a history of what signers answered. A `Record` may fail at any time
(context, guards, signer) and then changes nothing. Callers that were refused may open
a session again.

**Batch.** `slots` holds each entry's progress, `says` what each signer's `Address()`
returns now. `AuthorizeAll` and `AuthorizeBatch` share the steps; `MayMatch`, `MaySign`
and the return operators hold what differs. One `AuthorizeEntry` call is one step: it
works on its own copy, so only the instant of the `Address()` and context reads
matters, and those are interleaved with `Rotate` and `Cancel`. `VerifyAll`'s workers
take entries from the channel in order (`TakeJob`) and finish in any order (`VerifyJob`).

**RpcFlow.** `flow` is the call in progress, one phase per RPC round trip. `account` is
the caller's account object, which a retry reuses. `ledger`, `chainSeq`, `pool` and
`landed` are the external network: any call may fail, the request of a failed send may
have arrived, pooled transactions may be dropped, and ledgers close at any time.

**Signers.** `sc` is the configuration, `pc` where the call stands, `ring` the keys the
holder has had (the last one signs now), `txs` the Fireblocks transactions a person
decides about, `heard` what the outside said. `new` runs the constructor, `loop` is
`WithRetry` with its attempts and back-off, `enter` the early returns of a backend, `wait`
and `poll` its exchange, `inner` the judged answer. A key holder answers honestly, with
another key, over other bytes, with something unreadable, or not at all. Turnkey is
asked to hash what it is given (`Given`), so its honest answer is over another value than
the payload. A remote server is the reference server (`remote`), whose answers are known,
or one of any make (`remote_other`), whose value the client hands through. A wallet's
keypair verifies its own signatures, whatever its address says. `Waits` and `Bounded` say
where a call waits for somebody else and where the code itself bounds that wait. The device
protocol keeps its chunking (`MaxAPDU`, `PathLen`), because the boundary is a hazard.
A multisig asks its members in sorted order, which is: always the smallest key that has
not signed. P-256 arithmetic is a number compared with half the group order.

**Threshold, Frost, Caches, Server** share nothing with one another; `MCShared` chooses
one of them in the initial state. Mutexes are modelled where the code holds them across
a call (`CachedSigner.Address` holds its mutex while it fetches); an operation under one
mutex without such a call is one step. The FROST library and `net/http` are external.
In `Server` a request carries what `VerifyEntry` will say of its entries, and a panic in
it; a request's steps stop when the process has exited.

**Canonical, Review, Policy, Envelope, Attestation, Cli** are pure. `MCTools` picks a
function and an input in the initial state and computes the result in one step;
`Envelope`, `Attestation` and `Cli` have such a specification of their own
(`EnvelopeSpec`, `AttestationSpec`, `CliSpec`), with the set of inputs as a constant, which
the proofs are about and `MCTools` is composed of. `Envelope` is about places: what one
entry is inspected to be is the constant `InspectEntry`, which the runs set to `Inspect` of
`Review`; the nodes that carry an entry's signatures are the constant `SignatureNodes`; and
what `AuthorizeAll` returned is part of the input: every entry in its place, signed for its
own preimage on some node, the top or a delegate's (`SignedFor`). A
conversion that may refuse returns the set of its results, empty or one value. A
canonical document is a function from the names of its present fields, since presence
is what the decoder checks; null, a list left out and a key in another case are read as
`encoding/json` reads them (`Fields`, `ListOf`, `Spellings`); text, escaping and layout are
left out. A certificate path has any length (`ChainVerifies`); its issuer is the key that
signed it. `Cli` knows an entry
by what the library says of it, and gives the exit code, the entries printed and the
JSON documents.

## Runs

| Run | Checks | Bounds |
| --- | --- | --- |
| `signing` | `SignaturesCoverEntry`, `EveryDepthFilled`, `SignedOnlyWhenAcceptable`, `VerifyAgrees`, `WalletAgrees`, `NoSilentOverwrite`, `SharedPayloadPinned` | 2 accounts, 1 contract, 2 networks, ledgers 0..2, depth bound 3; about 10,000 states; `TypeOK` is a theorem and not run |
| `coordinator` | `ViewsAgree`, `RecordedWereSigned`, `FreshSessionCompletes` | 6 entries, one address at two delegate depths, the account below its own delegate, ledgers 0..2; about 1,200 states |
| `coordinator_entry` | `EntryCarriesRecorded`, violated | the same |
| `batch` | `NoneLeftUnsigned`, `ValidatedBeforeAsked`, `ScheduleDoesNotMatter`, `CallReturns` | batches of 2 to 4, up to 3 signers, pools smaller than, as large as and larger than the batch, 1 rotation; about 16,000 states |
| `rpcflow` | `SentFitToLand`, `RetryLandsOnce`, `SentAreKnown`, `CallReturns` | 2 attempts, 8 ledgers, largest ledger number 9; about 49,000 states |
| `rpcflow_preconditions` | `PreconditionsKept`, violated | the same |
| `signers` | `ImplementsContract`, `HonestAnswerAccepted`, `LateAnswerUnused`, `NoOrphanTransaction`, `PossessionProves`, `SignReturns` | 15 backends, 3 keys, 1 rotation, 4 bytes per APDU with a path of 2; about 60,000 states |
| `signers_retry`, `signers_turnkey` | `RefusalIsFinal`, `TurnkeyBelieved`, each violated | the same |
| `shared` | `RoundIsolation`, `AggregateTrue`, `NoSessionLeak`, `NonceOnce`, `RequestsAccounted`, `CacheFresh` | 3 parties, 2 rounds, a 2-of-3 FROST group, 2 goroutines, clock 0..5, 2 requests; about 1.2 million states |
| `shared_surplus` | `ParticipantsSuffice`, violated | a FROST call with 3 participants of which 2 suffice |
| `tools` | `CanonicalFaithful`, `DiffFindsStale`, `PolicyFailsClosed`, `EnvelopeAligned`, `TrustIsEarned`, `ExitTellsTruth`, `CleanRunSucceeds`, `OneDocument` | values of every arm, trees to one level past depth 4, ledgers modulo 16, short envelopes with delegates entries, chains of up to three certificates; about 116,000 states |

*Why the bounds are enough.* Two non-zero ledgers give a right and a wrong expiration;
two networks a right and a wrong one; three addresses give a sibling order to break, a
nested level and the account as its own delegate. Depth bound 3 has trees on both sides
of it. In a batch, three entries and two workers have an entry that waits, one that
runs and one that failed, and one rotation is what can fall between a match and its
signature. Two attempts are what a retry needs, and a first ledger near `MaxLedger`
makes the expiration overflow happen. A signer sees a key before and after one
rotation; preimages shorter than, equal to and longer than a chunk reach every branch of
the device loop. Two goroutines race for one mutex or one nonce; two rounds make a share
late for one and early for another; two requests fill a semaphore of one. For the pure
functions the inputs are enumerated by arm and by departure from a good input (one or
two at a time), because the checks in the code are independent of each other.
`MaxRotations`, `MaxAttempts`, `LastLedger`, `MaxClock`, `MaxReserves`, `MaxRounds`,
`MaxLoose` and `MaxListed` are bounds of the models, not of the code; `DepthLimit`,
`LedgerSpan`, `MaxLedger`, `InputLimit`, `MaxCredentialIDLength`, `MaxAPDU`, `PathLen` and
`MaxSignatures` are the code's limits made small.

*Deadlock* is checked for `signing`, the coordinator and the signers, whose calls end in
a state that may stutter. `Batch` is one call, `RpcFlow` a caller who makes a bounded
number, `MCShared` objects with bounded callers and a service that exits, `MCTools` one
evaluation: they end, so their configurations switch the deadlock check off.

### Refinement

`SignerContract` is what `AuthorizeEntry` relies on: a question is answered once, with
an error or with a value sound for exactly its address, payload and network pin.
`ImplementsContract` checks that `Signers`, with every backend, wrapper, rotation and
timeout, implements it, under a mapping that hides exchanges, retries and timers;
`SignImplementsContract` proves it for every instance.
Backends that hand a value through unseen (`SignerFunc`, passkeys, the client of a remote
server of any make) are held only to what they check, and a wallet's signer to the shape
and the address, since it takes its keypair's word for the rest (`SelfVouched`). `MCBatch`, `Signing` and `Coordinator` use signers as this
contract describes them.

### Fairness

- `Coordinator`: a party whose address remains is asked again until its signer
  answers. This is an assumption on the caller: the session has no loop of its own.
- `Batch`: the Go scheduler runs every goroutine that can run and the semaphore's
  channel serves its senders. That a signer returns at all is its own contract; it
  is handed the context.
- `RpcFlow`: every RPC call returns, with an answer or an error. The calls are
  handed a context; the command line tool gives it a deadline, and a library caller
  has to. Nothing is assumed about the network: ledgers need not close.
- `Signers`: the program's own steps are taken where it waits for nobody outside, and
  where the code bounds the wait (`Bounded`): the HTTP clients it makes for itself have a
  timeout, and a helper that leaves no child behind is killed at its deadline. Timers fire.
  Nothing is assumed of devices, KMS clients, wallets, callbacks, HTTP clients a caller
  brings, people or helpers that fork: none of those waits has a timeout, and `SignReturns`
  promises nothing there.

### What the violation runs show

- `coordinator_entry`: `Record` drops the entry that `AuthorizeEntry` returns
  (`coordinator.go:220`) and keeps its own earlier copy. After a successful `Record`
  the session reports the party as signed while `Entry()` returns nodes without
  signatures, against the comment at `coordinator.go:302`. It follows that the "already
  signed" guard never stops a party recorded in the session from recording again.
- `rpcflow_preconditions`: `Submit` rebuilds the transaction with an infinite timeout
  (`rpcflow/submit.go:366`), against the comment at `rpcflow/submit.go:206` which says
  that memo and preconditions of the caller's envelope are submitted.
- `signers_retry`: `IsSignatureRejection` (`signer.go:574`) knows neither a Turnkey policy
  denial nor a person's rejection at Fireblocks, a Ledger or a helper, so `WithRetry` asks
  again, against the comment at `signer.go:585`.
- `signers_turnkey`: `TurnkeySigner.Sign` asks for `HASH_FUNCTION_SHA256` (`turnkey.go:235`) and
  verifies over the payload as it was (`turnkey.go:286`): the service that does as it is
  asked is refused. `HonestAnswerAccepted` is therefore about the other backends.
- `shared_surplus`: a FROST call with more participants than the threshold always fails,
  because the first threshold shares are aggregated against everybody's commitments
  (`frost/frost.go:249`), against the comment at `frost/frost.go:448`.

### Other observations

Met while modelling; the modules have them as the code does, and the properties say what
they leave out because of them.

- Coordinator: `SignedCount` counts marks, which are per address and include the top-level
  account's (`coordinator.go:282`), where the comment at `coordinator.go:279` says nodes;
  `ViewsAgree` holds it to `State`'s count where every mark belongs to one tracked node. A
  session opened at another expiration than the entry stores accepts its first `Record` and
  refuses all later ones (`coordinator.go:211`), so `FreshSessionCompletes` is about sessions
  opened at the stored one.
- Signers: the exec deadline kills the helper only; a child that holds its output keeps
  `Run` waiting, since no `WaitDelay` is set (`exec_signer.go:178-186`), where the comment at
  `exec_signer.go:25` says that a wedged helper cannot hang the tool. `walletsdk.NewSigner`
  never compares the keypair's key with its address (`keypair.go:138-148`), where the comment
  at `keypair.go:136` says it refuses; `CheckPossession` does find it (`PossessionProves`).
- Canonical documents: an entry with an empty byte string is encoded to a document the
  decoder refuses (`canonical.go:1691`), where `docs/canonical-json.md:4` says lossless;
  `sub_invocations` and `nested` may be missing or null (`canonical.go:921`, `:942`), against
  `docs/canonical-json.md:119` and `:129`; `type` beside `TYPE` passes the check for duplicates
  (`canonical.go:1777`) and one of the two is ignored, against `docs/canonical-json.md:125`.
  `CanonicalFaithful` names the three as its exceptions.
- Also there, and in diff and review: a change between the two address-bound arms is called
  a payload change (`diff.go:440`) although both have one preimage, against the comment at
  `diff.go:107` (`DiffFindsStale` has the converse under one arm only);
  `canonical.go:431` never encodes a `from_asset` preimage; a diff of entries that differ in
  the order of sibling delegates only has no changes (`diff.go:549-613`; `DiffFindsStale` says so); a signature that moves to another
  node is not listed as stale; the risk check underflows for a ledger behind the current one
  (`risk.go:145`) and fills defaults into the caller's configuration (`risk.go:296`);
  `Clone` always fails (`equal.go:52`); after a consumer of the node iterator stops inside a
  nested level the level above calls it again (`credential_nodes.go:117`).
- Policy: `AddressBoundRule` passes a legacy preimage, whose credentials it does not know
  (`policy/rules.go:277`), and so never refuses, against the comment at `rules.go:261`
  (`PolicyFailsClosed` says so); the expiration of a legacy preimage is not looked at
  (`policy.go:211-220`), so one of zero reaches the inner signer; `policy.go:148-151` writes a field lazily
  without synchronisation.
- Threshold: shares are counted by their first 32 bytes (`threshold.go:181`) and `Sign`
  returns the last completed round's signature whatever payload it is handed
  (`threshold.go:137`).
- Wallet SDK: `SignViaFreighter` never compares the wallet's entry with the one it asked
  to have signed, and accepts a signature by any key, since `soroauth.VerifyEntry` checks
  against the key the signature carries; `walletsdk.VerifyEntry` passes a signature over
  the caller's expiration even where the entry stores another, against the comment above
  it; `Requirements` counts an empty vector as a signature; its walks have no depth bound.
- Command line: `verify` cuts `--valid-until` to 32 bits (`cmd/soroauth/verify.go:252`, `:339`),
  against the help text at `verify.go:43`, so `ExitTellsTruth` speaks of numbers within the
  range of ledgers; `inspect --text` on an envelope panics
  (`inspect.go:140`); `--quiet` can hold back the hash `submit` prints
  (`verbosity.go:125-137`), and its JSON error drops it; `submit` does not see unsigned
  nodes of contract addresses (`submit.go:330-350`); `explain-error` ends in zero in text
  form (`explain_error.go:205`); an unreadable entry argument ends in 1, not 2; `verify`
  of an envelope without entries ends in zero.

## Proofs

The theorems are about the safety part of each specification and hold for every value
of the constants that meets the named assumptions: any number of entries, nodes,
signers, workers, threads, rounds, requests, retries, operations and command lines. TLC
evaluates the assumptions on the instances. No theorem bounds what TLC has to bound,
except that `MaxRotations`, `MaxAttempts` and the like are still there, as arbitrary
numbers.

### Signing

`Signing_proofs` proves the properties of the `signing` run, type correctness, and that
`WithDelegates` builds ordered trees, as theorems about `Spec`, for all sets of addresses,
networks, entries, descriptor trees and signers and all values of `MaxLedger` and
`MaxDecodeDepth`. The assumptions are `EntryAssumption`, `AuthorizeAssumption` and
`SigningAssumption`: addresses are numbers (they have a total order), the constants for
malformed or missing values are none of the real ones, an account signer's address is
an account (it is derived from the key), and entries, descriptors and values from
outside are well formed and not yet signed by the library. TLC evaluates all three on
the instances.

The argument:

1. `TypeCorrect`: `TypeOK` is inductive. `WrittenSignature`, `WrittenEntry` and
   `WrappedEntry` say what the two writing operations return; `FunctionIsSeq` and
   `BuiltNodes` give the sequences their types.
2. `StepCases`: a step leaves the entry alone, is an accepted `AuthorizeEntry`, or
   yields an entry with no signature of the library. This reduces each invariant to
   the one case where a signature is written.
3. `SignaturesStayValid`: the interesting case is a node that was signed before and is
   not the target. `ExpirationKept` shows that then the entry has two nodes, so it is
   a delegates entry, and the guard on the shared expiration pins the expiration.
   `TypeOK` is the strengthening this needs: a flat entry has one node.
4. `SignaturesFillEveryDepth` and `SignedIsAcceptable` are inductive together with
   `TypeOK`.
5. `VerifyAcceptsSigned` follows from 3 and 4 without induction.
6. `SignaturesAreKept`, `PayloadIsPinned` and `WrapsOrdered` are proved of one step from
   a state with `TypeOK`. `WrapsOrdered` rests on `SiblingsAscend`: under one parent,
   ascending paths are ascending addresses.
7. `WalletsAgree` compares two readings of one entry, so it needs what 1, 3 and 5 say of
   that entry (`EntryFacts`) and no induction of its own. `WalletReads` and
   `FreighterReads` say what the wallet's verdict is in terms of the entry's nodes;
   `FirstErrorFound` (the first error of a list is one of it, and there is none only if
   all are "ok") is what lets the order of its checks be forgotten.

`BuiltNodes`, `SiblingsAscend`, `WrittenEntry` and the other lemmas about the two
operations as functions are in `Authorize_proofs`. They are stated for `AnyCalls`, which
lets a signer give another address than the one it was configured with, because a batch
can meet such a signer.

### Coordinator

`SessionInv` adds to `TypeOK` and `RecordedWereSigned` that nothing is recorded before a
session is open, and that the map of an open session has every delegate's address and
calls unsigned only addresses of delegates (`MapTracksNodes`). `SessionViewsAgree` needs
that last part: `IsComplete` reads the map, `Remaining` and `State` read the nodes, and the
counts agree because every address in the map has a node. `SignedCount` is brought in by
counting through a bijection, where no two tracked nodes share a marked address.

### Batch

`BatchInv` follows one slot. `GoodSlot` says that the entry in a slot is still the caller's
(address, nonce, invocation; all of it when it is a source-account entry), that signers
are left to ask exactly while the slot is "matched", that each of them is a real signer
which gives an address, and that a slot ends without an error only with a signature of
this call over the entry as it stands (`SignedHere`). The last part survives later
signers because `SignEntry` establishes it anew: the last signature is always over the
entry that is returned. That a matched signer still gives an address after its key has
moved is what keeps `AuthorizeEntry` from refusing with `ErrMissingSigner` after somebody
was asked, which `BatchValidatesFirst` needs. `LeastOf` (a set of indices has a least
element) makes "the next signer" a signer of the list.

`ScheduleIsIrrelevant` compares the call with a reference that runs each entry's signers
one after another, in the order of the list (`Turns`, a recursive function). That the
recursion has a solution (`TurnsDefined`), and that nothing happens between two turns
(`TurnsRest`), is shown by the least position where it would fail. `ScheduleInv` says of an
undisturbed call that every slot, at any time, stands where the turns of its signers have
brought it (`InTurn`): the signers still to come are those from some turn on, and the entry
is what the turns before left. A goroutine's step is then the next turn (`WhoseTurn`,
`TurnOf`) whatever the other slots do, and for the returned error the first failure among
the slots is the first failure among the references (`FirstFailureInTurn`). The attempt
showed that the property had to name the network: without one, `VerifyAll` passes no entry
but those of the source account.

### RpcFlow

`FlowInv` says that the caller's account never moves, so everything on the wire carries
one sequence number (`OneSequence`); that the network has used that number exactly when
it has applied one transaction (`OneLanding`); and that a call reaches "send" only with
entries that are signed and whose price is the one the enforce pass reported (`Priced`).
`RetryIsSafe` is then counting to one; `SentTransactionsFit` and `SubmissionsAreKnown` are
conjuncts of it, the latter because a transaction enters the network only with a send
that is answered for, by `OnSent` or as unanswered, in the same step.

### Shared objects

- `Threshold`: what a session holds was sent for its own round (`SessionInv`), and what it
  assembled stays assembled when later shares come. Shares with different identifiers
  are as many as their identifiers (`AsManyIdentifiers`), which turns the map's length
  into a count of identifiers; that two parties may share one is the code's
  (`threshold.go:176-181`), and the theorem says no more.
- `Frost`: a round that is complete was completed by an aggregate that verified
  (`FrostSessionsInv`), and an answer came from the call's own session; a call has a
  session only between `Begin` and its return (`CallsInv`). The assumption that callers
  and rounds opened from outside are different comes from `defaultRoundGen`.
- `Caches`: the lock is held by the thread that fetches, and what is stored or about to be
  was the signer's address at the time noted with it (`CacheInv`); the nonces in the
  tracker's map are the ones granted, each once, and what a call has read of the map is
  still true while it holds the lock (`NonceInv`).
- `Server`: the invariant counts. The requests counted under a label are as many as those
  that ran to their end with it, a slot is held only while `verifyHandler` runs, the slots
  taken are at most the semaphore's size, and once the API is drained nothing is under way.

### Signers

`Signers_proofs` shows that `Spec` implements `SignerContract` (`SignImplementsContract`) and
that the four invariants of the `signers` run hold, for every set of scenarios, keys and
networks, any preimage length, APDU size and number of attempts. `ScenarioAssumption` types
the scenarios and says that a ledger has a key; `SignerAssumption` that keys are numbers,
their byte order.

1. `JudgeJudges` and `BackendsJudge`: whatever is heard, a backend's judgement is an error or
   the one signature heard, verified under the key it must be made with; and the
   signature that was asked for is never refused, but by Turnkey's. `HelperIsSound`, `RemoteIsSound`,
   `AssertionIsSound` and `PassThroughIsSound` do the same for the other kinds of answer.
   `AssertionIsSound` carries the arithmetic of low-S for any group order.
2. `Inv` is the inductive invariant, one lemma per action. `AnswerSound` is the contract one
   step early: at "inner" the backend's answer is permitted and sound. It needs `PinHeld`
   and `Waiting` (the checks made before the exchange still stand when the answer comes),
   `Collected` (a multisig's signatures ascend and lie below every key still to come) and
   the backend's address, which no step after construction changes.
   `HonestAnswerAccepted` needs `StreamBounded`: the last chunk ends exactly at the
   preimage's end. `LateRefused` and `TxsTracked` follow lateness and open transactions
   through the retry loop.
3. Refinement: a constructor's step is `Construct`, `Refuse` or hidden (`NewRefines`), the pin is
   `Ask` or `Refuse` (`PinRefines`), a wrapper's return is `Answer` (`ReturnRefines`), and every
   exchange and everything the world does is a stutter (`RestIsHidden`).

`PossessionIsProof` needs no invariant: it is about what `verifyAccountPossession` concludes
from any value.

### Tools

`Tools_proofs` is about functions of one input, so no invariant has to be found; the
work is in what the functions return.

- `TrustEarned`: `AttestationAssumption` only says that a certificate list is a list.
  `VerifyAttestation` is a chain of lists of checks of which the first refusal counts;
  `RefusalFound` turns "ok" into "every check passed", one lemma per list turns that into
  what was checked (`ClientDataChecked`, `AuthDataChecked`, `CertificateChecked`, ...), and
  `ChainLeads` follows a path of any length to a root: whoever holds the leaf's issuer to be
  genuine holds every issuer on the path to be (the least position where that fails would
  follow one where it holds), which is how the property says it, without a path
  (`VouchedFor`).
- `OneDocumentIsRead` and `ExitCodeIsTrue`: `CliAssumption` says which inputs can occur
  together (`Possible`: one entry unless a file or an envelope is given, every item of an
  envelope an entry, a source-account entry verifies; an envelope may have no entries). There is
  a lemma per command for what it writes and one for what its exit code tells
  (`SignTold`, `VerifyTold`, ...); `DispatchCases` and `RunTold` add the settings, which are
  decided before any command runs.
- `PlacesAgree`: `EnvelopeAssumption` says that envelopes are records with lists, and that
  `AuthorizeAll` returned every entry in its place, of the same nodes, each that needs a
  signature signed on some node and for its own preimage wherever a node is new
  (`Carries`); a delegates entry may keep a void top. That this is so of `AuthorizeAll` is the
  matter of `Batch` and `Signing`. `InspectEntry` and `SignatureNodes` are any operators.
  `EnvelopeEntries` flattens a list of lists; `FlattenDefined` solves that recursion and
  `ListsNext` carries "every entry so far once, in order, with its place" (`ListsUpTo`) over
  one operation. Payloads and reports have these places because they are made entry by
  entry (`AllPicks`); the payload filed for a place is the signed one because an entry has
  at most one preimage (`OnePreimage`); a recorded list is the whole list of the new
  envelope because it has one invocation (`OneInvocation`).

### Only model-checked

- Liveness (`FreshSessionCompletes`, both `CallReturns`, `SignReturns`): out of the prover's
  reach.
- `CanonicalFaithful`, `DiffFindsStale`, `PolicyFailsClosed`: `Canonical`, `Review` and `Policy`
  recurse over values and trees with `RECURSIVE` operators, which the prover does not
  take, and what they compute for every tree is an induction over the tree. (The
  recursions that are proved about, `Turns` and `FlattenSeq`, are functions of a position
  in a list, for which the least counterexample does.)
- `CleanRunSucceeds`: it is about the concrete good runs that `MCCli` lists.

## Not modelled

- Byte formats: strkey, XDR, base64, CBOR, DER, certificates, JWT and request stamps.
  They are abstracted to what the checks tell apart.
- `planner.go`, `invocation.go`, rendering (`treerender.go`, `tui.go`), `compat` tables and
  byte comparison: summaries and layout of one value; no decision rests on them.
- Hooks: they observe, and change no signing state.
- The gRPC service: a second front end to the same calls, without state of its own.
- `Coordinator.MarshalState` and `ValidateExpirationConsistency`: they read a session.
- `walletsdk.Sign`: `AuthorizeEnvelope` with one signer; a consumer of the node iterator
  that stops early.
- In the command line tool, completions, the manual page, version and build helpers,
  prompts and texts.
- Bindings, scripts, fixtures and generated code.

`PROJECT.json` gives every part its status and reason.

## Plan

The models of the plan are done, and every safety property of the runs is proved except
the four under "Only model-checked". A further step would be an induction principle for
invocation and delegate trees, with the trees as functions of paths instead of
`RECURSIVE` operators, for `Canonical` and `Review`.
