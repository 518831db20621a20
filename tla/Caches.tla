------------------------------- MODULE Caches --------------------------------
(***************************************************************************)
(* signer_cache.go and noncetracker.go: the two objects the library lets   *)
(* goroutines share.  A CachedSigner keeps the address of the signer it    *)
(* wraps for a time to live; the in-memory NonceTracker keeps the nonces   *)
(* reserved per address.  Each holds a mutex for the whole of an operation,*)
(* the call to the wrapped signer included.                                *)
(***************************************************************************)
EXTENDS Integers, FiniteSets

CONSTANTS
  Threads,      \* goroutines, each making its calls one after another
  Addresses,    \* the addresses the wrapped signer may answer with
  TTLs,         \* the ttl arguments explored; 0 never expires
  MaxClock,     \* bound: clock ticks
  MaxRotations, \* bound: key rotations of the wrapped signer
  Nonces,       \* nonces of the one address calls race for
  MaxReserves   \* bound: Reserve calls of a thread

NoAddress == "none"     \* the empty string: an address the signer could not give
Free == "free"          \* no thread: nobody holds the mutex

ASSUME CachesAssumption ==
  /\ MaxClock \in Nat /\ MaxRotations \in Nat /\ MaxReserves \in Nat
  /\ TTLs \subseteq Int
  /\ Nonces # {}
  /\ Free \notin Threads

VARIABLES
  ttl, clock,
  current,      \* the address the wrapped signer would answer with now
  rotations,
  cached,       \* [address, fetchedAt]: the CachedSigner's fields
  holder,       \* the thread that holds the mutex, or Free
  call,         \* per thread: what it is doing with the CachedSigner
  heldLast,     \* history: the last clock at which each address was current
  heldSince,    \* history: the addresses current since the last Invalidate
  reserved,     \* the NonceTracker's map, for one address
  reserve,      \* per thread: its Reserve call
  granted       \* history: how often each nonce was granted

cacheVars == <<ttl, clock, current, rotations, cached, holder, call, heldLast, heldSince>>
nonceVars == <<reserved, reserve, granted>>

Idle == [pc |-> "idle", now |-> 0, address |-> NoAddress]
Names == Addresses \cup {NoAddress}

CacheInit ==
  /\ ttl \in TTLs /\ clock = 1 /\ rotations = 0
  /\ current \in Names
  /\ cached = [address |-> NoAddress, fetchedAt |-> 0]
  /\ holder = Free
  /\ call = [t \in Threads |-> Idle]
  /\ heldLast = [a \in Names |-> IF a = current THEN 1 ELSE -MaxClock]
  /\ heldSince = {current}

Tick ==
  /\ clock < MaxClock
  /\ clock' = clock + 1
  /\ heldLast' = [heldLast EXCEPT ![current] = clock + 1]
  /\ UNCHANGED <<ttl, current, rotations, cached, holder, call, heldSince>>

Rotate(a) ==
  /\ rotations < MaxRotations /\ a # current
  /\ current' = a /\ rotations' = rotations + 1
  /\ heldLast' = [heldLast EXCEPT ![a] = clock]
  /\ heldSince' = heldSince \cup {a}
  /\ UNCHANGED <<ttl, clock, cached, holder, call>>

\* An address in hand that has not outlived the ttl answers without a fetch.
Hit == cached.address # NoAddress /\ (ttl <= 0 \/ clock - cached.fetchedAt < ttl)

\* Address takes the mutex and reads the clock; a hit returns at once.
Address(t) ==
  /\ call[t].pc = "idle" /\ holder = Free
  /\ call' = [call EXCEPT ![t] =
       IF Hit THEN [pc |-> "returned", now |-> clock, address |-> cached.address]
              ELSE [pc |-> "fetch", now |-> clock, address |-> NoAddress]]
  /\ holder' = IF Hit THEN Free ELSE t
  /\ UNCHANGED <<ttl, clock, current, rotations, cached, heldLast, heldSince>>

\* The wrapped signer answers, perhaps over a network, with the mutex held.
Fetched(t) ==
  /\ call[t].pc = "fetch"
  /\ call' = [call EXCEPT ![t].pc = "store", ![t].address = current]
  /\ UNCHANGED <<ttl, clock, current, rotations, cached, holder, heldLast, heldSince>>

Store(t) ==
  /\ call[t].pc = "store"
  /\ cached' = [address |-> call[t].address, fetchedAt |-> call[t].now]
  /\ call' = [call EXCEPT ![t].pc = "returned"]
  /\ holder' = Free
  /\ UNCHANGED <<ttl, clock, current, rotations, heldLast, heldSince>>

Again(t) ==
  /\ call[t].pc = "returned"
  /\ call' = [call EXCEPT ![t] = Idle]
  /\ UNCHANGED <<ttl, clock, current, rotations, cached, holder, heldLast, heldSince>>

\* Mutant: Invalidate does not take the mutex.
Invalidate_Unlocked ==
  /\ cached' = [address |-> NoAddress, fetchedAt |-> 0]
  /\ heldSince' = {current}
  /\ UNCHANGED <<ttl, clock, current, rotations, holder, call, heldLast>>

\* Invalidate waits for a fetch under way, whose answer may predate a rotation.
Invalidate ==
  /\ holder = Free
  /\ cached' = [address |-> NoAddress, fetchedAt |-> 0]
  /\ heldSince' = {current}
  /\ UNCHANGED <<ttl, clock, current, rotations, holder, call, heldLast>>

CacheNext ==
  \/ Tick
  \/ \E a \in Names : Rotate(a)
  \/ \E t \in Threads : Address(t) \/ Fetched(t) \/ Store(t) \/ Again(t)
  \/ Invalidate

CacheSpec == CacheInit /\ [][CacheNext]_cacheVars

\* An address handed out was the wrapped signer's own at some moment since
\* the last Invalidate and, when there is a ttl, within it: neither a hit nor
\* a fetch that overlaps a rotation and an Invalidate gives an older one
\* (CachedSigner.Address, Invalidate).
CacheFresh ==
  [][\A t \in Threads :
       call[t].pc # "returned" /\ call'[t].pc = "returned" =>
         LET answer == call'[t].address
         IN  /\ answer \in heldSince
             /\ ttl > 0 => call'[t].now - heldLast[answer] < ttl]_cacheVars

-----------------------------------------------------------------------------
\* NonceTracker.  A call is refused at the door when its context is done.

NonceInit ==
  /\ reserved = {}
  /\ reserve = [t \in Threads |-> [pc |-> "start", nonce |-> CHOOSE n \in Nonces : TRUE, made |-> 0]]
  /\ granted = [n \in Nonces |-> 0]

ReserveStart(t, n, done) ==
  /\ reserve[t].pc \in {"start", "granted", "refused"} /\ reserve[t].made < MaxReserves
  /\ reserve' = [reserve EXCEPT ![t] =
       [pc |-> IF done THEN "refused" ELSE "lock", nonce |-> n, made |-> @.made + 1]]
  /\ UNCHANGED <<reserved, granted>>

\* Mutant: Reserve does not take the mutex.
LockFree_Always == TRUE

LockFree == \A t \in Threads : reserve[t].pc # "locked"

ReserveLock(t) ==
  /\ reserve[t].pc = "lock" /\ LockFree
  /\ reserve' = [reserve EXCEPT ![t].pc = IF reserve[t].nonce \in reserved
                                            THEN "refused" ELSE "locked"]
  /\ UNCHANGED <<reserved, granted>>

ReserveWrite(t) ==
  /\ reserve[t].pc = "locked"
  /\ reserved' = reserved \cup {reserve[t].nonce}
  /\ reserve' = [reserve EXCEPT ![t].pc = "granted"]
  /\ granted' = [granted EXCEPT ![reserve[t].nonce] = @ + 1]

NonceNext ==
  \E t \in Threads :
    \/ \E n \in Nonces, done \in BOOLEAN : ReserveStart(t, n, done)
    \/ ReserveLock(t)
    \/ ReserveWrite(t)

NonceSpec == NonceInit /\ [][NonceNext]_nonceVars

\* However Reserve calls race, each nonce is granted to at most one of them,
\* and a granted nonce stays reserved (inMemoryNonceTracker.Reserve).
NonceOnce == \A n \in Nonces : granted[n] <= 1 /\ (granted[n] = 1 => n \in reserved)

==============================================================================
