------------------------------- MODULE Entry -------------------------------
(***************************************************************************)
(* The data of soroauth: a Soroban authorization entry, the preimage its    *)
(* signatures cover, the delegate tree, and what VerifyEntry makes of it.   *)
(*                                                                         *)
(* A credentials tree is kept as the sequence credentialNodes returns: the  *)
(* top-level node first, then every delegate in preorder.  A node carries   *)
(* its own address and the addresses of the delegates above it, so its      *)
(* place in the tree is in the node and no recursion is needed to find it.  *)
(***************************************************************************)
EXTENDS Naturals, Sequences

CONSTANTS
    Accounts,        \* G... addresses, numbered in the order of their XDR encodings
    Contracts,       \* C... addresses, in the same numbering
    Networks,        \* network ids: hashes of the non-empty passphrases
    Nonces,
    Invocations,     \* root invocation trees, opaque here
    MaxLedger,       \* the largest ledger sequence (2^32 - 1 in the code)
    MaxDecodeDepth   \* the nesting bound of every walk (64 in the code)

Address == Accounts \cup Contracts
Ledger == 0..MaxLedger

ASSUME EntryAssumption ==
    /\ Accounts \subseteq Nat
    /\ Contracts \subseteq Nat
    /\ Accounts \cap Contracts = {}
    /\ MaxLedger \in Nat \ {0}
    /\ MaxDecodeDepth \in Nat \ {0}

-----------------------------------------------------------------------------
(* Credentials arms.  "unknown" stands for a discriminant outside the four    *)
(* defined ones; an arm whose union pointer is nil is refused where it is,    *)
(* with an error of its own.                                                  *)
Arms == {"source_account", "address", "address_v2", "address_with_delegates", "unknown"}

\* The arms that addressCredentials finds credentials in.
AddressArms == {"address", "address_v2", "address_with_delegates"}

\* ArmBehavior.IsAddressBound, which decides the preimage variant.
IsAddressBound(arm) == arm \in {"address_v2", "address_with_delegates"}

(* SHA-256 is taken to be injective, so a payload is its preimage.           *)
LegacyPreimages ==
    [variant: {"authorization"}, network: Networks, nonce: Nonces, exp: Ledger,
     invocation: Invocations]
BoundPreimages ==
    [variant: {"authorization_with_address"}, network: Networks, nonce: Nonces,
     exp: Ledger, address: Address, invocation: Invocations]
Payloads == LegacyPreimages \cup BoundPreimages

(* A signature field.  "void" and "empty_vec" are the two placeholders;       *)
(* "account" is the built-in {public_key, signature} vector, "custom" any     *)
(* other ScVal.  origin tells a value a Signer returned to AuthorizeEntry     *)
(* from one that came with the entry or was handed to WithDelegates; target   *)
(* is the address the signature was asked for, key the address of the key     *)
(* that an "account" vector carries, which ForAddress lets differ.            *)
Void == [kind |-> "void"]
EmptyVec == [kind |-> "empty_vec"]
SignedValues ==
    [kind: {"account", "custom"}, origin: {"signer", "caller"}, target: Address,
     key: Address, payload: Payloads]
Signatures == {Void, EmptyVec} \cup SignedValues

isSigned(sig) == sig.kind \notin {"void", "empty_vec"}

Nodes == [addr: Address, above: Seq(Address), sig: Signatures]

Entries ==
    [arm: Arms, address: Address, nonce: Nonces, exp: Ledger,
     invocation: Invocations, nodes: Seq(Nodes)]

\* What the XDR union guarantees of an entry: the flat arms hold one signature field.
WellFormed(e) ==
    /\ e.arm \in {"address", "address_v2"} => Len(e.nodes) = 1
    /\ e.arm = "address_with_delegates" => Len(e.nodes) >= 1
    /\ e.arm \notin AddressArms => e.nodes = <<>>
    /\ Len(e.nodes) >= 1 => e.nodes[1].addr = e.address /\ e.nodes[1].above = <<>>

-----------------------------------------------------------------------------
(* Preimage and Payload: what a signature over e at expiration exp covers.    *)

Preimage(e, exp, net) ==
    IF IsAddressBound(e.arm)
    THEN [variant |-> "authorization_with_address", network |-> net, nonce |-> e.nonce,
          exp |-> exp, address |-> e.address, invocation |-> e.invocation]
    ELSE [variant |-> "authorization", network |-> net, nonce |-> e.nonce,
          exp |-> exp, invocation |-> e.invocation]

-----------------------------------------------------------------------------
(* Delegate trees.                                                            *)

Delegates(e) == 2..Len(e.nodes)
depth(n) == Len(n.above) + 1

\* Every walk visits a node's (possibly empty) nested list one level further down,
\* so a node is refused as soon as the level below it is past the bound.
checkTraversalDepth(n) == depth(n) + 1 <= MaxDecodeDepth

\* validateDelegateLevel over the whole tree: siblings strictly ascend.  Nodes under
\* two equal siblings share an "above", but then the equal siblings are refused too.
ValidateDelegateOrder(e) ==
    /\ \A i \in Delegates(e) : checkTraversalDepth(e.nodes[i])
    /\ \A i, j \in Delegates(e) :
          i < j /\ e.nodes[i].above = e.nodes[j].above => e.nodes[i].addr < e.nodes[j].addr

\* The nodes AuthorizeEntry fills for a target: every node of that address, at any depth.
Matches(e, target) == {i \in 1..Len(e.nodes) : e.nodes[i].addr = target}
AnySigned(e) == \E i \in 1..Len(e.nodes) : isSigned(e.nodes[i].sig)

\* bytes.Compare on the way down from the root: the order of a sorted tree's preorder.
Path(n) == Append(n.above, n.addr)
LexLess(p, q) ==
    \E k \in 1..Len(q) :
        /\ \A m \in 1..(k - 1) : m <= Len(p) /\ p[m] = q[m]
        /\ k = Len(p) + 1 \/ (k <= Len(p) /\ p[k] < q[k])

Arrangements(s) ==
    {p \in [1..Len(s) -> 1..Len(s)] : \A i, j \in 1..Len(s) : p[i] = p[j] => i = j}

(* buildDelegateNodes sorts every level, so its result is the arrangement of   *)
(* the descriptors whose paths ascend.  There is exactly one when no level     *)
(* repeats an address, and none when one does; none either past the bound.     *)
buildDelegateNodes(ds) ==
    {b \in {[i \in 1..Len(ds) |-> ds[p[i]]] : p \in Arrangements(ds)} :
        /\ \A i \in 1..Len(ds) : checkTraversalDepth(b[i])
        /\ \A i, j \in 1..Len(ds) : i < j => LexLess(Path(b[i]), Path(b[j]))}

-----------------------------------------------------------------------------
(* VerifyEntry.  ed25519.Verify holds exactly of the payload that was signed. *)

verifyNode(n, payload) ==
    IF n.addr \notin Accounts THEN "cannot_check"
    ELSE IF ~isSigned(n.sig) THEN "unsigned"
    ELSE IF n.sig.kind # "account" THEN "cannot_check"
    ELSE IF n.sig.payload # payload THEN "invalid"
    ELSE "verified"

\* VerifyEntryContext walks the tree with credentialNodes, so it refuses an entry that
\* walk refuses, and an arm that carries no credentials it knows.
VerifyRefuses(e) ==
    \/ e.arm = "unknown"
    \/ \E i \in Delegates(e) : ~checkTraversalDepth(e.nodes[i])

\* One verdict per credential node; a source-account entry has no node to report on.
VerifyEntry(e, net) ==
    [i \in 1..Len(e.nodes) |-> verifyNode(e.nodes[i], Preimage(e, e.exp, net))]
=============================================================================
