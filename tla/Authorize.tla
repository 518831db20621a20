----------------------------- MODULE Authorize -----------------------------
(***************************************************************************)
(* AuthorizeEntry and WithDelegates as functions of their arguments: which  *)
(* early return they take, and what they write when they take none.         *)
(* Signing, Coordinator and Batch call them.                                *)
(***************************************************************************)
EXTENDS Entry

CONSTANTS
    Signers,      \* [address, kind]: what Address() says and the shape Sign returns
    Scopes,       \* address lists a caller passes to AllowResign, {} for none
    NotGiven,     \* ForAddress was not passed
    NoAddress,    \* the empty address string
    Malformed,    \* a string ParseAddress rejects
    NoNetwork     \* the empty network passphrase

SignerKinds == {"nil", "account", "custom", "void"}

ASSUME AuthorizeAssumption ==
    /\ {NotGiven, NoAddress, Malformed} \cap Address = {}
    /\ NoNetwork \notin Networks
    /\ Scopes \subseteq SUBSET (Address \cup {Malformed})
    /\ Signers \subseteq [address: Address \cup {NoAddress, Malformed}, kind: SignerKinds]
    /\ \A s \in Signers : s.kind = "account" => s.address \in Accounts

\* The arguments of AuthorizeEntry: resign is the AllowResign option with its scope.
Resigns == {[given |-> FALSE, scope |-> {}]} \cup [given: {TRUE}, scope: Scopes]
Calls ==
    [exp: Ledger, network: Networks \cup {NoNetwork}, signer: Signers,
     forAddress: Address \cup {NotGiven, NoAddress, Malformed}, resign: Resigns]

Target(c) == IF c.forAddress = NotGiven THEN c.signer.address ELSE c.forAddress

\* AllowResign and its scope; an empty scope covers every address.
resignAllowed(c) ==
    c.resign.given /\ (c.resign.scope = {} \/ Target(c) \in c.resign.scope)

\* Mutants: AllowResign lifts the guard; only the target's own nodes are looked at.
BadSharedExpiration_ResignLifts(e, c) ==
    ~resignAllowed(c) /\ e.arm = "address_with_delegates" /\ e.exp # c.exp /\ AnySigned(e)
BadSharedExpiration_OwnNodesOnly(e, c) ==
    /\ e.arm = "address_with_delegates" /\ e.exp # c.exp
    /\ \E i \in Matches(e, Target(c)) : isSigned(e.nodes[i].sig)

\* Every node of a delegates entry signs one payload, so once any is signed the
\* expiration is fixed.
BadSharedExpiration(e, c) ==
    e.arm = "address_with_delegates" /\ e.exp # c.exp /\ AnySigned(e)

\* Mutant: the scope of AllowResign is ignored.
OverwritesSigned_Unscoped(e, c) ==
    ~c.resign.given /\ \E i \in Matches(e, Target(c)) : isSigned(e.nodes[i].sig)

OverwritesSigned(e, c) ==
    ~resignAllowed(c) /\ \E i \in Matches(e, Target(c)) : isSigned(e.nodes[i].sig)

\* Mutant: only the depth of the tree is checked before signing.
MisorderedDelegates_DepthOnly(e) ==
    /\ e.arm = "address_with_delegates"
    /\ \E i \in Delegates(e) : ~checkTraversalDepth(e.nodes[i])

MisorderedDelegates(e) == e.arm = "address_with_delegates" /\ ~ValidateDelegateOrder(e)

(* The early returns after the context check and before the signer is asked,   *)
(* in their order.  "ok" means that none was taken; "source_account" is the    *)
(* pass-through, no error.                                                     *)
Refusal(e, c) ==
    IF e.arm = "source_account" THEN "source_account"
    ELSE IF e.arm \notin AddressArms THEN "ErrUnsupportedCredentials"
    ELSE IF c.exp = 0 THEN "ErrInvalidExpiration"
    ELSE IF c.signer.kind = "nil" \/ Target(c) = NoAddress THEN "ErrMissingSigner"
    ELSE IF Malformed \in {Target(c)} \cup c.resign.scope THEN "address"
    ELSE IF MisorderedDelegates(e) THEN "delegates"
    ELSE IF Matches(e, Target(c)) = {} THEN "ErrNoMatchingCredentialNode"
    ELSE IF BadSharedExpiration(e, c) THEN "ErrInvalidExpiration"
    ELSE IF OverwritesSigned(e, c) THEN "ErrAlreadySigned"
    ELSE IF c.network = NoNetwork THEN "passphrase"
    ELSE "ok"

\* The key an answer names: an account signer derives its address from its key.
KeyOf(c) == IF c.signer.kind = "account" THEN c.signer.address ELSE Target(c)

(* What Sign returns: a Signer signs the payload it is handed, or returns a    *)
(* placeholder, which AuthorizeEntry writes like any other value.              *)
SignatureOf(e, c) ==
    IF c.signer.kind = "void" THEN Void
    ELSE [kind |-> c.signer.kind, origin |-> "signer", target |-> Target(c),
          key |-> KeyOf(c), payload |-> Preimage(e, c.exp, c.network)]

\* Mutant: only the first matching node is filled.
WriteSignature_FirstMatch(e, c) ==
    LET first == CHOOSE i \in Matches(e, Target(c)) :
                    \A j \in Matches(e, Target(c)) : i <= j
    IN  [e EXCEPT !.exp = c.exp, !.nodes[first].sig = SignatureOf(e, c)]

\* The expiration that was signed over is stored, and every match gets the signature.
WriteSignature(e, c) ==
    [e EXCEPT !.exp = c.exp,
              !.nodes = [i \in 1..Len(e.nodes) |->
                            IF e.nodes[i].addr = Target(c)
                            THEN [e.nodes[i] EXCEPT !.sig = SignatureOf(e, c)]
                            ELSE e.nodes[i]]]

-----------------------------------------------------------------------------
(* WithDelegates: its early returns in their order, and the entry it builds.   *)

\* A Delegate as the caller wrote it; addr may still be Malformed.
Descriptors == [addr: Address \cup {Malformed}, above: Seq(Address), sig: Signatures]

WrapRefusal(e, exp, ds) ==
    IF e.arm \notin {"address", "address_v2"} THEN "ErrUnsupportedCredentials"
    ELSE IF exp = 0 THEN "ErrInvalidExpiration"
    ELSE IF isSigned(e.nodes[1].sig) THEN "ErrAlreadySigned"
    ELSE IF \E i \in 1..Len(ds) : ds[i].addr = Malformed THEN "address"
    ELSE IF buildDelegateNodes(ds) = {} THEN "delegates"
    ELSE "ok"

Wrapped(e, exp, built, top) ==
    [e EXCEPT !.arm = "address_with_delegates",
              !.exp = exp,
              !.nodes = <<[addr |-> e.address, above |-> <<>>, sig |-> top]>> \o built]
=============================================================================
