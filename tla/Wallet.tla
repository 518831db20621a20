------------------------------- MODULE Wallet -------------------------------
(***************************************************************************)
(* adapters/walletsdk: a wallet's own reading of an entry.  It walks the    *)
(* delegate tree and reads account signatures with a second implementation, *)
(* and takes the expiration from its caller where soroauth.VerifyEntry      *)
(* takes the entry's.  Each function returns the error of the early return  *)
(* it takes, "ok" for none; an envelope is the sequence of its entries.     *)
(***************************************************************************)
EXTENDS Signing

\* Mutant: the walk never descends into the delegates.
signatureNodes_TopOnly(e, wanted) ==
    {i \in 1..Len(e.nodes) : e.nodes[i].addr = wanted /\ i = 1}

\* collectSignature: the nodes naming an address, the top level first, at any depth.
signatureNodes(e, wanted) == {i \in 1..Len(e.nodes) : e.nodes[i].addr = wanted}

\* Exactly one {public_key, signature} map: a placeholder is unreadable too.
parseAccountSignature(sig) == isSigned(sig) /\ sig.kind = "account"

NodeError(n, address, payload) ==
    IF ~parseAccountSignature(n.sig) THEN "ErrUnreadableSignature"
    ELSE IF n.sig.key # address \/ n.sig.payload # payload THEN "ErrSignatureNotByKey"
    ELSE "ok"

FirstError(errors) ==
    IF \A i \in DOMAIN errors : errors[i] = "ok" THEN "ok"
    ELSE errors[CHOOSE i \in DOMAIN errors :
                    errors[i] # "ok" /\ \A j \in 1..(i - 1) : errors[j] = "ok"]

\* walletsdk.VerifyEntry for a keypair of this address, NoAddress for a nil one.
WalletVerifyEntry(e, address, validUntil, net) ==
    IF address = NoAddress THEN "ErrMissingSigner"
    ELSE IF address \notin Accounts THEN "address"
    ELSE IF net = NoNetwork THEN "passphrase"
    ELSE IF e.arm = "source_account" THEN "ErrSourceAccountCredentials"
    ELSE IF e.arm \notin AddressArms THEN "ErrUnsupportedCredentials"
    ELSE IF signatureNodes(e, address) = {} THEN "ErrSignatureNotFound"
    ELSE FirstError([i \in 1..Len(e.nodes) |->
             IF i \notin signatureNodes(e, address) THEN "ok"
             ELSE NodeError(e.nodes[i], address, Preimage(e, validUntil, net))])

\* Entries the envelope's own signature covers, or that are somebody else's, are skipped.
WalletVerifyEnvelope(entries, address, validUntil, net) ==
    FirstError([i \in DOMAIN entries |->
        LET err == WalletVerifyEntry(entries[i], address, validUntil, net)
        IN  IF entries[i].arm = "source_account" \/ err = "ErrSignatureNotFound" THEN "ok"
            ELSE err])

\* One entry of Requirements; Inspect has refused an unknown arm and a tree too deep.
\* Only Void counts as missing here, so an empty vector reads as signed.
Requirement(e, address) ==
    LET nodes == signatureNodes(e, address)
    IN  [wanted |-> nodes # {},
         signed |-> nodes # {} /\ \A i \in nodes : e.nodes[i].sig # Void]

-----------------------------------------------------------------------------
(* SignViaFreighter judges the entry the wallet hands back.                   *)

nodesForAddress(e, address) == {i \in 1..Len(e.nodes) : e.nodes[i].addr = address}

Verified(e, net) ==
    ~VerifyRefuses(e) /\ \A i \in 1..Len(e.nodes) : VerifyEntry(e, net)[i] = "verified"

\* The other named networks under which every signature verifies.
networkSignedFor(e, except) == {net \in Networks \ {except} : Verified(e, net)}

\* answer is [kind, entry]: an entry, or the call that ends before there is one (a done
\* context, a nil wallet, a rejection, a locked wallet, another failure, bytes that do not
\* decode).  Nodes are judged in order and the first bad one decides; nothing compares the
\* entry with the one the wallet was asked to sign.
SignViaFreighter(answer, address, net) ==
    LET e == answer.entry
    IN  IF answer.kind # "entry" THEN answer.kind
        ELSE IF VerifyRefuses(e) \/ (net = NoNetwork /\ e.arm # "source_account") THEN "verify"
        ELSE IF nodesForAddress(e, address) = {} THEN "ErrSignatureNotFound"
        ELSE FirstError([i \in 1..Len(e.nodes) |->
                 IF i \notin nodesForAddress(e, address) THEN "ok"
                 ELSE CASE VerifyEntry(e, net)[i] = "verified" -> "ok"
                        [] VerifyEntry(e, net)[i] \in {"unsigned", "cannot_check"} ->
                              "ErrUnreadableSignature"
                        [] OTHER -> IF networkSignedFor(e, net) # {} THEN "ErrWrongNetwork"
                                    ELSE "ErrSignatureNotByKey"])

-----------------------------------------------------------------------------
\* What a wallet makes of the entry when a Freighter-style wallet answers with it.
ViaFreighter(a, net) == SignViaFreighter([kind |-> "entry", entry |-> entry], a, net)

(* The wallet SDK's verifiers agree with the library, whatever calls came      *)
(* before.  An account whose nodes AuthorizeEntry signed passes                *)
(* walletsdk.VerifyEntry for the expiration, the network and the key they were *)
(* signed with and for no other; SignViaFreighter accepts the same entries;    *)
(* what Requirements puts on the wallet's to-do list never passes              *)
(* VerifyEnvelope; and a wallet is blamed for the wrong network only when      *)
(* every signature in the entry is for one and the same other network.         *)
WalletAgrees ==
    \A a \in Accounts, net \in Networks :
        LET nodes == Matches(entry, a)
            byKey == \A i \in nodes : entry.nodes[i].sig.key = a
            here  == \A i \in nodes : entry.nodes[i].sig.payload.network = net
            check(x) == WalletVerifyEntry(entry, a, x, net)
        IN  /\ nodes # {} /\ (\A i \in nodes : SignedByLibrary(i)
                                  /\ entry.nodes[i].sig.kind = "account") =>
                  /\ \A x \in Ledger : check(x) = "ok" <=> byKey /\ here /\ x = entry.exp
                  /\ ViaFreighter(a, net) = "ok" <=> here
            /\ Requirement(entry, a).wanted /\ ~Requirement(entry, a).signed =>
                  \A x \in Ledger : WalletVerifyEnvelope(<<entry>>, a, x, net) # "ok"
            /\ ViaFreighter(a, net) = "ErrWrongNetwork" =>
                  \E other \in Networks \ {net} : \A i \in 1..Len(entry.nodes) :
                      entry.nodes[i].sig.payload.network = other
=============================================================================
