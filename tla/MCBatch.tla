------------------------------ MODULE MCBatch ------------------------------
(***************************************************************************)
(* A small instance of Batch.  The batches mix a source-account entry, flat *)
(* entries of two accounts and a delegates entry; the signer lists have all *)
(* the keys, one missing, a nil and a Void signer, and a repeated address;  *)
(* delegate plans apply, fail and match nothing.  The batches to verify     *)
(* hold signatures that verify, that do not, and none.                      *)
(***************************************************************************)
EXTENDS Batch

Node(a, above, sig) == [addr |-> a, above |-> above, sig |-> sig]
Recorded(arm, a, nodes) ==
    [arm |-> arm, address |-> a, nonce |-> CHOOSE n \in Nonces : TRUE, exp |-> 0,
     invocation |-> CHOOSE v \in Invocations : TRUE, nodes |-> nodes]

Source == Recorded("source_account", 2, <<>>)
Unknown == Recorded("unknown", 2, <<>>)
Flat(arm, a) == Recorded(arm, a, <<Node(a, <<>>, Void)>>)
Tree == Recorded("address_with_delegates", 2,
                 <<Node(2, <<>>, Void), Node(1, <<>>, Void), Node(3, <<1>>, Void)>>)

\* A flat entry that arrives signed over expiration 1 and stores exp.
Signed(exp) ==
    LET e == Flat("address", 1)
        sig == [kind |-> "account", origin |-> "caller", target |-> 1, key |-> 1,
                payload |-> Preimage(e, 1, CHOOSE n \in Networks : TRUE)]
    IN  [e EXCEPT !.exp = exp, !.nodes[1].sig = sig]

Key(a) == [address |-> a, kind |-> IF a \in Accounts THEN "account" ELSE "custom"]
MCSigners == {Key(1), Key(2), Key(3), [address |-> NoAddress, kind |-> "nil"],
              [address |-> 2, kind |-> "void"]}

Job(api, entries, signers, plans, requireAll, workers) ==
    [api |-> api, entries |-> entries, signers |-> signers, exp |-> 1,
     network |-> CHOOSE n \in Networks : TRUE, plans |-> plans,
     requireAll |-> requireAll, workers |-> workers]

Keys == <<Key(1), Key(2), Key(3)>>
Plan(a, ds) == [address |-> a, delegates |-> ds, top |-> Void]

MCJobs ==
    {Job("AuthorizeAll", b, s, {}, r, 0) :
        b \in {<<Source, Flat("address", 2), Tree>>, <<Flat("address_v2", 1), Unknown>>},
        s \in {Keys, <<[address |-> NoAddress, kind |-> "nil"], Key(1)>>},
        r \in BOOLEAN}
    \cup
    {Job("AuthorizeAll", <<Flat("address", 2), Flat("address_v2", 1)>>, Keys, p, FALSE, 0) :
        p \in {{Plan(2, <<Node(3, <<>>, Void), Node(1, <<>>, Void)>>)},
               {Plan(2, <<Node(1, <<>>, Void), Node(1, <<>>, Void)>>)},
               {Plan(3, <<Node(1, <<>>, Void)>>)}}}
    \cup
    {Job("AuthorizeBatch", b, s, {}, FALSE, w) :
        b \in {<<Source, Tree, Flat("address", 2)>>, <<Tree, Unknown, Flat("address", 1)>>},
        s \in {Keys, <<Key(1), [address |-> 2, kind |-> "void"], Key(1)>>},
        w \in {0, 2}}
    \cup
    {Job("VerifyAll", <<Signed(1), Flat("address", 2), Unknown, Source>>, <<>>, {}, FALSE, w) :
        w \in {0, 2, 9}}
    \cup
    {Job("VerifyAll", <<Tree, Signed(0), Signed(1)>>, <<>>, {}, FALSE, w) : w \in {0, 1}}
    \cup
    {[Job("VerifyAll", <<Flat("address", 2), Source>>, <<>>, {}, FALSE, 0) EXCEPT !.network = NoNetwork]}

MCScopes == {{}}
=============================================================================
