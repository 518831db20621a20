----------------------------- MODULE MCSigning -----------------------------
(***************************************************************************)
(* A small instance of Signing: two accounts and a contract, two networks,  *)
(* ledgers 0..2.  The received entries cover every arm, a mis-ordered tree  *)
(* and a tree that arrives partly signed; the descriptor trees cover a      *)
(* sibling order to be sorted, an address at two depths, a repeat and a     *)
(* tree past the depth bound.                                               *)
(***************************************************************************)
EXTENDS Wallet

Node(a, above, sig) == [addr |-> a, above |-> above, sig |-> sig]

Base(arm, nodes) ==
    [arm |-> arm, address |-> 2, nonce |-> CHOOSE n \in Nonces : TRUE, exp |-> 0,
     invocation |-> CHOOSE v \in Invocations : TRUE, nodes |-> nodes]

\* A value that was signed elsewhere, over a legacy preimage of another expiration.
Foreign ==
    [kind |-> "account", origin |-> "caller", target |-> 1, key |-> 1,
     payload |-> [variant |-> "authorization", network |-> CHOOSE n \in Networks : TRUE,
                  nonce |-> CHOOSE n \in Nonces : TRUE, exp |-> 2,
                  invocation |-> CHOOSE v \in Invocations : TRUE]]

MCReceived ==
    {Base("source_account", <<>>), Base("unknown", <<>>),
     Base("address", <<Node(2, <<>>, EmptyVec)>>),
     Base("address_v2", <<Node(2, <<>>, Void)>>),
     Base("address_with_delegates",
          <<Node(2, <<>>, Void), Node(3, <<>>, Void), Node(1, <<>>, Void)>>),
     [Base("address_with_delegates", <<Node(2, <<>>, Void), Node(1, <<>>, Foreign)>>)
        EXCEPT !.exp = 2]}

Wraps ==
    {<<Node(3, <<>>, Void), Node(1, <<>>, Void), Node(2, <<1>>, Void)>>,
     <<Node(1, <<>>, Foreign), Node(3, <<>>, EmptyVec)>>,
     <<Node(1, <<>>, Void), Node(1, <<>>, Void)>>,
     <<Node(1, <<>>, Void), Node(3, <<1>>, Void), Node(1, <<1, 3>>, Void)>>,
     <<Node(Malformed, <<>>, Void)>>}

Values == {Void, Foreign}

MCSigners ==
    {[address |-> NoAddress, kind |-> "nil"], [address |-> 1, kind |-> "account"],
     [address |-> 3, kind |-> "custom"], [address |-> NoAddress, kind |-> "void"]}

MCScopes == {{}, {1}, {Malformed}}

\* TLC puts the value of a constant definition in order before its workers start, but not
\* that of one a configuration gives a CONSTANT.  The sets Next draws records from are
\* therefore named here and built above: no two workers order a record at once.
MCDelegateTrees == Wraps
MCSupplied == Values

=============================================================================
