--------------------------- MODULE MCCoordinator ---------------------------
(***************************************************************************)
(* A small instance of Coordinator: an entry with two delegates one of whom *)
(* delegates back to the account, one where a delegate's delegate is also a *)
(* delegate of the account, one with a delegate already signed, one without *)
(* delegates, one mis-ordered, one of another arm.                          *)
(***************************************************************************)
EXTENDS Coordinator

Node(a, above, sig) == [addr |-> a, above |-> above, sig |-> sig]

Session(arm, exp, nodes) ==
    [arm |-> arm, address |-> 2, nonce |-> CHOOSE n \in Nonces : TRUE, exp |-> exp,
     invocation |-> CHOOSE v \in Invocations : TRUE, nodes |-> nodes]

Earlier ==
    [kind |-> "account", origin |-> "signer", target |-> 1, key |-> 1,
     payload |-> [variant |-> "authorization_with_address",
                  network |-> CHOOSE n \in Networks : TRUE,
                  nonce |-> CHOOSE n \in Nonces : TRUE, exp |-> 1, address |-> 2,
                  invocation |-> CHOOSE v \in Invocations : TRUE]]

MCOffered ==
    {Session("address_v2", 1, <<Node(2, <<>>, Void)>>),
     Session("address_with_delegates", 1, <<Node(2, <<>>, Void)>>),
     Session("address_with_delegates", 1,
             <<Node(2, <<>>, Void), Node(1, <<>>, Void), Node(2, <<1>>, Void),
               Node(3, <<>>, Void)>>),
     Session("address_with_delegates", 1,
             <<Node(2, <<>>, Void), Node(1, <<>>, Void), Node(3, <<1>>, Void),
               Node(3, <<>>, Void)>>),
     Session("address_with_delegates", 1,
             <<Node(2, <<>>, Void), Node(1, <<>>, Earlier), Node(3, <<>>, Void)>>),
     Session("address_with_delegates", 1,
             <<Node(2, <<>>, Void), Node(3, <<>>, Void), Node(1, <<>>, Void)>>)}

Keys ==
    {[address |-> NoAddress, kind |-> "nil"], [address |-> 1, kind |-> "account"],
     [address |-> 3, kind |-> "custom"], [address |-> NoAddress, kind |-> "void"]}

MCScopes == {{}}

\* Named here and built above, so that TLC orders the records before its workers start.
MCSigners == Keys
MCNetworked == Networks \cup {NoNetwork}
=============================================================================
