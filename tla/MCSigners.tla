----------------------------- MODULE MCSigners -----------------------------
(***************************************************************************)
(* The scenarios of the Signers runs: for every backend the configurations  *)
(* that make a difference to it.                                            *)
(***************************************************************************)
EXTENDS Signers

C == CHOOSE c \in Contracts : TRUE
N1 == CHOOSE n \in Networks : TRUE
N2 == CHOOSE n \in Networks : n # N1
Pre(t, n) == [type |-> t, network |-> n]
Plain == Pre("authorization", N1)
Bound == Pre("authorization_with_address", N1)
Ask(p) == [preimage |-> p, payload |-> p]

\* A well-made request, one for another network, one of another type, and one whose
\* payload is not the preimage's.
MCRequests ==
    {Ask(Plain), Ask(Pre("authorization_with_address", N2)), Ask(Pre("other", N1)),
     [preimage |-> Plain, payload |-> Bound]}

Good ==
    [json |-> TRUE, type |-> "ok", authData |-> "ok", clientData |-> "ok", signature |-> "ok",
     challenge |-> [enc |-> "accepted", of |-> Plain], by |-> 1, s |-> 1]

RawAssertions ==
    {[Good EXCEPT !.s = s, !.by = k] : s \in -1..(Order + 1), k \in Keys}
    \cup {[Good EXCEPT !.json = FALSE], [Good EXCEPT !.type = "bad"]}
    \cup {[Good EXCEPT !.authData = f] : f \in {"none", "bad", "short"}}
    \cup {[Good EXCEPT !.clientData = f] : f \in {"none", "bad", "not_json"}}
    \cup {[Good EXCEPT !.signature = f] : f \in {"none", "bad"}}
    \cup {[Good EXCEPT !.challenge = [enc |-> c, of |-> p]] :
            c \in {"accepted", "other", "bad", "none"}, p \in {Plain, Bound}}

Base(k, a, h, r) ==
    [kind |-> k, attempts |-> 0, pin |-> NoPin, req |-> r, address |-> a, holder |-> h,
     complete |-> TRUE, length |-> 1, members |-> <<>>, raw |-> Good, cred |-> 1,
     bounded |-> TRUE, flags |-> {"UP", "UV"}, required |-> {}]

KeyBacked == {"ed25519", "wallet", "awskms", "gcpkms", "vault", "turnkey", "fireblocks", "remote"}

MCScenarios ==
    {Base(k, a, 1, r) : k \in KeyBacked, a \in {1, 2}, r \in MCRequests}
    \cup {[Base(k, a, 1, Ask(Plain)) EXCEPT !.complete = c] :
            k \in KeyBacked \ {"ed25519", "remote"}, a \in {1, C}, c \in BOOLEAN}
    \cup {Base(k, NoKey, NoKey, Ask(Plain)) : k \in {"ed25519", "exec", "remote"}}
    \cup {[Base(k, 1, 1, r) EXCEPT !.pin = N1, !.attempts = 2] :
            k \in {"vault", "fireblocks"}, r \in MCRequests}
    \cup {[Base(k, 1, 1, Ask(Plain)) EXCEPT !.attempts = n] :
            k \in {"turnkey", "remote", "exec", "func"}, n \in 1..3}
    \cup {[Base("ledger", NoKey, 1, r) EXCEPT !.length = n, !.attempts = 1] :
            n \in 1..(2 * MaxAPDU + 1), r \in MCRequests}
    \cup {[Base("ledger", NoKey, 1, Ask(Plain)) EXCEPT !.complete = FALSE]}
    \cup {Base(k, a, 1, r) : k \in {"exec", "func"}, a \in {1, C}, r \in MCRequests}
    \cup {[Base("func", 1, 1, Ask(Plain)) EXCEPT !.complete = FALSE]}
    \cup {[Base("remote_other", a, 1, r) EXCEPT !.attempts = n] :
            a \in {1, C, NoKey}, r \in {Ask(Plain), [preimage |-> Plain, payload |-> Bound]},
            n \in {0, 2}}
    \cup {[Base(k, 1, 1, Ask(Plain)) EXCEPT !.bounded = FALSE] :
            k \in {"vault", "turnkey", "fireblocks", "remote", "exec"}}
    \cup {[Base("passkey", C, 1, Ask(Plain)) EXCEPT !.flags = f, !.required = q, !.complete = c] :
            f \in SUBSET {"UP", "UV"}, q \in SUBSET {"UP", "UV"}, c \in BOOLEAN}
    \cup {[Base("assertion", C, 1, Ask(Plain)) EXCEPT !.raw = w, !.cred = c] :
            w \in RawAssertions, c \in {1, NoKey, Foreign}}
    \cup {[Base("assertion", C, 1, Ask(Plain)) EXCEPT !.flags = f, !.required = q] :
            f \in SUBSET {"UP", "UV"}, q \in SUBSET {"UP", "UV"}}
    \cup {[Base("multisig", 1, 1, Ask(Plain)) EXCEPT !.members = m] :
            m \in {<<>>, <<1>>, <<2, 1>>, <<1, 1>>, <<1, NoKey>>, <<2, 3, 1>>, <<1, 2, 3, 2>>}}
=============================================================================
