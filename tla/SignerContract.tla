--------------------------- MODULE SignerContract ---------------------------
(***************************************************************************)
(* What AuthorizeEntry may rely on: a Signer that is asked answers each     *)
(* question once, with an error or with a value that is sound for exactly   *)
(* the address and the payload of that question.  How many times a backend  *)
(* talks to a device or a service to get there, and what it hears, is       *)
(* hidden.                                                                  *)
(***************************************************************************)
EXTENDS SignerValues

VARIABLES
    backend,   \* the kind of Signer
    address,   \* what its Address() says
    pinned,    \* the network PinSignerToNetwork allows, or NoPin
    asked,     \* the open question: a preimage and the payload to sign
    phase,     \* "before", "asked", "answered"
    answer     \* the answer once there is one

contractVars == <<backend, address, pinned, asked, phase, answer>>

\* Backends that hand through what a callback or a server of any make returns, unseen.
PassThrough == {"func", "passkey", "remote_other"}

\* A wallet's keypair vouches for its own signatures; the backend takes its word.
SelfVouched == {"wallet"}

\* Backends that sign with the one key their address encodes.
SingleKey == {"ed25519", "wallet", "awskms", "gcpkms", "vault", "turnkey", "ledger",
              "fireblocks", "remote"}

\* Backends that hold the payload against the preimage they can inspect.
Inspecting == {"vault", "turnkey", "ledger", "fireblocks", "remote"}

(* What the Signer documentation promises of a value: signatures in the account *)
(* shape verify over the payload, a single-key backend's under the key of its   *)
(* address, a multisig's in ascending key order, a passkey's in the low-S form  *)
(* the host insists on; an external helper's value is never a placeholder.      *)
Sound(kind, addr, payload, v) ==
    /\ v.shape = "account" /\ kind \notin PassThrough \cup SelfVouched =>
          v.sigs # <<>> /\ \A e \in Elements(v) : Verifies(e, payload)
    /\ kind \in SingleKey => v.shape = "account" /\ {e.pk : e \in Elements(v)} = {addr}
    /\ kind = "multisig" =>
          \A i, j \in DOMAIN v.sigs : i < j => v.sigs[i].pk < v.sigs[j].pk
    /\ kind = "assertion" =>
          v.shape = "p256" /\ \A e \in Elements(v) : VerifySecp256r1(e, payload)
    /\ kind = "exec" => v.shape \notin {"void", "empty_vec"}
    /\ kind = "exec" /\ addr \in Keys => v.shape = "account"

\* An inspecting backend signs no payload but the preimage's, a pinned one nothing
\* for another network.
Permitted(kind, pin, req) ==
    /\ kind \in Inspecting => req.payload = Payload(req.preimage)
    /\ pin # NoPin => req.preimage.type # "other" /\ req.preimage.network = pin

Init ==
    /\ phase = "before"
    /\ answer = Err("unanswered")

\* A constructor may learn its address from the device.
Construct ==
    /\ phase = "before"
    /\ address' \in Keys
    /\ UNCHANGED <<backend, pinned, asked, phase, answer>>

Ask ==
    /\ phase = "before"
    /\ phase' = "asked"
    /\ UNCHANGED <<backend, address, pinned, asked, answer>>

\* A constructor or a wrapper that refuses leaves nobody to ask.
Refuse ==
    /\ phase = "before"
    /\ phase' = "answered"
    /\ Failed(answer')
    /\ UNCHANGED <<backend, address, pinned, asked>>

Answer ==
    /\ phase = "asked"
    /\ phase' = "answered"
    /\ \/ Failed(answer')
       \/ /\ Permitted(backend, pinned, asked)
          /\ Sound(backend, address, asked.payload, answer'.value)
    /\ UNCHANGED <<backend, address, pinned, asked>>

Next == Construct \/ Ask \/ Refuse \/ Answer

Spec == Init /\ [][Next]_contractVars
=============================================================================
