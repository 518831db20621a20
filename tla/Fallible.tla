------------------------------ MODULE Fallible ------------------------------
(***************************************************************************)
(* What the modules on documents, reviews and envelopes share.  A function *)
(* that may refuse returns the set of its results: empty, or one value.    *)
(***************************************************************************)
EXTENDS Integers, Sequences, FiniteSets

CONSTANT DepthLimit   \* MaxDecodeDepth, 64 in the code

\* One result for every part, or no result.
All(parts) == IF \E i \in DOMAIN parts : parts[i] = {}
                THEN {}
                ELSE {[i \in DOMAIN parts |-> CHOOSE x \in parts[i] : TRUE]}

isAddressBoundArm(arm) == arm \in {"address_v2", "address_with_delegates"}
==============================================================================
