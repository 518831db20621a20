------------------------------ MODULE MCShared -------------------------------
(***************************************************************************)
(* The objects several goroutines or parties share: the threshold session, *)
(* the FROST coordinator, the signer cache, the nonce tracker and the HTTP *)
(* server.  They share no state with one another, so each behaviour        *)
(* explores one of them, chosen in the initial state.                      *)
(***************************************************************************)
EXTENDS Threshold, Frost, Caches, Server

CONSTANT Explored   \* which of the five this run explores

VARIABLE which

vars == <<thresholdVars, frostVars, cacheVars, nonceVars, serverVars, which>>

SomeShares == {[prefix |-> 1, rest |-> 1], [prefix |-> 1, rest |-> 2], [prefix |-> 2, rest |-> 1]}
\* Named here and built above, so that TLC orders the records before its workers start.
MCShares == SomeShares

\* 2-of-3: a call that drives exactly the threshold, and one with a participant more.
MCDrives == [c \in Callers |-> <<1, 2>>]
SurplusDrives == [c \in Callers |-> <<1, 2, 3>>]
MCPayload == [r \in Callers \cup OpenRounds |-> r]

MCEntry(res, until, said) ==
  [result |-> res, validUntil |-> until, verdict |-> said]

\* A request to verify one good entry, and what may be different about it.
MCGood ==
  [path |-> "/verify", method |-> "POST", bearer |-> TRUE, body |-> 1, arrives |-> TRUE,
   json |-> TRUE, network |-> TRUE, asEnvelope |-> FALSE, asEntry |-> TRUE, asserts |-> 0,
   entries |-> <<MCEntry("report", 9, "verified")>>]

MCKinds ==
  {MCGood,
   [MCGood EXCEPT !.path = "/healthz", !.method = "GET"],
   [MCGood EXCEPT !.path = "/healthz", !.method = "BREW"],
   [MCGood EXCEPT !.path = "/metrics"],
   [MCGood EXCEPT !.bearer = FALSE],
   [MCGood EXCEPT !.body = 9],
   [MCGood EXCEPT !.arrives = FALSE],
   [MCGood EXCEPT !.asEntry = FALSE],
   [MCGood EXCEPT !.entries = <<MCEntry("panic", 9, "verified")>>],
   [MCGood EXCEPT !.asEnvelope = TRUE, !.asserts = 9,
      !.entries = <<MCEntry("report", 9, "unsigned"), MCEntry("report", 8, "invalid")>>],
   [MCGood EXCEPT !.asEnvelope = TRUE,
      !.entries = <<MCEntry("report", 9, "cannot_check"), MCEntry("error", 9, "invalid")>>]}

MCConfigs ==
  LET local == [parses |-> TRUE, addr |-> "127.0.0.1", metricsAddr |-> "off", token |-> FALSE,
                maxBody |-> 2, maxConcurrent |-> 1]
  IN  {local,
       [local EXCEPT !.addr = "0.0.0.0"],
       [local EXCEPT !.addr = "0.0.0.0", !.token = TRUE, !.metricsAddr = "127.0.0.1:9090"],
       [local EXCEPT !.maxConcurrent = 0]}

Init ==
  /\ which \in Explored
  /\ ThresholdInit /\ FrostInit /\ NonceInit
  /\ IF which = "cache" THEN CacheInit ELSE CacheInit /\ ttl = 0 /\ current = NoAddress
  /\ IF which = "server" THEN ServerInit
     ELSE ServerInit /\ cfg = (CHOOSE c \in Configs : TRUE) /\ kind = [r \in Requests |-> MCGood]

Next ==
  \/ /\ which = "threshold" /\ ThresholdNext
     /\ UNCHANGED <<frostVars, cacheVars, nonceVars, serverVars, which>>
  \/ /\ which = "frost" /\ FrostNext
     /\ UNCHANGED <<thresholdVars, cacheVars, nonceVars, serverVars, which>>
  \/ /\ which = "cache" /\ CacheNext
     /\ UNCHANGED <<thresholdVars, frostVars, nonceVars, serverVars, which>>
  \/ /\ which = "nonce" /\ NonceNext
     /\ UNCHANGED <<thresholdVars, frostVars, cacheVars, serverVars, which>>
  \/ /\ which = "server" /\ ServerNext
     /\ UNCHANGED <<thresholdVars, frostVars, cacheVars, nonceVars, which>>

Spec == Init /\ [][Next]_vars

==============================================================================
