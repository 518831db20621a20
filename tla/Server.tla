------------------------------- MODULE Server --------------------------------
(***************************************************************************)
(* server/: the HTTP verification service.  main loads a configuration,    *)
(* serves until a listener fails or a signal arrives, and then drains.     *)
(* Each request runs in a goroutine of its own through the logging and     *)
(* recovery middleware; the goroutines share the semaphore and the         *)
(* counters.  What VerifyEntry reports for an entry (Authorize.tla) is a   *)
(* field of the request, and so is a panic in it, which the recovery       *)
(* middleware is there for.                                                *)
(***************************************************************************)
EXTENDS Integers, Sequences, FiniteSets

CONSTANTS
  Requests,   \* the requests clients send
  Kinds,      \* what a request may be
  Configs     \* the environments loadConfig may meet

ASSUME ServerAssumption ==
  /\ IsFiniteSet(Requests)
  /\ \A c \in Configs : c.maxConcurrent \in Int

VARIABLES
  cfg,
  main,       \* [pc, exit, failed]: main's goroutine; failed is errCh
  kind,       \* what each request is
  req,        \* per request: [pc, status, at, slot]
  requests,   \* soroauth_requests_total by <<method, route, status>>
  verdicts,   \* soroauth_verdicts_total
  refusals    \* soroauth_refusals_total

serverVars == <<cfg, main, kind, req, requests, verdicts, refusals>>

-----------------------------------------------------------------------------
\* Configuration.

\* A host with no address in it binds every interface.
isLoopbackAddr(addr) == addr \in {"localhost", "127.0.0.1"}

metricsDisabled(addr) == addr \in {"", "off", "none", "-"}

\* loadConfig: unparsable durations and numbers, limits that are not positive,
\* and an address others can reach without a bearer token are refused.
loadConfig(c) ==
  /\ c.parses
  /\ c.maxBody > 0 /\ c.maxConcurrent > 0
  /\ isLoopbackAddr(c.addr) \/ c.token

-----------------------------------------------------------------------------
\* Handlers.

routeLabel(path) == IF path \in {"/verify", "/healthz"} THEN path ELSE "unmatched"

clampMethod(method) ==
  IF method \in {"GET", "POST", "PUT", "DELETE", "PATCH", "HEAD", "OPTIONS"} THEN method ELSE "other"

labelStatuses == {200, 400, 401, 404, 405, 413, 500, 503}

\* recordRequest's labels, each one of a closed set.
Label(k, status) == <<clampMethod(k.method), routeLabel(k.path), status>>

\* recordRefusalReason.
refusalReason(status) ==
  CASE status = 401 -> "unauthorized"
    [] status = 405 -> "method_not_allowed"
    [] status = 413 -> "too_large"
    [] status = 503 -> "overloaded"
    [] status = 500 -> "internal"
    [] status = 404 -> "not_found"
    [] status = 400 -> "bad_request"
    [] OTHER -> "other"

Reasons == {"invalid", "cannot_check", "unsigned", "expiration_mismatch", "unauthorized",
            "method_not_allowed", "too_large", "overloaded", "internal", "bad_request",
            "not_found", "other"}

authorized(k) == ~cfg.token \/ k.bearer

\* The semaphore holds a slot per request that verifyHandler admitted.
Slots == {r \in Requests : req[r].slot}

\* decodeEntryOrEnvelope: XDR that reads both ways is the envelope when that
\* has entries, the entry otherwise.
isEnvelope(k) == k.asEnvelope /\ k.entries # <<>>
decodes(k) == isEnvelope(k) \/ k.asEntry

\* An entry's contribution to the refusal counters (recordVerdicts).
verdictRefusal(verdict) == IF verdict = "verified" THEN {} ELSE {verdict}

Count(counter, labels) == [l \in DOMAIN counter |-> IF l \in labels THEN counter[l] + 1 ELSE counter[l]]

-----------------------------------------------------------------------------

ServerInit ==
  /\ cfg \in Configs
  /\ kind \in [Requests -> Kinds]
  /\ main = [pc |-> "load", exit |-> -1, failed |-> FALSE]
  /\ req = [r \in Requests |-> [pc |-> "unsent", status |-> 0, at |-> 1, slot |-> FALSE]]
  /\ requests = [l \in {Label(k, s) : k \in Kinds, s \in labelStatuses} |-> 0]
  /\ verdicts = [v \in {"verified", "invalid", "unsigned", "cannot_check"} |-> 0]
  /\ refusals = [l \in Reasons |-> 0]

Running == main.pc # "exited"
Exit(code) == main' = [main EXCEPT !.pc = "exited", !.exit = code]

MainLoad ==
  /\ main.pc = "load"
  /\ IF loadConfig(cfg) THEN main' = [main EXCEPT !.pc = "serve"] ELSE Exit(1)
  /\ UNCHANGED <<cfg, kind, req, requests, verdicts, refusals>>

\* A listener that cannot bind, or dies, leaves its error in errCh.
ListenerFails ==
  /\ main.pc = "serve" /\ ~main.failed
  /\ main' = [main EXCEPT !.failed = TRUE]
  /\ UNCHANGED <<cfg, kind, req, requests, verdicts, refusals>>

\* The select: an error ends the process at once, requests under way with it.
MainFailed ==
  /\ main.pc = "serve" /\ main.failed
  /\ Exit(1)
  /\ UNCHANGED <<cfg, kind, req, requests, verdicts, refusals>>

Signalled ==
  /\ main.pc = "serve"
  /\ main' = [main EXCEPT !.pc = "drain"]
  /\ UNCHANGED <<cfg, kind, req, requests, verdicts, refusals>>

InFlight == {r \in Requests : req[r].pc \notin {"unsent", "finished"}}

\* http.Server.Shutdown returns nil only once no request is being served.
Drained == InFlight = {}

\* With the API drained the metrics server is shut down, in the same time.
MainDrained ==
  /\ main.pc = "drain" /\ Drained
  /\ IF metricsDisabled(cfg.metricsAddr) THEN Exit(0) ELSE main' = [main EXCEPT !.pc = "metrics"]
  /\ UNCHANGED <<cfg, kind, req, requests, verdicts, refusals>>

MainMetrics ==
  /\ main.pc = "metrics"
  /\ Exit(0)
  /\ UNCHANGED <<cfg, kind, req, requests, verdicts, refusals>>

MainTimeout ==
  /\ main.pc \in {"drain", "metrics"}
  /\ Exit(1)
  /\ UNCHANGED <<cfg, kind, req, requests, verdicts, refusals>>

\* A draining server accepts no request.
Accept(r) ==
  /\ main.pc = "serve" /\ req[r].pc = "unsent"
  /\ req' = [req EXCEPT ![r].pc = "route"]
  /\ UNCHANGED <<cfg, main, kind, requests, verdicts, refusals>>

\* The request moves to pc without answering.
Proceed(r, pc) ==
  /\ req' = [req EXCEPT ![r].pc = pc]
  /\ UNCHANGED <<cfg, main, kind, requests, verdicts, refusals>>

\* writeError: the refusal is counted, with the reasons the handler counted
\* itself, and the handler returns through its deferred calls.
writeError(r, status, also) ==
  /\ req' = [req EXCEPT ![r].pc = "unwind", ![r].status = status]
  /\ refusals' = Count(refusals, {refusalReason(status)} \cup also)
  /\ UNCHANGED <<cfg, main, kind, requests, verdicts>>

\* The mux answers a path it does not know by itself, counting no refusal.
Unmatched(r) ==
  /\ req[r].pc = "route" /\ routeLabel(kind[r].path) = "unmatched"
  /\ req' = [req EXCEPT ![r].pc = "unwind", ![r].status = 404]
  /\ UNCHANGED <<cfg, main, kind, requests, verdicts, refusals>>

healthzHandler(r) ==
  /\ req[r].pc = "route" /\ kind[r].path = "/healthz"
  /\ IF kind[r].method # "GET"
       THEN writeError(r, 405, {})
       ELSE /\ req' = [req EXCEPT ![r].pc = "unwind", ![r].status = 200]
            /\ UNCHANGED <<cfg, main, kind, requests, verdicts, refusals>>

\* verifyHandler up to the semaphore, which is tried and never waited for.
verifyAdmit(r) ==
  /\ req[r].pc = "route" /\ kind[r].path = "/verify"
  /\ IF kind[r].method # "POST" THEN writeError(r, 405, {})
     ELSE IF ~authorized(kind[r]) THEN writeError(r, 401, {})
     ELSE IF Cardinality(Slots) >= cfg.maxConcurrent THEN writeError(r, 503, {})
     ELSE /\ req' = [req EXCEPT ![r].pc = "read", ![r].slot = TRUE]
          /\ UNCHANGED <<cfg, main, kind, requests, verdicts, refusals>>

verifyRead(r) ==
  /\ req[r].pc = "read"
  /\ CASE kind[r].body > cfg.maxBody -> writeError(r, 413, {})
       [] kind[r].body <= cfg.maxBody /\ ~kind[r].arrives -> writeError(r, 400, {})
       [] OTHER -> Proceed(r, "decode")

\* JSON, the required fields, the network, and the entry or envelope.
verifyDecode(r) ==
  /\ req[r].pc = "decode"
  /\ IF kind[r].json /\ kind[r].network /\ decodes(kind[r])
       THEN Proceed(r, "entries")
       ELSE writeError(r, 400, {})

\* One turn of the loop over the entries; verdicts of the entries before a
\* failing one stay counted.
verifyNext(r) ==
  LET k == kind[r]
      e == k.entries[req[r].at]
  IN  /\ req[r].pc = "entries" /\ req[r].at <= Len(k.entries)
      /\ CASE e.result = "panic" -> Proceed(r, "panic")
           [] e.result = "error" -> writeError(r, 400, {})
           [] e.result = "report" /\ k.asserts # 0 /\ e.validUntil # k.asserts ->
                writeError(r, 400, {"expiration_mismatch"})
           [] OTHER ->
                /\ req' = [req EXCEPT ![r].at = @ + 1]
                /\ verdicts' = Count(verdicts, {e.verdict})
                /\ refusals' = Count(refusals, verdictRefusal(e.verdict))
                /\ UNCHANGED <<cfg, main, kind, requests>>

verifyRespond(r) ==
  /\ req[r].pc = "entries" /\ req[r].at > Len(kind[r].entries)
  /\ req' = [req EXCEPT ![r].pc = "unwind", ![r].status = 200]
  /\ UNCHANGED <<cfg, main, kind, requests, verdicts, refusals>>

\* Whichever way the handler ends, its deferred receive frees the slot.
Unwind(r) ==
  /\ req[r].pc \in {"unwind", "panic"}
  /\ req' = [req EXCEPT ![r].pc = IF req[r].pc = "panic" THEN "recover" ELSE "record",
                        ![r].slot = FALSE]
  /\ UNCHANGED <<cfg, main, kind, requests, verdicts, refusals>>

\* Mutant: the recovery wraps the logging middleware, which a panic then skips.
withRecovery_Outermost(r) ==
  /\ req[r].pc = "recover"
  /\ req' = [req EXCEPT ![r].pc = "finished", ![r].status = 500]
  /\ refusals' = Count(refusals, {"internal"})
  /\ UNCHANGED <<cfg, main, kind, requests, verdicts>>

\* withRecovery, inside the logging middleware: the request goes on to it.
withRecovery(r) ==
  /\ req[r].pc = "recover"
  /\ req' = [req EXCEPT ![r].pc = "record", ![r].status = 500]
  /\ refusals' = Count(refusals, {"internal"})
  /\ UNCHANGED <<cfg, main, kind, requests, verdicts>>

withRequestLogging(r) ==
  /\ req[r].pc = "record"
  /\ requests' = Count(requests, {Label(kind[r], req[r].status)})
  /\ req' = [req EXCEPT ![r].pc = "finished"]
  /\ UNCHANGED <<cfg, main, kind, verdicts, refusals>>

RequestNext(r) ==
  \/ Unmatched(r) \/ healthzHandler(r)
  \/ verifyAdmit(r) \/ verifyRead(r) \/ verifyDecode(r) \/ verifyNext(r) \/ verifyRespond(r)
  \/ Unwind(r) \/ withRecovery(r) \/ withRequestLogging(r)

ServerNext ==
  \/ MainLoad \/ ListenerFails \/ MainFailed \/ Signalled
  \/ MainDrained \/ MainMetrics \/ MainTimeout
  \/ \E r \in Requests : Accept(r)
  \/ Running /\ \E r \in Requests : RequestNext(r)

ServerSpec == ServerInit /\ [][ServerNext]_serverVars

-----------------------------------------------------------------------------

\* Every request answered is counted exactly once, under the status its client
\* was sent, panics included; a slot is held exactly while verifyHandler runs,
\* so at rest the whole semaphore is free again (withRequestLogging,
\* withRecovery, verifyHandler's deferred receive).  The process reports success
\* only when every request it accepted was answered and counted: a signal never
\* cuts one off silently (main).
RequestsAccounted ==
  /\ \A l \in DOMAIN requests :
       requests[l] = Cardinality({r \in Requests :
         req[r].pc = "finished" /\ Label(kind[r], req[r].status) = l})
  /\ \A r \in Requests : req[r].pc \in {"unsent", "recover", "record", "finished"} => ~req[r].slot
  /\ cfg.maxConcurrent > 0 => Cardinality(Slots) <= cfg.maxConcurrent
  /\ main.exit = 0 => InFlight = {} /\ Slots = {}

==============================================================================
