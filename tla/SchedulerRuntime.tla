-------------------------- MODULE SchedulerRuntime --------------------------
(***************************************************************************)
(* SchedulerLookupRuntime (vllm_compat/v0_19_1/scheduler_runtime.py): the  *)
(* owner of the scheduler's LMCache candidate transport and of the exact   *)
(* lookup result of every live request.                                    *)
(*                                                                         *)
(* A call runs several steps that can each fail (close the degraded        *)
(* transport, build a replacement, open it, query it, verify the answer);  *)
(* an environment record e says how each of them ends in this call, and    *)
(* the steps are operators from a runtime state to the next one.  The      *)
(* transports themselves are external: what matters is which of them are   *)
(* owned, open, broken or closed.  lookup answers with the retained result *)
(* of the request, or with the fatal status; both are in the state.        *)
(***************************************************************************)
EXTENDS Naturals, FiniteSets

CONSTANTS
  Requests,         \* request ids
  TooLarge,         \* requests whose prompt exceeds the staging capacity
  MaxTransports,    \* bound on transports the factory is asked for
  MaxPreemptions,   \* bound on a request's preemption count
  None

ASSUME RuntimeAssumption ==
  /\ TooLarge \subseteq Requests
  /\ MaxTransports \in Nat \ {0}
  /\ MaxPreemptions \in Nat

Transports == 1..MaxTransports

\* SchedulerRuntimeState.
States == {"created", "ready", "degraded", "fatal", "closed"}

\* SchedulerLookupStatus: what a lookup answers.
Retained == {"transfer_ready", "full_prefill_miss", "full_prefill_transport_error",
             "full_prefill_sidecar_error", "full_prefill_prompt_too_large"}
FatalStatus == {"fatal_nonzero_external_tokens", "fatal_protocol_drift",
                "fatal_transport_cleanup", "fatal_sidecar_corruption",
                "fatal_duplicate_conflict", "fatal_runtime_closed"}

\* _StoredRequest: the request's preemption count and its metadata.
Stored == [preemptions : Nat, gen : Nat, status : Retained]

\* A transport nobody built yet, built, opened, failed, released, or built by
\* the factory with a wrong configuration and impossible to close.
TransportState == {"unmade", "new", "open", "broken", "closed", "stuck"}

\* How the external steps of one call end.
Environment ==
  [released    : BOOLEAN,      \* transport.close() returns
   factory     : {"made", "operation_error", "error", "same", "misconfigured"},
   opened      : {"ok", "operation_error", "error"},
   queried     : {"verified", "miss", "operation_error", "protocol_error",
                  "sidecar_error", "sidecar_corruption"}]

VARIABLE rt   \* the runtime's fields, and the state of every transport

vars == <<rt>>

RuntimeType ==
  [state : States, cur : Transports, needsClose : BOOLEAN,
   fatal : FatalStatus \cup {None},
   requests : [Requests -> Stored \cup {None}],
   pool : [Transports -> TransportState]]

TypeOK == rt \in RuntimeType

NoRequests == [r \in Requests |-> None]

\* __init__ owns the transport it is given.
Init ==
  rt = [state |-> "created", cur |-> 1, needsClose |-> TRUE, fatal |-> None,
        requests |-> NoRequests,
        pool |-> [t \in Transports |-> IF t = 1 THEN "new" ELSE "unmade"]]

-----------------------------------------------------------------------------

\* _mark_fatal.
MarkFatal(s, status) ==
  [s EXCEPT !.state = "fatal", !.fatal = status, !.requests = NoRequests]

\* open: a connectivity failure degrades, anything else is fatal.
OpenTransport(s, opened) ==
  IF s.state \in {"ready", "degraded", "fatal"} THEN s
  ELSE IF opened = "ok"
    THEN [s EXCEPT !.state = "ready", !.pool[s.cur] = "open"]
  ELSE IF opened = "operation_error"
    THEN [s EXCEPT !.state = "degraded", !.pool[s.cur] = "broken"]
  ELSE MarkFatal([s EXCEPT !.pool[s.cur] = "broken"], "fatal_protocol_drift")

Fresh(s) == CHOOSE t \in Transports : s.pool[t] = "unmade"

Replaceable(s) == \E t \in Transports : s.pool[t] = "unmade"

\* The degraded transport is closed once, before a replacement exists.
Release(s) == [s EXCEPT !.needsClose = FALSE, !.pool[s.cur] = "closed"]

\* The replacement becomes the owned transport and is opened.
Adopt(s, opened) ==
  OpenTransport([s EXCEPT !.cur = Fresh(s), !.needsClose = TRUE,
                          !.state = "created", !.pool[Fresh(s)] = "new"], opened)

\* A replacement whose configuration differs is closed, never used.
Refuse(s, released) ==
  IF released
    THEN MarkFatal([s EXCEPT !.pool[Fresh(s)] = "closed"], "fatal_protocol_drift")
    ELSE MarkFatal([s EXCEPT !.pool[Fresh(s)] = "stuck"], "fatal_transport_cleanup")

Replace(s, e) ==
  IF e.factory = "operation_error" THEN s
  ELSE IF e.factory \in {"error", "same"} THEN MarkFatal(s, "fatal_protocol_drift")
  ELSE IF e.factory = "misconfigured" THEN Refuse(s, e.released)
  ELSE Adopt(s, e.opened)

\* Mutant of RetryDegraded: a failed close is ignored.
RetryDegradedIgnoresClose(s, e) ==
  Replace(IF s.needsClose /\ e.released THEN Release(s) ELSE s, e)

\* _retry_degraded_transport_once.
RetryDegraded(s, e) ==
  IF ~s.needsClose THEN Replace(s, e)
  ELSE IF e.released THEN Replace(Release(s), e)
  ELSE MarkFatal(s, "fatal_transport_cleanup")

\* The transport a distinct, eligible request is served by.
Connect(s, e) ==
  IF s.state = "created" THEN OpenTransport(s, e.opened)
  ELSE IF s.state = "degraded" THEN RetryDegraded(s, e)
  ELSE s

-----------------------------------------------------------------------------

\* A result that is retained for repeated lookups of r.
Keep(s, r, n, status) ==
  [s EXCEPT !.requests[r] = [preemptions |-> n, gen |-> 0, status |-> status]]

\* lookup_candidates and _verify_candidates on an open transport.
Query(s, r, n, queried) ==
  CASE queried = "verified" -> Keep(s, r, n, "transfer_ready")
    [] queried = "miss" -> Keep(s, r, n, "full_prefill_miss")
    [] queried = "sidecar_error" -> Keep(s, r, n, "full_prefill_sidecar_error")
    [] queried = "operation_error" ->
         Keep([s EXCEPT !.state = "degraded", !.pool[s.cur] = "broken"], r, n,
              "full_prefill_transport_error")
    [] queried = "sidecar_corruption" -> MarkFatal(s, "fatal_sidecar_corruption")
    [] queried = "protocol_error" -> MarkFatal(s, "fatal_protocol_drift")

\* A first lookup of r.
FirstLookup(s, r, n, external, e) ==
  IF external THEN MarkFatal(s, "fatal_nonzero_external_tokens")
  ELSE IF r \in TooLarge THEN Keep(s, r, n, "full_prefill_prompt_too_large")
  ELSE LET c == Connect(s, e) IN
       IF c.state = "degraded" THEN Keep(c, r, n, "full_prefill_transport_error")
       ELSE IF c.state = "fatal" THEN c
       ELSE Query(c, r, n, e.queried)

\* Mutant of RepeatOrPreempt: any larger count is taken for a preemption.
RepeatOrPreemptSkips(s, r, n, external) ==
  IF n <= s.requests[r].preemptions THEN s
  ELSE [s EXCEPT !.requests[r].preemptions = n, !.requests[r].gen = @ + 1]

\* _repeat_or_preempt: the same result, one generation later after exactly one
\* preemption.
RepeatOrPreempt(s, r, n, external) ==
  IF external THEN MarkFatal(s, "fatal_duplicate_conflict")
  ELSE IF n = s.requests[r].preemptions THEN s
  ELSE IF n = s.requests[r].preemptions + 1
    THEN [s EXCEPT !.requests[r].preemptions = n, !.requests[r].gen = @ + 1]
  ELSE MarkFatal(s, "fatal_duplicate_conflict")

\* lookup.
Lookup(s, r, n, external, e) ==
  IF s.state \in {"closed", "fatal"} THEN s
  ELSE IF s.requests[r] # None THEN RepeatOrPreempt(s, r, n, external)
  ELSE FirstLookup(s, r, n, external, e)

\* Mutant of CloseRuntime: a failed close makes the runtime usable again.
CloseRuntimeReopens(s, released) ==
  IF s.state = "closed" THEN s
  ELSE LET dropped == [s EXCEPT !.requests = NoRequests]
       IN  IF released THEN [Release(dropped) EXCEPT !.state = "closed"]
                       ELSE [dropped EXCEPT !.state = "degraded"]

\* close: ownership is retained while the transport refuses to close.
CloseRuntime(s, released) ==
  IF s.state = "closed" THEN s
  ELSE LET dropped == [s EXCEPT !.requests = NoRequests]
       IN  IF ~s.needsClose THEN [dropped EXCEPT !.state = "closed"]
           ELSE IF released THEN [Release(dropped) EXCEPT !.state = "closed"]
           ELSE [dropped EXCEPT !.state = "fatal",
                                !.fatal = "fatal_transport_cleanup"]

-----------------------------------------------------------------------------

DoOpen ==
  /\ rt.state # "closed"
  /\ \E opened \in {"ok", "operation_error", "error"} :
       rt' = OpenTransport(rt, opened)

DoLookup(r, n) ==
  /\ rt.state = "degraded" => Replaceable(rt)
  /\ rt' \in {Lookup(rt, r, n, external, e) :
               external \in BOOLEAN, e \in Environment}

DoDiscard(r) ==
  rt' = [rt EXCEPT !.requests[r] = None]

DoClose ==
  \E released \in BOOLEAN : rt' = CloseRuntime(rt, released)

Next ==
  \/ DoOpen
  \/ \E r \in Requests, n \in 0..MaxPreemptions : DoLookup(r, n)
  \/ \E r \in Requests : DoDiscard(r)
  \/ DoClose

Spec == Init /\ [][Next]_vars

-----------------------------------------------------------------------------
(***************************************************************************)
(* Properties                                                              *)
(***************************************************************************)

\* Every transport ever built is the owned one or has been released; ownership
\* ends exactly when the owned one is closed, and a closed runtime owns nothing,
\* even if earlier attempts to close it failed.  The single exception, a refused
\* replacement that cannot be closed, is only possible once the runtime has
\* failed closed.
TransportsOwned ==
  /\ TypeOK
  /\ \A t \in Transports \ {rt.cur} : rt.pool[t] \in {"unmade", "closed", "stuck"}
  /\ rt.needsClose <=> rt.pool[rt.cur] # "closed"
  /\ rt.state = "closed" => ~rt.needsClose
  /\ (\E t \in Transports : rt.pool[t] = "stuck") => rt.state \in {"fatal", "closed"}

\* Failing closed is final: a fatal runtime can only be closed, a closed one
\* does nothing at all, and neither ever opens or builds a transport.
FailsClosed ==
  [][/\ rt.state = "fatal" =>
          /\ rt'.state \in {"fatal", "closed"}
          /\ \A t \in Transports : rt'.pool[t] \in {rt.pool[t], "closed"}
     /\ rt.state = "closed" => rt' = rt]_vars

\* A retained result keeps its status for as long as it is retained, and its
\* generation advances exactly with the preemption count.
LookupIsStable ==
  [][\A r \in Requests :
       rt.requests[r] # None /\ rt'.requests[r] # None =>
         /\ rt'.requests[r].status = rt.requests[r].status
         /\ rt'.requests[r].gen - rt.requests[r].gen
              = rt'.requests[r].preemptions - rt.requests[r].preemptions]_vars

=============================================================================
