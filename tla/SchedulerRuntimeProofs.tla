----------------------- MODULE SchedulerRuntimeProofs -----------------------
(***************************************************************************)
(* The properties of SchedulerRuntime for any requests, any number of      *)
(* transports and any preemption counts.  The steps of a call are          *)
(* operators from runtime state to runtime state, so each gets a lemma:    *)
(* what it keeps of the ownership of transports, and what it does to the   *)
(* retained results.                                                       *)
(***************************************************************************)
EXTENDS SchedulerRuntime, TLAPS

USE RuntimeAssumption

\* The inductive form of TransportsOwned.  The owned transport has been made
\* and is not a refused one; a runtime that may still open or query it has not
\* released it; a closed runtime retains no result.
Owned(s) ==
  /\ s \in RuntimeType
  /\ \A t \in Transports \ {s.cur} : s.pool[t] \in {"unmade", "closed", "stuck"}
  /\ s.pool[s.cur] \notin {"unmade", "stuck"}
  /\ s.needsClose <=> s.pool[s.cur] # "closed"
  /\ s.state \in {"created", "ready"} => s.needsClose
  /\ s.state = "closed" => ~s.needsClose /\ s.requests = NoRequests
  /\ (\E t \in Transports : s.pool[t] = "stuck") => s.state \in {"fatal", "closed"}

\* A step keeps all retained results, or drops them all.
KeepsOrDrops(s, t) == t.requests \in {s.requests, NoRequests}

-----------------------------------------------------------------------------
(* The steps of a call.                                                    *)

\* The empty table of retained results.
LEMMA NoRequestsTyped == NoRequests \in [Requests -> Stored \cup {None}]
BY DEF NoRequests

\* The factory can make at least one transport.
LEMMA TransportsTyped == 1 \in Transports
BY DEF Transports

\* _mark_fatal drops the results and leaves the transports.
LEMMA MarkFatalFacts ==
  ASSUME NEW s \in RuntimeType, NEW status \in FatalStatus
  PROVE  /\ MarkFatal(s, status) \in RuntimeType
         /\ MarkFatal(s, status).state = "fatal"
         /\ MarkFatal(s, status).requests = NoRequests
         /\ MarkFatal(s, status).cur = s.cur
         /\ MarkFatal(s, status).needsClose = s.needsClose
         /\ MarkFatal(s, status).pool = s.pool
BY NoRequestsTyped DEF MarkFatal, RuntimeType, States

\* A runtime that is marked fatal loses no transport.
LEMMA MarkFatalOwned ==
  ASSUME NEW s, Owned(s), s.state # "closed", NEW status \in FatalStatus
  PROVE  Owned(MarkFatal(s, status)) /\ MarkFatal(s, status).state = "fatal"
         /\ KeepsOrDrops(s, MarkFatal(s, status))
BY MarkFatalFacts DEF Owned, KeepsOrDrops

\* Marking the owned transport, which is not closed yet.
LEMMA MarkedOwned ==
  ASSUME NEW s, Owned(s), s.needsClose, NEW x \in {"open", "broken"},
         NEW state \in {"ready", "degraded"}, s.state \notin {"fatal", "closed"}
  PROVE  Owned([s EXCEPT !.state = state, !.pool[s.cur] = x])
<1>1. s.cur \in Transports /\ s.pool \in [Transports -> TransportState]
  BY DEF Owned, RuntimeType
<1> DEFINE p == [s.pool EXCEPT ![s.cur] = x]
<1>2. /\ p \in [Transports -> TransportState] /\ p[s.cur] = x
      /\ \A t \in Transports \ {s.cur} : p[t] = s.pool[t]
  BY <1>1 DEF TransportState
<1> DEFINE u == [s EXCEPT !.state = state, !.pool[s.cur] = x]
<1>3. /\ u \in RuntimeType /\ u.state = state /\ u.cur = s.cur
      /\ u.needsClose = s.needsClose /\ u.pool = p /\ u.requests = s.requests
  BY <1>2 DEF Owned, RuntimeType, States
<1> HIDE DEF p, u
<1>4. Owned(u)
  BY <1>2, <1>3 DEF Owned
<1> QED BY <1>4 DEF u

\* open.
LEMMA OpenOwned ==
  ASSUME NEW s, Owned(s), s.state # "closed",
         NEW opened \in {"ok", "operation_error", "error"}
  PROVE  /\ Owned(OpenTransport(s, opened))
         /\ KeepsOrDrops(s, OpenTransport(s, opened))
         /\ OpenTransport(s, opened).state \in {"ready", "degraded", "fatal"}
         /\ s.state \in {"ready", "degraded", "fatal"} => OpenTransport(s, opened) = s
<1>t. s \in RuntimeType
  BY DEF Owned
<1>1. CASE s.state \in {"ready", "degraded", "fatal"}
  BY <1>1 DEF OpenTransport, KeepsOrDrops
<1>2. CASE s.state = "created"
  <2>1. s.needsClose
    BY <1>2 DEF Owned
  <2>2. CASE opened = "ok"
    <3> DEFINE u == [s EXCEPT !.state = "ready", !.pool[s.cur] = "open"]
    <3>1. Owned(u)
      BY <1>2, <2>1, MarkedOwned
    <3>2. u.state = "ready" /\ u.requests = s.requests
      BY <1>t DEF RuntimeType
    <3>3. OpenTransport(s, opened) = u
      BY <1>2, <2>2 DEF OpenTransport
    <3> HIDE DEF u
    <3> QED BY <1>2, <3>1, <3>2, <3>3 DEF KeepsOrDrops
  <2>3. CASE opened = "operation_error"
    <3> DEFINE u == [s EXCEPT !.state = "degraded", !.pool[s.cur] = "broken"]
    <3>1. Owned(u)
      BY <1>2, <2>1, MarkedOwned
    <3>2. u.state = "degraded" /\ u.requests = s.requests
      BY <1>t DEF RuntimeType
    <3>3. OpenTransport(s, opened) = u
      BY <1>2, <2>3 DEF OpenTransport
    <3> HIDE DEF u
    <3> QED BY <1>2, <3>1, <3>2, <3>3 DEF KeepsOrDrops
  <2>4. CASE opened = "error"
    <3> DEFINE u == [s EXCEPT !.pool[s.cur] = "broken"]
               v == [s EXCEPT !.state = "degraded", !.pool[s.cur] = "broken"]
    <3>1. Owned(v)
      BY <1>2, <2>1, MarkedOwned
    <3>2. /\ u \in RuntimeType /\ u.pool = v.pool /\ u.cur = v.cur
          /\ u.needsClose = v.needsClose
      BY <1>t, <1>2 DEF RuntimeType, TransportState
    <3>3. OpenTransport(s, opened) = MarkFatal(u, "fatal_protocol_drift")
      BY <1>2, <2>4 DEF OpenTransport
    <3>4. "fatal_protocol_drift" \in FatalStatus
      BY DEF FatalStatus
    <3> HIDE DEF u, v
    <3>5. /\ OpenTransport(s, opened) \in RuntimeType
          /\ OpenTransport(s, opened).state = "fatal"
          /\ OpenTransport(s, opened).requests = NoRequests
          /\ OpenTransport(s, opened).cur = u.cur
          /\ OpenTransport(s, opened).needsClose = u.needsClose
          /\ OpenTransport(s, opened).pool = u.pool
      BY <3>2, <3>3, <3>4, MarkFatalFacts
    <3> QED BY <1>2, <3>1, <3>2, <3>5 DEF Owned, KeepsOrDrops
  <2> QED BY <2>2, <2>3, <2>4
<1> QED BY <1>1, <1>2, <1>t DEF RuntimeType, States

\* A degraded transport is closed before it is replaced.
LEMMA ReleaseOwned ==
  ASSUME NEW s, Owned(s), s.state = "degraded", Replaceable(s)
  PROVE  /\ Owned(Release(s)) /\ ~Release(s).needsClose /\ Replaceable(Release(s))
         /\ Release(s).state = "degraded" /\ Release(s).requests = s.requests
<1>1. s \in RuntimeType /\ s.cur \in Transports /\ s.pool \in [Transports -> TransportState]
  BY DEF Owned, RuntimeType
<1> DEFINE p == [s.pool EXCEPT ![s.cur] = "closed"]
           u == Release(s)
<1>2. /\ p \in [Transports -> TransportState] /\ p[s.cur] = "closed"
      /\ \A t \in Transports \ {s.cur} : p[t] = s.pool[t]
  BY <1>1 DEF TransportState
<1>3. /\ u \in RuntimeType /\ u.state = s.state /\ u.cur = s.cur
      /\ u.needsClose = FALSE /\ u.pool = p /\ u.requests = s.requests
  BY <1>1, <1>2 DEF Release, RuntimeType
<1> HIDE DEF p, u
<1>4. Owned(u)
  BY <1>2, <1>3 DEF Owned
<1>5. Replaceable(u)
  BY <1>2, <1>3 DEF Owned, Replaceable
<1> QED BY <1>3, <1>4, <1>5 DEF u

\* A new transport is made only where there is none.
LEMMA FreshFacts ==
  ASSUME NEW s, Owned(s), Replaceable(s)
  PROVE  Fresh(s) \in Transports /\ s.pool[Fresh(s)] = "unmade" /\ Fresh(s) # s.cur
BY DEF Owned, Replaceable, Fresh

\* Adopting a replacement, or refusing one, when nothing is owned.
LEMMA ReplaceOwned ==
  ASSUME NEW s, Owned(s), s.state = "degraded", ~s.needsClose, Replaceable(s),
         NEW e \in Environment
  PROVE  Owned(Replace(s, e)) /\ KeepsOrDrops(s, Replace(s, e))
         /\ Replace(s, e).state \in {"ready", "degraded", "fatal"}
<1> DEFINE f == Fresh(s)
<1>1. f \in Transports /\ s.pool[f] = "unmade" /\ f # s.cur
  BY FreshFacts
<1>2. s \in RuntimeType /\ s.cur \in Transports /\ s.pool \in [Transports -> TransportState]
      /\ s.pool[s.cur] = "closed" /\ (\A t \in Transports : s.pool[t] # "stuck")
  BY DEF Owned, RuntimeType
<1>e. /\ e.factory \in {"made", "operation_error", "error", "same", "misconfigured"}
      /\ e.opened \in {"ok", "operation_error", "error"}
      /\ {"fatal_protocol_drift", "fatal_transport_cleanup"} \subseteq FatalStatus
  BY DEF Environment, FatalStatus
<1> HIDE DEF f
<1>3. CASE e.factory = "operation_error"
  BY <1>3 DEF Replace, KeepsOrDrops
<1>4. CASE e.factory \in {"error", "same"}
  BY <1>4, <1>e, MarkFatalOwned DEF Replace
<1>5. CASE e.factory = "misconfigured"
  <2>1. ASSUME NEW x \in {"closed", "stuck"}, NEW status \in FatalStatus
        PROVE  /\ Owned(MarkFatal([s EXCEPT !.pool[f] = x], status))
               /\ MarkFatal([s EXCEPT !.pool[f] = x], status).state = "fatal"
               /\ KeepsOrDrops(s, MarkFatal([s EXCEPT !.pool[f] = x], status))
    <3> DEFINE p == [s.pool EXCEPT ![f] = x]
               u == [s EXCEPT !.pool[f] = x]
               m == MarkFatal(u, status)
    <3>1. /\ p \in [Transports -> TransportState] /\ p[f] = x
          /\ \A t \in Transports \ {f} : p[t] = s.pool[t]
      BY <1>1, <1>2 DEF TransportState
    <3>2. /\ u \in RuntimeType /\ u.cur = s.cur /\ u.needsClose = s.needsClose /\ u.pool = p
      BY <1>2, <3>1 DEF RuntimeType
    <3> HIDE DEF p, u
    <3>3. /\ m \in RuntimeType /\ m.state = "fatal" /\ m.requests = NoRequests
          /\ m.cur = s.cur /\ m.needsClose = s.needsClose /\ m.pool = p
      BY <3>2, MarkFatalFacts
    <3> HIDE DEF m
    <3>4. Owned(m) /\ KeepsOrDrops(s, m)
      BY <1>1, <1>2, <3>1, <3>3 DEF Owned, KeepsOrDrops
    <3> QED BY <3>3, <3>4 DEF m, u
  <2>2. Replace(s, e) = Refuse(s, e.released)
    BY <1>5 DEF Replace
  <2> QED BY <2>1, <2>2, <1>e DEF Refuse, f
<1>6. CASE e.factory = "made"
  <2> DEFINE p == [s.pool EXCEPT ![f] = "new"]
             u == [s EXCEPT !.cur = f, !.needsClose = TRUE, !.state = "created",
                            !.pool[f] = "new"]
  <2>1. /\ p \in [Transports -> TransportState] /\ p[f] = "new"
        /\ \A t \in Transports \ {f} : p[t] = s.pool[t]
    BY <1>1, <1>2 DEF TransportState
  <2>2. /\ u \in RuntimeType /\ u.state = "created" /\ u.cur = f /\ u.needsClose = TRUE
        /\ u.pool = p /\ u.requests = s.requests
    BY <1>1, <1>2, <2>1 DEF RuntimeType, States
  <2>3. Replace(s, e) = OpenTransport(u, e.opened)
    BY <1>6 DEF Replace, Adopt, f
  <2> HIDE DEF p, u
  <2>4. Owned(u)
    BY <1>1, <1>2, <2>1, <2>2 DEF Owned
  <2>5. /\ Owned(OpenTransport(u, e.opened)) /\ KeepsOrDrops(u, OpenTransport(u, e.opened))
        /\ OpenTransport(u, e.opened).state \in {"ready", "degraded", "fatal"}
    BY <1>e, <2>2, <2>4, OpenOwned
  <2> QED BY <2>2, <2>3, <2>5 DEF KeepsOrDrops
<1> QED BY <1>3, <1>4, <1>5, <1>6, <1>e

\* _retry_degraded_transport_once, and the opening before a first query.
LEMMA ConnectOwned ==
  ASSUME NEW s, Owned(s), s.state \notin {"closed", "fatal"},
         s.state = "degraded" => Replaceable(s), NEW e \in Environment
  PROVE  Owned(Connect(s, e)) /\ KeepsOrDrops(s, Connect(s, e))
         /\ Connect(s, e).state \in {"ready", "degraded", "fatal"}
<1>e. e.opened \in {"ok", "operation_error", "error"} /\ e.released \in BOOLEAN
      /\ "fatal_transport_cleanup" \in FatalStatus
  BY DEF Environment, FatalStatus
<1>1. CASE s.state = "created"
  BY <1>1, <1>e, OpenOwned DEF Connect
<1>2. CASE s.state = "degraded"
  <2>1. Connect(s, e) = RetryDegraded(s, e)
    BY <1>2 DEF Connect
  <2>2. CASE ~s.needsClose
    BY <1>2, <2>1, <2>2, ReplaceOwned DEF RetryDegraded
  <2>3. CASE s.needsClose /\ e.released
    <3>1. /\ Owned(Release(s)) /\ ~Release(s).needsClose /\ Replaceable(Release(s))
          /\ Release(s).state = "degraded" /\ Release(s).requests = s.requests
      BY <1>2, ReleaseOwned
    <3>2. /\ Owned(Replace(Release(s), e)) /\ KeepsOrDrops(Release(s), Replace(Release(s), e))
          /\ Replace(Release(s), e).state \in {"ready", "degraded", "fatal"}
      BY <3>1, ReplaceOwned
    <3> QED BY <2>1, <2>3, <3>1, <3>2 DEF RetryDegraded, KeepsOrDrops
  <2>4. CASE s.needsClose /\ ~e.released
    BY <1>2, <1>e, <2>1, <2>4, MarkFatalOwned DEF RetryDegraded
  <2> QED BY <2>2, <2>3, <2>4
<1>3. CASE s.state = "ready"
  BY <1>3 DEF Connect, KeepsOrDrops
<1> QED BY <1>1, <1>2, <1>3 DEF Owned, RuntimeType, States

-----------------------------------------------------------------------------
(* The lookups.                                                            *)

\* What a call may do to the results retained in s.
Stable(s, t) ==
  \A r \in Requests :
    s.requests[r] # None /\ t.requests[r] # None =>
      /\ t.requests[r].status = s.requests[r].status
      /\ t.requests[r].gen - s.requests[r].gen
           = t.requests[r].preemptions - s.requests[r].preemptions

\* A retained result that is kept as it was, or dropped, is stable.
LEMMA KeepsOrDropsStable ==
  ASSUME NEW s \in RuntimeType, NEW t, KeepsOrDrops(s, t)
  PROVE  Stable(s, t)
<1> SUFFICES ASSUME NEW r \in Requests, s.requests[r] # None, t.requests[r] # None
             PROVE  t.requests[r] = s.requests[r] /\ s.requests[r] \in Stored
  BY DEF Stable, Stored
<1> QED BY DEF KeepsOrDrops, NoRequests, RuntimeType

\* Retaining the first result of a request.
LEMMA KeepOwned ==
  ASSUME NEW s, Owned(s), s.state # "closed", NEW r \in Requests, NEW n \in Nat,
         NEW status \in Retained
  PROVE  /\ Owned(Keep(s, r, n, status))
         /\ \A q \in Requests \ {r} : Keep(s, r, n, status).requests[q] = s.requests[q]
<1> DEFINE x == [preemptions |-> n, gen |-> 0, status |-> status]
           u == Keep(s, r, n, status)
<1>1. x \in Stored
  BY DEF Stored
<1>2. s \in RuntimeType
  BY DEF Owned
<1>3. u = [s EXCEPT !.requests[r] = x]
  BY DEF Keep
<1> HIDE DEF x, u
<1>4. /\ u \in RuntimeType /\ u.state = s.state /\ u.cur = s.cur
      /\ u.needsClose = s.needsClose /\ u.pool = s.pool
      /\ u.requests = [s.requests EXCEPT ![r] = x]
  BY <1>1, <1>2, <1>3 DEF RuntimeType
<1>5. Owned(u)
  BY <1>4 DEF Owned
<1>6. \A q \in Requests \ {r} : u.requests[q] = s.requests[q]
  BY <1>2, <1>4 DEF RuntimeType
<1> QED BY <1>5, <1>6 DEF u

\* The results of other requests are kept, or all are dropped.
OthersKept(s, t, r) ==
  t.requests = NoRequests \/ \A q \in Requests \ {r} : t.requests[q] = s.requests[q]

\* lookup_candidates and _verify_candidates.
LEMMA QueryOwned ==
  ASSUME NEW s, Owned(s), s.state = "ready", NEW r \in Requests, NEW n \in Nat,
         NEW queried \in {"verified", "miss", "operation_error", "protocol_error",
                          "sidecar_error", "sidecar_corruption"}
  PROVE  Owned(Query(s, r, n, queried)) /\ OthersKept(s, Query(s, r, n, queried), r)
<1>1. /\ {"transfer_ready", "full_prefill_miss", "full_prefill_sidecar_error",
          "full_prefill_transport_error"} \subseteq Retained
      /\ {"fatal_sidecar_corruption", "fatal_protocol_drift"} \subseteq FatalStatus
  BY DEF Retained, FatalStatus
<1>2. CASE queried = "verified"
  BY <1>1, <1>2, KeepOwned DEF Query, OthersKept
<1>3. CASE queried = "miss"
  BY <1>1, <1>3, KeepOwned DEF Query, OthersKept
<1>4. CASE queried = "sidecar_error"
  BY <1>1, <1>4, KeepOwned DEF Query, OthersKept
<1>5. CASE queried = "operation_error"
  <2> DEFINE u == [s EXCEPT !.state = "degraded", !.pool[s.cur] = "broken"]
  <2>1. Owned(u)
    BY MarkedOwned DEF Owned
  <2>2. u.state = "degraded" /\ u.requests = s.requests
    BY DEF Owned, RuntimeType
  <2>3. Query(s, r, n, queried) = Keep(u, r, n, "full_prefill_transport_error")
    BY <1>5 DEF Query
  <2> HIDE DEF u
  <2> QED BY <1>1, <2>1, <2>2, <2>3, KeepOwned DEF OthersKept
<1>6. CASE queried = "sidecar_corruption"
  <2>1. Query(s, r, n, queried) = MarkFatal(s, "fatal_sidecar_corruption")
    BY <1>6 DEF Query
  <2> QED BY <1>1, <2>1, MarkFatalOwned, MarkFatalFacts DEF Owned, OthersKept
<1>7. CASE queried = "protocol_error"
  <2>1. Query(s, r, n, queried) = MarkFatal(s, "fatal_protocol_drift")
    BY <1>7 DEF Query
  <2> QED BY <1>1, <2>1, MarkFatalOwned, MarkFatalFacts DEF Owned, OthersKept
<1> QED BY <1>2, <1>3, <1>4, <1>5, <1>6, <1>7

\* A first lookup touches no result but its own.
LEMMA FirstLookupOwned ==
  ASSUME NEW s, Owned(s), s.state \notin {"closed", "fatal"},
         s.state = "degraded" => Replaceable(s),
         NEW r \in Requests, s.requests[r] = None, NEW n \in Nat,
         NEW external \in BOOLEAN, NEW e \in Environment
  PROVE  /\ Owned(FirstLookup(s, r, n, external, e))
         /\ Stable(s, FirstLookup(s, r, n, external, e))
<1>1. /\ {"full_prefill_prompt_too_large", "full_prefill_transport_error"} \subseteq Retained
      /\ "fatal_nonzero_external_tokens" \in FatalStatus
      /\ e.queried \in {"verified", "miss", "operation_error", "protocol_error",
                        "sidecar_error", "sidecar_corruption"}
      /\ s \in RuntimeType
  BY DEF Retained, FatalStatus, Environment, Owned
<1>s. ASSUME NEW t, OthersKept(s, t, r)
      PROVE  Stable(s, t)
  <2> SUFFICES ASSUME NEW q \in Requests, s.requests[q] # None, t.requests[q] # None
               PROVE  t.requests[q] = s.requests[q] /\ s.requests[q] \in Stored
    BY DEF Stable, Stored
  <2>1. s.requests[q] \in Stored /\ q # r
    BY <1>1 DEF RuntimeType
  <2> QED BY <1>s, <2>1 DEF OthersKept, NoRequests
<1> DEFINE c == Connect(s, e)
           l == FirstLookup(s, r, n, external, e)
<1>2. Owned(c) /\ KeepsOrDrops(s, c) /\ c.state \in {"ready", "degraded", "fatal"}
  BY ConnectOwned
<1>3. CASE external
  <2>1. l = MarkFatal(s, "fatal_nonzero_external_tokens")
    BY <1>3 DEF FirstLookup
  <2> QED BY <1>1, <2>1, MarkFatalOwned, KeepsOrDropsStable
<1>4. CASE ~external /\ r \in TooLarge
  <2>1. l = Keep(s, r, n, "full_prefill_prompt_too_large")
    BY <1>4 DEF FirstLookup
  <2>2. Owned(l) /\ OthersKept(s, l, r)
    BY <1>1, <2>1, KeepOwned DEF OthersKept
  <2> QED BY <1>s, <2>2
<1>o. ASSUME NEW t, OthersKept(c, t, r)
      PROVE  OthersKept(s, t, r) \/ Stable(s, t)
  <2>1. CASE c.requests = s.requests
    BY <1>o, <2>1 DEF OthersKept
  <2>2. CASE c.requests = NoRequests
    BY <1>o, <2>2 DEF OthersKept, Stable, NoRequests
  <2> QED BY <1>2, <2>1, <2>2 DEF KeepsOrDrops
<1> HIDE DEF c
<1>5. CASE ~external /\ r \notin TooLarge /\ c.state = "degraded"
  <2>1. l = Keep(c, r, n, "full_prefill_transport_error")
    BY <1>5 DEF FirstLookup, c
  <2>2. Owned(l) /\ OthersKept(c, l, r)
    BY <1>1, <1>2, <1>5, <2>1, KeepOwned DEF OthersKept
  <2> HIDE DEF l
  <2>3. Owned(l) /\ Stable(s, l)
    BY <1>s, <1>o, <2>2
  <2> QED BY <2>3 DEF l
<1>6. CASE ~external /\ r \notin TooLarge /\ c.state = "fatal"
  <2>1. l = c
    BY <1>6 DEF FirstLookup, c
  <2> QED BY <1>1, <1>2, <2>1, KeepsOrDropsStable
<1>7. CASE ~external /\ r \notin TooLarge /\ c.state = "ready"
  <2>1. l = Query(c, r, n, e.queried)
    BY <1>7 DEF FirstLookup, c
  <2>2. Owned(l) /\ OthersKept(c, l, r)
    BY <1>1, <1>2, <1>7, <2>1, QueryOwned
  <2> HIDE DEF l
  <2>3. Owned(l) /\ Stable(s, l)
    BY <1>s, <1>o, <2>2
  <2> QED BY <2>3 DEF l
<1> QED BY <1>2, <1>3, <1>4, <1>5, <1>6, <1>7

\* _repeat_or_preempt: the same result, or the next generation of it.
LEMMA RepeatOwned ==
  ASSUME NEW s, Owned(s), s.state \notin {"closed", "fatal"},
         NEW r \in Requests, s.requests[r] # None, NEW n \in Nat, NEW external \in BOOLEAN
  PROVE  /\ Owned(RepeatOrPreempt(s, r, n, external))
         /\ Stable(s, RepeatOrPreempt(s, r, n, external))
<1>1. "fatal_duplicate_conflict" \in FatalStatus /\ s \in RuntimeType
      /\ s.requests[r] \in Stored
  BY DEF FatalStatus, Owned, RuntimeType
<1>2. CASE RepeatOrPreempt(s, r, n, external) = MarkFatal(s, "fatal_duplicate_conflict")
  BY <1>1, <1>2, MarkFatalOwned, KeepsOrDropsStable
<1>3. CASE RepeatOrPreempt(s, r, n, external) = s
  <2>1. KeepsOrDrops(s, s)
    BY DEF KeepsOrDrops
  <2> QED BY <1>1, <1>3, <2>1, KeepsOrDropsStable
<1>4. CASE ~external /\ n = s.requests[r].preemptions + 1
  <2> DEFINE old == s.requests[r]
             new == [old EXCEPT !.preemptions = n, !.gen = old.gen + 1]
             u == RepeatOrPreempt(s, r, n, external)
  <2>1. /\ new \in Stored /\ new.status = old.status
        /\ new.gen - old.gen = new.preemptions - old.preemptions
    <3>1. /\ new \in Stored /\ new.status = old.status
          /\ new.gen = old.gen + 1 /\ new.preemptions = old.preemptions + 1
      <4>1. ASSUME NEW o \in Stored, NEW g \in Nat
            PROVE  /\ [o EXCEPT !.preemptions = n, !.gen = g] \in Stored
                   /\ [o EXCEPT !.preemptions = n, !.gen = g].status = o.status
                   /\ [o EXCEPT !.preemptions = n, !.gen = g].preemptions = n
                   /\ [o EXCEPT !.preemptions = n, !.gen = g].gen = g
        BY DEF Stored
      <4>2. old \in Stored /\ old.gen + 1 \in Nat /\ n = old.preemptions + 1
        BY <1>1, <1>4 DEF Stored
      <4> HIDE DEF old
      <4> QED BY <4>1, <4>2
    <3>2. old.gen \in Nat /\ old.preemptions \in Nat
      BY <1>1 DEF Stored
    <3> QED BY <3>1, <3>2
  <2>2. n # s.requests[r].preemptions
    BY <1>1, <1>4 DEF Stored
  <2>3. u = [s EXCEPT !.requests[r].preemptions = n, !.requests[r].gen = @ + 1]
    BY <1>4, <2>2 DEF RepeatOrPreempt
  <2>4. /\ u.state = s.state /\ u.cur = s.cur /\ u.needsClose = s.needsClose
        /\ u.pool = s.pool /\ u.fatal = s.fatal
        /\ u.requests = [s.requests EXCEPT ![r] = new]
        /\ u \in RuntimeType
    BY <1>1, <2>1, <2>3 DEF RuntimeType, Stored
  <2> HIDE DEF u, new
  <2>5. Owned(u)
    BY <1>1, <2>4 DEF Owned
  <2>6. Stable(s, u)
    <3> SUFFICES ASSUME NEW q \in Requests, s.requests[q] # None, u.requests[q] # None
                 PROVE  /\ u.requests[q].status = s.requests[q].status
                        /\ u.requests[q].gen - s.requests[q].gen
                             = u.requests[q].preemptions - s.requests[q].preemptions
      BY DEF Stable
    <3>1. CASE q = r
      BY <1>1, <2>1, <2>4, <3>1 DEF RuntimeType
    <3>2. CASE q # r
      <4>1. u.requests[q] = s.requests[q] /\ s.requests[q] \in Stored
        BY <1>1, <2>4, <3>2 DEF RuntimeType
      <4> QED BY <4>1 DEF Stored
    <3> QED BY <3>1, <3>2
  <2> QED BY <2>5, <2>6 DEF u
<1> QED BY <1>2, <1>3, <1>4 DEF RepeatOrPreempt

-----------------------------------------------------------------------------
(* The calls.                                                              *)

\* A call keeps the ownership, ends no result in another status, and changes
\* nothing of a runtime that has failed closed.
Sound(s, t) ==
  /\ Owned(t) /\ Stable(s, t)
  /\ s.state = "fatal" =>
       /\ t.state \in {"fatal", "closed"}
       /\ \A x \in Transports : t.pool[x] \in {s.pool[x], "closed"}
  /\ s.state = "closed" => t = s

\* Returning without a change is sound.
LEMMA SameSound ==
  ASSUME NEW s, Owned(s)
  PROVE  Sound(s, s)
<1>1. KeepsOrDrops(s, s) /\ s \in RuntimeType
  BY DEF KeepsOrDrops, Owned
<1> QED BY <1>1, KeepsOrDropsStable DEF Sound

\* lookup is sound: the early returns, the lookup on a ready transport and the
\* one on a replacement of a degraded transport.
LEMMA LookupSound ==
  ASSUME NEW s, Owned(s), s.state = "degraded" => Replaceable(s),
         NEW r \in Requests, NEW n \in Nat, NEW external \in BOOLEAN, NEW e \in Environment
  PROVE  Sound(s, Lookup(s, r, n, external, e))
<1>1. CASE s.state \in {"closed", "fatal"}
  BY <1>1, SameSound DEF Lookup
<1>2. CASE s.state \notin {"closed", "fatal"} /\ s.requests[r] # None
  BY <1>2, RepeatOwned DEF Lookup, Sound
<1>3. CASE s.state \notin {"closed", "fatal"} /\ s.requests[r] = None
  BY <1>3, FirstLookupOwned DEF Lookup, Sound
<1> QED BY <1>1, <1>2, <1>3

\* discard of a request; a closed runtime has none.
LEMMA DiscardSound ==
  ASSUME NEW s, Owned(s), NEW r \in Requests
  PROVE  Sound(s, [s EXCEPT !.requests[r] = None])
<1> DEFINE u == [s EXCEPT !.requests[r] = None]
<1>1. s \in RuntimeType
  BY DEF Owned
<1>2. /\ u \in RuntimeType /\ u.state = s.state /\ u.cur = s.cur
      /\ u.needsClose = s.needsClose /\ u.pool = s.pool /\ u.fatal = s.fatal
      /\ u.requests = [s.requests EXCEPT ![r] = None]
  BY <1>1 DEF RuntimeType
<1>3. s.state = "closed" => u.requests = s.requests
  <2>1. [NoRequests EXCEPT ![r] = None] = NoRequests
    BY DEF NoRequests
  <2> QED BY <1>2, <2>1 DEF Owned
<1>4. s.state = "closed" => u = s
  BY <1>1, <1>2, <1>3 DEF RuntimeType
<1> HIDE DEF u
<1>5. Owned(u)
  BY <1>2, <1>3 DEF Owned
<1>6. Stable(s, u)
  <2> SUFFICES ASSUME NEW q \in Requests, s.requests[q] # None, u.requests[q] # None
               PROVE  u.requests[q] = s.requests[q] /\ s.requests[q] \in Stored
    BY DEF Stable, Stored
  <2> QED BY <1>1, <1>2 DEF RuntimeType
<1>7. Sound(s, u)
  BY <1>2, <1>4, <1>5, <1>6 DEF Sound
<1> QED BY <1>7 DEF u

\* close: an owned transport is released, or the runtime stays its owner.
LEMMA CloseSound ==
  ASSUME NEW s, Owned(s), NEW released \in BOOLEAN
  PROVE  Sound(s, CloseRuntime(s, released))
<1> DEFINE d == [s EXCEPT !.requests = NoRequests]
           u == CloseRuntime(s, released)
           p == [s.pool EXCEPT ![s.cur] = "closed"]
<1>1. s \in RuntimeType /\ s.cur \in Transports /\ s.pool \in [Transports -> TransportState]
  BY DEF Owned, RuntimeType
<1>2. /\ d \in RuntimeType /\ d.state = s.state /\ d.cur = s.cur
      /\ d.needsClose = s.needsClose /\ d.pool = s.pool /\ d.requests = NoRequests
  BY <1>1, NoRequestsTyped DEF RuntimeType
<1>3. /\ p \in [Transports -> TransportState] /\ p[s.cur] = "closed"
      /\ \A t \in Transports \ {s.cur} : p[t] = s.pool[t]
  BY <1>1 DEF TransportState
<1>4. CASE s.state = "closed"
  BY <1>4, SameSound DEF CloseRuntime
<1>o. ASSUME NEW t \in RuntimeType, s.state # "closed", t.requests = NoRequests,
             t.cur = s.cur,
             \/ t.state = "closed" /\ ~s.needsClose /\ ~t.needsClose /\ t.pool = s.pool
             \/ t.state = "closed" /\ ~t.needsClose /\ t.pool = p
             \/ t.state = "fatal" /\ t.needsClose = s.needsClose /\ t.pool = s.pool
      PROVE  Sound(s, t)
  <2> HIDE DEF p
  <2>1. Owned(t)
    BY <1>1, <1>3, <1>o DEF Owned
  <2>2. Stable(s, t)
    BY <1>1, <1>o, KeepsOrDropsStable DEF KeepsOrDrops
  <2>3. \A x \in Transports : t.pool[x] \in {s.pool[x], "closed"}
    BY <1>1, <1>3, <1>o
  <2> QED BY <1>o, <2>1, <2>2, <2>3 DEF Sound
<1>5. CASE s.state # "closed" /\ ~s.needsClose
  <2>1. u = [d EXCEPT !.state = "closed"]
    BY <1>5 DEF CloseRuntime
  <2> HIDE DEF d, u
  <2>2. /\ u \in RuntimeType /\ u.state = "closed" /\ u.cur = s.cur /\ ~u.needsClose
        /\ u.pool = s.pool /\ u.requests = NoRequests
    BY <1>2, <1>5, <2>1 DEF RuntimeType, States
  <2>3. Sound(s, u)
    BY <1>5, <1>o, <2>2
  <2> QED BY <2>3 DEF u
<1>6. CASE s.state # "closed" /\ s.needsClose /\ released
  <2>1. u = [Release(d) EXCEPT !.state = "closed"]
    BY <1>6 DEF CloseRuntime
  <2>2. u = [[d EXCEPT !.needsClose = FALSE, !.pool[d.cur] = "closed"] EXCEPT !.state = "closed"]
    BY <2>1 DEF Release
  <2> HIDE DEF d, u
  <2>3. /\ u \in RuntimeType /\ u.state = "closed" /\ u.cur = s.cur /\ ~u.needsClose
        /\ u.pool = p /\ u.requests = NoRequests
    BY <1>1, <1>2, <1>3, <2>2 DEF RuntimeType, States
  <2>4. Sound(s, u)
    BY <1>6, <1>o, <2>3
  <2> QED BY <2>4 DEF u
<1>7. CASE s.state # "closed" /\ s.needsClose /\ ~released
  <2>1. u = [d EXCEPT !.state = "fatal", !.fatal = "fatal_transport_cleanup"]
    BY <1>7 DEF CloseRuntime
  <2> HIDE DEF d, u
  <2>2. /\ u \in RuntimeType /\ u.state = "fatal" /\ u.cur = s.cur
        /\ u.needsClose = s.needsClose /\ u.pool = s.pool /\ u.requests = NoRequests
    BY <1>2, <1>7, <2>1 DEF RuntimeType, States, FatalStatus
  <2>3. Sound(s, u)
    BY <1>7, <1>o, <2>2
  <2> QED BY <2>3 DEF u
<1> QED BY <1>4, <1>5, <1>6, <1>7

-----------------------------------------------------------------------------
(* The theorems.                                                           *)

\* __init__ owns the one transport it is given.
LEMMA InitOwned == Init => Owned(rt)
<1> SUFFICES ASSUME Init PROVE Owned(rt)
  OBVIOUS
<1>1. rt \in RuntimeType
  BY NoRequestsTyped, TransportsTyped DEF Init, RuntimeType, States, TransportState
<1> QED BY <1>1, TransportsTyped DEF Init, Owned

\* Every call of the runtime is sound.
LEMMA StepSound ==
  ASSUME Owned(rt), [Next]_vars
  PROVE  Sound(rt, rt')
<1>1. CASE DoOpen
  <2>1. PICK opened \in {"ok", "operation_error", "error"} : rt' = OpenTransport(rt, opened)
    BY <1>1 DEF DoOpen
  <2>2. rt.state # "closed" /\ rt \in RuntimeType
    BY <1>1 DEF DoOpen, Owned
  <2>3. Owned(rt') /\ Stable(rt, rt') /\ (rt.state = "fatal" => rt' = rt)
    BY <2>1, <2>2, OpenOwned, KeepsOrDropsStable
  <2> QED BY <2>2, <2>3 DEF Sound
<1>2. ASSUME NEW r \in Requests, NEW n \in 0..MaxPreemptions, DoLookup(r, n)
      PROVE  Sound(rt, rt')
  <2>1. PICK external \in BOOLEAN, e \in Environment : rt' = Lookup(rt, r, n, external, e)
    BY <1>2 DEF DoLookup
  <2> QED BY <1>2, <2>1, LookupSound DEF DoLookup
<1>3. ASSUME NEW r \in Requests, DoDiscard(r)
      PROVE  Sound(rt, rt')
  BY <1>3, DiscardSound DEF DoDiscard
<1>4. CASE DoClose
  BY <1>4, CloseSound DEF DoClose
<1>5. CASE UNCHANGED vars
  BY <1>5, SameSound DEF vars
<1> QED BY <1>1, <1>2, <1>3, <1>4, <1>5 DEF Next

\* No transport is lost: whatever fails in whichever call, every transport the
\* factory made is owned, released, or refused by a runtime that has failed
\* closed (SchedulerLookupRuntime.close, _retry_degraded_transport_once).
THEOREM TransportsAreAlwaysOwned == Spec => []TransportsOwned
<1>1. Owned(rt) /\ [Next]_vars => Owned(rt)'
  BY StepSound DEF Sound
<1>2. Owned(rt) => TransportsOwned
  BY DEF Owned, TransportsOwned, TypeOK
<1> QED BY InitOwned, <1>1, <1>2, PTL DEF Spec

\* Nothing brings a runtime back that has failed closed.
THEOREM FailureIsFinal == Spec => FailsClosed
<1>1. Owned(rt) /\ [Next]_vars => Owned(rt)'
  BY StepSound DEF Sound
<1>2. Owned(rt) /\ [Next]_vars =>
        [/\ rt.state = "fatal" =>
              /\ rt'.state \in {"fatal", "closed"}
              /\ \A t \in Transports : rt'.pool[t] \in {rt.pool[t], "closed"}
         /\ rt.state = "closed" => rt' = rt]_vars
  BY StepSound DEF Sound, vars
<1> QED BY InitOwned, <1>1, <1>2, PTL DEF Spec, FailsClosed

\* A request is never told two different things by two lookups, and each
\* preemption gives it exactly one new generation (_repeat_or_preempt).
THEOREM LookupIsAlwaysStable == Spec => LookupIsStable
<1>1. Owned(rt) /\ [Next]_vars => Owned(rt)'
  BY StepSound DEF Sound
<1>2. Owned(rt) /\ [Next]_vars =>
        [\A r \in Requests :
           rt.requests[r] # None /\ rt'.requests[r] # None =>
             /\ rt'.requests[r].status = rt.requests[r].status
             /\ rt'.requests[r].gen - rt.requests[r].gen
                  = rt'.requests[r].preemptions - rt.requests[r].preemptions]_vars
  BY StepSound DEF Sound, Stable, vars
<1> QED BY InitOwned, <1>1, <1>2, PTL DEF Spec, LookupIsStable

=============================================================================
