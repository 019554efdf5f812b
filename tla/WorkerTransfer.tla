--------------------------- MODULE WorkerTransfer ---------------------------
(***************************************************************************)
(* The worker's side of a transfer: TransferRuntime drives GptOssWorker-   *)
(* Bridge, which owns one staging tensor (StagingRuntime) shared with the  *)
(* LMCache server over CUDA IPC, and one message-queue client (LmcacheBlend-*)
(* Transport).  All of it runs in the worker's thread, one call at a time; *)
(* the server runs beside it, may refuse a request, and may carry one out  *)
(* after the client has stopped waiting for it.                            *)
(*                                                                         *)
(* Retrieve and store use the same region of the staging tensor (both      *)
(* offsets of WorkerBridgeBufferConfig are 0), so the tensor's content is  *)
(* one value: whose KV it is, and from which direction.                    *)
(***************************************************************************)
EXTENDS Naturals, FiniteSets

CONSTANTS Requests,   \* requests the worker transfers for, once each
          None,       \* no request, Python's None
          MaxCloses   \* bound on calls of WorkerRuntimeResources.close

ASSUME RequestsAssumption == None \notin Requests
ASSUME BoundAssumption == MaxCloses \in Nat

VARIABLES
  wk,        \* the worker's thread: where it is, for which request, and
             \* whether the close in progress has failed so far
  tr,        \* LmcacheBlendTransport: _state, _registration, its queue
  st,        \* StagingRuntime: _state, _registration_may_exist, its owners
  br,        \* GptOssWorkerBridge: _state and the plans it remembers
  res,       \* WorkerRuntimeResources: absent, open, closed, abandoned
  closes,    \* calls of WorkerRuntimeResources.close so far
  buffer,    \* the content of the staging tensor
  scattered, \* what was scattered into each request's paged KV
  load,      \* PreForwardOutcome.state of each request
  store,     \* PostForwardOutcome.state of each request
  published, \* requests whose records are in the sidecar
  server     \* the LMCache server

vars == <<wk, tr, st, br, res, closes, buffer, scattered, load, store,
          published, server>>

TransportStates == {"created", "ready", "registered", "failed", "closed"}
StagingStates == {"created", "registered", "transfer_active", "failed", "closed"}
BridgeStates == {"created", "ready", "failed", "closed"}
Attempts == {"none", "not_eligible", "fallback", "succeeded"}

\* The bridge's six plan slots.
Slots == {"load_storage_preflight", "load_data_preflight", "retrieved",
          "gather_preflight", "store_preflight", "gathered"}
NoPlans == [s \in Slots |-> None]

\* Staging content: KV the server retrieved for a request, KV gathered from a
\* request's blocks, or neither.
Retrieved(r) == [from |-> "server", req |-> r]
Gathered(r) == [from |-> "blocks", req |-> r]
Garbled == [from |-> "garbled", req |-> None]
Contents == {Retrieved(r) : r \in Requests} \cup {Gathered(r) : r \in Requests}
              \cup {Garbled}

\* Requests to the server.  One is outstanding at a time; "late" are those the
\* client no longer waits for.
Kinds == {"register", "unregister", "retrieve", "store"}
Op == [kind : Kinds, req : Requests \cup {None}]
NoCall == [op |-> [kind |-> "none", req |-> None], status |-> "none"]
Calls == {NoCall} \cup [op : Op, status : {"sent", "done", "refused"}]

Waits == {"registering", "retrieving", "storing", "unregistering",
          "last_unregister"}
PCs == {"open_transport", "open_staging", "abandon", "idle", "retrieve",
        "scatter", "forward", "gather", "store", "publish", "close_staging",
        "close_transport", "close_queue", "finish_close", "end"} \cup Waits

WorkerType == [pc : PCs, req : Requests \cup {None}, failed : BOOLEAN]
TransportType == [state : TransportStates, registration : BOOLEAN,
                  queue : {"open", "closed", "leaked"}]
StagingType == [state : StagingStates, may_exist : BOOLEAN, owners : BOOLEAN]
BridgeType == [state : BridgeStates, plans : [Slots -> Requests \cup {None}]]
ServerType == [registered : BOOLEAN, call : Calls, late : SUBSET Op,
               stored : SUBSET [req : Requests, kv : Contents]]

TypeOK ==
  /\ wk \in WorkerType /\ tr \in TransportType /\ st \in StagingType
  /\ br \in BridgeType /\ server \in ServerType
  /\ res \in {"absent", "open", "closed", "abandoned"}
  /\ closes \in 0 .. MaxCloses
  /\ buffer \in Contents
  /\ scattered \in [Requests -> Contents \cup {None}]
  /\ load \in [Requests -> Attempts]
  /\ store \in [Requests -> Attempts]
  /\ published \subseteq Requests

Init ==
  /\ wk = [pc |-> "open_transport", req |-> None, failed |-> FALSE]
  /\ tr = [state |-> "created", registration |-> FALSE, queue |-> "open"]
  /\ st = [state |-> "created", may_exist |-> FALSE, owners |-> FALSE]
  /\ br = [state |-> "created", plans |-> NoPlans]
  /\ res = "absent"
  /\ closes = 0
  /\ buffer = Garbled
  /\ scattered = [r \in Requests |-> None]
  /\ load = [r \in Requests |-> "none"]
  /\ store = [r \in Requests |-> "none"]
  /\ published = {}
  /\ server = [registered |-> FALSE, call |-> NoCall, late |-> {}, stored |-> {}]

Goto(l) == wk' = [wk EXCEPT !.pc = l]

-----------------------------------------------------------------------------
(* Requests to the server: LmcacheBlendTransport._request.                 *)

\* submit_request, after which the thread waits at label l.
Send(kind, l) ==
  /\ server' = [server EXCEPT !.call =
       [op |-> [kind |-> kind, req |-> wk.req], status |-> "sent"]]
  /\ Goto(l)

\* The future resolved with the response the client expects.
Succeeds ==
  /\ server.call.status = "done"
  /\ server' = [server EXCEPT !.call = NoCall]

\* Mutant: the client waits for a response without a timeout.
FailsWithoutTimeout ==
  /\ server.call.status = "refused"
  /\ server' = [server EXCEPT !.call = NoCall]

\* The response is a refusal, or none arrives within request_timeout_seconds;
\* the server may still have the request.
Fails ==
  /\ server.call # NoCall
  /\ server' = [server EXCEPT
       !.call = NoCall,
       !.late = IF server.call.status = "sent" THEN @ \cup {server.call.op} ELSE @]

\* Every failure of a request makes the transport terminal.
TransportFailed == [tr EXCEPT !.state = "failed"]

-----------------------------------------------------------------------------
(* create_worker_runtime_resources: the transport, then staging.           *)

\* LmcacheBlendTransport.open: PING and GET_CHUNK_SIZE.
OpenTransport ==
  /\ wk.pc = "open_transport"
  /\ \/ tr' = [tr EXCEPT !.state = "ready"] /\ br' = br /\ Goto("open_staging")
     \/ /\ tr' = TransportFailed
        /\ br' = [br EXCEPT !.state = "failed"]
        /\ Goto("abandon")
  /\ UNCHANGED <<st, res, closes, buffer, scattered, load, store, published, server>>

\* Staging after an open that failed before the tensor existed, when the
\* tensor, the event or the IPC wrapper was rejected, or when the transport
\* rejected the payload.
OpenFailures ==
  {[state |-> "failed", may_exist |-> FALSE, owners |-> FALSE],
   [state |-> "failed", may_exist |-> FALSE, owners |-> TRUE],
   [state |-> "failed", may_exist |-> TRUE, owners |-> TRUE]}

\* StagingRuntime.open up to the registration request.
OpenStaging ==
  /\ wk.pc = "open_staging"
  /\ \/ /\ st' = [st EXCEPT !.may_exist = TRUE, !.owners = TRUE]
        /\ Send("register", "registering")
        /\ br' = br
     \/ /\ st' \in OpenFailures
        /\ br' = [br EXCEPT !.state = "failed"]
        /\ Goto("abandon")
        /\ server' = server
  /\ UNCHANGED <<tr, res, closes, buffer, scattered, load, store, published>>

\* register_staging_buffer returns.
Registered ==
  /\ wk.pc = "registering"
  /\ Succeeds
  /\ tr' = [tr EXCEPT !.state = "registered", !.registration = TRUE]
  /\ st' = [st EXCEPT !.state = "registered"]
  /\ br' = [br EXCEPT !.state = "ready"]
  /\ res' = "open"
  /\ Goto("idle")
  /\ UNCHANGED <<closes, buffer, scattered, load, store, published>>

\* register_staging_buffer raises; the registration may still exist.
RegisterFails ==
  /\ wk.pc = "registering"
  /\ Fails
  /\ tr' = TransportFailed
  /\ st' = [st EXCEPT !.state = "failed"]
  /\ br' = [br EXCEPT !.state = "failed"]
  /\ Goto("abandon")
  /\ UNCHANGED <<res, closes, buffer, scattered, load, store, published>>

\* The except branch: bridge.close, whose errors are suppressed.  The
\* transport never reached REGISTERED, so unregister_staging_buffer can only
\* raise, and transport.close has nothing to unregister.
Abandon ==
  /\ wk.pc = "abandon"
  /\ st' = IF st.may_exist THEN [st EXCEPT !.state = "failed"]
           ELSE [st EXCEPT !.state = "closed", !.owners = FALSE]
  /\ \E q \in {"closed", "leaked"} :
       tr' = [state |-> "closed", registration |-> FALSE, queue |-> q]
  /\ br' = [state |-> IF st.may_exist \/ tr'.queue = "leaked" THEN "failed"
                      ELSE "closed",
            plans |-> NoPlans]
  /\ res' = "abandoned"
  /\ Goto("end")
  /\ UNCHANGED <<closes, buffer, scattered, load, store, published, server>>

-----------------------------------------------------------------------------
(* TransferRuntime.before_forward.                                         *)

\* GptOssWorkerBridge._require_ready, and what it leaves behind.
Ready == br.state = "ready" /\ st.state = "registered"
BridgeChecked ==
  IF br.state = "ready" /\ ~Ready THEN [br EXCEPT !.state = "failed"] ELSE br

\* A failure the bridge survives with these plans.
WithPlans(slots, p) ==
  [br EXCEPT !.plans = [s \in Slots |-> IF s \in slots THEN p ELSE br.plans[s]]]

LoadSlots == {"load_storage_preflight", "load_data_preflight"}
StoreSlots == {"gather_preflight", "store_preflight"}

\* Every early return of before_forward falls back to a full prefill, and the
\* forward pass runs in any case.
LoadEnds(r, attempt) ==
  /\ load' = [load EXCEPT ![r] = attempt]
  /\ wk' = [wk EXCEPT !.pc = "forward", !.req = r]

\* The bridge after the storage or the data-plane half of the load preflight
\* rejected the plan.
LoadRejected(r) ==
  {[br EXCEPT !.plans["load_storage_preflight"] = p,
              !.plans["load_data_preflight"] = None] : p \in {None, r}}

\* preflight_retrieve and preflight_scatter: the bridge is not ready or still
\* has a retrieved plan; the plan or its dry run is rejected; or both pass.
PreflightLoad(r) ==
  \/ /\ ~Ready \/ br.plans["retrieved"] # None
     /\ br' = BridgeChecked
     /\ LoadEnds(r, "fallback")
  \/ /\ Ready /\ br.plans["retrieved"] = None
     /\ br' \in LoadRejected(r)
     /\ LoadEnds(r, "fallback")
  \/ /\ Ready /\ br.plans["retrieved"] = None
     /\ br' = WithPlans(LoadSlots, r)
     /\ wk' = [wk EXCEPT !.pc = "retrieve", !.req = r]
     /\ load' = load

\* before_forward for the next request.  Without candidates, or when the load
\* plan cannot be built, nothing of the bridge is touched.
BeforeForward(r) ==
  /\ wk.pc = "idle" /\ res = "open" /\ closes = 0
  /\ load[r] = "none"
  /\ \/ br' = br /\ \E a \in {"not_eligible", "fallback"} : LoadEnds(r, a)
     \/ PreflightLoad(r)
  /\ UNCHANGED <<tr, st, res, closes, buffer, scattered, store, published, server>>

\* StagingRuntime.synchronous_transfer up to its body, and the request in it.
\* The event may fail to be recorded or exported, or the transport may reject
\* the call before it sends anything: both mark staging failed.
Leases(kind, wait) ==
  /\ st.state = "registered"
  /\ tr.state = "registered"
  /\ st' = [st EXCEPT !.state = "transfer_active"]
  /\ Send(kind, wait)

LeaseFails ==
  /\ st' = [st EXCEPT !.state = IF @ = "registered" THEN "failed" ELSE @]
  /\ server' = server

\* retrieve_verified asks the server to fill staging.
RetrieveVerified ==
  /\ wk.pc = "retrieve"
  /\ br.plans["load_storage_preflight"] = wk.req
  /\ br.plans["load_data_preflight"] = wk.req
  /\ \/ Leases("retrieve", "retrieving") /\ UNCHANGED <<br, load>>
     \/ /\ LeaseFails
        /\ br' = WithPlans(LoadSlots \cup {"retrieved"}, None)
        /\ LoadEnds(wk.req, "fallback")
  /\ UNCHANGED <<tr, res, closes, buffer, scattered, store, published>>

\* The retrieve was carried out.  The device is synchronized before staging is
\* handed back, which can fail too.
RetrieveReturns ==
  /\ wk.pc = "retrieving"
  /\ Succeeds
  /\ \/ /\ st' = [st EXCEPT !.state = "registered"]
        /\ br' = [WithPlans(LoadSlots, None) EXCEPT !.plans["retrieved"] = wk.req]
        /\ Goto("scatter")
        /\ load' = load
     \/ /\ st' = [st EXCEPT !.state = "failed"]
        /\ br' = WithPlans(LoadSlots \cup {"retrieved"}, None)
        /\ LoadEnds(wk.req, "fallback")
  /\ UNCHANGED <<tr, res, closes, buffer, scattered, store, published>>

\* What a failed transfer leaves of staging: the tensor is never used again.
TransferFailed == [st EXCEPT !.state = "failed"]

\* Mutant: a refusal or a timeout is taken for a cache miss.
RetrieveFailsAsMiss ==
  /\ wk.pc = "retrieving"
  /\ Fails
  /\ tr' = tr
  /\ st' = [st EXCEPT !.state = "registered"]
  /\ br' = WithPlans(LoadSlots \cup {"retrieved"}, None)
  /\ LoadEnds(wk.req, "fallback")
  /\ UNCHANGED <<res, closes, buffer, scattered, store, published>>

\* The retrieve was refused, or timed out.
RetrieveFails ==
  /\ wk.pc = "retrieving"
  /\ Fails
  /\ tr' = TransportFailed
  /\ st' = TransferFailed
  /\ br' = WithPlans(LoadSlots \cup {"retrieved"}, None)
  /\ LoadEnds(wk.req, "fallback")
  /\ UNCHANGED <<res, closes, buffer, scattered, store, published>>

\* scatter_retrieved copies staging into the request's blocks; it may fail
\* after part of them.  The plan is consumed in either case.
ScatterRetrieved ==
  /\ wk.pc = "scatter"
  /\ br.plans["retrieved"] = wk.req /\ st.state = "registered"
  /\ scattered' = [scattered EXCEPT ![wk.req] = buffer]
  /\ br' = [br EXCEPT !.plans["retrieved"] = None]
  /\ \E a \in {"succeeded", "fallback"} : LoadEnds(wk.req, a)
  /\ UNCHANGED <<tr, st, res, closes, buffer, store, published, server>>

-----------------------------------------------------------------------------
(* TransferRuntime.after_forward, once the forward pass recomputed the     *)
(* whole prompt.                                                           *)

\* after_forward returns and the worker waits for its next step.
StoreEnds(attempt) ==
  /\ store' = [store EXCEPT ![wk.req] = attempt]
  /\ wk' = [wk EXCEPT !.pc = "idle", !.req = None]

\* The bridge after the gather or the storage half of the store preflight
\* rejected the plan.
StoreRejected ==
  {[br EXCEPT !.plans["gather_preflight"] = p,
              !.plans["store_preflight"] = None] : p \in {None, wk.req}}

\* preflight_gather and preflight_store, with the same three outcomes.
PreflightStore ==
  \/ /\ ~Ready \/ br.plans["gathered"] # None
     /\ br' = BridgeChecked
     /\ StoreEnds("fallback")
  \/ /\ Ready /\ br.plans["gathered"] = None
     /\ br' \in StoreRejected
     /\ StoreEnds("fallback")
  \/ /\ Ready /\ br.plans["gathered"] = None
     /\ br' = WithPlans(StoreSlots, wk.req)
     /\ Goto("gather")
     /\ store' = store

\* after_forward.  A prompt without a complete chunk is not stored.
AfterForward ==
  /\ wk.pc = "forward"
  /\ \/ br' = br /\ \E a \in {"not_eligible", "fallback"} : StoreEnds(a)
     \/ PreflightStore
  /\ UNCHANGED <<tr, st, res, closes, buffer, scattered, load, published, server>>

\* gather_recomputed copies the request's blocks into staging.
GatherRecomputed ==
  /\ wk.pc = "gather"
  /\ br.plans["gather_preflight"] = wk.req
  /\ br.plans["store_preflight"] = wk.req
  /\ st.state = "registered"
  /\ \/ /\ buffer' = Gathered(wk.req)
        /\ br' = [br EXCEPT !.plans["gather_preflight"] = None,
                            !.plans["gathered"] = wk.req]
        /\ Goto("store")
        /\ store' = store
     \/ /\ buffer' = Garbled
        /\ br' = [br EXCEPT !.plans["gather_preflight"] = None,
                            !.plans["gathered"] = None]
        /\ StoreEnds("fallback")
  /\ UNCHANGED <<tr, st, res, closes, scattered, load, published, server>>

\* store_precomputed asks the server to copy staging into its storage.
StorePrecomputed ==
  /\ wk.pc = "store"
  /\ br.plans["store_preflight"] = wk.req
  /\ br.plans["gathered"] = wk.req
  /\ \/ Leases("store", "storing") /\ UNCHANGED <<br, store>>
     \/ /\ LeaseFails
        /\ br' = WithPlans({"store_preflight", "gathered"}, None)
        /\ StoreEnds("fallback")
  /\ UNCHANGED <<tr, res, closes, buffer, scattered, load, published>>

\* _derive_sidecar_records finds other hashes than it expects.
RecordsFailed == TransportFailed

\* The store was carried out.  Deriving the sidecar records can fail, which
\* is a failure of the transport; so can the synchronization of the device.
StoreReturns ==
  /\ wk.pc = "storing"
  /\ Succeeds
  /\ br' = WithPlans({"store_preflight", "gathered"}, None)
  /\ \/ /\ st' = [st EXCEPT !.state = "registered"]
        /\ tr' = tr
        /\ Goto("publish")
        /\ store' = store
     \/ /\ st' = [st EXCEPT !.state = "failed"]
        /\ tr' \in {tr, RecordsFailed}
        /\ StoreEnds("fallback")
  /\ UNCHANGED <<res, closes, buffer, scattered, load, published>>

\* Mutant: the records are published although the store did not answer.
StoreFailsPublishes ==
  /\ wk.pc = "storing"
  /\ Fails
  /\ br' = WithPlans({"store_preflight", "gathered"}, None)
  /\ st' = [st EXCEPT !.state = "registered"]
  /\ Goto("publish")
  /\ UNCHANGED <<tr, res, closes, buffer, scattered, load, store, published>>

\* The store was refused, or timed out.
StoreFails ==
  /\ wk.pc = "storing"
  /\ Fails
  /\ tr' = TransportFailed
  /\ st' = TransferFailed
  /\ br' = WithPlans({"store_preflight", "gathered"}, None)
  /\ StoreEnds("fallback")
  /\ UNCHANGED <<res, closes, buffer, scattered, load, published>>

\* publish_sidecar_records_atomically: add_many writes all records or none.
PublishSidecarRecords ==
  /\ wk.pc = "publish"
  /\ br' = BridgeChecked
  /\ \/ /\ Ready
        /\ published' = published \cup {wk.req}
        /\ StoreEnds("succeeded")
     \/ published' = published /\ StoreEnds("fallback")
  /\ UNCHANGED <<tr, st, res, closes, buffer, scattered, load, server>>

-----------------------------------------------------------------------------
(* WorkerRuntimeResources.close, called by the connector's shutdown, which *)
(* keeps the resources when it raises.                                     *)

Close ==
  /\ wk.pc = "idle" /\ res = "open"
  /\ closes < MaxCloses
  /\ closes' = closes + 1
  /\ wk' = [wk EXCEPT !.failed = FALSE,
              !.pc = IF br.state = "closed" THEN "finish_close" ELSE "close_staging"]
  /\ UNCHANGED <<tr, st, br, res, buffer, scattered, load, store, published, server>>

\* StagingRuntime.close: unregister first, which only a REGISTERED transport
\* will do; owners are released once the server no longer has them.
CloseStaging ==
  /\ wk.pc = "close_staging"
  /\ \/ st.state = "closed" /\ Goto("close_transport") /\ UNCHANGED <<st, server>>
     \/ /\ st.state # "closed" /\ tr.state = "registered"
        /\ Send("unregister", "unregistering")
        /\ st' = st
     \/ /\ st.state # "closed" /\ tr.state # "registered"
        /\ st' = [st EXCEPT !.state = "failed"]
        /\ wk' = [wk EXCEPT !.pc = "close_transport", !.failed = TRUE]
        /\ server' = server
  /\ UNCHANGED <<tr, br, res, closes, buffer, scattered, load, store, published>>

\* unregister_staging_buffer returns, and the owners are released.
Unregistered ==
  /\ wk.pc = "unregistering"
  /\ Succeeds
  /\ tr' = [tr EXCEPT !.state = "ready", !.registration = FALSE]
  /\ st' = [state |-> "closed", may_exist |-> FALSE, owners |-> FALSE]
  /\ Goto("close_transport")
  /\ UNCHANGED <<br, res, closes, buffer, scattered, load, store, published>>

\* Mutant: the owners are released although the unregister failed.
UnregisterFailsReleases ==
  /\ wk.pc = "unregistering"
  /\ Fails
  /\ tr' = TransportFailed
  /\ st' = [st EXCEPT !.state = "closed", !.owners = FALSE]
  /\ wk' = [wk EXCEPT !.pc = "close_transport", !.failed = TRUE]
  /\ UNCHANGED <<br, res, closes, buffer, scattered, load, store, published>>

\* unregister_staging_buffer raises: the owners are retained.
UnregisterFails ==
  /\ wk.pc = "unregistering"
  /\ Fails
  /\ tr' = TransportFailed
  /\ st' = [st EXCEPT !.state = "failed"]
  /\ wk' = [wk EXCEPT !.pc = "close_transport", !.failed = TRUE]
  /\ UNCHANGED <<br, res, closes, buffer, scattered, load, store, published>>

\* LmcacheBlendTransport.close: one more attempt to unregister, whatever the
\* transport's state, and then the queue.
CloseTransport ==
  /\ wk.pc = "close_transport"
  /\ \/ tr.state = "closed" /\ Goto("finish_close") /\ server' = server
     \/ tr.state # "closed" /\ tr.registration /\ Send("unregister", "last_unregister")
     \/ tr.state # "closed" /\ ~tr.registration /\ Goto("close_queue") /\ server' = server
  /\ UNCHANGED <<tr, st, br, res, closes, buffer, scattered, load, store, published>>

LastUnregister ==
  /\ wk.pc = "last_unregister"
  /\ \/ Succeeds /\ Goto("close_queue")
     \/ Fails /\ wk' = [wk EXCEPT !.pc = "close_queue", !.failed = TRUE]
  /\ UNCHANGED <<tr, st, br, res, closes, buffer, scattered, load, store, published>>

\* The queue's close may raise; the transport is CLOSED all the same.
CloseQueue ==
  /\ wk.pc = "close_queue"
  /\ \E ok \in BOOLEAN :
       /\ tr' = [state |-> "closed", registration |-> FALSE,
                 queue |-> IF ok THEN "closed" ELSE "leaked"]
       /\ wk' = [wk EXCEPT !.pc = "finish_close", !.failed = @ \/ ~ok]
  /\ UNCHANGED <<st, br, res, closes, buffer, scattered, load, store, published, server>>

\* The rest of the bridge's close, then the sidecar's, which may fail.
FinishClose ==
  /\ wk.pc = "finish_close"
  /\ br' = [state |-> IF wk.failed THEN "failed" ELSE "closed", plans |-> NoPlans]
  /\ \/ ~wk.failed /\ res' = "closed" /\ Goto("end")
     \/ res' = res /\ Goto("idle")
  /\ UNCHANGED <<tr, st, closes, buffer, scattered, load, store, published, server>>

-----------------------------------------------------------------------------
(* The LMCache server, as far as the transport can tell.                   *)

\* The server's state once it has carried out op.
Carried(op) ==
  CASE op.kind = "register" -> [server EXCEPT !.registered = TRUE]
    [] op.kind = "unregister" -> [server EXCEPT !.registered = FALSE]
    [] op.kind = "store" ->
         [server EXCEPT !.stored = @ \cup {[req |-> op.req, kv |-> buffer]}]
    [] op.kind = "retrieve" -> server

\* A transfer needs the registered tensor.
CanCarry(op) == op.kind \in {"retrieve", "store"} => server.registered

\* What op may leave in staging, completed or broken off.
Written(op, done) ==
  IF op.kind = "retrieve" THEN IF done THEN Retrieved(op.req) ELSE Garbled
  ELSE buffer

ServerAnswers ==
  /\ server.call.status = "sent"
  /\ CanCarry(server.call.op)
  /\ server' = [Carried(server.call.op) EXCEPT !.call.status = "done"]
  /\ buffer' = Written(server.call.op, TRUE)
  /\ UNCHANGED <<wk, tr, st, br, res, closes, scattered, load, store, published>>

\* A refusal, before or after the work was begun.
ServerRefuses ==
  /\ server.call.status = "sent"
  /\ \/ server' = [server EXCEPT !.call.status = "refused"] /\ buffer' = buffer
     \/ /\ CanCarry(server.call.op)
        /\ server' = [Carried(server.call.op) EXCEPT !.call.status = "refused"]
        /\ buffer' = Written(server.call.op, FALSE)
  /\ UNCHANGED <<wk, tr, st, br, res, closes, scattered, load, store, published>>

\* The server carries out a request whose client has given up.
ServerIsLate(op) ==
  /\ op \in server.late
  /\ CanCarry(op)
  /\ server' = [Carried(op) EXCEPT !.late = @ \ {op}]
  /\ buffer' = Written(op, TRUE)
  /\ UNCHANGED <<wk, tr, st, br, res, closes, scattered, load, store, published>>

-----------------------------------------------------------------------------
WorkerStep ==
  \/ OpenTransport \/ OpenStaging \/ Registered \/ RegisterFails \/ Abandon
  \/ RetrieveVerified \/ RetrieveReturns \/ RetrieveFails \/ ScatterRetrieved
  \/ AfterForward \/ GatherRecomputed \/ StorePrecomputed \/ StoreReturns
  \/ StoreFails \/ PublishSidecarRecords
  \/ CloseStaging \/ Unregistered \/ UnregisterFails \/ CloseTransport
  \/ LastUnregister \/ CloseQueue \/ FinishClose

\* The engine calls the worker, with a step or with its shutdown.
EngineCalls == (\E r \in Requests : BeforeForward(r)) \/ Close

ServerStep ==
  \/ ServerAnswers \/ ServerRefuses
  \/ \E op \in server.late : ServerIsLate(op)

\* Nothing is left to call: the resources are gone, or every close of the
\* bound was spent on them.
Stopped ==
  /\ wk.pc = "end" \/ (wk.pc = "idle" /\ closes = MaxCloses)
  /\ UNCHANGED vars

Next == WorkerStep \/ EngineCalls \/ ServerStep \/ Stopped

\* The worker's thread runs on until its call returns; every wait for the
\* server has a timeout.  Nothing is assumed of the server or the engine.
Spec == Init /\ [][Next]_vars /\ WF_vars(WorkerStep)

-----------------------------------------------------------------------------
(* Properties.                                                             *)

\* A request's blocks only ever receive KV that was retrieved for it, although
\* the server may write to the shared staging tensor long after a timeout
\* (synchronous_transfer: "the handle cannot be silently reused").
ScatteredIsRetrieved ==
  \A r \in Requests : scattered[r] \in {None, Retrieved(r)}

\* The server's storage only ever holds, under a request's key, the KV gathered
\* from that request, however late the server reads the staging tensor, and
\* records in the sidecar describe only what it has stored (after_forward
\* publishes behind a valid store receipt).
StoredIsGathered ==
  /\ \A c \in server.stored : c.kv = Gathered(c.req)
  /\ \A r \in published : [req |-> r, kv |-> Gathered(r)] \in server.stored

\* While the server has the staging tensor declared, or may yet declare it,
\* its owners are alive (StagingRuntime.close retains them); and every field is
\* of its type.
ServerMemoryIsOwned ==
  /\ TypeOK
  /\ (server.registered \/ \E op \in server.late \cup {server.call.op} : op.kind = "register")
       => st.owners

\* The worker's thread always returns to the engine, whatever the server does:
\* every request ends in an outcome and every close returns.
WorkerReturns == (wk.pc \notin {"idle", "end"}) ~> (wk.pc \in {"idle", "end"})

=============================================================================
