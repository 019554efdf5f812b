------------------------ MODULE WorkerTransferProofs ------------------------
(***************************************************************************)
(* The properties of WorkerTransfer for any requests and any number of     *)
(* closes.  The danger is the server, which may carry out a request long   *)
(* after the worker has given up on it.  The argument is that giving up    *)
(* ends the service: a transfer is left behind only when staging fails,    *)
(* after which nothing fills or reads the tensor any more, and a           *)
(* registration is left behind only before the worker was ever ready.      *)
(***************************************************************************)
EXTENDS WorkerTransfer, TLAPS

\* The request the worker is waiting on, by where it waits.
KindAt(pc) ==
  CASE pc = "registering" -> "register"
    [] pc = "retrieving" -> "retrieve"
    [] pc = "storing" -> "store"
    [] OTHER -> "unregister"

Working == {"retrieve", "retrieving", "scatter", "forward", "gather", "store",
            "storing", "publish"}
Transfers == {"retrieve", "store"}

\* A call is outstanding exactly while the thread waits for it, and it is the
\* call the thread made.
CallIsAwaited ==
  IF wk.pc \in Waits
  THEN /\ server.call \in [op : Op, status : {"sent", "done", "refused"}]
       /\ server.call.op = [kind |-> KindAt(wk.pc), req |-> wk.req]
  ELSE server.call = NoCall

\* A step of a request has a request, and staging is in the state it needs.
StagingFollows ==
  /\ wk.pc \in Working => wk.req \in Requests
  /\ wk.pc \in {"open_transport", "open_staging", "registering"} =>
       st.state = "created" /\ server.late = {}
  /\ wk.pc \in {"open_transport", "open_staging"} => ~server.registered
  /\ wk.pc \in {"retrieving", "storing"} => st.state = "transfer_active"
  /\ wk.pc \in {"scatter", "store"} => st.state = "registered"

\* What is in the tensor at the steps that rely on it.
BufferIsOwn ==
  /\ wk.pc = "scatter" => buffer = Retrieved(wk.req)
  /\ wk.pc = "retrieving" /\ server.call.status = "done" => buffer = Retrieved(wk.req)
  /\ wk.pc \in {"store", "storing"} => buffer = Gathered(wk.req)

\* A transfer that was given up is the only one, and staging has failed: the
\* tensor is as it was.
LateTransferIsLast ==
  \A op \in server.late : op.kind \in Transfers =>
    /\ op.req \in Requests
    /\ st.state \in {"failed", "closed"}
    /\ op.kind = "store" => buffer = Gathered(op.req)
    /\ \A other \in server.late : other.kind \in Transfers => other = op

\* What has been stored, and what may be published next.
StoredFollows ==
  /\ wk.pc = "storing" /\ server.call.status = "done" =>
       [req |-> wk.req, kv |-> Gathered(wk.req)] \in server.stored
  /\ wk.pc = "publish" => [req |-> wk.req, kv |-> Gathered(wk.req)] \in server.stored

\* Whatever the server has or may get of the tensor, staging knows that it may.
RegistrationIsKnown ==
  /\ st.may_exist => st.owners
  /\ server.registered => st.may_exist
  /\ wk.pc = "registering" => st.may_exist
  /\ \A op \in server.late : op.kind = "register" =>
       wk.pc \in {"abandon", "end"} /\ st.may_exist
  /\ wk.pc = "unregistering" /\ server.call.status = "done" => ~server.registered

IInv ==
  /\ TypeOK
  /\ CallIsAwaited
  /\ StagingFollows
  /\ BufferIsOwn
  /\ LateTransferIsLast
  /\ StoredFollows
  /\ RegistrationIsKnown
  /\ ScatteredIsRetrieved
  /\ StoredIsGathered

-----------------------------------------------------------------------------
(* What the shared pieces of the actions do. *)

USE RequestsAssumption

\* Where the thread goes next.
LEMMA GotoFacts ==
  ASSUME TypeOK, NEW l \in PCs, Goto(l)
  PROVE  wk' \in WorkerType /\ wk'.pc = l /\ wk'.req = wk.req
BY DEF TypeOK, WorkerType, Goto

\* before_forward returns to the engine with the outcome of the load.
LEMMA LoadEndsFacts ==
  ASSUME TypeOK, NEW r \in Requests \cup {None}, NEW a \in Attempts, LoadEnds(r, a)
  PROVE  /\ wk' \in WorkerType /\ wk'.pc = "forward" /\ wk'.req = r
         /\ load' \in [Requests -> Attempts]
BY DEF TypeOK, WorkerType, LoadEnds, PCs

\* after_forward returns to the engine with the outcome of the store.
LEMMA StoreEndsFacts ==
  ASSUME TypeOK, NEW a \in Attempts, StoreEnds(a)
  PROVE  /\ wk' \in WorkerType /\ wk'.pc = "idle" /\ wk'.req = None
         /\ store' \in [Requests -> Attempts]
BY DEF TypeOK, WorkerType, StoreEnds, PCs

\* A step leaves the server's registration, its late requests and its storage.
ServerRests ==
  /\ server'.registered = server.registered
  /\ server'.late = server.late
  /\ server'.stored = server.stored

\* Sending a request changes nothing at the server but the outstanding call.
LEMMA SendFacts ==
  ASSUME TypeOK, NEW kind \in Kinds, NEW l \in PCs, Send(kind, l)
  PROVE  /\ server' \in ServerType /\ ServerRests
         /\ server'.call \in [op : Op, status : {"sent"}]
         /\ server'.call.op = [kind |-> kind, req |-> wk.req]
         /\ wk' \in WorkerType /\ wk'.pc = l /\ wk'.req = wk.req
<1> DEFINE c == [op |-> [kind |-> kind, req |-> wk.req], status |-> "sent"]
<1>1. wk.req \in Requests \cup {None}
  BY DEF TypeOK, WorkerType
<1>2. c \in [op : Op, status : {"sent"}] /\ c.op = [kind |-> kind, req |-> wk.req]
  BY <1>1 DEF Op
<1>3. c \in Calls
  BY <1>2 DEF Calls
<1>4. server' = [server EXCEPT !.call = c] /\ Goto(l)
  BY DEF Send
<1>5. wk' \in WorkerType /\ wk'.pc = l /\ wk'.req = wk.req
  BY <1>4, GotoFacts
<1> HIDE DEF c
<1> QED BY <1>2, <1>3, <1>4, <1>5 DEF TypeOK, ServerType, ServerRests

\* A response that is taken ends the call.
LEMMA SucceedsFacts ==
  ASSUME TypeOK, Succeeds
  PROVE  /\ server' \in ServerType /\ ServerRests
         /\ server'.call = NoCall /\ server.call.status = "done"
BY DEF TypeOK, Succeeds, ServerType, ServerRests, Calls

\* A request that failed is no longer awaited and may be left with the server.
LEMMA FailsFacts ==
  ASSUME TypeOK, Fails
  PROVE  /\ server' \in ServerType
         /\ server'.call = NoCall
         /\ server'.registered = server.registered /\ server'.stored = server.stored
         /\ server'.late \in {server.late, server.late \cup {server.call.op}}
<1>1. server.call.op \in Op
  BY DEF Fails, TypeOK, ServerType, Calls
<1>2. NoCall \in Calls
  BY DEF Calls
<1> DEFINE l == IF server.call.status = "sent" THEN server.late \cup {server.call.op} ELSE server.late
<1>3. l \subseteq Op /\ l \in {server.late, server.late \cup {server.call.op}}
  BY <1>1 DEF TypeOK, ServerType
<1>4. server' = [server EXCEPT !.call = NoCall, !.late = l]
  BY DEF Fails
<1> HIDE DEF l
<1> QED BY <1>2, <1>3, <1>4 DEF TypeOK, ServerType

\* The bridge's plans stay plans of requests.
LEMMA PlansTyped ==
  ASSUME TypeOK, NEW p \in Requests \cup {None}
  PROVE  /\ \A slots : WithPlans(slots, p) \in BridgeType
         /\ BridgeChecked \in BridgeType
         /\ \A b \in BridgeType, x \in Slots : [b EXCEPT !.plans[x] = p] \in BridgeType
<1>1. \A slots : WithPlans(slots, p) \in BridgeType
  BY DEF TypeOK, WithPlans, BridgeType
<1>2. BridgeChecked \in BridgeType
  BY DEF TypeOK, BridgeChecked, BridgeType, BridgeStates
<1>3. \A b \in BridgeType, x \in Slots : [b EXCEPT !.plans[x] = p] \in BridgeType
  BY DEF BridgeType
<1> QED BY <1>1, <1>2, <1>3

\* Two plan slots of the bridge are filled or cleared together.
LEMMA PlansTwice ==
  ASSUME TypeOK, NEW p \in Requests \cup {None}, NEW q \in Requests \cup {None}
  PROVE  /\ [br EXCEPT !.plans["load_storage_preflight"] = p,
                       !.plans["load_data_preflight"] = q] \in BridgeType
         /\ [br EXCEPT !.plans["gather_preflight"] = p,
                       !.plans["store_preflight"] = q] \in BridgeType
         /\ [br EXCEPT !.plans["gather_preflight"] = p,
                       !.plans["gathered"] = q] \in BridgeType
<1>1. {"load_storage_preflight", "load_data_preflight", "gather_preflight",
       "store_preflight", "gathered"} \subseteq Slots
  BY DEF Slots
<1> QED BY <1>1 DEF TypeOK, BridgeType

\* What a region of the staging tensor can hold.
LEMMA ContentsTyped ==
  ASSUME NEW r \in Requests
  PROVE  Retrieved(r) \in Contents /\ Gathered(r) \in Contents /\ Garbled \in Contents
BY DEF Contents

\* What carrying a request out does to the server and to the tensor.
LEMMA CarriedFacts ==
  ASSUME TypeOK, NEW op \in Op, op.kind = "store" => op.req \in Requests
  PROVE  /\ Carried(op) \in ServerType
         /\ Carried(op).call = server.call /\ Carried(op).late = server.late
         /\ op.kind = "register" => Carried(op).registered
         /\ op.kind = "unregister" => ~Carried(op).registered
         /\ op.kind \in Transfers => Carried(op).registered = server.registered
         /\ op.kind = "store" =>
              Carried(op).stored = server.stored \cup {[req |-> op.req, kv |-> buffer]}
         /\ op.kind # "store" => Carried(op).stored = server.stored
<1> USE DEF ServerType, TypeOK, Transfers
<1>1. CASE op.kind = "register"
  BY <1>1 DEF Carried
<1>2. CASE op.kind = "unregister"
  BY <1>2 DEF Carried
<1>3. CASE op.kind = "store"
  <2> DEFINE c == [req |-> op.req, kv |-> buffer]
  <2>1. c \in [req : Requests, kv : Contents]
    BY <1>3
  <2>2. Carried(op) = [server EXCEPT !.stored = server.stored \cup {c}]
    BY <1>3 DEF Carried
  <2> HIDE DEF c
  <2>3. /\ Carried(op) \in ServerType /\ Carried(op).call = server.call
        /\ Carried(op).late = server.late /\ Carried(op).registered = server.registered
        /\ Carried(op).stored = server.stored \cup {c}
    BY <2>1, <2>2
  <2> QED BY <1>3, <2>3 DEF c
<1>4. CASE op.kind = "retrieve"
  BY <1>4 DEF Carried
<1> QED BY <1>1, <1>2, <1>3, <1>4 DEF Op, Kinds

\* A step of the server on the outstanding call or on a late request writes
\* nothing but typed content.
LEMMA WrittenTyped ==
  ASSUME TypeOK, NEW op \in Op, op.kind = "retrieve" => op.req \in Requests, NEW done \in BOOLEAN
  PROVE  Written(op, done) \in Contents
BY ContentsTyped DEF Written, Contents, TypeOK

-----------------------------------------------------------------------------
(* Type correctness. *)

\* Requests of the outstanding call and of the late ones.
LEMMA CallTyped ==
  ASSUME IInv, server.call.status = "sent"
  PROVE  /\ wk.pc \in Waits
         /\ server.call \in [op : Op, status : {"sent"}]
         /\ server.call.op = [kind |-> KindAt(wk.pc), req |-> wk.req]
         /\ server.call.op.kind \in Transfers => server.call.op.req \in Requests
<1>1. wk.pc \in Waits
  BY DEF IInv, CallIsAwaited, NoCall
<1>2. /\ server.call \in [op : Op, status : {"sent"}]
      /\ server.call.op = [kind |-> KindAt(wk.pc), req |-> wk.req]
  BY <1>1 DEF IInv, CallIsAwaited
<1>3. server.call.op.kind = KindAt(wk.pc) /\ server.call.op.req = wk.req
  BY <1>2
<1>4. KindAt(wk.pc) \in Transfers => wk.req \in Requests
  BY <1>1 DEF IInv, StagingFollows, KindAt, Transfers, Working, Waits
<1> QED BY <1>1, <1>2, <1>3, <1>4

\* Every step keeps the worker and the server well-formed.
LEMMA TypeStep ==
  ASSUME IInv, [Next]_vars
  PROVE  TypeOK'
<1> TypeOK
  BY DEF IInv
<1>0. /\ wk.req \in Requests \cup {None}
      /\ wk.pc \in Working => wk.req \in Requests
  BY DEF IInv, StagingFollows, TypeOK, WorkerType
<1>p. NoPlans \in [Slots -> Requests \cup {None}]
  BY DEF NoPlans
<1>l. /\ {"open_staging", "registering", "abandon", "idle", "retrieve", "retrieving",
          "scatter", "forward", "gather", "store", "storing", "publish", "close_staging",
          "unregistering", "close_transport", "last_unregister", "close_queue",
          "finish_close", "end"} \subseteq PCs
      /\ {"not_eligible", "fallback", "succeeded"} \subseteq Attempts
      /\ Slots = {"load_storage_preflight", "load_data_preflight", "retrieved",
                  "gather_preflight", "store_preflight", "gathered"}
  BY DEF PCs, Waits, Attempts, Slots
<1> USE DEF TypeOK, TransportType, StagingType, TransportStates, StagingStates, TransportFailed
<1>1. CASE OpenTransport
  <2>1. br' \in BridgeType
    BY <1>1 DEF OpenTransport, BridgeType, BridgeStates
  <2> QED BY <1>1, <2>1, <1>l, GotoFacts DEF OpenTransport
<1>2. CASE OpenStaging
  <2>1. br' \in BridgeType
    BY <1>2 DEF OpenStaging, BridgeType, BridgeStates
  <2>2. st' \in StagingType
    <3>1. [st EXCEPT !.may_exist = TRUE, !.owners = TRUE] \in StagingType
      OBVIOUS
    <3>2. OpenFailures \subseteq StagingType
      BY DEF OpenFailures
    <3> QED BY <1>2, <3>1, <3>2 DEF OpenStaging
  <2>3. server' \in ServerType /\ wk' \in WorkerType
    BY <1>2, <1>l, SendFacts, GotoFacts DEF OpenStaging, Kinds
  <2> QED BY <1>2, <2>1, <2>2, <2>3 DEF OpenStaging
<1>3. CASE Registered
  <2>1. br' \in BridgeType
    BY <1>3 DEF Registered, BridgeType, BridgeStates
  <2> QED BY <1>3, <2>1, <1>l, SucceedsFacts, GotoFacts DEF Registered
<1>4. CASE RegisterFails
  <2>1. br' \in BridgeType
    BY <1>4 DEF RegisterFails, BridgeType, BridgeStates
  <2> QED BY <1>4, <2>1, <1>l, FailsFacts, GotoFacts DEF RegisterFails
<1>5. CASE Abandon
  <2>1. st' \in StagingType
    BY <1>5 DEF Abandon
  <2>2. tr' \in TransportType
    BY <1>5 DEF Abandon
  <2>3. br' \in BridgeType
    BY <1>5, <1>p DEF Abandon, BridgeType, BridgeStates
  <2> QED BY <1>5, <2>1, <2>2, <2>3, <1>l, GotoFacts DEF Abandon
<1>6. ASSUME NEW r \in Requests, BeforeForward(r)
      PROVE  TypeOK'
  <2>1. LoadRejected(r) \subseteq BridgeType
    <3>1. ASSUME NEW p \in {None, r}
          PROVE  [br EXCEPT !.plans["load_storage_preflight"] = p,
                            !.plans["load_data_preflight"] = None] \in BridgeType
      BY PlansTwice
    <3> QED BY <3>1, Zenon DEF LoadRejected
  <2>2. br' \in BridgeType
    BY <1>6, <2>1, PlansTyped DEF BeforeForward, PreflightLoad
  <2>3. wk' \in WorkerType /\ load' \in [Requests -> Attempts]
    <3>1. [wk EXCEPT !.pc = "retrieve", !.req = r] \in WorkerType
      BY <1>l DEF WorkerType
    <3> QED BY <1>6, <3>1, <1>l, LoadEndsFacts DEF BeforeForward, PreflightLoad
  <2> QED BY <1>6, <2>2, <2>3 DEF BeforeForward
<1>7. CASE RetrieveVerified
  <2>1. st' \in StagingType
    BY <1>7 DEF RetrieveVerified, Leases, LeaseFails
  <2>2. server' \in ServerType /\ wk' \in WorkerType /\ load' \in [Requests -> Attempts]
    BY <1>7, <1>0, <1>l, SendFacts, LoadEndsFacts DEF RetrieveVerified, Leases, LeaseFails, Kinds
  <2>3. br' \in BridgeType
    BY <1>7, PlansTyped DEF RetrieveVerified
  <2> QED BY <1>7, <2>1, <2>2, <2>3 DEF RetrieveVerified
<1>8. CASE RetrieveReturns
  <2>1. st' \in StagingType
    BY <1>8 DEF RetrieveReturns
  <2>2. server' \in ServerType /\ wk' \in WorkerType /\ load' \in [Requests -> Attempts]
    BY <1>8, <1>0, <1>l, SucceedsFacts, GotoFacts, LoadEndsFacts DEF RetrieveReturns
  <2>3. br' \in BridgeType
    <3>1. WithPlans(LoadSlots, None) \in BridgeType
          /\ WithPlans(LoadSlots \cup {"retrieved"}, None) \in BridgeType
      BY PlansTyped
    <3>2. [WithPlans(LoadSlots, None) EXCEPT !.plans["retrieved"] = wk.req] \in BridgeType
      BY <3>1, <1>0, <1>l, PlansTyped
    <3> QED BY <1>8, <3>1, <3>2 DEF RetrieveReturns
  <2> QED BY <1>8, <2>1, <2>2, <2>3 DEF RetrieveReturns
<1>9. CASE RetrieveFails
  <2>1. server' \in ServerType /\ wk' \in WorkerType /\ load' \in [Requests -> Attempts]
    BY <1>9, <1>0, <1>l, FailsFacts, LoadEndsFacts DEF RetrieveFails
  <2> QED BY <1>9, <2>1, PlansTyped DEF RetrieveFails, TransferFailed
<1>10. CASE ScatterRetrieved
  <2>1. scattered' \in [Requests -> Contents \cup {None}]
    BY <1>10 DEF ScatterRetrieved
  <2>2. br' \in BridgeType
    BY <1>10, <1>l, PlansTyped DEF ScatterRetrieved
  <2>3. wk' \in WorkerType /\ load' \in [Requests -> Attempts]
    BY <1>10, <1>0, <1>l, LoadEndsFacts DEF ScatterRetrieved
  <2> QED BY <1>10, <2>1, <2>2, <2>3 DEF ScatterRetrieved
<1>11. CASE AfterForward
  <2>1. StoreRejected \subseteq BridgeType
    <3>1. ASSUME NEW p \in {None, wk.req}
          PROVE  [br EXCEPT !.plans["gather_preflight"] = p,
                            !.plans["store_preflight"] = None] \in BridgeType
      BY <1>0, PlansTwice
    <3> QED BY <3>1, Zenon DEF StoreRejected
  <2>2. br' \in BridgeType
    BY <1>11, <1>0, <2>1, PlansTyped DEF AfterForward, PreflightStore
  <2>3. wk' \in WorkerType /\ store' \in [Requests -> Attempts]
    BY <1>11, <1>l, GotoFacts, StoreEndsFacts DEF AfterForward, PreflightStore
  <2> QED BY <1>11, <2>2, <2>3 DEF AfterForward
<1>12. CASE GatherRecomputed
  <2>1. br' \in BridgeType
    <3>1. \A p \in {None, wk.req} :
            [br EXCEPT !.plans["gather_preflight"] = None, !.plans["gathered"] = p] \in BridgeType
      BY <1>0, PlansTwice
    <3> QED BY <1>12, <3>1, Zenon DEF GatherRecomputed
  <2>2. buffer' \in Contents
    BY <1>12, <1>0, ContentsTyped DEF GatherRecomputed, Working
  <2>3. wk' \in WorkerType /\ store' \in [Requests -> Attempts]
    BY <1>12, <1>l, GotoFacts, StoreEndsFacts DEF GatherRecomputed
  <2> QED BY <1>12, <2>1, <2>2, <2>3 DEF GatherRecomputed
<1>13. CASE StorePrecomputed
  <2>1. st' \in StagingType
    BY <1>13 DEF StorePrecomputed, Leases, LeaseFails
  <2>2. server' \in ServerType /\ wk' \in WorkerType /\ store' \in [Requests -> Attempts]
    BY <1>13, <1>l, SendFacts, StoreEndsFacts DEF StorePrecomputed, Leases, LeaseFails, Kinds
  <2>3. br' \in BridgeType
    BY <1>13, PlansTyped DEF StorePrecomputed
  <2> QED BY <1>13, <2>1, <2>2, <2>3 DEF StorePrecomputed
<1>14. CASE StoreReturns
  <2>1. server' \in ServerType /\ br' \in BridgeType
    BY <1>14, SucceedsFacts, PlansTyped DEF StoreReturns
  <2>2. tr' \in TransportType /\ st' \in StagingType
    BY <1>14 DEF StoreReturns, RecordsFailed
  <2>3. wk' \in WorkerType /\ store' \in [Requests -> Attempts]
    BY <1>14, <1>l, GotoFacts, StoreEndsFacts DEF StoreReturns
  <2> QED BY <1>14, <2>1, <2>2, <2>3 DEF StoreReturns
<1>15. CASE StoreFails
  <2>1. server' \in ServerType /\ wk' \in WorkerType /\ store' \in [Requests -> Attempts]
    BY <1>15, <1>l, FailsFacts, StoreEndsFacts DEF StoreFails
  <2> QED BY <1>15, <2>1, PlansTyped DEF StoreFails, TransferFailed
<1>16. CASE PublishSidecarRecords
  <2>1. published' \subseteq Requests
    BY <1>16, <1>0 DEF PublishSidecarRecords, Working
  <2>2. wk' \in WorkerType /\ store' \in [Requests -> Attempts]
    BY <1>16, <1>l, StoreEndsFacts DEF PublishSidecarRecords
  <2> QED BY <1>16, <2>1, <2>2, PlansTyped DEF PublishSidecarRecords
<1>17. CASE Close
  <2>1. wk' \in WorkerType
    BY <1>17, <1>l DEF Close, WorkerType
  <2>2. closes' \in 0 .. MaxCloses
    BY <1>17, BoundAssumption DEF Close
  <2> QED BY <1>17, <2>1, <2>2 DEF Close
<1>18. CASE CloseStaging
  <2>1. server' \in ServerType
    BY <1>18, <1>l, SendFacts DEF CloseStaging, Kinds
  <2>2. wk' \in WorkerType
    <3>1. [wk EXCEPT !.pc = "close_transport", !.failed = TRUE] \in WorkerType
      BY <1>l DEF WorkerType
    <3> QED BY <1>18, <3>1, <1>l, SendFacts, GotoFacts DEF CloseStaging, Kinds
  <2>3. st' \in StagingType
    BY <1>18 DEF CloseStaging
  <2> QED BY <1>18, <2>1, <2>2, <2>3 DEF CloseStaging
<1>19. CASE Unregistered
  BY <1>19, <1>l, SucceedsFacts, GotoFacts DEF Unregistered
<1>20. CASE UnregisterFails
  <2>1. wk' \in WorkerType
    BY <1>20, <1>l DEF UnregisterFails, WorkerType
  <2> QED BY <1>20, <2>1, FailsFacts DEF UnregisterFails
<1>21. CASE CloseTransport
  BY <1>21, <1>l, SendFacts, GotoFacts DEF CloseTransport, Kinds
<1>22. CASE LastUnregister
  <2>1. [wk EXCEPT !.pc = "close_queue", !.failed = TRUE] \in WorkerType
    BY <1>l DEF WorkerType
  <2> QED BY <1>22, <2>1, <1>l, SucceedsFacts, FailsFacts, GotoFacts DEF LastUnregister
<1>23. CASE CloseQueue
  <2>1. PICK ok \in BOOLEAN :
          /\ tr' = [state |-> "closed", registration |-> FALSE, queue |-> IF ok THEN "closed" ELSE "leaked"]
          /\ wk' = [wk EXCEPT !.pc = "finish_close", !.failed = wk.failed \/ ~ok]
    BY <1>23 DEF CloseQueue
  <2>2. (wk.failed \/ ~ok) \in BOOLEAN
    BY Zenon
  <2>3. wk' \in WorkerType
    BY <2>1, <2>2, <1>l DEF WorkerType
  <2>4. tr' \in TransportType
    BY <2>1
  <2> QED BY <1>23, <2>3, <2>4 DEF CloseQueue
<1>24. CASE FinishClose
  <2>1. br' \in BridgeType
    BY <1>24, <1>p DEF FinishClose, BridgeType, BridgeStates
  <2> QED BY <1>24, <2>1, <1>l, GotoFacts DEF FinishClose
<1>25. ASSUME NEW op \in Op, NEW done \in BOOLEAN, NEW status \in {"done", "refused"},
              server.call.status = "sent", op = server.call.op
       PROVE  /\ [Carried(op) EXCEPT !.call.status = status] \in ServerType
              /\ [server EXCEPT !.call.status = status] \in ServerType
              /\ Written(op, done) \in Contents
  <2>1. Carried(op) \in ServerType /\ Carried(op).call \in [op : Op, status : {"sent"}]
    BY <1>25, CallTyped, CarriedFacts DEF Transfers
  <2>2. server.call \in [op : Op, status : {"sent"}]
    BY <1>25, CallTyped
  <2>3. ASSUME NEW s \in ServerType, s.call \in [op : Op, status : {"sent"}]
        PROVE  [s EXCEPT !.call.status = status] \in ServerType
    <3>1. [s.call EXCEPT !.status = status] \in Calls
      BY <2>3 DEF Calls
    <3> QED BY <2>3, <3>1 DEF ServerType
  <2> QED BY <2>1, <2>2, <2>3, <1>25, CallTyped, WrittenTyped DEF Transfers
<1>26. CASE ServerAnswers
  <2>1. server.call.op \in Op
    BY <1>26, CallTyped DEF ServerAnswers
  <2> QED BY <1>25, <1>26, <2>1 DEF ServerAnswers
<1>27. CASE ServerRefuses
  <2>1. server.call.op \in Op
    BY <1>27, CallTyped DEF ServerRefuses
  <2>2. server' \in ServerType
    BY <1>25, <1>27, <2>1 DEF ServerRefuses
  <2>3. buffer' \in Contents
    BY <1>25, <1>27, <2>1 DEF ServerRefuses
  <2> QED BY <1>27, <2>2, <2>3 DEF ServerRefuses
<1>28. ASSUME NEW op \in server.late, ServerIsLate(op)
       PROVE  TypeOK'
  <2>1. op \in Op /\ (op.kind \in Transfers => op.req \in Requests)
    BY DEF IInv, LateTransferIsLast, ServerType
  <2>2. Carried(op) \in ServerType /\ Written(op, TRUE) \in Contents
    BY <2>1, CarriedFacts, WrittenTyped DEF Transfers
  <2>3. [Carried(op) EXCEPT !.late = @ \ {op}] \in ServerType
    BY <2>2 DEF ServerType
  <2> QED BY <1>28, <2>2, <2>3 DEF ServerIsLate
<1>29. CASE UNCHANGED vars
  BY <1>29 DEF vars
<1> QED
  BY <1>1, <1>2, <1>3, <1>4, <1>5, <1>6, <1>7, <1>8, <1>9, <1>10, <1>11, <1>12, <1>13,
     <1>14, <1>15, <1>16, <1>17, <1>18, <1>19, <1>20, <1>21, <1>22, <1>23, <1>24,
     <1>26, <1>27, <1>28, <1>29
     DEF Next, WorkerStep, EngineCalls, ServerStep, Stopped

-----------------------------------------------------------------------------
(* The rest of the invariant.                                              *)

\* What IInv says beyond the types.
Discipline ==
  /\ CallIsAwaited /\ StagingFollows /\ BufferIsOwn /\ LateTransferIsLast
  /\ StoredFollows /\ RegistrationIsKnown /\ ScatteredIsRetrieved /\ StoredIsGathered

\* Labels at which nothing is asked of the tensor or of the server.
Quiet == {"idle", "retrieve", "forward", "gather", "close_staging", "close_transport",
          "close_queue", "finish_close", "end"}

\* The server has a call less, and what it has of the tensor is as it was.
Settles ==
  /\ server'.call = NoCall
  /\ server'.registered = server.registered /\ server'.stored = server.stored
  /\ \/ server'.late = server.late
     \/ /\ wk.pc \in Waits \ {"registering"}
        /\ server'.late = server.late \cup {server.call.op}
        /\ wk.pc \in {"retrieving", "storing"} => st'.state = "failed"

\* The invariant survives every step to a quiet label, however the call before
\* it ended: what a transfer leaves behind finds staging failed.
LEMMA QuietKeeps ==
  ASSUME IInv, TypeOK', Settles,
         wk.pc \notin {"open_transport", "open_staging", "registering", "abandon"},
         wk'.pc \in Quiet, wk'.pc \in Working => wk'.req \in Requests,
         wk.pc = "end" => wk'.pc = "end",
         st'.may_exist = st.may_exist, st'.owners = st.owners,
         st'.state \in {st.state, "failed"},
         buffer' = buffer, scattered' = scattered, published' = published
  PROVE  Discipline'
<1> USE DEF IInv, Settles, Quiet
<1>1. CallIsAwaited'
  BY DEF CallIsAwaited, Waits
<1>2. StagingFollows'
  BY DEF StagingFollows
<1>3. BufferIsOwn'
  BY DEF BufferIsOwn
<1>4. LateTransferIsLast'
  <2>1. CASE server'.late = server.late
    BY <2>1 DEF LateTransferIsLast
  <2>2. CASE server'.late # server.late
    <3>1. /\ wk.pc \in Waits \ {"registering"}
          /\ server'.late = server.late \cup {server.call.op}
          /\ server.call.op.kind = KindAt(wk.pc) /\ server.call.op.req = wk.req
      BY <2>2 DEF CallIsAwaited
    <3>2. CASE wk.pc \in {"retrieving", "storing"}
      <4>1. st.state = "transfer_active" /\ wk.req \in Requests
        BY <3>2 DEF StagingFollows, Working
      <4>2. \A op \in server.late : op.kind \notin Transfers
        BY <4>1 DEF LateTransferIsLast
      <4>3. st'.state = "failed"
        BY <2>2, <3>2
      <4>4. server.call.op.kind = "store" => buffer = Gathered(wk.req)
        BY <3>1, <3>2 DEF KindAt, BufferIsOwn
      <4> QED BY <3>1, <4>1, <4>2, <4>3, <4>4 DEF LateTransferIsLast
    <3>3. CASE wk.pc \notin {"retrieving", "storing"}
      <4>1. server.call.op.kind \notin Transfers
        BY <3>1, <3>3 DEF KindAt, Transfers, Waits
      <4> QED BY <3>1, <4>1 DEF LateTransferIsLast
    <3> QED BY <3>2, <3>3
  <2> QED BY <2>1, <2>2
<1>5. StoredFollows'
  BY DEF StoredFollows
<1>6. RegistrationIsKnown'
  <2>1. \A op \in server'.late : op.kind = "register" => op \in server.late
    BY DEF CallIsAwaited, KindAt, Waits
  <2> QED BY <2>1 DEF RegistrationIsKnown
<1>7. ScatteredIsRetrieved' /\ StoredIsGathered'
  BY DEF ScatteredIsRetrieved, StoredIsGathered
<1> QED BY <1>1, <1>2, <1>3, <1>4, <1>5, <1>6, <1>7 DEF Discipline

\* So does a request to the server, sent from a label that has what the
\* request needs.
LEMMA SendKeeps ==
  ASSUME IInv, TypeOK', NEW l \in Waits, Send(KindAt(l), l),
         wk.pc \notin {"abandon", "end"},
         l \in {"retrieving", "storing"} => wk.pc \in Working /\ st.state = "registered",
         l = "storing" => wk.pc = "store",
         l = "registering" => wk.pc = "open_staging",
         st'.state = (IF l \in {"retrieving", "storing"} THEN "transfer_active" ELSE st.state),
         IF l = "registering" THEN st'.may_exist /\ st'.owners
         ELSE st'.may_exist = st.may_exist /\ st'.owners = st.owners,
         buffer' = buffer, scattered' = scattered, published' = published
  PROVE  Discipline'
<1>0. /\ l \in PCs /\ KindAt(l) \in Kinds
      /\ l \in {"registering", "retrieving", "storing", "unregistering", "last_unregister"}
  BY DEF PCs, KindAt, Kinds, Waits
<1>s. /\ ServerRests
      /\ server'.call \in [op : Op, status : {"sent"}]
      /\ server'.call.op = [kind |-> KindAt(l), req |-> wk.req]
      /\ wk'.pc = l /\ wk'.req = wk.req
  BY <1>0, SendFacts DEF IInv
<1> USE DEF IInv, ServerRests
<1>1. CallIsAwaited'
  BY <1>s DEF CallIsAwaited
<1>2. StagingFollows'
  BY <1>0, <1>s DEF StagingFollows, Working
<1>3. BufferIsOwn'
  BY <1>0, <1>s DEF BufferIsOwn
<1>4. LateTransferIsLast'
  BY <1>0, <1>s DEF LateTransferIsLast
<1>5. StoredFollows'
  BY <1>0, <1>s DEF StoredFollows
<1>6. RegistrationIsKnown'
  BY <1>0, <1>s DEF RegistrationIsKnown
<1>7. ScatteredIsRetrieved' /\ StoredIsGathered'
  BY <1>s DEF ScatteredIsRetrieved, StoredIsGathered
<1> QED BY <1>1, <1>2, <1>3, <1>4, <1>5, <1>6, <1>7 DEF Discipline

\* The server works on the outstanding call, to the end or not.
LEMMA CallCarried ==
  ASSUME IInv, TypeOK', server.call.status = "sent",
         NEW status \in {"done", "refused"}, NEW done \in BOOLEAN, status = "done" => done,
         server' = [Carried(server.call.op) EXCEPT !.call.status = status],
         buffer' = Written(server.call.op, done),
         wk' = wk, st' = st, scattered' = scattered, published' = published
  PROVE  Discipline'
<1> DEFINE op == server.call.op
<1>1. /\ wk.pc \in Waits
      /\ server.call \in [op : Op, status : {"sent"}]
      /\ op \in Op /\ op = [kind |-> KindAt(wk.pc), req |-> wk.req]
      /\ op.kind = KindAt(wk.pc) /\ op.req = wk.req
      /\ op.kind \in Transfers => op.req \in Requests
  BY CallTyped DEF Op
<1>2. /\ Carried(op) \in ServerType
      /\ Carried(op).call = server.call /\ Carried(op).late = server.late
      /\ op.kind = "register" => Carried(op).registered
      /\ op.kind = "unregister" => ~Carried(op).registered
      /\ op.kind \in Transfers => Carried(op).registered = server.registered
      /\ op.kind = "store" =>
           Carried(op).stored = server.stored \cup {[req |-> op.req, kv |-> buffer]}
      /\ op.kind # "store" => Carried(op).stored = server.stored
  BY <1>1, CarriedFacts DEF IInv, Transfers
<1>3. /\ server'.call \in [op : Op, status : {status}] /\ server'.call.op = op
      /\ server'.late = server.late
      /\ server'.registered = Carried(op).registered
      /\ server'.stored = Carried(op).stored
  <2> DEFINE c == Carried(op)
  <2>1. c \in ServerType /\ c.call \in [op : Op, status : {"sent"}] /\ c.call.op = op
    BY <1>1, <1>2
  <2>2. server' = [c EXCEPT !.call.status = status] /\ c.late = server.late
    BY <1>2
  <2> HIDE DEF c
  <2>3. /\ server'.call = [c.call EXCEPT !.status = status] /\ server'.late = server.late
        /\ server'.registered = c.registered /\ server'.stored = c.stored
    BY <2>1, <2>2 DEF ServerType
  <2> QED BY <2>1, <2>3 DEF c
<1> HIDE DEF op
<1>4. /\ wk.pc = "registering" => op.kind = "register"
      /\ wk.pc = "retrieving" => op.kind = "retrieve"
      /\ wk.pc = "storing" => op.kind = "store"
      /\ wk.pc \in {"unregistering", "last_unregister"} => op.kind = "unregister"
      /\ wk.pc \in {"registering", "retrieving", "storing", "unregistering", "last_unregister"}
  BY <1>1 DEF KindAt, Waits
<1>5. /\ op.kind # "retrieve" => buffer' = buffer
      /\ op.kind = "retrieve" /\ done => buffer' = Retrieved(op.req)
  BY DEF Written, op
<1>6. wk.pc = "storing" => buffer = Gathered(wk.req)
  BY DEF IInv, BufferIsOwn
<1> USE DEF IInv
<1>a. CallIsAwaited'
  BY <1>1, <1>3 DEF CallIsAwaited
<1>b. StagingFollows'
  BY <1>3, <1>4 DEF StagingFollows
<1>c. BufferIsOwn'
  BY <1>1, <1>3, <1>4, <1>5 DEF BufferIsOwn
<1>d. LateTransferIsLast'
  <2>1. CASE wk.pc = "retrieving"
    <3>1. \A o \in server.late : o.kind \notin Transfers
      BY <2>1 DEF StagingFollows, LateTransferIsLast
    <3> QED BY <1>3, <3>1 DEF LateTransferIsLast
  <2>2. CASE wk.pc # "retrieving"
    <3>1. buffer' = buffer
      BY <1>4, <1>5, <2>2
    <3> QED BY <1>3, <3>1 DEF LateTransferIsLast
  <2> QED BY <2>1, <2>2
<1>e. StoredFollows'
  BY <1>1, <1>2, <1>3, <1>4, <1>6 DEF StoredFollows
<1>f. RegistrationIsKnown'
  BY <1>2, <1>3, <1>4 DEF RegistrationIsKnown, Transfers
<1>g. ScatteredIsRetrieved'
  BY DEF ScatteredIsRetrieved
<1>h. StoredIsGathered'
  BY <1>1, <1>2, <1>3, <1>4, <1>6 DEF StoredIsGathered
<1> QED BY <1>a, <1>b, <1>c, <1>d, <1>e, <1>f, <1>g, <1>h DEF Discipline

\* The server refuses the outstanding call without having begun it.
LEMMA CallRefused ==
  ASSUME IInv, TypeOK', server.call.status = "sent",
         server' = [server EXCEPT !.call.status = "refused"],
         wk' = wk, st' = st, buffer' = buffer, scattered' = scattered, published' = published
  PROVE  Discipline'
<1>1. wk.pc \in Waits /\ server.call \in [op : Op, status : {"sent"}]
  BY CallTyped
<1>2. /\ server'.call \in [op : Op, status : {"refused"}]
      /\ server'.call.op = server.call.op /\ ServerRests
  <2>1. /\ server'.call = [server.call EXCEPT !.status = "refused"] /\ ServerRests
    BY DEF IInv, TypeOK, ServerType, ServerRests
  <2> QED BY <1>1, <2>1
<1> USE DEF IInv, ServerRests
<1>a. CallIsAwaited'
  BY <1>1, <1>2 DEF CallIsAwaited
<1>b. StagingFollows' /\ BufferIsOwn' /\ StoredFollows'
  BY <1>2 DEF StagingFollows, BufferIsOwn, StoredFollows
<1>c. LateTransferIsLast' /\ RegistrationIsKnown'
  BY <1>2 DEF LateTransferIsLast, RegistrationIsKnown
<1>d. ScatteredIsRetrieved' /\ StoredIsGathered'
  BY <1>2 DEF ScatteredIsRetrieved, StoredIsGathered
<1> QED BY <1>a, <1>b, <1>c, <1>d DEF Discipline

\* The server carries out a request whose client has given up: the only
\* transfer among those finds staging failed, and a registration finds the
\* owners retained.
LEMMA LateCarried ==
  ASSUME IInv, TypeOK', NEW op \in server.late, ServerIsLate(op)
  PROVE  Discipline'
<1>1. op \in Op /\ op.kind \in Kinds
  BY DEF IInv, TypeOK, ServerType, Op
<1>2. op.kind \in Transfers =>
        /\ op.req \in Requests /\ st.state \in {"failed", "closed"}
        /\ op.kind = "store" => buffer = Gathered(op.req)
        /\ \A other \in server.late : other.kind \in Transfers => other = op
  BY DEF IInv, LateTransferIsLast
<1>3. /\ Carried(op) \in ServerType
      /\ Carried(op).call = server.call /\ Carried(op).late = server.late
      /\ op.kind = "register" => Carried(op).registered
      /\ op.kind = "unregister" => ~Carried(op).registered
      /\ op.kind \in Transfers => Carried(op).registered = server.registered
      /\ op.kind = "store" =>
           Carried(op).stored = server.stored \cup {[req |-> op.req, kv |-> buffer]}
      /\ op.kind # "store" => Carried(op).stored = server.stored
  BY <1>1, <1>2, CarriedFacts DEF IInv, Transfers
<1>4. /\ server'.call = server.call /\ server'.late = server.late \ {op}
      /\ server'.registered = Carried(op).registered
      /\ server'.stored = Carried(op).stored
  BY <1>3 DEF ServerIsLate, ServerType
<1>5. op.kind # "retrieve" => buffer' = buffer
  BY DEF ServerIsLate, Written
<1>6. wk' = wk /\ st' = st /\ scattered' = scattered /\ published' = published
  BY DEF ServerIsLate
<1>7. op.kind \in {"register", "unregister", "retrieve", "store"}
  BY <1>1 DEF Kinds
<1> USE DEF IInv
<1>a. CallIsAwaited'
  BY <1>4, <1>6 DEF CallIsAwaited
<1>b. StagingFollows'
  BY <1>4, <1>6 DEF StagingFollows
<1>c. BufferIsOwn'
  <2>1. CASE op.kind \in Transfers
    BY <1>2, <1>6, <2>1 DEF BufferIsOwn, StagingFollows
  <2>2. CASE op.kind \notin Transfers
    BY <1>4, <1>5, <1>6, <2>2 DEF BufferIsOwn, Transfers
  <2> QED BY <2>1, <2>2
<1>d. LateTransferIsLast'
  <2>1. CASE op.kind \in Transfers
    BY <1>2, <1>4, <2>1 DEF LateTransferIsLast
  <2>2. CASE op.kind \notin Transfers
    BY <1>4, <1>5, <1>6, <2>2 DEF LateTransferIsLast, Transfers
  <2> QED BY <2>1, <2>2
<1>e. StoredFollows'
  BY <1>3, <1>4, <1>6 DEF StoredFollows
<1>f. RegistrationIsKnown'
  <2>1. op.kind = "register" => wk.pc \in {"abandon", "end"} /\ st.may_exist
    BY DEF RegistrationIsKnown
  <2> QED BY <1>3, <1>4, <1>6, <1>7, <2>1 DEF RegistrationIsKnown, Transfers
<1>g. ScatteredIsRetrieved'
  BY <1>6 DEF ScatteredIsRetrieved
<1>h. StoredIsGathered'
  <2>1. CASE op.kind = "store"
    <3>1. server'.stored = server.stored \cup {[req |-> op.req, kv |-> Gathered(op.req)]}
      BY <1>2, <1>3, <1>4, <2>1 DEF Transfers
    <3> QED BY <1>6, <3>1 DEF StoredIsGathered
  <2>2. CASE op.kind # "store"
    BY <1>3, <1>4, <1>6, <2>2 DEF StoredIsGathered
  <2> QED BY <2>1, <2>2
<1> QED BY <1>a, <1>b, <1>c, <1>d, <1>e, <1>f, <1>g, <1>h DEF Discipline

\* Every step keeps the discipline of the transfers.
LEMMA DisciplineStep ==
  ASSUME IInv, [Next]_vars
  PROVE  Discipline'
<1>t. TypeOK /\ TypeOK' /\ Discipline
  BY TypeStep DEF IInv, Discipline
<1> USE <1>t
<1>0. /\ wk.req \in Requests \cup {None}
      /\ wk.pc \in Working => wk.req \in Requests
      /\ PCs = {"open_transport", "open_staging", "abandon", "idle", "retrieve", "scatter",
                "forward", "gather", "store", "publish", "close_staging", "close_transport",
                "close_queue", "finish_close", "end", "registering", "retrieving", "storing",
                "unregistering", "last_unregister"}
      /\ {"not_eligible", "fallback", "succeeded"} \subseteq Attempts
  BY DEF IInv, StagingFollows, TypeOK, WorkerType, PCs, Waits, Attempts
<1>n. wk.pc \notin Waits => server.call = NoCall
  BY DEF IInv, CallIsAwaited
<1>s. st \in StagingType
  BY DEF TypeOK
\* A step that sends nothing, and finds no call outstanding.
<1>q. ASSUME wk.pc \notin Waits, server' = server
      PROVE  Settles
  BY <1>q, <1>n DEF Settles
<1>1. CASE OpenTransport
  <2>1. wk'.pc \in {"open_staging", "abandon"} /\ wk'.req = wk.req
    BY <1>1, <1>0, GotoFacts DEF OpenTransport
  <2> QED BY <1>1, <2>1, <1>n
       DEF OpenTransport, Discipline, IInv, CallIsAwaited, StagingFollows, BufferIsOwn,
           LateTransferIsLast, StoredFollows, RegistrationIsKnown, ScatteredIsRetrieved,
           StoredIsGathered, Waits, Working
<1>2. CASE OpenStaging
  <2>1. CASE Send("register", "registering") /\ st' = [st EXCEPT !.may_exist = TRUE, !.owners = TRUE]
    <3>1. st'.state = st.state /\ st'.may_exist /\ st'.owners
      BY <2>1, <1>s DEF StagingType
    <3>2. KindAt("registering") = "register" /\ "registering" \in Waits
      BY DEF KindAt, Waits
    <3> QED BY <1>2, <2>1, <3>1, <3>2, SendKeeps DEF OpenStaging
  <2>2. CASE Goto("abandon") /\ server' = server /\ st' \in OpenFailures
    <3>1. wk'.pc = "abandon" /\ wk'.req = wk.req
      BY <2>2, <1>0, GotoFacts
    <3>2. st'.may_exist => st'.owners
      BY <2>2 DEF OpenFailures
    <3> QED BY <1>2, <2>2, <3>1, <3>2, <1>n
         DEF OpenStaging, Discipline, IInv, CallIsAwaited, StagingFollows, BufferIsOwn,
             LateTransferIsLast, StoredFollows, RegistrationIsKnown, ScatteredIsRetrieved,
             StoredIsGathered, Waits, Working
  <2> QED BY <1>2, <2>1, <2>2 DEF OpenStaging
<1>3. CASE Registered
  <2>1. wk'.pc = "idle" /\ ServerRests /\ server'.call = NoCall
    BY <1>3, <1>0, GotoFacts, SucceedsFacts DEF Registered
  <2>2. st'.may_exist = st.may_exist /\ st'.owners = st.owners
    BY <1>3, <1>s DEF Registered, StagingType
  <2> QED BY <1>3, <2>1, <2>2
       DEF Registered, ServerRests, Discipline, IInv, CallIsAwaited, StagingFollows, BufferIsOwn,
           LateTransferIsLast, StoredFollows, RegistrationIsKnown, ScatteredIsRetrieved,
           StoredIsGathered, Waits, Working
<1>4. CASE RegisterFails
  <2>1. /\ wk'.pc = "abandon" /\ server'.call = NoCall
        /\ server'.registered = server.registered /\ server'.stored = server.stored
        /\ server'.late \in {server.late, server.late \cup {server.call.op}}
    BY <1>4, <1>0, GotoFacts, FailsFacts DEF RegisterFails
  <2>2. /\ st'.may_exist = st.may_exist /\ st'.owners = st.owners
        /\ wk.pc = "registering" /\ buffer' = buffer /\ scattered' = scattered
        /\ published' = published
    BY <1>4, <1>s DEF RegisterFails, StagingType
  <2>3. server.call.op.kind = "register" /\ server.late = {} /\ st.may_exist
    BY <2>2 DEF IInv, CallIsAwaited, KindAt, Waits, StagingFollows, RegistrationIsKnown
  <2> QED BY <2>1, <2>2, <2>3
       DEF Discipline, IInv, CallIsAwaited, StagingFollows, BufferIsOwn,
           LateTransferIsLast, StoredFollows, RegistrationIsKnown, ScatteredIsRetrieved,
           StoredIsGathered, Waits, Working, Transfers
<1>5. CASE Abandon
  <2>1. wk.pc = "abandon" /\ wk'.pc = "end"
    BY <1>5, <1>0, GotoFacts DEF Abandon
  <2>2. /\ st'.may_exist = st.may_exist /\ (st.may_exist => st'.owners = st.owners)
        /\ st'.state \in {"failed", "closed"}
    BY <1>5, <1>s DEF Abandon, StagingType
  <2> QED BY <1>5, <2>1, <2>2, <1>n
       DEF Abandon, Discipline, IInv, CallIsAwaited, StagingFollows, BufferIsOwn,
           LateTransferIsLast, StoredFollows, RegistrationIsKnown, ScatteredIsRetrieved,
           StoredIsGathered, Waits, Working
<1>6. ASSUME NEW r \in Requests, BeforeForward(r)
      PROVE  Discipline'
  <2>1. wk'.pc \in {"forward", "retrieve"} /\ wk'.req = r
    <3>1. wk' = [wk EXCEPT !.pc = "retrieve", !.req = r] => wk'.pc = "retrieve" /\ wk'.req = r
      BY DEF TypeOK, WorkerType
    <3> QED BY <1>6, <3>1, <1>0, LoadEndsFacts DEF BeforeForward, PreflightLoad
  <2>2. wk.pc = "idle" /\ server' = server
    BY <1>6 DEF BeforeForward
  <2>3. Settles
    BY <1>q, <2>2 DEF Waits
  <2> QED BY <1>6, <2>1, <2>2, <2>3, QuietKeeps DEF BeforeForward, Quiet
<1>7. CASE RetrieveVerified
  <2>1. CASE Leases("retrieve", "retrieving")
    <3>1. KindAt("retrieving") = "retrieve" /\ "retrieving" \in Waits
      BY DEF KindAt, Waits
    <3>2. /\ st.state = "registered" /\ st'.state = "transfer_active"
          /\ st'.may_exist = st.may_exist /\ st'.owners = st.owners
      BY <2>1, <1>s DEF Leases, StagingType
    <3> QED BY <1>7, <2>1, <3>1, <3>2, SendKeeps DEF RetrieveVerified, Leases, Working
  <2>2. CASE LeaseFails /\ LoadEnds(wk.req, "fallback")
    <3>1. wk.pc = "retrieve" /\ wk'.pc = "forward" /\ wk'.req \in Requests
      BY <1>7, <2>2, <1>0, LoadEndsFacts DEF RetrieveVerified, Working
    <3>2. /\ st'.state \in {st.state, "failed"}
          /\ st'.may_exist = st.may_exist /\ st'.owners = st.owners
      BY <2>2, <1>s DEF LeaseFails, StagingType
    <3>3. Settles
      BY <1>q, <2>2, <3>1 DEF Waits, LeaseFails
    <3> QED BY <1>7, <3>1, <3>2, <3>3, QuietKeeps DEF RetrieveVerified, Quiet
  <2> QED BY <1>7, <2>1, <2>2 DEF RetrieveVerified
<1>8. CASE RetrieveReturns
  <2>1. /\ wk.pc = "retrieving" /\ ServerRests /\ server'.call = NoCall
        /\ server.call.status = "done" /\ wk.req \in Requests
    BY <1>8, <1>0, SucceedsFacts DEF RetrieveReturns, Working
  <2>2. CASE st' = [st EXCEPT !.state = "registered"] /\ Goto("scatter")
    <3>1. wk'.pc = "scatter" /\ wk'.req = wk.req
      BY <2>2, <1>0, GotoFacts
    <3>2. /\ st.state = "transfer_active" /\ st'.state = "registered"
          /\ st'.may_exist = st.may_exist /\ st'.owners = st.owners
      BY <2>1, <2>2, <1>s DEF StagingType, IInv, StagingFollows
    <3> QED BY <1>8, <2>1, <3>1, <3>2
         DEF RetrieveReturns, ServerRests, Discipline, IInv, CallIsAwaited, StagingFollows,
             BufferIsOwn, LateTransferIsLast, StoredFollows, RegistrationIsKnown,
             ScatteredIsRetrieved, StoredIsGathered, Waits, Working
  <2>3. CASE st' = [st EXCEPT !.state = "failed"] /\ LoadEnds(wk.req, "fallback")
    <3>1. wk'.pc = "forward" /\ wk'.req = wk.req
      BY <2>3, <1>0, LoadEndsFacts
    <3>2. st'.state = "failed" /\ st'.may_exist = st.may_exist /\ st'.owners = st.owners
      BY <2>3, <1>s DEF StagingType
    <3>3. Settles
      BY <2>1 DEF Settles, ServerRests
    <3> QED BY <1>8, <2>1, <3>1, <3>2, <3>3, QuietKeeps DEF RetrieveReturns, Quiet
  <2> QED BY <1>8, <2>2, <2>3 DEF RetrieveReturns
<1>9. CASE RetrieveFails
  <2>1. wk.pc = "retrieving" /\ wk'.pc = "forward" /\ wk'.req \in Requests
    BY <1>9, <1>0, LoadEndsFacts DEF RetrieveFails, Working
  <2>2. st'.state = "failed" /\ st'.may_exist = st.may_exist /\ st'.owners = st.owners
    BY <1>9, <1>s DEF RetrieveFails, TransferFailed, StagingType
  <2>3. Settles
    BY <1>9, <2>1, <2>2, FailsFacts DEF RetrieveFails, Settles, Waits
  <2> QED BY <1>9, <2>1, <2>2, <2>3, QuietKeeps DEF RetrieveFails, Quiet
<1>10. CASE ScatterRetrieved
  <2>1. wk.pc = "scatter" /\ wk'.pc = "forward" /\ wk'.req = wk.req /\ wk.req \in Requests
    BY <1>10, <1>0, LoadEndsFacts DEF ScatterRetrieved, Working
  <2>2. ScatteredIsRetrieved'
    <3>1. buffer = Retrieved(wk.req)
      BY <2>1 DEF IInv, BufferIsOwn
    <3> QED BY <1>10, <3>1 DEF ScatterRetrieved, ScatteredIsRetrieved, IInv, TypeOK
  <2> QED BY <1>10, <2>1, <2>2, <1>n
       DEF ScatterRetrieved, Discipline, IInv, CallIsAwaited, StagingFollows, BufferIsOwn,
           LateTransferIsLast, StoredFollows, RegistrationIsKnown, StoredIsGathered, Waits,
           Working
<1>11. CASE AfterForward
  <2>1. wk.pc = "forward" /\ wk'.pc \in {"idle", "gather"}
        /\ (wk'.pc = "gather" => wk'.req = wk.req)
    BY <1>11, <1>0, GotoFacts, StoreEndsFacts DEF AfterForward, PreflightStore
  <2>2. Settles
    BY <1>11, <1>q, <2>1 DEF AfterForward, Waits
  <2> QED BY <1>11, <2>1, <2>2, <1>0, QuietKeeps DEF AfterForward, Quiet, Working
<1>12. CASE GatherRecomputed
  <2>1. /\ wk.pc = "gather" /\ st.state = "registered" /\ st' = st /\ server' = server
        /\ wk.req \in Requests /\ scattered' = scattered /\ published' = published
    BY <1>12, <1>0 DEF GatherRecomputed, Working
  <2>2. \/ wk'.pc = "store" /\ wk'.req = wk.req /\ buffer' = Gathered(wk.req)
        \/ wk'.pc = "idle"
    BY <1>12, <1>0, GotoFacts, StoreEndsFacts DEF GatherRecomputed
  <2>3. \A op \in server.late : op.kind \notin Transfers
    BY <2>1 DEF IInv, LateTransferIsLast
  <2> QED BY <2>1, <2>2, <2>3, <1>n
       DEF Discipline, IInv, CallIsAwaited, StagingFollows, BufferIsOwn,
           LateTransferIsLast, StoredFollows, RegistrationIsKnown, ScatteredIsRetrieved,
           StoredIsGathered, Waits, Working
<1>13. CASE StorePrecomputed
  <2>1. CASE Leases("store", "storing")
    <3>1. KindAt("storing") = "store" /\ "storing" \in Waits
      BY DEF KindAt, Waits
    <3>2. /\ st.state = "registered" /\ st'.state = "transfer_active"
          /\ st'.may_exist = st.may_exist /\ st'.owners = st.owners
      BY <2>1, <1>s DEF Leases, StagingType
    <3> QED BY <1>13, <2>1, <3>1, <3>2, SendKeeps DEF StorePrecomputed, Leases, Working
  <2>2. CASE LeaseFails /\ StoreEnds("fallback")
    <3>1. wk.pc = "store" /\ wk'.pc = "idle"
      BY <1>13, <2>2, <1>0, StoreEndsFacts DEF StorePrecomputed
    <3>2. /\ st'.state \in {st.state, "failed"}
          /\ st'.may_exist = st.may_exist /\ st'.owners = st.owners
      BY <2>2, <1>s DEF LeaseFails, StagingType
    <3>3. Settles
      BY <1>q, <2>2, <3>1 DEF Waits, LeaseFails
    <3> QED BY <1>13, <3>1, <3>2, <3>3, QuietKeeps DEF StorePrecomputed, Quiet, Working
  <2> QED BY <1>13, <2>1, <2>2 DEF StorePrecomputed
<1>14. CASE StoreReturns
  <2>1. /\ wk.pc = "storing" /\ ServerRests /\ server'.call = NoCall
        /\ server.call.status = "done" /\ wk.req \in Requests
    BY <1>14, <1>0, SucceedsFacts DEF StoreReturns, Working
  <2>2. CASE st' = [st EXCEPT !.state = "registered"] /\ Goto("publish")
    <3>1. wk'.pc = "publish" /\ wk'.req = wk.req
      BY <2>2, <1>0, GotoFacts
    <3>2. /\ st.state = "transfer_active"
          /\ st'.may_exist = st.may_exist /\ st'.owners = st.owners
      BY <2>1, <2>2, <1>s DEF StagingType, IInv, StagingFollows
    <3> QED BY <1>14, <2>1, <3>1, <3>2
         DEF StoreReturns, ServerRests, Discipline, IInv, CallIsAwaited, StagingFollows,
             BufferIsOwn, LateTransferIsLast, StoredFollows, RegistrationIsKnown,
             ScatteredIsRetrieved, StoredIsGathered, Waits, Working
  <2>3. CASE st' = [st EXCEPT !.state = "failed"] /\ StoreEnds("fallback")
    <3>1. wk'.pc = "idle"
      BY <2>3, <1>0, StoreEndsFacts
    <3>2. st'.state = "failed" /\ st'.may_exist = st.may_exist /\ st'.owners = st.owners
      BY <2>3, <1>s DEF StagingType
    <3>3. Settles
      BY <2>1 DEF Settles, ServerRests
    <3> QED BY <1>14, <2>1, <3>1, <3>2, <3>3, QuietKeeps DEF StoreReturns, Quiet, Working
  <2> QED BY <1>14, <2>2, <2>3 DEF StoreReturns
<1>15. CASE StoreFails
  <2>1. wk.pc = "storing" /\ wk'.pc = "idle"
    BY <1>15, <1>0, StoreEndsFacts DEF StoreFails
  <2>2. st'.state = "failed" /\ st'.may_exist = st.may_exist /\ st'.owners = st.owners
    BY <1>15, <1>s DEF StoreFails, TransferFailed, StagingType
  <2>3. Settles
    BY <1>15, <2>1, <2>2, FailsFacts DEF StoreFails, Settles, Waits
  <2> QED BY <1>15, <2>1, <2>2, <2>3, QuietKeeps DEF StoreFails, Quiet, Working
<1>16. CASE PublishSidecarRecords
  <2>1. /\ wk.pc = "publish" /\ wk'.pc = "idle" /\ server' = server
        /\ st' = st /\ buffer' = buffer /\ scattered' = scattered
        /\ published' \in {published, published \cup {wk.req}}
    BY <1>16, <1>0, StoreEndsFacts DEF PublishSidecarRecords
  <2>2. StoredIsGathered'
    BY <2>1 DEF IInv, StoredIsGathered, StoredFollows
  <2> QED BY <2>1, <2>2, <1>n
       DEF Discipline, IInv, CallIsAwaited, StagingFollows, BufferIsOwn,
           LateTransferIsLast, StoredFollows, RegistrationIsKnown, ScatteredIsRetrieved,
           Waits, Working
<1>17. CASE Close
  <2>1. wk.pc = "idle" /\ wk'.pc \in {"finish_close", "close_staging"}
    BY <1>17 DEF Close, TypeOK, WorkerType
  <2>2. Settles
    BY <1>17, <1>q, <2>1 DEF Close, Waits
  <2> QED BY <1>17, <2>1, <2>2, QuietKeeps DEF Close, Quiet, Working
<1>18. CASE CloseStaging
  <2>1. CASE Send("unregister", "unregistering") /\ st' = st
    <3>1. KindAt("unregistering") = "unregister" /\ "unregistering" \in Waits
      BY DEF KindAt, Waits
    <3> QED BY <1>18, <2>1, <3>1, SendKeeps DEF CloseStaging
  <2>2. CASE /\ server' = server
             /\ \/ Goto("close_transport") /\ st' = st
                \/ /\ wk' = [wk EXCEPT !.pc = "close_transport", !.failed = TRUE]
                   /\ st' = [st EXCEPT !.state = "failed"]
    <3>1. wk.pc = "close_staging" /\ wk'.pc = "close_transport"
      BY <1>18, <2>2, <1>0, GotoFacts DEF CloseStaging, TypeOK, WorkerType
    <3>2. /\ st'.state \in {st.state, "failed"}
          /\ st'.may_exist = st.may_exist /\ st'.owners = st.owners
      BY <2>2, <1>s DEF StagingType
    <3>3. Settles
      BY <1>q, <2>2, <3>1 DEF Waits
    <3> QED BY <1>18, <3>1, <3>2, <3>3, QuietKeeps DEF CloseStaging, Quiet, Working
  <2> QED BY <1>18, <2>1, <2>2 DEF CloseStaging
<1>19. CASE Unregistered
  <2>1. /\ wk.pc = "unregistering" /\ wk'.pc = "close_transport"
        /\ ServerRests /\ server'.call = NoCall /\ server.call.status = "done"
    BY <1>19, <1>0, GotoFacts, SucceedsFacts DEF Unregistered
  <2>2. st'.state = "closed" /\ ~st'.may_exist /\ ~server.registered
    BY <1>19, <2>1 DEF Unregistered, IInv, RegistrationIsKnown
  <2> QED BY <1>19, <2>1, <2>2
       DEF Unregistered, ServerRests, Discipline, IInv, CallIsAwaited, StagingFollows,
           BufferIsOwn, LateTransferIsLast, StoredFollows, RegistrationIsKnown,
           ScatteredIsRetrieved, StoredIsGathered, Waits, Working
<1>20. CASE UnregisterFails
  <2>1. wk.pc = "unregistering" /\ wk'.pc = "close_transport"
    BY <1>20 DEF UnregisterFails, TypeOK, WorkerType
  <2>2. st'.state = "failed" /\ st'.may_exist = st.may_exist /\ st'.owners = st.owners
    BY <1>20, <1>s DEF UnregisterFails, StagingType
  <2>3. Settles
    BY <1>20, <2>1, FailsFacts DEF UnregisterFails, Settles, Waits
  <2> QED BY <1>20, <2>1, <2>2, <2>3, QuietKeeps DEF UnregisterFails, Quiet, Working
<1>21. CASE CloseTransport
  <2>1. CASE Send("unregister", "last_unregister")
    <3>1. KindAt("last_unregister") = "unregister" /\ "last_unregister" \in Waits
      BY DEF KindAt, Waits
    <3> QED BY <1>21, <2>1, <3>1, SendKeeps DEF CloseTransport
  <2>2. CASE server' = server /\ (Goto("finish_close") \/ Goto("close_queue"))
    <3>1. wk.pc = "close_transport" /\ wk'.pc \in {"finish_close", "close_queue"}
      BY <1>21, <2>2, <1>0, GotoFacts DEF CloseTransport
    <3>2. Settles
      BY <1>q, <2>2, <3>1 DEF Waits
    <3> QED BY <1>21, <3>1, <3>2, QuietKeeps DEF CloseTransport, Quiet, Working
  <2> QED BY <1>21, <2>1, <2>2 DEF CloseTransport
<1>22. CASE LastUnregister
  <2>1. wk.pc = "last_unregister" /\ wk'.pc = "close_queue"
    BY <1>22, <1>0, GotoFacts DEF LastUnregister, TypeOK, WorkerType
  <2>2. Settles
    BY <1>22, <2>1, SucceedsFacts, FailsFacts DEF LastUnregister, Settles, ServerRests, Waits
  <2> QED BY <1>22, <2>1, <2>2, QuietKeeps DEF LastUnregister, Quiet, Working
<1>23. CASE CloseQueue
  <2>1. wk.pc = "close_queue" /\ wk'.pc = "finish_close"
    BY <1>23 DEF CloseQueue, TypeOK, WorkerType
  <2>2. Settles
    BY <1>23, <1>q, <2>1 DEF CloseQueue, Waits
  <2> QED BY <1>23, <2>1, <2>2, QuietKeeps DEF CloseQueue, Quiet, Working
<1>24. CASE FinishClose
  <2>1. wk.pc = "finish_close" /\ wk'.pc \in {"end", "idle"}
    BY <1>24, <1>0, GotoFacts DEF FinishClose
  <2>2. Settles
    BY <1>24, <1>q, <2>1 DEF FinishClose, Waits
  <2> QED BY <1>24, <2>1, <2>2, QuietKeeps DEF FinishClose, Quiet, Working
<1>25. CASE ServerAnswers
  BY <1>25, CallCarried DEF ServerAnswers
<1>26. CASE ServerRefuses
  BY <1>26, CallCarried, CallRefused DEF ServerRefuses
<1>27. ASSUME NEW op \in server.late, ServerIsLate(op)
       PROVE  Discipline'
  BY <1>27, LateCarried
<1>28. CASE UNCHANGED vars
  BY <1>28 DEF vars, Discipline, CallIsAwaited, StagingFollows, BufferIsOwn,
     LateTransferIsLast, StoredFollows, RegistrationIsKnown, ScatteredIsRetrieved,
     StoredIsGathered
<1> QED
  BY <1>1, <1>2, <1>3, <1>4, <1>5, <1>6, <1>7, <1>8, <1>9, <1>10, <1>11, <1>12, <1>13,
     <1>14, <1>15, <1>16, <1>17, <1>18, <1>19, <1>20, <1>21, <1>22, <1>23, <1>24,
     <1>25, <1>26, <1>27, <1>28
     DEF Next, WorkerStep, EngineCalls, ServerStep, Stopped

-----------------------------------------------------------------------------
(* The theorems.                                                           *)

\* The worker opens its transport first: nothing is sent, stored or shared.
LEMMA InitIInv == Init => IInv
<1> SUFFICES ASSUME Init PROVE IInv
  OBVIOUS
<1>1. TypeOK
  BY BoundAssumption
     DEF Init, TypeOK, WorkerType, PCs, TransportType, TransportStates, StagingType,
         StagingStates, BridgeType, BridgeStates, NoPlans, ServerType, Calls, Contents, Attempts
<1> QED BY <1>1
  DEF Init, IInv, CallIsAwaited, StagingFollows, BufferIsOwn, LateTransferIsLast,
      StoredFollows, RegistrationIsKnown, ScatteredIsRetrieved, StoredIsGathered, Waits,
      Working

\* The argument above is an invariant of the worker with its server, whatever
\* the server refuses, delays or carries out late.
THEOREM TransferInvariant == Spec => []IInv
<1>1. IInv /\ [Next]_vars => IInv'
  BY TypeStep, DisciplineStep DEF IInv, Discipline
<1> QED BY InitIInv, <1>1, PTL DEF Spec

\* No request's blocks ever receive other KV than what was retrieved for it
\* (before_forward, synchronous_transfer, scatter_retrieved).
THEOREM ScatteredIsAlwaysRetrieved == Spec => []ScatteredIsRetrieved
<1>1. IInv => ScatteredIsRetrieved
  BY DEF IInv
<1> QED BY <1>1, TransferInvariant, PTL

\* What the server stores under a request's key is what was gathered from its
\* blocks, and only stored KV is published (after_forward).
THEOREM StoredIsAlwaysGathered == Spec => []StoredIsGathered
<1>1. IInv => StoredIsGathered
  BY DEF IInv
<1> QED BY <1>1, TransferInvariant, PTL

\* The staging tensor outlives whatever the server has, or may yet get, of it
\* (StagingRuntime.close), and every field is of its type.
THEOREM ServerMemoryIsAlwaysOwned == Spec => []ServerMemoryIsOwned
<1>1. IInv => ServerMemoryIsOwned
  <2> SUFFICES ASSUME IInv PROVE ServerMemoryIsOwned
    OBVIOUS
  <2>1. server.registered => st.owners
    BY DEF IInv, RegistrationIsKnown
  <2>2. \A op \in server.late : op.kind = "register" => st.owners
    BY DEF IInv, RegistrationIsKnown
  <2>3. server.call.op.kind = "register" => st.owners
    <3>1. CASE wk.pc \in Waits
      BY <3>1 DEF IInv, CallIsAwaited, KindAt, RegistrationIsKnown, Waits
    <3>2. CASE wk.pc \notin Waits
      BY <3>2 DEF IInv, CallIsAwaited, NoCall
    <3> QED BY <3>1, <3>2
  <2> QED BY <2>1, <2>2, <2>3 DEF ServerMemoryIsOwned, IInv
<1> QED BY <1>1, TransferInvariant, PTL

=============================================================================
