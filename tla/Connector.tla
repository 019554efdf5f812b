------------------------------ MODULE Connector ------------------------------
(***************************************************************************)
(* GptOssCacheBlendConnector (vllm_compat/v0_19_1/connector.py) in both of *)
(* its roles, driven by the step loop of the pinned vLLM engine.           *)
(*                                                                         *)
(*   schedule:  Lookup, UpdateStateAfterAlloc, BuildConnectorMeta          *)
(*   worker:    StartLoadKv, SaveKvLayer, WaitForSave, GetFinished,        *)
(*              BuildConnectorWorkerMeta                                   *)
(*   output:    request_finished_all_groups for every request that stops   *)
(*              or is cancelled, then UpdateConnectorOutput                *)
(*                                                                         *)
(* The engine (status, block tables, token counts, step order) is external *)
(* code modelled from the hooks it calls; a workload names the optional    *)
(* behaviours of it that an instance turns on.  A hook that raises kills   *)
(* the engine core: raised then names the hook and nothing but Shutdown    *)
(* follows.  The scheduler lookup runtime and the worker transfer runtime  *)
(* appear here through what they return to the connector.                  *)
(***************************************************************************)
EXTENDS Lifecycle, FiniteSets

CONSTANTS
  Layers,           \* registered KV-cache layers
  TransferModes,    \* the modes checked: TRUE is Transfer100PctConfig
  MaxSeqs,          \* scheduler_config.max_num_seqs in control-flow mode
  Budget,           \* tokens one request may be scheduled for in one step
  StagingCapacity,  \* staging_token_capacity
  ChunkSize,        \* LMCACHE_CHUNK_SIZE
  MaxOutputs,       \* bound on generated tokens
  MaxPreemptions,   \* bound on preemptions of one request
  Workloads         \* records [prompt, may]: tokens of the prompt of each request
                    \* that arrives, and optional engine behaviours

EngineOptions == {"cancel_queued", "finish_with_receipt", "preempt",
                  "lookup_fatal", "skip_layer"}

Hooks == {"preempt", "lookup_fatal", "lookup_conflict", "allocate_unknown",
          "allocate_conflict", "handoff", "lookup_missing", "scheduled_tokens",
          "generation", "still_active", "two_transfers", "accept_conflict",
          "validate", "missing_layer", "finished_active",
          "receipt", "finish_unknown", "finish_table"}

\* SchedulerLookupMetadata as the connector and the runtime keep it.
StoredLookup == [plan : Plan, gen : Nat, preemptions : Nat]

\* GptOssCacheBlendMetadata with the SchedulerOutput's finished_req_ids.
Metadata == [handoffs : SUBSET Handoff, transfers : SUBSET Requests,
             finished : SUBSET Requests]

\* _ActiveWorkerTransfer.
ActiveTransfer == [req : Requests, alloc : Allocation, saved : SUBSET Layers]

ASSUME ConnectorNoneAssumption ==
  /\ None \notin Nat /\ None \notin Hooks /\ None \notin StoredLookup
  /\ None \notin Metadata /\ None \notin ActiveTransfer

ASSUME ConnectorAssumption ==
  /\ IsFiniteSet(Requests) /\ None \notin Requests
  /\ None \notin BlockTables
  /\ BlockTables # {}   \* the KV cache has room for a request alone
  /\ TransferModes \subseteq BOOLEAN /\ TransferModes # {}
  /\ MaxSeqs \in Nat \ {0}
  /\ TRUE \in TransferModes => Budget >= StagingCapacity
  /\ {Budget, StagingCapacity, ChunkSize, MaxOutputs} \subseteq Nat \ {0}
  /\ MaxPreemptions \in Nat
  /\ \A w \in Workloads : /\ DOMAIN w.prompt \subseteq Requests /\ w.may \subseteq EngineOptions
                          /\ \A r \in DOMAIN w.prompt : w.prompt[r] \in Nat \ {0}

VARIABLES
  \* the configuration of both roles, fixed when the engine starts
  transferEnabled,
  \* what the engine is asked and may do, fixed as well
  workload,
  \* the engine
  status, preemptions, computed, outputs, held, scheduled, finished, step,
  admitting, visited,
  \* the scheduler-role connector
  sched, known, seen, pending, late, lookups,
  \* the worker-role connector
  worker, active, receipts, stored,
  \* between the roles
  meta, output,
  \* the hook that raised, or None
  raised

engineVars == <<transferEnabled, workload, status, preemptions, computed, outputs, held>>
schedVars  == <<sched, known, seen, pending, late, lookups>>
workerVars == <<worker, active, receipts, stored>>
vars == <<engineVars, scheduled, finished, step, admitting, visited,
          schedVars, workerVars, meta, output, raised>>

PromptLen == workload.prompt
EngineMay == workload.may

Min2(a, b) == IF a <= b THEN a ELSE b

Steps == {"idle", "schedule", "admit", "build", "load", "forward", "collect",
          "drain", "output", "down"}
TypeOK ==
  /\ transferEnabled \in BOOLEAN
  /\ status \in [Requests -> {"new", "waiting", "running", "done"}]
  /\ preemptions \in [Requests -> Nat]
  /\ computed \in [Requests -> Nat]
  /\ outputs \in [Requests -> Nat]
  /\ held \in [Requests -> BlockTables \cup {None}]
  /\ scheduled \in [Requests -> Nat]
  /\ finished \subseteq Requests
  /\ step \in Steps
  /\ admitting \in Requests \cup {None}
  /\ visited \subseteq Layers
  /\ sched \in [Requests -> State]
  /\ known \subseteq Requests
  /\ seen \in [Requests -> Nat \cup {None}]
  /\ pending \subseteq Requests
  /\ late \subseteq Requests
  /\ lookups \in [Requests -> StoredLookup \cup {None}]
  /\ worker \in [Requests -> State]
  /\ active \in ActiveTransfer \cup {None}
  /\ receipts \subseteq Receipt
  /\ stored \subseteq [req : Requests, tokens : Nat, layers : SUBSET Layers]
  /\ meta \in Metadata \cup {None}
  /\ output \subseteq Receipt
  /\ raised \in Hooks \cup {None}

Init ==
  /\ transferEnabled \in TransferModes
  /\ workload \in Workloads
  /\ status = [r \in Requests |-> "new"]
  /\ preemptions = [r \in Requests |-> 0]
  /\ computed = [r \in Requests |-> 0]
  /\ outputs = [r \in Requests |-> 0]
  /\ held = [r \in Requests |-> None]
  /\ scheduled = [r \in Requests |-> 0]
  /\ finished = {}
  /\ step = "idle"
  /\ admitting = None
  /\ visited = {}
  /\ sched = [r \in Requests |-> Absent]
  /\ known = {}
  /\ seen = [r \in Requests |-> None]
  /\ pending = {}
  /\ late = {}
  /\ lookups = [r \in Requests |-> None]
  /\ worker = [r \in Requests |-> Absent]
  /\ active = None
  /\ receipts = {}
  /\ stored = {}
  /\ meta = None
  /\ output = {}
  /\ raised = None

-----------------------------------------------------------------------------
(***************************************************************************)
(* The engine between steps.                                               *)
(***************************************************************************)

Running == {r \in Requests : status[r] = "running"}

\* Tokens the request still has to run through the model.
Remaining(r) == PromptLen[r] + outputs[r] - computed[r]

Up == raised = None

Arrive(r) ==
  /\ Up /\ step = "idle"
  /\ r \in DOMAIN PromptLen /\ status[r] = "new"
  /\ status' = [status EXCEPT ![r] = "waiting"]
  /\ UNCHANGED <<transferEnabled, workload>>
  /\ UNCHANGED <<preemptions, computed, outputs, held, scheduled, finished,
                 step, admitting, visited, schedVars, workerVars, meta, output,
                 raised>>

\* Preemption frees the blocks, resets the computed tokens and bumps the
\* counter; the connector hears of it at the next lookup.
PreemptRunning(r) ==
  /\ Up /\ step = "idle" /\ "preempt" \in EngineMay
  /\ status[r] = "running" /\ preemptions[r] < MaxPreemptions
  /\ status' = [status EXCEPT ![r] = "waiting"]
  /\ preemptions' = [preemptions EXCEPT ![r] = @ + 1]
  /\ computed' = [computed EXCEPT ![r] = 0]
  /\ held' = [held EXCEPT ![r] = None]
  /\ UNCHANGED <<transferEnabled, workload>>
  /\ UNCHANGED <<outputs, scheduled, finished, step, admitting, visited,
                 schedVars, workerVars, meta, output, raised>>

\* schedule() first continues the running requests.
BeginStep ==
  /\ Up /\ step = "idle"
  /\ finished # {} \/ \E r \in Requests : status[r] \in {"waiting", "running"}
  /\ scheduled' = [r \in Requests |->
       IF r \in Running THEN Min2(Budget, Remaining(r)) ELSE 0]
  /\ step' = "schedule"
  /\ UNCHANGED <<engineVars, finished, admitting, visited, schedVars,
                 workerVars, meta, output, raised>>

-----------------------------------------------------------------------------
(***************************************************************************)
(* Scheduler-role hooks.                                                   *)
(***************************************************************************)

\* The transfer configuration is valid for one sequence only.
CanAdmit == /\ Cardinality(Running) < (IF transferEnabled THEN 1 ELSE MaxSeqs)
            /\ \E r \in Requests : status[r] = "waiting"

\* The plans a first lookup of r can return: complete chunks of a prompt that
\* fits the staging buffer, none in control-flow mode.
FirstPlans(r) ==
  IF transferEnabled /\ PromptLen[r] <= StagingCapacity
    THEN 0..Min2(MaxMatches, PromptLen[r] \div ChunkSize)
    ELSE {0}

\* SchedulerLookupRuntime.lookup: the stored result, its generation advanced
\* after one preemption; {} when it fails closed.
RuntimeLookup(r) ==
  IF lookups[r] = None
    THEN {[plan |-> p, gen |-> 0, preemptions |-> preemptions[r]] :
            p \in FirstPlans(r)}
  ELSE IF lookups[r].preemptions = preemptions[r]
    THEN {lookups[r]}
  ELSE IF lookups[r].preemptions + 1 = preemptions[r]
    THEN {[plan |-> lookups[r].plan, gen |-> lookups[r].gen + 1,
           preemptions |-> preemptions[r]]}
  ELSE {}

\* A preemption count that grew since the last lookup of r.
WasPreempted(r) == seen[r] # None /\ preemptions[r] > seen[r]

\* The plane's state of r once get_num_new_matched_tokens has told it of a
\* preemption.
AfterPreemption(r) == IF WasPreempted(r) THEN Preempt(sched[r]) ELSE sched[r]

LookupError(r) ==
  IF WasPreempted(r) /\ ~PreemptOk(sched[r]) THEN "preempt"
  ELSE IF RuntimeLookup(r) = {} THEN "lookup_fatal"
  ELSE IF \E found \in RuntimeLookup(r) : ~LookupOk(AfterPreemption(r), found.plan)
    THEN "lookup_conflict"
  ELSE None

\* Mutant of GetNumNewMatchedTokens: the hook answers None, "ask again later".
GetNumNewMatchedTokensDefers(r) ==
  /\ Up /\ step = "schedule" /\ status[r] = "waiting" /\ CanAdmit
  /\ step' = "build"
  /\ UNCHANGED <<engineVars, scheduled, finished, admitting, visited, schedVars,
                 workerVars, meta, output, raised>>

\* get_num_new_matched_tokens; it always returns (0, False).
GetNumNewMatchedTokens(r) ==
  /\ Up /\ step = "schedule" /\ status[r] = "waiting" /\ CanAdmit
  /\ IF LookupError(r) = None
       THEN \E found \in RuntimeLookup(r) :
              /\ seen' = [seen EXCEPT ![r] = preemptions[r]]
              /\ sched' = [sched EXCEPT ![r] =
                             Lookup(AfterPreemption(r), found.plan)]
              /\ lookups' = IF transferEnabled
                              THEN [lookups EXCEPT ![r] = found] ELSE lookups
              /\ known' = known \cup {r}
              /\ step' = "admit"
              /\ admitting' = r
              /\ UNCHANGED raised
       ELSE /\ raised' = LookupError(r)
            /\ UNCHANGED <<seen, sched, lookups, known, step, admitting>>
  /\ UNCHANGED <<engineVars, scheduled, finished, visited, pending, late,
                 workerVars, meta, output>>

\* The same hook when the lookup runtime fails closed (a protocol drift, a
\* lost transport): the preemption is recorded, then the hook raises.
LookupFailsClosed(r) ==
  /\ Up /\ step = "schedule" /\ status[r] = "waiting" /\ CanAdmit
  /\ transferEnabled /\ "lookup_fatal" \in EngineMay
  /\ WasPreempted(r) => PreemptOk(sched[r])
  /\ seen' = [seen EXCEPT ![r] = preemptions[r]]
  /\ sched' = [sched EXCEPT ![r] = AfterPreemption(r)]
  /\ raised' = "lookup_fatal"
  /\ UNCHANGED <<engineVars, scheduled, finished, step, admitting, visited,
                 known, pending, late, lookups, workerVars, meta, output>>

\* Mutant of UpdateStateAfterAlloc: the new blocks of a resumed request are
\* not recorded.
UpdateStateAfterAllocOnce(r, b) ==
  /\ Up /\ step = "admit" /\ r = admitting
  /\ \A q \in Requests : held[q] # b
  /\ sched' = IF preemptions[r] = 0 THEN [sched EXCEPT ![r] = Allocate(@, b)]
                                    ELSE sched
  /\ pending' = pending \cup {r}
  /\ status' = [status EXCEPT ![r] = "running"]
  /\ held' = [held EXCEPT ![r] = b]
  /\ scheduled' = [scheduled EXCEPT ![r] = Min2(Budget, Remaining(r))]
  /\ step' = "schedule"
  /\ admitting' = None
  /\ UNCHANGED <<transferEnabled, workload>>
  /\ UNCHANGED <<preemptions, computed, outputs, finished, visited,
                 known, seen, late, lookups, workerVars, meta, output, raised>>

\* update_state_after_alloc, after the KV manager found the blocks b.
UpdateStateAfterAlloc(r, b) ==
  /\ Up /\ step = "admit" /\ r = admitting
  /\ \A q \in Requests : held[q] # b
  /\ IF r \in known /\ AllocateOk(sched[r], b)
       THEN /\ sched' = [sched EXCEPT ![r] = Allocate(@, b)]
            /\ pending' = pending \cup {r}
            /\ status' = [status EXCEPT ![r] = "running"]
            /\ held' = [held EXCEPT ![r] = b]
            /\ scheduled' = [scheduled EXCEPT ![r] = Min2(Budget, Remaining(r))]
            /\ step' = "schedule"
            /\ admitting' = None
            /\ UNCHANGED raised
       ELSE /\ raised' = IF r \in known THEN "allocate_conflict"
                                        ELSE "allocate_unknown"
            /\ UNCHANGED <<sched, pending, status, held, scheduled, step,
                           admitting>>
  /\ UNCHANGED <<transferEnabled, workload>>
  /\ UNCHANGED <<preemptions, computed, outputs, finished, visited,
                 known, seen, late, lookups, workerVars, meta, output>>

\* The KV manager has no blocks left: the request stays in the waiting queue
\* and scheduling ends.
AllocationFails ==
  /\ Up /\ step = "admit"
  /\ \A b \in BlockTables : \E q \in Requests : held[q] = b
  /\ step' = "build"
  /\ admitting' = None
  /\ UNCHANGED <<engineVars, scheduled, finished, visited, schedVars,
                 workerVars, meta, output, raised>>

\* complete_step and within_staging of build_connector_meta.
TransferFits(r) == scheduled[r] = PromptLen[r] /\ PromptLen[r] <= StagingCapacity

\* The checks build_connector_meta makes of the pending requests, in order.
BuildError ==
  IF \E r \in pending : ~HandOffOk(sched[r]) THEN "handoff"
  ELSE IF ~transferEnabled THEN None
  ELSE IF \E r \in pending : lookups[r] = None THEN "lookup_missing"
  ELSE IF \E r \in pending : scheduled[r] > PromptLen[r] THEN "scheduled_tokens"
  ELSE IF \E r \in pending : sched[r].alloc.gen # lookups[r].gen
    THEN "generation"
  ELSE None

\* build_connector_meta: hand off every new allocation of this step.
BuildConnectorMeta ==
  /\ Up
  /\ step = "build" \/ (step = "schedule" /\ ~CanAdmit)
  /\ IF BuildError = None
       THEN /\ sched' = [r \in Requests |->
                 IF r \in pending THEN HandOff(sched[r]) ELSE sched[r]]
            /\ meta' = [handoffs |-> {HandoffMetadata(r, sched[r]) : r \in pending},
                        transfers |-> IF transferEnabled
                                        THEN {r \in pending : TransferFits(r)}
                                        ELSE {},
                        finished |-> finished]
            /\ pending' = {}
            /\ finished' = {}
            /\ step' = "load"
            /\ UNCHANGED raised
       ELSE /\ raised' = BuildError
            /\ UNCHANGED <<sched, meta, pending, finished, step>>
  /\ UNCHANGED <<engineVars, scheduled, admitting, visited, known, seen, late,
                 lookups, workerVars, output>>

-----------------------------------------------------------------------------
(***************************************************************************)
(* Worker-role hooks.                                                      *)
(***************************************************************************)

\* validate_worker for one accepted handoff: everything was loaded, or nothing
\* was (no transfer, no match, or a fallback of before_forward).
LoadReceipt(h, loadedReqs) ==
  WorkerReceipt(h.req, Accept(worker[h.req], h),
                IF h.req \in loadedReqs THEN Matches(h.plan) ELSE {})

\* Mutant of ReportedReceipt: the attempt is reported, not its outcome.
ReportedAsLoaded(h, loadedReqs) ==
  WorkerReceipt(h.req, Accept(worker[h.req], h), Matches(h.plan))

\* The receipt queued for the scheduler is the one the worker plane recorded.
ReportedReceipt(h, loadedReqs) == LoadReceipt(h, loadedReqs)

StartError(loadedReqs) ==
  IF active # None THEN "still_active"
  ELSE IF Cardinality(meta.transfers) > 1 THEN "two_transfers"
  ELSE IF \E h \in meta.handoffs : ~AcceptOk(worker[h.req], h)
    THEN "accept_conflict"
  ELSE IF \E h \in meta.handoffs :
            ~ApplyReceiptOk(Accept(worker[h.req], h), LoadReceipt(h, loadedReqs))
    THEN "validate"
  ELSE None

\* start_load_kv; loadedReqs are the transfers whose retrieve and scatter
\* succeeded.  Without scheduled tokens there is no forward pass.
StartLoadKv(loadedReqs) ==
  /\ Up /\ step = "load"
  /\ IF StartError(loadedReqs) = None
       THEN /\ worker' = [r \in Requests |->
                 IF \E h \in meta.handoffs : h.req = r
                   THEN LET h == CHOOSE x \in meta.handoffs : x.req = r
                        IN  ApplyReceipt(Accept(worker[r], h),
                                         LoadReceipt(h, loadedReqs))
                   ELSE worker[r]]
            /\ receipts' = receipts \cup
                 {ReportedReceipt(h, loadedReqs) : h \in meta.handoffs}
            /\ active' = IF meta.transfers = {} THEN None
                 ELSE LET h == CHOOSE x \in meta.handoffs : x.req \in meta.transfers
                      IN  [req |-> h.req, alloc |-> h.alloc, saved |-> {}]
            /\ visited' = {}
            /\ step' = IF \E r \in Requests : scheduled[r] > 0
                         THEN "forward" ELSE "collect"
            /\ UNCHANGED raised
       ELSE /\ raised' = StartError(loadedReqs)
            /\ UNCHANGED <<worker, receipts, active, visited, step>>
  /\ UNCHANGED <<engineVars, scheduled, finished, admitting, schedVars, stored,
                 meta, output>>

\* save_kv_layer, once per attention layer of the forward pass.
SaveKvLayer(l) ==
  /\ Up /\ step = "forward"
  /\ l \notin visited
  /\ visited' = visited \cup {l}
  /\ active' = IF active = None THEN None
                                ELSE [active EXCEPT !.saved = @ \cup {l}]
  /\ UNCHANGED <<engineVars, scheduled, finished, step, admitting, schedVars,
                 worker, receipts, stored, meta, output, raised>>

\* A store that after_forward may attempt: only complete chunks are stored.
StoreEligible(r) == PromptLen[r] >= ChunkSize

\* Mutant of WaitForSave: the set of visited layers is not compared.
WaitForSaveUnchecked ==
  /\ Up /\ step = "forward"
  /\ visited = Layers \/ "skip_layer" \in EngineMay
  /\ stored' = IF active = None \/ ~StoreEligible(active.req) THEN stored
       ELSE stored \cup {[req |-> active.req, tokens |-> scheduled[active.req],
                          layers |-> active.saved]}
  /\ active' = None
  /\ step' = "collect"
  /\ UNCHANGED <<engineVars, scheduled, finished, admitting, visited, schedVars,
                 worker, receipts, meta, output, raised>>

\* Mutant of WaitForSave: the active transfer is not cleared.
WaitForSaveStaysActive ==
  /\ Up /\ step = "forward" /\ visited = Layers
  /\ step' = "collect"
  /\ UNCHANGED <<engineVars, scheduled, finished, admitting, visited, schedVars,
                 workerVars, meta, output, raised>>

\* wait_for_save: write back a fully recomputed prompt, or fall back.
WaitForSave ==
  /\ Up /\ step = "forward"
  /\ visited = Layers \/ "skip_layer" \in EngineMay
  /\ \/ /\ active = None
        /\ UNCHANGED <<active, stored, raised>>
        /\ step' = "collect"
     \/ /\ active # None /\ active.saved # Layers
        /\ raised' = "missing_layer"
        /\ UNCHANGED <<active, stored, step>>
     \/ /\ active # None /\ active.saved = Layers
        /\ \/ UNCHANGED stored
           \/ /\ StoreEligible(active.req)
              /\ stored' = stored \cup
                   {[req |-> active.req, tokens |-> scheduled[active.req],
                     layers |-> active.saved]}
        /\ active' = None
        /\ step' = "collect"
        /\ UNCHANGED raised
  /\ UNCHANGED <<engineVars, scheduled, finished, admitting, visited, schedVars,
                 worker, receipts, meta, output>>

\* Mutant of GetFinished: finished requests are not discarded.
GetFinishedKeeps ==
  /\ Up /\ step = "collect"
  /\ step' = "drain"
  /\ UNCHANGED <<engineVars, scheduled, finished, admitting, visited, schedVars,
                 workerVars, meta, output, raised>>

\* get_finished: the worker plane forgets the requests that have finished.
GetFinished ==
  /\ Up /\ step = "collect"
  /\ IF active # None /\ active.req \in meta.finished
       THEN /\ raised' = "finished_active"
            /\ UNCHANGED <<worker, step>>
       ELSE /\ worker' = [r \in Requests |->
                 IF r \in meta.finished THEN Absent ELSE worker[r]]
            /\ step' = "drain"
            /\ UNCHANGED raised
  /\ UNCHANGED <<engineVars, scheduled, finished, admitting, visited, schedVars,
                 active, receipts, stored, meta, output>>

\* build_connector_worker_meta: drain the receipts into the step's output.
BuildConnectorWorkerMeta ==
  /\ Up /\ step = "drain"
  /\ output' = receipts
  /\ receipts' = {}
  /\ meta' = None
  /\ step' = "output"
  /\ UNCHANGED <<engineVars, scheduled, finished, admitting, visited, schedVars,
                 worker, active, stored, raised>>

-----------------------------------------------------------------------------
(***************************************************************************)
(* Output processing and completion.                                       *)
(***************************************************************************)

FinishError(r) ==
  IF sched[r].phase = "absent" THEN "finish_unknown"
  ELSE IF sched[r].alloc # None /\ sched[r].alloc.blocks # held[r]
    THEN "finish_table"
  ELSE None

\* Mutant of AwaitsReceipt: completion always discards at once.
NeverAwaitsReceipt(r) == FALSE

\* The worker's receipt for r is still to come when it completes.
AwaitsReceipt(r) == transferEnabled /\ sched[r].receipt = None

\* request_finished_all_groups, then the engine frees the request's blocks.
RequestFinishedAllGroups(r) ==
  IF FinishError(r) = None
    THEN /\ IF AwaitsReceipt(r)
              THEN late' = late \cup {r} /\ UNCHANGED sched
              ELSE sched' = [sched EXCEPT ![r] = Absent] /\ UNCHANGED late
         /\ lookups' = [lookups EXCEPT ![r] = None]
         /\ known' = known \ {r}
         /\ seen' = [seen EXCEPT ![r] = None]
         /\ status' = [status EXCEPT ![r] = "done"]
         /\ held' = [held EXCEPT ![r] = None]
         /\ finished' = finished \cup {r}
         /\ UNCHANGED <<pending, raised>>
    ELSE /\ raised' = FinishError(r)
         /\ UNCHANGED <<schedVars, status, held, finished>>

HasReceiptInFlight(r) == \E rc \in output : rc.req = r

\* Tokens of r are complete after this step, so a token is sampled.
Samples(r) == computed[r] + scheduled[r] = PromptLen[r] + outputs[r]

\* The engine handles aborts between steps and again just before it processes
\* a step's output.
Cancel(r) ==
  /\ Up
  /\ status[r] \in {"waiting", "running"}
  /\ step = "idle" \/ (step = "output" /\ (status[r] = "running" => scheduled[r] > 0))
  /\ sched[r].phase = "absent" => "cancel_queued" \in EngineMay
  /\ HasReceiptInFlight(r) => "finish_with_receipt" \in EngineMay
  /\ RequestFinishedAllGroups(r)
  /\ scheduled' = [scheduled EXCEPT ![r] = 0]
  /\ UNCHANGED <<transferEnabled, workload>>
  /\ UNCHANGED <<preemptions, computed, outputs, step, admitting, visited,
                 workerVars, meta, output>>

Advance(r) ==
  /\ Up /\ step = "output" /\ scheduled[r] > 0
  /\ Samples(r) => outputs[r] + 1 < MaxOutputs
  /\ computed' = [computed EXCEPT ![r] = @ + scheduled[r]]
  /\ outputs' = [outputs EXCEPT ![r] = IF Samples(r) THEN @ + 1 ELSE @]
  /\ scheduled' = [scheduled EXCEPT ![r] = 0]
  /\ UNCHANGED <<transferEnabled, workload>>
  /\ UNCHANGED <<status, preemptions, held, finished, step, admitting, visited,
                 schedVars, workerVars, meta, output, raised>>

\* The sampled token ends the request: the engine calls the completion hook
\* before it applies the receipts of the same step.
Stop(r) ==
  /\ Up /\ step = "output" /\ scheduled[r] > 0 /\ Samples(r)
  /\ HasReceiptInFlight(r) => "finish_with_receipt" \in EngineMay
  /\ computed' = [computed EXCEPT ![r] = @ + scheduled[r]]
  /\ outputs' = [outputs EXCEPT ![r] = @ + 1]
  /\ scheduled' = [scheduled EXCEPT ![r] = 0]
  /\ RequestFinishedAllGroups(r)
  /\ UNCHANGED <<transferEnabled, workload>>
  /\ UNCHANGED <<preemptions, step, admitting, visited, workerVars, meta,
                 output>>

\* Mutant of UpdateConnectorOutput: a late receipt is applied, but the request
\* that had finished is not discarded.
UpdateConnectorOutputKeeps ==
  /\ Up /\ step = "output" /\ \A r \in Requests : scheduled[r] = 0
  /\ \A rc \in output : ApplyReceiptOk(sched[rc.req], rc)
  /\ sched' = [r \in Requests |->
       IF \E rc \in output : rc.req = r
         THEN ApplyReceipt(sched[r], CHOOSE rc \in output : rc.req = r)
         ELSE sched[r]]
  /\ late' = late \ {rc.req : rc \in output}
  /\ output' = {}
  /\ step' = "idle"
  /\ UNCHANGED <<engineVars, scheduled, finished, admitting, visited, known,
                 seen, pending, lookups, workerVars, meta, raised>>

\* update_connector_output: apply the receipts, forget who already finished.
UpdateConnectorOutput ==
  /\ Up /\ step = "output" /\ \A r \in Requests : scheduled[r] = 0
  /\ IF \A rc \in output : ApplyReceiptOk(sched[rc.req], rc)
       THEN LET reported == {rc.req : rc \in output}
                receiptOf(r) == CHOOSE rc \in output : rc.req = r
            IN  /\ sched' = [r \in Requests |->
                     IF r \notin reported THEN sched[r]
                     ELSE IF r \in late THEN Absent
                     ELSE ApplyReceipt(sched[r], receiptOf(r))]
                /\ late' = late \ reported
                /\ output' = {}
                /\ step' = "idle"
                /\ UNCHANGED raised
       ELSE /\ raised' = "receipt"
            /\ UNCHANGED <<sched, late, output, step>>
  /\ UNCHANGED <<engineVars, scheduled, finished, admitting, visited, known,
                 seen, pending, lookups, workerVars, meta>>

\* shutdown of both roles; a worker-role connector knows no request ids, so
\* its plane keeps what it has.
Shutdown ==
  /\ ~Up \/ step = "idle"
  /\ step # "down"
  /\ step' = "down"
  /\ sched' = [r \in Requests |-> IF r \in known THEN Absent ELSE sched[r]]
  /\ known' = {}
  /\ seen' = [r \in Requests |-> None]
  /\ pending' = {}
  /\ late' = {}
  /\ lookups' = [r \in Requests |-> None]
  /\ receipts' = {}
  /\ active' = None
  /\ UNCHANGED <<engineVars, scheduled, finished, admitting, visited, worker,
                 stored, meta, output, raised>>

-----------------------------------------------------------------------------

\* What the engine loop does by itself once there is work.
EngineStep ==
  \/ BeginStep
  \/ \E r \in Requests : GetNumNewMatchedTokens(r) \/ LookupFailsClosed(r)
  \/ \E r \in Requests, b \in BlockTables : UpdateStateAfterAlloc(r, b)
  \/ AllocationFails
  \/ BuildConnectorMeta
  \/ meta # None /\ \E ok \in SUBSET meta.transfers : StartLoadKv(ok)
  \/ \E l \in Layers : SaveKvLayer(l)
  \/ WaitForSave
  \/ GetFinished
  \/ BuildConnectorWorkerMeta
  \/ \E r \in Requests : Advance(r) \/ Stop(r)
  \/ UpdateConnectorOutput

\* What clients, memory pressure and the operator do.
Environment ==
  \/ \E r \in Requests : Arrive(r) \/ PreemptRunning(r) \/ Cancel(r)
  \/ Shutdown

Next == EngineStep \/ Environment

Spec == Init /\ [][Next]_vars /\ WF_vars(EngineStep)

-----------------------------------------------------------------------------
(***************************************************************************)
(* Properties                                                              *)
(***************************************************************************)

\* Hooks whose failure a preemption explains: the worker still has the earlier
\* generation, the completion hook compares a stale table, and a resumed request
\* is scheduled for its generated tokens too.
PreemptionFailures == {"accept_conflict", "finish_table", "scheduled_tokens"}

\* No hook of either role raises and kills the engine core but for a known
\* reason: update_connector_output in control-flow mode, when a request completed
\* before its receipt was applied (LateReceiptsAccepted, below); the hooks named
\* above, after a preemption; a cancellation before the first lookup; a lookup
\* that failed closed; a forward pass that skipped a layer.
OnlyKnownFailuresRaise ==
  /\ raised \in PreemptionFailures \cup
       {None, "receipt", "finish_unknown", "lookup_fatal", "missing_layer"}
  /\ raised = "receipt" => ~transferEnabled
  /\ raised \in PreemptionFailures => \E r \in Requests : preemptions[r] > 0
  /\ raised = "scheduled_tokens" => transferEnabled /\ \E r \in Requests : outputs[r] > 0
  /\ raised = "missing_layer" => visited # Layers
  /\ raised = "finish_unknown" /\ step # "down" => \E r \in Requests : status[r] = "waiting" /\ r \notin known

\* The scheduler plane is bound to the blocks a running request really holds,
\* and no two running requests are bound to the same ones: nothing the worker
\* does by an allocation can touch the KV of another request.
BoundToHeldBlocks ==
  step # "down" => \A r \in Requests : status[r] = "running" =>
    /\ sched[r].alloc # None /\ sched[r].alloc.blocks = held[r]
    /\ \A q \in Requests \ {r} :
         status[q] = "running" => sched[q].alloc.blocks # sched[r].alloc.blocks

\* While a transfer is active, from start_load_kv to wait_for_save, its request
\* is running, still holds the blocks the transfer scatters into and gathers
\* from, and has not been reported finished to the worker.
ActiveTransferOwnsBlocks ==
  Up /\ active # None =>
    /\ status[active.req] = "running"
    /\ held[active.req] = active.alloc.blocks
    /\ meta # None => active.req \notin meta.finished

\* What the scheduler believes the worker did with the current allocation is
\* what the worker recorded for it; and the plane's allocation generation and the
\* lookup runtime's, two counters advanced by different code, agree whenever the
\* lookup is current.  Validation is synchronous: between steps every running
\* request has such a disposition, and nothing is left in flight.
RolesAgree ==
  /\ TypeOK
  /\ \A r \in Requests :
       /\ sched[r].receipt # None /\ worker[r].phase # "absent" =>
            worker[r].receipt = sched[r].receipt
       /\ lookups[r] # None /\ lookups[r].preemptions = seen[r] =>
            lookups[r].gen = sched[r].gen
  /\ Up /\ step = "idle" =>
       /\ \A r \in Requests :
            status[r] = "running" => sched[r].phase = "worker_validated"
       /\ pending = {} /\ receipts = {} /\ active = None /\ late = {}

\* Only a prompt whose every token ran in this very step and whose every layer
\* was visited is ever written back to the store.
StoresAreComplete ==
  \A s \in stored : s.tokens = PromptLen[s.req] /\ s.layers = Layers

\* Between steps a finished request has left no trace in the scheduler role,
\* and the worker role keeps its state only until it is told.
FinishedAreForgotten ==
  Up /\ step = "idle" =>
    \A r \in Requests : status[r] = "done" =>
      /\ sched[r].phase = "absent" /\ lookups[r] = None /\ seen[r] = None
      /\ r \notin known \cup late
      /\ worker[r].phase # "absent" => r \in finished

\* Every request that entered the queue is eventually completed, unless a hook
\* raised or the engine was shut down.
RequestsComplete ==
  \A r \in Requests :
    status[r] = "waiting" ~> status[r] = "done" \/ ~Up \/ step = "down"

\* The worker's memory of a finished request is eventually released.
WorkerForgets ==
  \A r \in Requests :
    status[r] = "done" ~> worker[r].phase = "absent" \/ ~Up \/ step = "down"

-----------------------------------------------------------------------------
(***************************************************************************)
(* Statements of the source about its own behaviour.                       *)
(***************************************************************************)

\* connector.py, request_finished_all_groups: a receipt that arrives after the
\* completion hook is still accepted, and in control-flow mode there is none.
LateReceiptsAccepted ==
  Up /\ step = "output" => \A rc \in output : ApplyReceiptOk(sched[rc.req], rc)

\* scheduler_runtime.py, _repeat_or_preempt: reusing the lookup of a preempted
\* request is safe, that is the worker accepts what the scheduler hands off
\* after the preemption.
ResumedHandoffIsAccepted ==
  Up /\ step = "load" => \A h \in meta.handoffs : AcceptOk(worker[h.req], h)

=============================================================================
