# TLA+ models of the GPT-OSS CacheBlend connector

This directory specifies and checks the control logic of the GPT-OSS CacheBlend
prototype: an out-of-tree vLLM V1 KV connector that looks up non-prefix KV
chunks in an LMCache server, transfers them into the paged KV cache, recomputes
100 % of the prompt, and stores the result for later requests. Beside it stand the
selective path that will recompute less, which nothing activates yet, and the
tooling that turns a running server's metrics and KV rows into evidence. The
numeric part (rotation, attention, tolerances) is not in scope; who owns which
blocks, buffers, plans and generations at which moment is, and so is which row
of keys and values lies where, computed from what and rotated to which position.

Paths below are relative to `src/src/cacheblend_gpt_oss/`; `V/` stands for
`vllm_compat/v0_19_1/`.

## The system and its parts

| Part | State | Operations | Talks to |
|---|---|---|---|
| Request control plane, `connector/control_plane.py` | one immutable `RequestLifecycleState` per request: phase, plan, allocation generation, block allocation, worker disposition. One instance in the scheduler process, one in the worker | lookup, allocate, handoff, accept_handoff, validate_worker, apply_worker_validation, preempt, finish, discard | its peer, through handoffs and receipts that ride on the engine's step |
| Connector, `V/connector.py` | known requests, preemption counts, pending handoffs, late completions, lookups; on the worker the active transfer and the receipts to send | the vLLM hooks of both roles | vLLM engine, control plane, lookup runtime, transfer runtime |
| Scheduler lookup runtime, `V/scheduler_runtime.py` | runtime state, the owned candidate transport, the retained lookup of every live request | open, lookup (with one replacement of a degraded transport), discard, close | LMCache transport, sidecar |
| Worker transfer runtime, `V/transfer_runtime.py` | none of its own; outcomes of the load and of the store | before_forward, after_forward | worker bridge |
| Worker bridge, `V/worker_bridge.py` | state and six plan slots | open, preflight/retrieve/scatter, preflight/gather/store, publish, close | staging, transport, data plane, sidecar |
| Staging, `V/staging.py` | state, CUDA owners, "registration may exist" | open, synchronous_transfer, close | transport, CUDA |
| LMCache transport, `storage/lmcache_v0_4_3.py` | state, registration, message queue | open, register, unregister, lookup, store, retrieve, close | LMCache server |
| Runtime resources, `V/runtime_resources.py` | closed or not | create, close | all of the above |
| Candidate lookup, `storage/lookup.py`; sidecar, `storage/sidecar.py`; server patch, `storage/lmcache_server_v0_4_3.py` | records and their SQLite file; the server's matcher index | verify and choose candidates; add records; store and match | each other |
| Layout `gpt_oss/layout.py`, adapters `V/adapters.py`, data plane `V/data_plane.py` | none; they move rows between the paged cache and staging | check the cache groups and block tables, plan spans, scatter, gather | vLLM's tensors, the key corrector `gpt_oss/torch_yarn.py` |
| Evidence probe, `V/transfer_probe.py`, `correctness/transfer.py` | samples of one load, a create-only file | begin_load, mark_load_complete, record_prefill_layer, finish, abort | bridge, connector |
| Selective recomputation, `gpt_oss/selective*.py`, `gpt_oss/forward_output.py`, `V/selective_registry.py` | the active plan, a per-layer session, sweep artifacts, gate evidence, the registrar | select, sweep, update_layer, run_layer, finish, run, hash, register | dormant: vLLM's registries and attention |
| Metrics, `V/connector_metrics.py` | an interval of observations per worker, Prometheus counters | record, clone_and_reset, observe | vLLM's step output and frontend |
| Capture, `correctness/capture.py`, `scripts/capture_moved_document.py`, `scripts/check_responses_contract.py` | scrapes of `/metrics` | scrape, post, poll, reconcile | the HTTP server |
| Planner `planner/` | none | ranges, segmentation, matching | used outside its package only through its range and match types |
| Configuration checks, correctness evaluation, benchmark tooling, other scripts | none | stateless checks, offline statistics, reports | |

What is hard in this code:

- *Order of the engine's calls.* The completion hook runs before the worker's
  receipts of the same step are applied; preemption is only noticed at the next
  lookup; a cancelled request may never have been looked up.
- *Two copies of one state.* Scheduler and worker keep separate planes, and the
  plane and the lookup runtime count generations separately.
- *A server that answers late.* Requests to LMCache have a timeout, but the
  server may still carry out a request, reading or writing the staging tensor
  that the next request would use.
- *Failures between steps.* Registering, transferring, storing, publishing and
  closing are sequences of calls each of which can fail with the other side's
  state unknown.
- *Retry of cleanup.* Several comments promise that a failed close can be tried
  again.
- *Rows that look alike.* Two layers share each tensor, all requests share all
  tensors, chunks are not aligned with blocks, and a copy may stop half way; a
  wrong row is still a plausible row.
- *Evidence about a moving system.* Counters lag behind answers, files change
  while they are hashed, other clients use the same server.

`PROJECT.json` lists these and the other hazards at their lines, with the
properties that cover them.

What makes each part correct:

- control plane: no stale receipt is applied, dispositions partition the matches,
  a generation has one allocation;
- connector: no hook raises (it would end the engine core), transfers touch only
  blocks their request holds, both roles forget a finished request, requests
  complete;
- lookup runtime: no transport leaks, failing closed is final, retained results
  are stable;
- storage: what is loaded is the KV of the very tokens, from the position its
  record says; what was stored is found; the choice of candidates is optimal and
  deterministic;
- transfer, bridge, staging, transport: KV never ends up under the name of
  another request, memory the server may use is never released, the worker never
  waits for ever;
- layout, data plane, probe: a loaded row is the stored row of its token, rotated
  to its new position, in its own slot; nobody else's row changes; only rows an
  ordinary prefill would compute are stored; the probe reports what happened and
  never ends a transfer that went right;
- selective path: attention sees only fresh rows and verified ones, whatever
  breaks off; the policy's choice is by rank and can be reproduced; evidence is
  of files that existed; no model is registered without its backend;
- metrics and capture: no observation is lost or counted twice, accepted evidence
  is of the request it names, and nothing is refused without a cause.

## Modules

| Module | Models |
|---|---|
| `Lifecycle` | `RequestLifecycleState`: its values, the checks of `__post_init__`, and each transition as a guard (`...Ok`) and a result |
| `ControlPlane` | the two planes joined by a channel that delays, repeats, reorders and loses messages |
| `RequestLedger` | what the two planes promise together: an abstract specification that `ControlPlane` implements |
| `Connector` | both roles of the connector, driven by the engine's step loop; extends `Lifecycle` |
| `SchedulerRuntime` | the lookup runtime and the transports it owns |
| `WorkerTransfer` | transfer runtime, bridge, staging, transport and the LMCache server as seen by the transport |
| `Selection` | a lookup plan of `storage/lookup.py`: the weighted interval schedule (the same in `planner/matching.py`), rejections, counters and the observation made of them, as operators |
| `LookupPlan` | one lookup plan made of a server's response, and what it should be: the reference that `Selection` is compared with; extends `Selection` |
| `Storage` | the server's matcher and objects, the sidecar, and the stores, lookups and loads of several engines; extends `Selection` |
| `Layout` | cache groups, block tables and scatter spans (`gpt_oss/layout.py`, `V/adapters.py`), as operators |
| `RowTransfer` | the rows themselves through load, forward and store, with the data plane, the key correction and the evidence probe; extends `Layout` |
| `SelectionPolicy` | row plans, the selection policy, sweeps and their reader, as operators; extends `Layout` |
| `SelectiveForward` | one selective forward: write plan, session, attention bridge, forward context; and the sweep's artifact; extends `SelectionPolicy` |
| `SelectiveRegistry` | hashing of the gate artifacts and registration with vLLM |
| `Selective` | the two composed, with the properties of the selective path |
| `Telemetry` | statistics from the worker to the Prometheus counters, beside vLLM's own |
| `Capture` | the capture scripts against such a server; extends `Telemetry` |
| `MC*` | constants and symmetry for TLC |
| `ControlPlaneProofs` | theorems about `ControlPlane`, and its refinement of `RequestLedger` |
| `LayoutProofs` | lemmas on `Layout`: where the rows of a prompt lie and what a plan of spans covers |
| `ConnectorProofs`, `SchedulerRuntimeProofs`, `WorkerTransferProofs`, `RowTransferProofs` | theorems about the module of that name |
| `StorageProofs` | theorems about `LookupPlan` and about `Storage` |
| `SelectiveProofs` | theorems about `Selective`: policy, forward and registry; extends `LayoutProofs` |

### Lifecycle and ControlPlane

`sched[r]` and `worker[r]` are the `_states` of the two instances. A method that
raises leaves its plane unchanged, because states are immutable and stored only
after the transition returned; so only calls that return are actions.
A plan is abstracted to the number of verified matches it carries, a block
table to a model value. `handoffs` and `receipts` keep every message ever sent
and any of them may be delivered at any time: this is weaker than vLLM's
channel, and shows what the checks in the planes guarantee by themselves.
`retired` records discarded request ids, which vLLM does not reuse.

`RequestLedger` says what this amounts to for the engine, without phases,
messages or a second plane: a request is opened with a plan, placed on blocks,
offered, settled at most once per placement by work done for exactly that
placement, reopened by a preemption under the next generation, and closed once.
The refinement mapping (`Ledger` in `ControlPlane`) reads the scheduler's plane as
the ledger's entries, the handoffs sent as offers and the receipts sent as work
done. A receipt names no plan; it counts as work for a plan whose matches it
divides, so a receipt that loses or repeats a match settles nothing.

### Connector

The engine is external and is modelled from the order in which it calls the
hooks: `step` walks through schedule, admit, build, load, forward, collect,
drain and output. A hook that raises sets `raised` to a name for the error, and only
`Shutdown` can follow. A `workload` fixes the prompts and what the engine may do
beyond serving them (`EngineMay`: cancellation of queued requests, completion with
the receipt still in flight, preemption, fatal lookups, a forward pass that skips
a layer); a behaviour starts with one of them, so that one run covers the
supported envelope and everything outside it. `OnlyKnownFailuresRaise` then says
which failure needs which option. The lookup runtime appears through the plan,
status and generation it returns, the transfer runtime through the loads that
succeed.
In transfer mode `MaxSeqs = 1` and the budget covers the staging capacity, as
`config_validation.py` and `transfer_config.py` require.

### SchedulerRuntime

One call of the runtime runs several external steps; the record `e` says how
each ends in that call, and the steps are operators from one runtime state to
the next. Transports are numbered in the order the factory makes them. That
`transport.close()` returned is taken to mean that it was released; what the
real transport does on a repeated close is in `WorkerTransfer`.

### WorkerTransfer

`wk.pc` is the position of the worker's thread. The calls of the code are
split exactly where the thread waits for the server, so server steps interleave
with every wait and, for requests the client has given up on (`server.late`),
with everything else. Retrieve and store share one region of the staging
tensor, because both offsets of `WorkerBridgeBufferConfig` default to 0;
`buffer` says whose KV is in it. `stored` remembers what the server read from the
tensor at the moment it carried out a store. Validation of plans, tensors and
receipts is abstracted to accepted or rejected; the state each rejection leaves
behind is kept. No request is started after the first close, as the engine does
not schedule after `shutdown`. When creation fails (`Abandon`), the process is
about to exit, and what Python then collects is not modelled. The sidecar's
`add_many` is atomic.

### Selection, LookupPlan and Storage

`Selection` follows the code: sort by the end of the range, scan, and keep for
every prefix the better of taking and leaving a candidate. A raw candidate comes
with the verdict of its verification: verified, invalid (its records differ from
the prompt or disagree on the position) or unbound (no record has its key);
`MakePlan` gives the selection, the rejections and the counters, and
`CountersAccepted` and `ObservationAccepted` are what the constructors of the
counters and of the observation demand, which raise inside the scheduler's hook.
`LookupPlan` has one state per response and one for the plan made of it, and compares
the plan with a reference: the maximum over all sets of candidates that do not
overlap, ties by the sorted keys alone, without the raw indexes; and the prompt
positions of the found candidates, as a set. Its constant `Responses` is any set of
sequences of candidates; `MCSelection` gives TLC all of up to three over four positions.

In `Storage` a hash is a number chained over the tokens of the document so far,
which stands for the chained BLAKE3 of `TokenHasher`; fingerprints are the
tokens themselves. Both are injective, so the rejections that need a collision
are left out. A store is one request that the server carries out in steps:
registration with the matcher and the commit of the objects in either order (the
code around `patched_store_gpu_copy` is LMCache's), then the event the client
waits for. `reserve_write` may find no room for any of the objects. A lookup
is a search of the matcher, a probe of the objects that removes what is not
resident (LMCache's own step, as the docstring of the server patch describes
it), the verification in the scheduler and, later, the worker's retrieve.
`unfindable` is a history variable: it collects the chunks the server drops from
the matcher although a store of them is under way or another namespace has
them, or because the matcher is full, the cases `StoredIsFindable` must except.
A worker whose request timed out is taken to be restarted at once, which allows
more than the code: its transport has failed for good (`WorkerTransfer`).

### Layout and RowTransfer

Here the data is the subject. A key row is `[layer, ctx, pos]`, what it was
computed from and the position it is rotated to; a value row has no position. The
first layer depends on the token alone, the others on all tokens before it, so a
row loaded from another prompt differs from the row an ordinary prefill computes.
vLLM's tensors are shared by a layer of each group, and slots are computed from
the block tables as in `_scatter_group`. A copy is a sequence of row copies that
may stop after any of them. `CorrectKeyPositions` moves a key by the difference
of target and source, which is what the YaRN rotation does with angles. A
request to the server that fails clears `ready` for good (`WorkerTransfer` has
the details). Whether a probe watches the transfers (`transfer_evidence_path`, none by
default) is chosen in the initial state, `probing`, and stays: without one a load takes
sources from anywhere in their prompts and the engine goes on after its second load; a
probe refuses sources that do not continue one another from position zero, and with
them the load. Its digests are the rows themselves, so equal digests mean equal rows;
its file is written once.

### SelectionPolicy, SelectiveForward, SelectiveRegistry

A ratio is a fraction and the budget is the truncated product, a score is a
number. `SelectiveForward` keeps the order of the code: bind the plan, per layer
update the cache through the session and then attend, finish, leave the context,
validate the output; any step may fail and copies may break off. A copy is a pair
of a part of a span and one of keys and values; what a set of copies leaves in a
slot is the last of them in the order of `_prepare_layer` (`Apply`), and copies that
break off are the ones before some copy (`Broken`). `Prepared` is the
cache a transfer leaves (`RowTransfer`): verified rows where the plan's input says
so, leftovers elsewhere. The slot mapping vLLM passes may be wrong in a row.
`SelectiveRegistry` splits hashing at every read, and another process may write
the files in between; each write changes what `stat` reports. A write of a sweep's artifact may be
refused or break off and leave any part of its bytes; `written` remembers the sweep of
the write that returned. Nothing in the
repository joins these parts yet, so a behaviour of `Selective` is about one.

### Telemetry and Capture

Requests pass through prefill and decode steps; the connector records a lookup
and a load when a request's prompt starts and a store when it ends, the step's
output takes the interval with it, and the frontend answers the clients of an
output before it adds the statistics to the counters. `truth` remembers what was
recorded for each request. `Capture` runs one of the scripts (`mode`): scrape,
post, poll until the counters reach what the script waits for, and reconcile the
two scrapes family by family. A poll may also time out. A restart loses the
counters and whatever was under way. The artifact of the cacheblend script is refused
when its target did not load exactly the tokens its case calls reusable
(`ArtifactAccepts`), as after a load that fell back. The scripts recognise their own requests by
token counts only, so another client with a prompt of exactly the same length
whose metrics arrive in place of the target's could be taken for it;
`CaptureAssumption` excludes this. The content of an answer is left out.

## Runs

| Run | Instance | Shows |
|---|---|---|
| `control_plane` | one request, two block tables, one match, two preemptions | the properties of the planes with late receipts of two earlier generations, and the refinement of the ledger |
| `connector` | three requests (shorter than a chunk, one chunk, longer than staging) served as configured, and two with every option of `EngineMay`; two block tables, both modes | which hooks raise and why; ownership of blocks during a transfer, agreement of the roles, completeness of stores, plans bound to blocks the request holds; every request completes and both roles forget it |
| `scheduler_runtime` | three requests, three transports, two preemptions | ownership of transports, final failure, stable lookups |
| `selection` | every sequence of up to three candidates over four positions, two keys, three verdicts | the chosen set is the best disjoint one and does not depend on the order of the response; the accounting never raises and counts every position once |
| `storage` | two engines, two documents that share a chunk, two stores, a matcher with room for two of three chunks, one lookup at a time | what is loaded was computed for its tokens at the recorded position; publication is atomic; a stored chunk is found again |
| `worker_transfer` | two requests, two closes | integrity of the staging tensor under late server work, retention of CUDA owners, liveness of the worker's thread |
| `row_transfer` | with and without a probe, three requests of four prompts, two layers, chunks and blocks of two tokens, groups in the order that is not the layers', an unacceptable configuration and a table with a null block | rows at their place and position, foreign rows untouched, only exact rows stored, true evidence |
| `selective` | six prompts, three lists of ratios, two forwards; two artifacts of two chunks, one write, two hashing runs | what is written, read and reported in a forward that may fail anywhere; the choice of rows; artifacts; registration |
| `telemetry` | three requests of the scripts and one of two other clients, one restart, the four modes | conservation of the counters, evidence of the right request, no refusal without a cause |
| `late_receipt`, `resume_after_preemption`, `ordinary_lookup` | one request or engine | disagreements, below |

Bounds. Two preemptions give three generations, so a message can be one or two
generations old; a third adds nothing the checks distinguish. Two block tables
tell "mine" from "another's". One match already distinguishes loaded from
rejected. Two layers suffice to skip one. The prompts cover the three classes
the code separates: below a chunk, complete chunks within staging, beyond
staging. In `WorkerTransfer` the late retrieve or store of one
request can meet the other; two closes are one failure and its retry.
`MaxTransports = 3` allows a replacement of a replacement.
In `Storage` two stores suffice for a chunk to be stored again from another
position after its eviction, with the second publication lost: with records that
do not give the position in the document, `LoadedIsVerified` fails at exactly
this. Two-token chunks make
windows overlap. Three candidates are the fewest for which taking the largest
first, or the first that ends, is not optimal. In `RowTransfer` a chunk is found
at its own position, moved by one token (so it straddles a block), moved by a
chunk, and moved back to an earlier position than its own; three requests suffice for
one to store, one to load and one to decode beside it. In `Selective` the cached ranges lie inside a block, across blocks,
beside each other and around a gap in the forced suffix, with tied scores. In
`Capture` one foreign request, one restart and one late counter can each fall
between any two steps of a script.

Fairness. `Connector` assumes weak fairness of the engine's own step
(`EngineStep`): the engine core loops while it has work, and each hook returns.
Arrivals, preemptions, cancellations and shutdown have none. `WorkerTransfer`
assumes weak fairness of the worker's thread: every wait for the server has a
timeout (`LmcacheBlendTransport._request`). The server has no fairness at all.

Deadlock is checked for `SchedulerRuntime`, `WorkerTransfer`, `Storage`,
`RowTransfer` and `Capture`. It is not checked for `LookupPlan`, which computes one
plan and stops, for `Selective`, whose forwards and hashing runs are bounded, nor
for `ControlPlane` and `Connector`: the planes stop when every request has been
discarded, and the engine when all requests are done or after `shutdown`.

Every property of a passing run has a mutant in `PROJECT.json`: a plausible
error in the mapped code, kept as an operator next to the definition it mutates, under which TLC
finds the property violated.

## Where the code and its comments disagree

- `late_receipt`: in control-flow mode the completion hook discards the request
  because "there is no worker receipt"; but there is one, and a request that
  stops in the step of its receipt makes `update_connector_output` raise.
- `resume_after_preemption`: the worker's plane keeps the earlier generation and
  rejects the handoff of the next one.
- `ordinary_lookup`: the hash of a chunk depends on the chunks before it, so a
  chunk that two documents share has two candidates for one window. A prompt of
  just that chunk has one window, and the scheduler ends its runtime with
  protocol drift, a response its test calls impossible. The sidecar's limit on a
  bucket (`Overfull`) ends such a lookup in the same way; this run stays below it.

Met while modelling, part of what the passing runs allow, and without a run of
their own:

- A request cancelled before its first lookup is unknown to the plane, and the
  completion hook, described as "permissive for early cancellation"
  (`V/connector.py:1030`), raises (`finish_unknown` in `OnlyKnownFailuresRaise`). It
  raises too for a request cancelled while preempted, whose old allocation the
  plane keeps until the next lookup (`finish_table`).
- When the unregister fails, the bridge still closes the transport on which any
  retry of it depends (`V/worker_bridge.py:460`), although "A later call may retry"
  (`V/staging.py:492`). Owners stay retained (`ServerMemoryIsOwned`), so this leaks
  and does not corrupt.
- The registrar says that "only a failure after a registry call is treated as an
  irreversible partial registration" (`V/selective_registry.py:410`), but a failed
  import of the registries, before any call, marks it partial as well.
- A bundle of gate evidence is hashed file by file: each digest is of one file as
  it was, the bundle need not be of one moment (`EvidenceIsOfOneFile`).
- The probe's file is create-only: a second load and store that succeed with
  the probe configured raise out of `wait_for_save` and end the engine. This is in
  `RowTransfer` with `probing`; `Connector` and `WorkerTransfer` have no probe.
- `_source_prompt_tokens` of the probe joins chunks by source position only, so a
  "source prompt" can be assembled from chunks of different documents.
- `write_selection_sweep` creates the file before it serializes; a sweep that
  cannot be serialized leaves an empty file, and a write that breaks off one that
  is no JSON, and either blocks the next write.
- `requests` counts handoffs, so a preempted request would count twice.

## Proofs

TLC checks each property on a small instance; the theorems below hold for every
value of the constants that satisfies the named assumptions. Each rests on an
inductive invariant that TLC checked first and that is proved action by action.

The assumptions. Those on the bounds only say that they are natural numbers. The
value that stands for Python's `None` is none of the others (`NoneAssumption`,
`ConnectorNoneAssumption`, `RequestsAssumption`, `JobsAssumption`).
`ConnectorAssumption` has what `config_validation.py` and `transfer_config.py`
enforce, and that there is a block table at all: vLLM refuses to start when its
cache has no room for a single request. `StorageAssumption` says that documents
and prompts are sequences of tokens and that what is stored consists of complete
chunks. `HashAssumption` says that a chained hash names one chunk at one
position, the collision freedom the code relies on; TLC evaluates it for the
instance. `ResponsesAssumption` says that responses are sequences of ranges that are not
empty and lie in the prompt: `TokenRange` and `plan` refuse any other. `LayoutAssumption` and `RowAssumption` ask for at least one layer, block and
token per block and chunk; `ConfigAssumption` and `PromptAssumption` only give the
configurations and prompts their shape; `AllocationAssumption` is what vLLM's block
pool guarantees: a block belongs to one group of one request, and a request has
blocks for its whole prompt. `SelectiveAssumption` is what vLLM registers and
prepares: a configuration the adapter takes, and prompts with a score for each row and
block tables of one request, whose groups share no block.

**The planes** (`ControlPlaneProofs`).
`TypeCorrect` is `TypeOK` and `PlanesConsistent`; from `Inductive` follow
`StaleReceiptsRejected` (`ReceiptIsCurrent`), `DispositionsReconcile`,
`SchedulerLeads` (`WorkerNeverAhead`), `GenerationsAreUnique`
(`OneAllocationPerGeneration`) and the action property `GenerationsAreFrozen`. None
but the type invariant is inductive: a receipt is accepted by comparing it with
the scheduler's allocation, so the properties depend on what a message still in
the channel may say. `IInv` adds that every handoff of a live request carries
its plan and no later generation, and that one of the current generation *is*
the scheduler's handoff (`HandoffsBounded`); that both planes' handoffs are among
those sent (`HandoffsRecorded`); that receipts split the matches
(`ReceiptsRecorded`); and that discarded ids stay absent (`RetiredAreAbsent`,
`HandoffsHaveOwner`). `PlanesImplementLedger` is the refinement: with `IInv`, and
that an absent request remembers nothing, each action is an action of the ledger
on the mapped state or leaves it as it is.

**The connector** (`ConnectorProofs`): `OnlyKnownFailuresRaise`, `BoundToHeldBlocks`,
`ActiveTransferOwnsBlocks`, `RolesAgree`, `StoresAreComplete` and
`FinishedAreForgotten`, all the safety properties of its run, follow from
`ConnectorInvariant`. A hook that raises ends the engine in the middle of
whatever it did, so most of `IInv` is `Serving`, about the states in which none
has. It says where a request stands in the planes of both roles at every
position of the step: known from its first lookup to its completion, with the
lookup of the plane's own generation (`KnownOk`); queued, and then preempted since
its last lookup or being admitted (`WaitingOk`, `AdmittingOk`); running and bound to
the blocks it holds (`RunningOk`). A request that is handed off has exactly its
handoff in `meta` or its receipt on the way back (`HandedOffOk`, `MetaOk`,
`ReceiptsOk`, `OutputOk`), which is why every hook finds the state it checks for.
The worker's state is the current disposition or one of an earlier generation,
and then there was a preemption (`WorkerOk`), which is why `accept_handoff` can
only raise after one. The parts of the conclusion that must survive a raise
(`DispositionsAgree`, `BoundToHeldBlocks`, `StoresAreComplete`) are conjuncts of their own.

**The lookup runtime** (`SchedulerRuntimeProofs`): `TransportsOwned`, `FailsClosed` and
`LookupIsStable`. A call is a composition of operators on the runtime's record,
so there is one lemma for each operator. `Owned` is the inductive form: every
transport but the current one is unmade, closed or stuck, and the runtime knows
whether it still has to close the current one; `Sound` says what one call keeps
of the retained results.

**The worker** (`WorkerTransferProofs`): `ScatteredIsRetrieved`, `StoredIsGathered` and
`ServerMemoryIsOwned`. The danger is a request the server carries out after the
worker has given up on it. The invariant says that giving up ends the service:
a transfer in `server.late` is the only one, and staging has failed since, so
nothing fills or reads the tensor any more (`LateTransferIsLast`); a registration
is left behind only before the worker was ready (`RegistrationIsKnown`).

**The lookup plan** (`StorageProofs`): `SelectionIsBest` and `PlansAreAccountable`, the whole
run `selection`, for responses of any length with any ranges, keys and verdicts. The plan
is a function of the response, so the invariant `PlanInv` only says which, and all the
work is in the operators. The scan is a recursion over the candidates in order of their
ends. `SelectionFound` says that after `k` of them it holds, for each of the prefixes, a
chain (candidates each of which begins where the one before ends, or later) that no
chain of that prefix betters (`NoBetter`): `ScanStep` is the step, because a chain that
ends with the `k`-th candidate is, without it, a chain of the prefix up to its
predecessor (`ChainWithoutLast`), and one more candidate keeps the order of two
solutions (`GrowthKeepsOrder`). The last holds only because a chain whose keys are a
proper prefix of another's covers less (`PrefixCoversLess`): comparing the tie keys
alone, appending a key could turn the order around. A set that does not overlap is a chain
when it is sorted, so the best chain is the best set. The code's tie keys end with the
raw index, the reference's do not: `BestHasSmallestKeys` takes two chains of equal
coverage, turns the one with smaller keys into a chain with smaller keys *and* indexes,
and that would be better. The merging of ranges covers after every step what was in the
ranges so far, in runs that do not touch (`CoveredCounted`), and the recursive sums are
the sizes of what they range over when nothing overlaps (`TokensAreCovered`), which is
why `verified` never exceeds `found` and `found` never exceeds the prompt.

**Storage** (`StorageProofs`): `RecordsDescribeObjects`, `PublicationIsAtomic`,
`StoredIsFindable` and `LoadedIsVerified`. `SInv` says that whatever is stored under
a hash, in the matcher, among the objects or in the sidecar, is the chunk
that the hash names (`IsChunk`), whichever of the three lost a part meanwhile;
that an event follows the copy; and that what is resident is findable unless a
store is under way or the chunk is in `unfindable`. `LookupsAreBacked` carries it
through the stages of a lookup: a selected candidate is backed by a record for
the very tokens it replaces, and records are never withdrawn.

**The rows** (`RowTransferProofs`): `LoadedRowsAreCorrected`, `ForeignRowsUntouched`,
`StoredRowsAreComputed` and `EvidenceIsTrue`, the whole run `row_transfer`, for any number
of layers, any block and chunk size, prompt and block table. The lemmas come in
three parts. *Slots*: different positions of a request have different slots in
every tensor (`SlotsAreDistinct`), because layers that share a tensor are in
different groups and their groups hold different blocks, and requests that hold
different blocks have no slot in common (`ForeignSlots`). *Plans*: the spans that
`plan_token_scatter` makes hold every row of the target exactly once in every layer,
each at its slot (`PlanCovers`, which needs the arithmetic of quotients and
remainders at both edges of a chunk that is not aligned to the blocks). *Copies*: a
row that no copy names stays as it is however early the copies break off
(`PairsKeep`), and a row that one copy names gets what it holds (`PairsWrite`); so
`ScatterEffect` and `GatherEffect` say what a transfer does, whole or failing
in the middle. The invariant then says what the rows are at each position of the
worker: what staging holds is what the candidates' records describe (`LoadInv`);
what is loaded stays until its layer of the forward pass overwrites it
(`ForwardInv`), and that is why only computed rows are gathered and stored
(`StoreInv`, `ServerInv`); and what the probe has sampled so far is what it should
find (`ProbeInv`), though it samples at three moments between which the rows change. `ProbeInv` speaks of a
probe that has begun; the rest of the invariant owes nothing to a probe, so the
theorems on rows hold for the default configuration as for the other.

**The registry** (`SelectiveProofs`): `EvidenceIsOfOneFile`, because what has been read
of a file is a prefix of what the first `stat` saw as long as the file still has
its identity (`HashingInv`), and `ModelHasItsBackend`, because a registration binds
the backend before the model and a second one starts only when the first left
nothing (`RegistrarInv`).

**The policy** (`SelectiveProofs`): `SelectionIsByRank` and `SweepsCanBeRead`, for any
prompt, ranges, scores and ratios. `PolicyInv` says that a sweep is of points that `Select`
makes for the input, in falling ratios, and that a sweep whose write returned is in the
file, whole and such as its reader accepts; the rest is about the operators. Their recursion is over the natural
numbers, so each is taken apart by induction over `<`, which the library gives as
well-foundedness: `Recursion` says that such a function exists and satisfies its
equation, `SetInduction` that a set with 0 and each next number holds them all. Then:
sorting a finite set by a strict order is a bijection of positions (so no range and
no row is lost or taken twice); `Merge` of ranges in order keeps their rows and
makes them canonical; the complement of canonical ranges is canonical and holds the
other rows; and the first rows by rank of a larger budget include those of a
smaller one, which is why recomputation falls with the ratio.

**The forward** (`SelectiveProofs`): `OnlyPlannedRowsWritten`, `ReceiptIsTrue` and
`AttentionReadsBlendedRows`. `ForwardInv` says that memory is what was prepared, but
for rows of the model in the slots of positions the plan recomputes (`MemOk`); that
the layers before the session's next one are written and counted
(`WrittenBelow`, `Count`); and that with a receipt all layers are. `MemOk` alone would
hold of a forward that writes nothing, and `WrittenBelow` alone says nothing of a copy
that broke off; a property needs both. The step is `ApplyWrites`: the parts of the
spans of a plan hold exactly the recomputed rows of each layer (`PlannedParts`, from
`PlanCovers`), no two rows of a prompt share a slot (`OwnSlot`, from `SlotsAreDistinct`),
so all copies that write a place agree on what they write there, and neither the
order of the copies nor the moment they break off matters. A later layer cannot
change what an earlier one read, although two layers share a tensor.
`TokensCounted` adds the rows layer by layer for the receipt.

What stays with TLC, and why:

- liveness (`RequestsComplete`, `WorkerForgets`, `WorkerReturns`): fairness and `ENABLED`
  are outside what the prover handles;
- `CountersConserve`, `EvidenceIsOfTarget` and `RefusesOnlyForCause` (totals over requests):
  they are about folds of the community modules, which take an operator and are out of
  the provers' reach; `Selection` and `SelectionPolicy` were written with recursive
  functions for their proofs.

## Plan

Every safety property of the modules that coordinate (control plane, connector,
runtimes, storage, registry), of lookup plans, of the rows that are transferred and of
the selective path is proved. Left:

1. `Telemetry` with its sums as recursive functions, and then its properties and those of
   `Capture` by the lemmas on recursion and sums of `StorageProofs`;
2. to model: the opening of the sidecar (two workers that create the schema, a
   scheduler that opens it read-only).

## Not modelled

- The YaRN rotation and attention themselves are floating-point tensor arithmetic;
  they appear as a difference of positions and as what a row was computed from.
- Shapes, strides, dtypes and devices of tensors, and the torch backend of staging.
- The sidecar's row encoding, schema checks and opening modes; SQLite is taken to
  keep its promise of atomic transactions.
- The startup checks of versions, digests and configuration are stateless. What
  they enforce (one sequence and whole prompts in transfer mode, staging as large as
  the budget) is assumed by the modules that rely on it.
- The comparison of logits and probabilities, the ensembles, the benchmark and
  Responses reports are offline statistics over finished files.
- `planner/matching.py` and `planner/segmentation.py` are used by nothing outside
  the package and its tests; their interval schedule is the one `Selection` states.
- vLLM, the LMCache server and Prometheus are external and appear only through what
  the code observes of them.
