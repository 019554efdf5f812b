--------------------------- MODULE ConnectorProofs ---------------------------
(***************************************************************************)
(* The safety properties of Connector for any requests, block tables,      *)
(* layers, workloads and bounds.  A hook that raises ends the engine, so   *)
(* most of the invariant is about the states in which none has raised:     *)
(* what a request is in the plane of each role, which handoff or receipt   *)
(* carries its allocation between them, and who holds which blocks, at     *)
(* every position of the engine's step.                                    *)
(***************************************************************************)
EXTENDS Connector, FiniteSetTheorems, TLAPS

-----------------------------------------------------------------------------
(* What the transitions of RequestLifecycleState preserve and produce, one  *)
(* state at a time, in either plane.                                        *)

USE DEF Phases, Plan

\* Each transition of RequestLifecycleState returns a well-formed state.
LEMMA TransitionTypes ==
  ASSUME NEW s \in State
  PROVE  /\ Absent \in State
         /\ \A p \in Plan : Lookup(s, p) \in State
         /\ \A b \in BlockTables : Allocate(s, b) \in State
         /\ HandOff(s) \in State
         /\ \A h \in Handoff : Accept(s, h) \in State
         /\ \A rc \in Receipt : ApplyReceipt(s, rc) \in State
         /\ Preempt(s) \in State
         /\ Finish(s) \in State
<1>1. Absent \in State
  BY MaxMatchesAssumption DEF State, Absent
<1>2. \A p \in Plan : Lookup(s, p) \in State
  BY <1>1 DEF State, Lookup, Absent
<1>3. \A b \in BlockTables : Allocate(s, b) \in State
  BY DEF State, Allocate, Candidate, Allocation
<1>4. HandOff(s) \in State
  BY DEF State, HandOff
<1>5. \A h \in Handoff : Accept(s, h) \in State
  BY DEF State, Accept, Handoff, Allocation
<1>6. \A rc \in Receipt : ApplyReceipt(s, rc) \in State
  BY DEF State, ApplyReceipt
<1>7. Preempt(s) \in State
  BY DEF State, Preempt
<1>8. Finish(s) \in State
  BY DEF State, Finish
<1> QED BY <1>1, <1>2, <1>3, <1>4, <1>5, <1>6, <1>7, <1>8

\* What handoff does to a state it accepts: the state is handed off and keeps
\* its plan, generation and allocation, and so the metadata sent for it.
LEMMA HandOffFacts ==
  ASSUME NEW s \in State, HandOffOk(s), NEW r \in Requests
  PROVE  /\ HandOff(s) \in State /\ HasHandoff(HandOff(s))
         /\ HandOff(s).phase # "absent"
         /\ HandOff(s).plan = s.plan /\ HandOff(s).gen = s.gen
         /\ HandOff(s).alloc = s.alloc
         /\ HandoffMetadata(r, HandOff(s)) = HandoffMetadata(r, s)
<1>1. HandOff(s) \in State
  BY TransitionTypes
<1>2. CASE s.phase = "allocated"
  <2>1. /\ HandOff(s).phase = "handed_off" /\ HandOff(s).plan = s.plan
        /\ HandOff(s).gen = s.gen /\ HandOff(s).alloc = s.alloc
    BY <1>2 DEF HandOff, State
  <2> QED BY <1>1, <2>1 DEF HasHandoff, HandoffMetadata
<1>3. CASE s.phase # "allocated"
  <2>1. HandOff(s) = s /\ HasHandoff(s)
    BY <1>3 DEF HandOff, HandOffOk
  <2> QED BY <1>1, <2>1 DEF HasHandoff
<1> QED BY <1>2, <1>3

\* Each transition that returns keeps __post_init__'s consistency.
LEMMA TransitionsConsistent ==
  ASSUME NEW s \in State, Consistent(s)
  PROVE  /\ Consistent(Absent)
         /\ \A p \in Plan : Consistent(Lookup(s, p))
         /\ \A b \in BlockTables : AllocateOk(s, b) => Consistent(Allocate(s, b))
         /\ HandOffOk(s) => Consistent(HandOff(s))
         /\ \A h \in Handoff : Consistent(Accept(s, h))
         /\ \A rc \in Receipt :
              ApplyReceiptOk(s, rc) => Consistent(ApplyReceipt(s, rc))
         /\ Consistent(Preempt(s))
         /\ FinishOk(s) => Consistent(Finish(s))
<1> USE NoneAssumption DEF Consistent
<1>1. Consistent(Absent)
  BY DEF Absent
<1>2. \A p \in Plan : Consistent(Lookup(s, p))
  BY DEF Lookup, Absent
<1>3. \A b \in BlockTables : AllocateOk(s, b) => Consistent(Allocate(s, b))
  BY DEF Allocate, AllocateOk, Candidate, State, Allocation
<1>4. HandOffOk(s) => Consistent(HandOff(s))
  BY DEF HandOff, HandOffOk, State
<1>5. \A h \in Handoff : Consistent(Accept(s, h))
  BY DEF Accept, Handoff
<1>6. \A rc \in Receipt : ApplyReceiptOk(s, rc) => Consistent(ApplyReceipt(s, rc))
  BY DEF ApplyReceipt, ApplyReceiptOk, State
<1>7. Consistent(Preempt(s))
  BY DEF Preempt, State
<1>8. FinishOk(s) => Consistent(Finish(s))
  BY DEF Finish, FinishOk, State
<1> QED BY <1>1, <1>2, <1>3, <1>4, <1>5, <1>6, <1>7, <1>8

\* The receipt validate_worker builds is well-formed and its two halves are
\* disjoint.
LEMMA WorkerReceiptType ==
  ASSUME NEW r \in Requests, NEW s \in State, s.alloc # None,
         NEW loaded \in SUBSET Matches(s.plan)
  PROVE  /\ WorkerReceipt(r, s, loaded) \in Receipt
         /\ WorkerReceipt(r, s, loaded).loaded
              \cap WorkerReceipt(r, s, loaded).rejected = {}
<1>1. Matches(s.plan) \subseteq Matches(MaxMatches)
  BY MaxMatchesAssumption DEF Matches, State
<1>2. s.alloc \in Allocation
  BY DEF State
<1>3. WorkerReceipt(r, s, loaded) \in Receipt
  BY <1>1, <1>2 DEF WorkerReceipt, Receipt
<1>4. WorkerReceipt(r, s, loaded).loaded
        \cap WorkerReceipt(r, s, loaded).rejected = {}
  BY DEF WorkerReceipt
<1> QED BY <1>3, <1>4

\* A plane that has been handed off, or is about to be, holds an allocation,
\* so its handoff metadata is well-formed.
LEMMA HandoffType ==
  ASSUME NEW r \in Requests, NEW s \in State, Consistent(s), HandOffOk(s)
  PROVE  HandoffMetadata(r, s) \in Handoff
<1>1. s.alloc \in Allocation
  BY DEF Consistent, HandOffOk, HasHandoff, State
<1> QED BY <1>1 DEF HandoffMetadata, Handoff, State

\* No entry is a state.
LEMMA AbsentTyped == Absent \in State /\ Consistent(Absent)
BY MaxMatchesAssumption DEF State, Absent, Consistent

\* A first lookup stores the plan; an exact duplicate changes nothing.
LEMMA LookupFacts ==
  ASSUME NEW s \in State, NEW p \in Plan
  PROVE  /\ s.phase # "absent" => Lookup(s, p) = s
         /\ s.phase = "absent" =>
              /\ Lookup(s, p).phase = "looked_up" /\ Lookup(s, p).plan = p
              /\ Lookup(s, p).gen = 0
              /\ Lookup(s, p).alloc = None /\ Lookup(s, p).receipt = None
BY DEF Lookup, Absent

\* Binding blocks keeps the plan and the generation.
LEMMA AllocateFacts ==
  ASSUME NEW s \in State, NEW b \in BlockTables, s.phase = "looked_up"
  PROVE  /\ Allocate(s, b).phase = "allocated" /\ Allocate(s, b).plan = s.plan
         /\ Allocate(s, b).gen = s.gen /\ Allocate(s, b).receipt = s.receipt
         /\ Allocate(s, b).alloc = [gen |-> s.gen, blocks |-> b]
         /\ Allocate(s, b).alloc # None
<1>1. [gen |-> s.gen, blocks |-> b] \in Allocation
  BY DEF Allocation, State
<1> QED BY <1>1, NoneAssumption DEF Allocate, Candidate, State

\* A preemption drops the allocation and the disposition and opens the next
\* generation of the same plan.
LEMMA PreemptFacts ==
  ASSUME NEW s \in State, s.phase # "looked_up"
  PROVE  /\ Preempt(s).phase = "looked_up" /\ Preempt(s).plan = s.plan
         /\ Preempt(s).gen = s.gen + 1
         /\ Preempt(s).alloc = None /\ Preempt(s).receipt = None
BY DEF Preempt

\* A handoff the worker plane did not have is installed as it came.
LEMMA AcceptFacts ==
  ASSUME NEW s \in State, s.phase = "absent", NEW h \in Handoff
  PROVE  /\ Accept(s, h).phase = "handed_off" /\ Accept(s, h).plan = h.plan
         /\ Accept(s, h).gen = h.alloc.gen /\ Accept(s, h).alloc = h.alloc
         /\ Accept(s, h).receipt = None
BY DEF Accept

\* A disposition that was awaited is recorded.
LEMMA ApplyReceiptFacts ==
  ASSUME NEW s \in State, s.phase = "handed_off", NEW rc \in Receipt
  PROVE  /\ ApplyReceipt(s, rc).phase = "worker_validated"
         /\ ApplyReceipt(s, rc).plan = s.plan /\ ApplyReceipt(s, rc).gen = s.gen
         /\ ApplyReceipt(s, rc).alloc = s.alloc /\ ApplyReceipt(s, rc).receipt = rc
BY DEF ApplyReceipt, State

-----------------------------------------------------------------------------
(* The invariant.                                                           *)

Waiting(r) == status[r] = "waiting"
IsRunning(r) == status[r] = "running"

\* The engine's books: only a running request has blocks and tokens in a step.
EngineOk ==
  /\ workload \in Workloads
  /\ step = "idle" => \A r \in Requests : scheduled[r] = 0
  /\ \A r \in Requests :
       /\ status[r] # "new" => r \in DOMAIN PromptLen
       /\ ~IsRunning(r) => held[r] = None /\ scheduled[r] = 0
       /\ IsRunning(r) => held[r] \in BlockTables
       /\ r \in DOMAIN PromptLen =>
            computed[r] + scheduled[r] <= PromptLen[r] + outputs[r]
       /\ status[r] \in {"new", "waiting"} \/ r \in pending =>
            computed[r] = 0 /\ (preemptions[r] = 0 => outputs[r] = 0)
       /\ status[r] = "new" => preemptions[r] = 0
  /\ \A q, r \in Requests : IsRunning(q) /\ IsRunning(r) /\ q # r =>
       held[q] # held[r] /\ ~transferEnabled

\* What the scheduler role remembers of a request: it is known from its first
\* lookup to its completion, and its lookup is of the plane's generation.
KnownOk ==
  \A r \in Requests :
    /\ r \in known <=> seen[r] # None
    /\ r \in known => Waiting(r) \/ IsRunning(r)
    /\ r \in known => sched[r].phase # "absent"
    /\ r \notin known /\ status[r] # "done" =>
         sched[r] = Absent /\ worker[r] = Absent
    /\ lookups[r] # None <=> r \in known /\ transferEnabled
    /\ lookups[r] # None =>
         /\ lookups[r].preemptions = seen[r]
         /\ lookups[r].gen = sched[r].gen
         /\ lookups[r].plan = sched[r].plan
    /\ ~transferEnabled => sched[r].plan = 0

\* A queued request that was looked up: it was preempted since, or it was looked
\* up again, and then, in transfer mode, it is the one being admitted.
WaitingOk ==
  \A r \in Requests : Waiting(r) /\ r \in known =>
    \/ /\ seen[r] = preemptions[r] /\ sched[r].phase = "looked_up"
       /\ transferEnabled => r = admitting
    \/ seen[r] + 1 = preemptions[r] /\ sched[r].phase = "worker_validated"

\* A running request is bound to the blocks it holds, and its plane is where the
\* hooks of the current step have brought it.
RunningOk ==
  \A r \in Requests : IsRunning(r) =>
    /\ r \in known /\ seen[r] = preemptions[r]
    /\ sched[r].phase \in {"allocated", "handed_off", "worker_validated"}
    /\ sched[r].alloc # None /\ sched[r].alloc.blocks = held[r]
    /\ sched[r].phase = "allocated" <=> r \in pending

AdmittingOk ==
  /\ step = "admit" <=> admitting # None
  /\ step = "admit" =>
       /\ Waiting(admitting) /\ admitting \in known
       /\ seen[admitting] = preemptions[admitting]
       /\ sched[admitting].phase = "looked_up"
       /\ transferEnabled => \A r \in Requests : ~IsRunning(r)

PendingOk ==
  /\ pending # {} => step \in {"schedule", "admit", "build"}
  /\ \A r \in pending : IsRunning(r)

-----------------------------------------------------------------------------
(* What is between the roles, at each position of the step.                *)

\* The scheduler waits for a receipt of this allocation and plan.
Awaits(s, rc) ==
  /\ s.phase = "handed_off" /\ rc.alloc = s.alloc
  /\ rc.loaded \cup rc.rejected = Matches(s.plan)

\* The worker has recorded this receipt.
Recorded(s, rc) == s.phase = "worker_validated" /\ s.receipt = rc

MetaOk ==
  /\ meta # None <=> step \in {"load", "forward", "collect", "drain"}
  /\ meta # None => \A r \in meta.finished : status[r] = "done"
  /\ \A r \in finished : status[r] = "done"
  /\ step = "load" =>
       /\ \A h \in meta.handoffs :
            /\ IsRunning(h.req) /\ sched[h.req].phase = "handed_off"
            /\ h = HandoffMetadata(h.req, sched[h.req])
       /\ \A r \in meta.transfers :
            /\ transferEnabled /\ scheduled[r] = PromptLen[r]
            /\ \E h \in meta.handoffs : h.req = r

ReceiptsOk ==
  /\ receipts # {} => step \in {"forward", "collect", "drain"}
  /\ \A rc \in receipts :
       /\ IsRunning(rc.req) /\ Awaits(sched[rc.req], rc)
       /\ Recorded(worker[rc.req], rc)

OutputOk ==
  /\ output # {} => step = "output"
  /\ \A rc \in output :
       /\ \/ (IsRunning(rc.req) \/ rc.req \in late) /\ Awaits(sched[rc.req], rc)
          \/ status[rc.req] = "done" /\ ~transferEnabled
       /\ status[rc.req] # "done" => Recorded(worker[rc.req], rc)

LateOk ==
  \A r \in late :
    /\ status[r] = "done" /\ transferEnabled
    /\ \E rc \in output : rc.req = r

\* A request is handed off exactly while its handoff or receipt is on its way.
HandedOffOk ==
  \A r \in Requests : sched[r].phase = "handed_off" =>
    \/ step = "load" /\ \E h \in meta.handoffs : h.req = r
    \/ \E rc \in receipts \cup output : rc.req = r

-----------------------------------------------------------------------------
(* The worker role.                                                        *)

\* A state of the worker's plane from before the current allocation.
IsOld(r) == worker[r].alloc.gen < sched[r].gen /\ preemptions[r] > 0

\* The worker has not been told of the scheduler's current allocation.
NotToldYet(r) ==
  \/ sched[r].phase \in {"looked_up", "allocated"}
  \/ step = "load" /\ sched[r].phase = "handed_off"

WorkerOk ==
  \A r \in Requests :
    /\ worker[r].phase \in {"absent", "worker_validated"}
    /\ r \in known /\ NotToldYet(r) => worker[r].phase = "absent" \/ IsOld(r)
    /\ r \in known /\ sched[r].phase = "worker_validated" =>
         Recorded(worker[r], sched[r].receipt)
    /\ status[r] = "done" /\ worker[r].phase # "absent" =>
         r \in finished \/ (step \in {"load", "forward", "collect"} /\ r \in meta.finished)

DoneOk ==
  \A r \in Requests : status[r] = "done" => r \in late \/ sched[r] = Absent

ActiveOk ==
  active # None =>
    /\ step = "forward" /\ transferEnabled /\ IsRunning(active.req)
    /\ held[active.req] = active.alloc.blocks
    /\ scheduled[active.req] = PromptLen[active.req]
    /\ active.saved = visited

PlanesOk == \A r \in Requests : Consistent(sched[r]) /\ Consistent(worker[r])

Serving ==
  /\ EngineOk /\ KnownOk /\ WaitingOk /\ RunningOk /\ AdmittingOk /\ PendingOk
  /\ MetaOk /\ ReceiptsOk /\ OutputOk /\ LateOk /\ HandedOffOk
  /\ WorkerOk /\ DoneOk /\ ActiveOk /\ PlanesOk

\* The part of RolesAgree that outlives a failed hook.
DispositionsAgree ==
  \A r \in Requests :
    /\ sched[r].receipt # None /\ worker[r].phase # "absent" =>
         worker[r].receipt = sched[r].receipt
    /\ lookups[r] # None /\ lookups[r].preemptions = seen[r] =>
         lookups[r].gen = sched[r].gen

IInv ==
  /\ TypeOK
  /\ OnlyKnownFailuresRaise /\ BoundToHeldBlocks /\ StoresAreComplete
  /\ DispositionsAgree
  /\ step = "down" => active = None
  /\ Up /\ step # "down" => Serving

-----------------------------------------------------------------------------
(* What follows from the invariant in a state, and what a raise leaves.    *)

\* The prompt of a request that arrived.
LEMMA PromptFacts ==
  ASSUME workload \in Workloads, NEW r \in DOMAIN PromptLen
  PROVE  r \in Requests /\ PromptLen[r] \in Nat \ {0}
BY ConnectorAssumption DEF PromptLen

\* Plan 0 is a plan.
LEMMA NoMatches == 0 \in Plan
BY MaxMatchesAssumption DEF Plan

\* In a serving state the other parts of the invariant follow.
LEMMA ServingSuffices ==
  ASSUME TypeOK', Serving', raised' = None, StoresAreComplete'
  PROVE  IInv'
<1>1. OnlyKnownFailuresRaise'
  BY ConnectorNoneAssumption DEF Hooks, OnlyKnownFailuresRaise, PreemptionFailures
<1>2. BoundToHeldBlocks'
  BY DEF Serving, EngineOk, RunningOk, BoundToHeldBlocks, IsRunning
<1>3. DispositionsAgree'
  <2> SUFFICES ASSUME NEW r \in Requests
               PROVE  /\ sched'[r].receipt # None /\ worker'[r].phase # "absent" =>
                           worker'[r].receipt = sched'[r].receipt
                      /\ lookups'[r] # None /\ lookups'[r].preemptions = seen'[r] =>
                           lookups'[r].gen = sched'[r].gen
    BY DEF DispositionsAgree
  <2>1. lookups'[r] # None => lookups'[r].gen = sched'[r].gen
    BY DEF Serving, KnownOk
  <2>2. ASSUME sched'[r].receipt # None
        PROVE  worker'[r].receipt = sched'[r].receipt
    <3>1. sched'[r].phase = "worker_validated" \/ sched'[r].phase = "finished"
      BY <2>2 DEF Serving, PlanesOk, Consistent, TypeOK, State, Phases
    <3>2. sched'[r] # Absent /\ sched'[r].phase # "handed_off"
      BY <3>1 DEF Absent
    <3>3. r \notin late'
      BY <3>1 DEF Serving, LateOk, OutputOk, DoneOk, Awaits, TypeOK, Receipt
    <3>4. r \in known'
      BY <3>2, <3>3 DEF Serving, KnownOk, DoneOk
    <3>5. sched'[r].phase = "worker_validated"
      BY <3>1, <3>4 DEF Serving, KnownOk, WaitingOk, RunningOk, Waiting, IsRunning
    <3> QED BY <3>4, <3>5 DEF Serving, WorkerOk, Recorded
  <2> QED BY <2>1, <2>2
<1>4. step' = "down" => active' = None
  BY DEF Serving, ActiveOk
<1> QED BY <1>1, <1>2, <1>3, <1>4 DEF IInv

\* A hook that raises leaves the planes, the blocks, the lookups and the store as
\* they were; what it may not do is raise for an unknown reason.
LEMMA RaiseSuffices ==
  ASSUME IInv, TypeOK', raised' # None, OnlyKnownFailuresRaise',
         UNCHANGED <<workload, status, held, step, sched, seen, lookups, worker, active, stored>>
  PROVE  IInv'
<1>1. BoundToHeldBlocks'
  BY DEF IInv, BoundToHeldBlocks
<1>2. StoresAreComplete' /\ DispositionsAgree'
  BY DEF IInv, StoresAreComplete, DispositionsAgree, PromptLen
<1> QED BY <1>1, <1>2 DEF IInv, Up

-----------------------------------------------------------------------------
(* The engine between steps.                                               *)

\* The engine starts with nothing known, held or under way.
LEMMA ConnectorInit == Init => IInv
<1> SUFFICES ASSUME Init PROVE IInv
  OBVIOUS
<1> USE DEF Init
<1>1. TypeOK
  <2>1. Absent \in State
    BY AbsentTyped
  <2> QED BY <2>1, ConnectorAssumption, ConnectorNoneAssumption DEF TypeOK, Steps, Hooks
<1>2. Absent.phase = "absent" /\ Absent.plan = 0 /\ Consistent(Absent)
  BY DEF Absent, Consistent
<1>3. EngineOk
  BY PromptFacts DEF EngineOk, IsRunning
<1>4. KnownOk /\ WaitingOk /\ RunningOk /\ AdmittingOk /\ PendingOk
  BY <1>2 DEF KnownOk, WaitingOk, RunningOk, AdmittingOk, PendingOk, IsRunning, Waiting
<1>5. MetaOk /\ ReceiptsOk /\ OutputOk /\ LateOk /\ HandedOffOk
  BY <1>2 DEF MetaOk, ReceiptsOk, OutputOk, LateOk, HandedOffOk
<1>6. WorkerOk /\ DoneOk /\ ActiveOk /\ PlanesOk
  BY <1>2 DEF WorkerOk, DoneOk, ActiveOk, PlanesOk
<1>7. OnlyKnownFailuresRaise /\ BoundToHeldBlocks /\ StoresAreComplete /\ DispositionsAgree
  BY ConnectorNoneAssumption DEF Hooks, OnlyKnownFailuresRaise, PreemptionFailures,
     BoundToHeldBlocks, StoresAreComplete, DispositionsAgree, Absent
<1> QED BY <1>1, <1>3, <1>4, <1>5, <1>6, <1>7 DEF IInv, Serving

\* A request enters the queue.
LEMMA ArriveStep ==
  ASSUME IInv, NEW r \in Requests, Arrive(r)
  PROVE  IInv'
<1> USE DEF Arrive, Up, schedVars, workerVars
<1>0. Serving /\ TypeOK /\ status[r] = "new"
  BY DEF IInv
<1>1. TypeOK'
  BY <1>0 DEF TypeOK
<1>2. /\ status'[r] = "waiting" /\ \A q \in Requests \ {r} : status'[q] = status[q]
      /\ r \notin known
  BY <1>0 DEF TypeOK, Serving, KnownOk, Waiting, IsRunning
<1>3. EngineOk'
  BY <1>0, <1>2 DEF Serving, EngineOk, IsRunning, PromptLen
<1>4. KnownOk' /\ WaitingOk' /\ RunningOk' /\ AdmittingOk' /\ PendingOk'
  BY <1>0, <1>2 DEF Serving, KnownOk, WaitingOk, RunningOk, AdmittingOk, PendingOk,
     IsRunning, Waiting, TypeOK
<1>5. MetaOk' /\ ReceiptsOk' /\ OutputOk' /\ LateOk' /\ HandedOffOk'
  BY <1>0, <1>2 DEF Serving, MetaOk, ReceiptsOk, OutputOk, LateOk, HandedOffOk, IsRunning,
     TypeOK
<1>6. WorkerOk' /\ DoneOk' /\ ActiveOk' /\ PlanesOk'
  BY <1>0, <1>2 DEF Serving, WorkerOk, DoneOk, ActiveOk, PlanesOk, IsRunning, NotToldYet,
     IsOld, TypeOK, PromptLen
<1>7. StoresAreComplete'
  BY DEF IInv, StoresAreComplete, PromptLen
<1> QED BY <1>1, <1>3, <1>4, <1>5, <1>6, <1>7, ServingSuffices DEF Serving

\* Between steps nothing is on its way and every running request has its
\* disposition.
LEMMA IdleFacts ==
  ASSUME TypeOK, Serving, step = "idle"
  PROVE  /\ pending = {} /\ receipts = {} /\ output = {} /\ late = {}
         /\ meta = None /\ active = None /\ admitting = None
         /\ \A r \in Requests : IsRunning(r) => sched[r].phase = "worker_validated"
<1>1. pending = {} /\ receipts = {} /\ output = {} /\ meta = None /\ active = None
      /\ admitting = None
  BY DEF Serving, PendingOk, ReceiptsOk, OutputOk, MetaOk, ActiveOk, AdmittingOk
<1>2. late = {}
  BY <1>1 DEF Serving, LateOk
<1>3. \A r \in Requests : sched[r].phase # "handed_off"
  BY <1>1 DEF Serving, HandedOffOk
<1> QED BY <1>1, <1>2, <1>3 DEF Serving, RunningOk

\* A running request loses its blocks.
LEMMA PreemptStep ==
  ASSUME IInv, NEW r \in Requests, PreemptRunning(r)
  PROVE  IInv'
<1> USE DEF PreemptRunning, Up, schedVars, workerVars
<1>0. Serving /\ TypeOK /\ IsRunning(r)
  BY DEF IInv, IsRunning
<1>1. TypeOK'
  BY <1>0 DEF TypeOK
<1>2. /\ status'[r] = "waiting" /\ \A q \in Requests \ {r} : status'[q] = status[q]
      /\ preemptions'[r] = preemptions[r] + 1
      /\ \A q \in Requests \ {r} : preemptions'[q] = preemptions[q]
      /\ computed'[r] = 0 /\ \A q \in Requests \ {r} : computed'[q] = computed[q]
      /\ held'[r] = None /\ \A q \in Requests \ {r} : held'[q] = held[q]
      /\ \A q \in Requests : preemptions[q] \in Nat /\ outputs[q] \in Nat /\ computed[q] \in Nat
  BY <1>0 DEF TypeOK
<1>3. /\ pending = {} /\ receipts = {} /\ output = {} /\ late = {} /\ active = None
      /\ meta = None
      /\ \A q \in Requests : IsRunning(q) => sched[q].phase = "worker_validated"
  BY <1>0, IdleFacts
<1>4. EngineOk'
  <2>1. \A q \in Requests : scheduled[q] = 0
    BY <1>0 DEF Serving, EngineOk
  <2>2. \A q \in DOMAIN PromptLen : PromptLen[q] \in Nat
    BY <1>0, PromptFacts DEF Serving, EngineOk
  <2> QED BY <1>0, <1>2, <1>3, <2>1, <2>2 DEF Serving, EngineOk, IsRunning, PromptLen
<1>5. KnownOk'
  BY <1>0, <1>2 DEF Serving, KnownOk, IsRunning, Waiting
<1>6. WaitingOk'
  BY <1>0, <1>2, <1>3 DEF Serving, WaitingOk, RunningOk, IsRunning, Waiting
<1>7. RunningOk' /\ AdmittingOk' /\ PendingOk'
  BY <1>0, <1>2, <1>3 DEF Serving, RunningOk, AdmittingOk, PendingOk, IsRunning, Waiting
<1>8. MetaOk' /\ ReceiptsOk' /\ OutputOk' /\ LateOk' /\ HandedOffOk'
  <2>1. \A q \in finished : q \in Requests
    BY <1>0 DEF TypeOK
  <2> QED BY <1>0, <1>2, <1>3, <2>1 DEF Serving, MetaOk, ReceiptsOk, OutputOk, LateOk,
          HandedOffOk, IsRunning
<1>9. WorkerOk' /\ DoneOk' /\ ActiveOk' /\ PlanesOk'
  BY <1>0, <1>2, <1>3 DEF Serving, WorkerOk, DoneOk, ActiveOk, PlanesOk, IsRunning,
     NotToldYet, IsOld
<1>10. StoresAreComplete'
  BY DEF IInv, StoresAreComplete, PromptLen
<1> QED BY <1>1, <1>4, <1>5, <1>6, <1>7, <1>8, <1>9, <1>10, ServingSuffices DEF Serving

\* schedule() gives the running requests their tokens.
LEMMA BeginStepStep ==
  ASSUME IInv, BeginStep
  PROVE  IInv'
<1> USE DEF BeginStep, Up, engineVars, schedVars, workerVars
<1>0. Serving /\ TypeOK
  BY DEF IInv
<1>1. /\ pending = {} /\ receipts = {} /\ output = {} /\ late = {} /\ active = None
      /\ meta = None /\ admitting = None
  BY <1>0, IdleFacts
<1>2. ASSUME NEW r \in Requests
      PROVE  /\ scheduled'[r] \in Nat
             /\ ~IsRunning(r) => scheduled'[r] = 0
             /\ r \in DOMAIN PromptLen =>
                  computed[r] + scheduled'[r] <= PromptLen[r] + outputs[r]
  <2>1. computed[r] \in Nat /\ outputs[r] \in Nat /\ scheduled[r] = 0 /\ Budget \in Nat
    BY <1>0, ConnectorAssumption DEF TypeOK, Serving, EngineOk
  <2>2. r \in DOMAIN PromptLen =>
          PromptLen[r] \in Nat /\ computed[r] <= PromptLen[r] + outputs[r]
    BY <1>0, <2>1, PromptFacts DEF Serving, EngineOk
  <2>3. CASE ~IsRunning(r)
    BY <2>1, <2>2, <2>3 DEF IsRunning, Running
  <2>4. CASE IsRunning(r)
    <3>1. r \in DOMAIN PromptLen
      BY <1>0, <2>4 DEF Serving, EngineOk, IsRunning
    <3>2. scheduled'[r] = Min2(Budget, PromptLen[r] + outputs[r] - computed[r])
      BY <2>4 DEF IsRunning, Running, Remaining
    <3> QED BY <2>1, <2>2, <2>4, <3>1, <3>2 DEF Min2
  <2> QED BY <2>3, <2>4
<1>3. TypeOK'
  BY <1>0, <1>2 DEF TypeOK, Steps
<1>4. EngineOk'
  BY <1>0, <1>1, <1>2 DEF Serving, EngineOk, IsRunning, PromptLen
<1>5. KnownOk' /\ WaitingOk' /\ RunningOk' /\ AdmittingOk' /\ PendingOk'
  BY <1>0, <1>1 DEF Serving, KnownOk, WaitingOk, RunningOk, AdmittingOk, PendingOk,
     IsRunning, Waiting
<1>6. MetaOk' /\ ReceiptsOk' /\ OutputOk' /\ LateOk' /\ HandedOffOk'
  BY <1>0, <1>1 DEF Serving, MetaOk, ReceiptsOk, OutputOk, LateOk, HandedOffOk, IsRunning
<1>7. WorkerOk' /\ DoneOk' /\ ActiveOk' /\ PlanesOk'
  BY <1>0, <1>1 DEF Serving, WorkerOk, DoneOk, ActiveOk, PlanesOk, IsRunning,
     NotToldYet, IsOld
<1>8. StoresAreComplete'
  BY DEF IInv, StoresAreComplete, PromptLen
<1> QED BY <1>3, <1>4, <1>5, <1>6, <1>7, <1>8, ServingSuffices DEF Serving

-----------------------------------------------------------------------------
(* Scheduler-role hooks.                                                   *)

\* What the runtime returns to a lookup of a queued request.
LEMMA RuntimeLookupFacts ==
  ASSUME TypeOK, Serving, NEW r \in Requests, Waiting(r)
  PROVE  /\ WasPreempted(r) <=> r \in known /\ seen[r] + 1 = preemptions[r]
         /\ WasPreempted(r) => sched[r].phase = "worker_validated"
         /\ ~WasPreempted(r) /\ r \in known =>
              seen[r] = preemptions[r] /\ sched[r].phase = "looked_up"
         /\ \A found \in RuntimeLookup(r) :
              /\ found \in StoredLookup
              /\ found.preemptions = preemptions[r]
              /\ transferEnabled \/ found.plan = 0
              /\ r \notin known => found.gen = 0
              /\ r \in known /\ transferEnabled =>
                   /\ found.plan = sched[r].plan
                   /\ found.gen = IF WasPreempted(r) THEN sched[r].gen + 1 ELSE sched[r].gen
         /\ RuntimeLookup(r) # {}
<1>1. preemptions[r] \in Nat /\ (r \in known => seen[r] \in Nat) /\ sched[r] \in State
  BY DEF TypeOK, Serving, KnownOk
<1>2. /\ WasPreempted(r) <=> r \in known /\ seen[r] + 1 = preemptions[r]
      /\ WasPreempted(r) => sched[r].phase = "worker_validated"
      /\ ~WasPreempted(r) /\ r \in known =>
           seen[r] = preemptions[r] /\ sched[r].phase = "looked_up"
  BY <1>1 DEF Serving, KnownOk, WaitingOk, WasPreempted
<1>3. \A p \in FirstPlans(r) : p \in Plan /\ (transferEnabled \/ p = 0)
  <2>1. PromptLen[r] \in Nat
    BY PromptFacts DEF Serving, EngineOk, Waiting
  <2>2. ChunkSize \in Nat \ {0} /\ MaxMatches \in Nat
    BY ConnectorAssumption, MaxMatchesAssumption
  <2>3. PromptLen[r] \div ChunkSize \in Nat
    BY <2>1, <2>2, Z3
  <2>4. Min2(MaxMatches, PromptLen[r] \div ChunkSize) \in 0 .. MaxMatches
    BY <2>2, <2>3 DEF Min2
  <2> HIDE DEF Plan
  <2>5. 0 .. Min2(MaxMatches, PromptLen[r] \div ChunkSize) \subseteq Plan
    BY <2>2, <2>4 DEF Plan
  <2>6. 0 \in Plan
    BY NoMatches
  <2> QED BY <2>5, <2>6 DEF FirstPlans
<1>4. 0 \in FirstPlans(r)
  <2>1. PromptLen[r] \in Nat
    BY PromptFacts DEF Serving, EngineOk, Waiting
  <2>2. ChunkSize \in Nat \ {0} /\ MaxMatches \in Nat
    BY ConnectorAssumption, MaxMatchesAssumption
  <2>3. PromptLen[r] \div ChunkSize \in Nat
    BY <2>1, <2>2, Z3
  <2> QED BY <2>2, <2>3 DEF FirstPlans, Min2
<1>5. CASE lookups[r] = None
  <2>1. ~transferEnabled \/ r \notin known
    BY <1>5 DEF Serving, KnownOk
  <2>2. RuntimeLookup(r) =
          {[plan |-> p, gen |-> 0, preemptions |-> preemptions[r]] : p \in FirstPlans(r)}
    BY <1>5 DEF RuntimeLookup
  <2>3. ASSUME NEW found \in RuntimeLookup(r)
        PROVE  /\ found \in StoredLookup /\ found.preemptions = preemptions[r]
               /\ transferEnabled \/ found.plan = 0
               /\ found.gen = 0
    <3>1. PICK p \in FirstPlans(r) :
            found = [plan |-> p, gen |-> 0, preemptions |-> preemptions[r]]
      BY <2>2
    <3> HIDE DEF Plan
    <3> QED BY <1>1, <1>3, <3>1 DEF StoredLookup
  <2>4. RuntimeLookup(r) # {}
    BY <1>4, <2>2
  <2> QED BY <1>2, <2>1, <2>3, <2>4
<1>6. CASE lookups[r] # None
  <2>1. /\ r \in known /\ transferEnabled /\ lookups[r] \in StoredLookup
        /\ lookups[r].preemptions = seen[r] /\ lookups[r].gen = sched[r].gen
        /\ lookups[r].plan = sched[r].plan
    BY <1>6 DEF Serving, KnownOk, TypeOK
  <2>2. CASE ~WasPreempted(r)
    <3>1. RuntimeLookup(r) = {lookups[r]}
      BY <1>2, <1>6, <2>1, <2>2 DEF RuntimeLookup
    <3> QED BY <1>2, <2>1, <2>2, <3>1
  <2>3. CASE WasPreempted(r)
    <3>1. RuntimeLookup(r) =
            {[plan |-> lookups[r].plan, gen |-> lookups[r].gen + 1,
              preemptions |-> preemptions[r]]}
      BY <1>1, <1>2, <1>6, <2>1, <2>3 DEF RuntimeLookup
    <3> DEFINE next == [plan |-> lookups[r].plan, gen |-> lookups[r].gen + 1,
                       preemptions |-> preemptions[r]]
    <3> HIDE DEF Plan
    <3>2. /\ next \in StoredLookup /\ next.plan = lookups[r].plan
          /\ next.gen = lookups[r].gen + 1 /\ next.preemptions = preemptions[r]
      BY <1>1, <2>1 DEF StoredLookup
    <3> HIDE DEF next
    <3>3. RuntimeLookup(r) = {next}
      BY <3>1 DEF next
    <3> QED BY <1>2, <2>1, <2>3, <3>2, <3>3
  <2> QED BY <2>2, <2>3
<1> QED BY <1>5, <1>6

\* Transfer mode admits a request only when none runs.
LEMMA AdmitsAlone ==
  ASSUME transferEnabled, CanAdmit
  PROVE  \A r \in Requests : ~IsRunning(r)
<1>1. IsFiniteSet(Running)
  <2>1. IsFiniteSet(Requests) /\ Running \subseteq Requests
    BY ConnectorAssumption DEF Running
  <2> QED BY <2>1, FS_Subset
<1>2. Cardinality(Running) \in Nat /\ Cardinality(Running) < 1
  BY <1>1, FS_CardinalityType DEF CanAdmit
<1>3. Cardinality(Running) = 0
  BY <1>2
<1>4. Running = {}
  BY <1>1, <1>3, FS_EmptySet
<1> QED BY <1>4 DEF Running, IsRunning

\* The plane's state once the hook knows of a preemption: the plan is still there
\* to be found again, under the runtime's generation.
LEMMA AfterPreemptionFacts ==
  ASSUME TypeOK, Serving, NEW r \in Requests, Waiting(r)
  PROVE  /\ WasPreempted(r) => PreemptOk(sched[r])
         /\ AfterPreemption(r) \in State /\ Consistent(AfterPreemption(r))
         /\ AfterPreemption(r).phase = (IF r \in known THEN "looked_up" ELSE "absent")
         /\ AfterPreemption(r).plan = sched[r].plan
         /\ AfterPreemption(r).gen =
              (IF WasPreempted(r) THEN sched[r].gen + 1 ELSE sched[r].gen)
         /\ AfterPreemption(r).alloc = None /\ AfterPreemption(r).receipt = None
         /\ worker[r].phase = "absent" \/
              (worker[r].alloc.gen < AfterPreemption(r).gen /\ preemptions[r] > 0)
<1>1. sched[r] \in State /\ Consistent(sched[r]) /\ preemptions[r] \in Nat
  BY DEF TypeOK, Serving, PlanesOk
<1>2. CASE WasPreempted(r)
  <2>1. r \in known /\ sched[r].phase = "worker_validated" /\ seen[r] + 1 = preemptions[r]
    BY <1>2, RuntimeLookupFacts
  <2>2. AfterPreemption(r) = Preempt(sched[r]) /\ PreemptOk(sched[r])
    BY <1>2, <2>1 DEF AfterPreemption, PreemptOk
  <2>3. AfterPreemption(r) \in State /\ Consistent(AfterPreemption(r))
    BY <1>1, <2>2, TransitionTypes, TransitionsConsistent
  <2>4. /\ AfterPreemption(r).phase = "looked_up" /\ AfterPreemption(r).plan = sched[r].plan
        /\ AfterPreemption(r).gen = sched[r].gen + 1
        /\ AfterPreemption(r).alloc = None /\ AfterPreemption(r).receipt = None
    BY <1>1, <2>1, <2>2, PreemptFacts
  <2>5. /\ worker[r].phase = "worker_validated" /\ worker[r].receipt = sched[r].receipt
        /\ Consistent(worker[r])
    BY <2>1 DEF Serving, WorkerOk, Recorded, PlanesOk
  <2>6. worker[r].alloc = sched[r].alloc /\ sched[r].alloc.gen = sched[r].gen
    BY <1>1, <2>1, <2>5 DEF Consistent
  <2>7. sched[r].gen \in Nat /\ seen[r] \in Nat
    BY <1>1, <2>1 DEF State, TypeOK, Serving, KnownOk
  <2> QED BY <1>1, <1>2, <2>1, <2>2, <2>3, <2>4, <2>6, <2>7
<1>3. CASE ~WasPreempted(r)
  <2>1. AfterPreemption(r) = sched[r]
    BY <1>3 DEF AfterPreemption
  <2>2. CASE r \in known
    <3>1. sched[r].phase = "looked_up"
      BY <1>3, <2>2, RuntimeLookupFacts
    <3>2. sched[r].alloc = None /\ sched[r].receipt = None
      BY <1>1, <3>1 DEF Consistent
    <3>3. worker[r].phase = "absent" \/ (worker[r].alloc.gen < sched[r].gen /\ preemptions[r] > 0)
      BY <2>2, <3>1 DEF Serving, WorkerOk, NotToldYet, IsOld
    <3> QED BY <1>1, <1>3, <2>1, <2>2, <3>1, <3>2, <3>3
  <2>3. CASE r \notin known
    <3>1. sched[r] = Absent /\ worker[r] = Absent
      BY <2>3 DEF Serving, KnownOk, Waiting
    <3>2. /\ Absent.phase = "absent" /\ Absent.alloc = None /\ Absent.receipt = None
      BY DEF Absent
    <3> QED BY <1>1, <1>3, <2>1, <2>3, <3>1, <3>2
  <2> QED BY <2>2, <2>3
<1> QED BY <1>2, <1>3

\* get_num_new_matched_tokens does not raise, and leaves a plan to be bound.
LEMMA LookupStep ==
  ASSUME IInv, NEW r \in Requests, GetNumNewMatchedTokens(r)
  PROVE  IInv'
<1> USE DEF Up, engineVars, workerVars
<1>0. /\ Serving /\ TypeOK /\ Waiting(r) /\ step = "schedule" /\ CanAdmit /\ raised = None
      /\ admitting = None
  BY DEF IInv, GetNumNewMatchedTokens, Waiting, Serving, AdmittingOk
<1>1. LookupError(r) = None
  <2>1. \A found \in RuntimeLookup(r) : LookupOk(AfterPreemption(r), found.plan)
    <3> SUFFICES ASSUME NEW found \in RuntimeLookup(r), r \in known
                 PROVE  AfterPreemption(r).plan = found.plan
      BY <1>0, AfterPreemptionFacts DEF LookupOk
    <3>1. ~transferEnabled => sched[r].plan = 0
      BY <1>0 DEF Serving, KnownOk
    <3> QED BY <1>0, <3>1, AfterPreemptionFacts, RuntimeLookupFacts
  <2>2. WasPreempted(r) => PreemptOk(sched[r])
    BY <1>0, AfterPreemptionFacts
  <2>3. RuntimeLookup(r) # {}
    BY <1>0, RuntimeLookupFacts
  <2> QED BY <2>1, <2>2, <2>3 DEF LookupError
<1>2. PICK found \in RuntimeLookup(r) :
        /\ seen' = [seen EXCEPT ![r] = preemptions[r]]
        /\ sched' = [sched EXCEPT ![r] = Lookup(AfterPreemption(r), found.plan)]
        /\ lookups' = IF transferEnabled
                        THEN [lookups EXCEPT ![r] = found] ELSE lookups
        /\ known' = known \cup {r}
        /\ step' = "admit"
        /\ admitting' = r
        /\ UNCHANGED raised
  BY <1>1 DEF GetNumNewMatchedTokens
<1>3. UNCHANGED <<engineVars, scheduled, finished, visited, pending, late,
                  workerVars, meta, output>>
  BY DEF GetNumNewMatchedTokens
<1> DEFINE s == Lookup(AfterPreemption(r), found.plan)
<1>4. /\ found \in StoredLookup /\ found.preemptions = preemptions[r] /\ found.plan \in Plan
      /\ transferEnabled \/ found.plan = 0
  <2> HIDE DEF Plan
  <2> QED BY <1>0, RuntimeLookupFacts DEF StoredLookup
<1>5. /\ s \in State /\ Consistent(s) /\ s.phase = "looked_up" /\ s.plan = found.plan
      /\ s.alloc = None /\ s.receipt = None
      /\ transferEnabled => s.gen = found.gen
      /\ worker[r].phase = "absent" \/ (worker[r].alloc.gen < s.gen /\ preemptions[r] > 0)
  <2>1. s \in State /\ Consistent(s)
    BY <1>0, <1>4, AfterPreemptionFacts, TransitionTypes, TransitionsConsistent
  <2>2. CASE r \in known
    <3>1. s = AfterPreemption(r)
      BY <1>0, <1>4, <2>2, AfterPreemptionFacts, LookupFacts
    <3>2. ~transferEnabled => sched[r].plan = 0
      BY <1>0 DEF Serving, KnownOk
    <3> HIDE DEF s
    <3> QED BY <1>0, <1>4, <2>1, <2>2, <3>1, <3>2, AfterPreemptionFacts, RuntimeLookupFacts
  <2>3. CASE r \notin known
    <3>1. /\ s.phase = "looked_up" /\ s.plan = found.plan /\ s.gen = 0
          /\ s.alloc = None /\ s.receipt = None
      BY <1>0, <1>4, <2>3, AfterPreemptionFacts, LookupFacts
    <3>2. worker[r].phase = "absent"
      BY <1>0, <2>3 DEF Serving, KnownOk, Waiting, Absent
    <3> HIDE DEF s
    <3> QED BY <1>0, <2>1, <2>3, <3>1, <3>2, RuntimeLookupFacts
  <2> QED BY <2>2, <2>3
<1>6. /\ sched'[r] = s /\ \A q \in Requests \ {r} : sched'[q] = sched[q]
      /\ seen'[r] = preemptions[r] /\ \A q \in Requests \ {r} : seen'[q] = seen[q]
      /\ lookups'[r] = (IF transferEnabled THEN found ELSE None)
      /\ \A q \in Requests \ {r} : lookups'[q] = lookups[q]
      /\ preemptions[r] # None /\ found # None
  <2>1. preemptions[r] \in Nat
    BY <1>0 DEF TypeOK
  <2>2. ~transferEnabled => lookups[r] = None
    BY <1>0 DEF Serving, KnownOk
  <2> QED BY <1>0, <1>2, <1>4, <2>1, <2>2, ConnectorNoneAssumption DEF TypeOK
<1>7. TypeOK'
  <2> HIDE DEF s
  <2>1. sched' \in [Requests -> State]
    BY <1>0, <1>2, <1>5 DEF TypeOK, s
  <2>2. seen' \in [Requests -> Nat \cup {None}]
    BY <1>0, <1>2 DEF TypeOK
  <2>3. lookups' \in [Requests -> StoredLookup \cup {None}]
    BY <1>0, <1>2, <1>4 DEF TypeOK
  <2> QED BY <1>0, <1>2, <1>3, <2>1, <2>2, <2>3 DEF TypeOK, Steps
<1> HIDE DEF s
<1>8. EngineOk'
  BY <1>0, <1>2, <1>3 DEF Serving, EngineOk, IsRunning, PromptLen
<1>9. KnownOk'
  <2> SUFFICES ASSUME NEW q \in Requests
               PROVE  /\ q \in known' <=> seen'[q] # None
                      /\ q \in known' => status[q] = "waiting" \/ status[q] = "running"
                      /\ q \in known' => sched'[q].phase # "absent"
                      /\ q \notin known' /\ status[q] # "done" =>
                           sched'[q] = Absent /\ worker[q] = Absent
                      /\ lookups'[q] # None <=> q \in known' /\ transferEnabled
                      /\ lookups'[q] # None =>
                           /\ lookups'[q].preemptions = seen'[q]
                           /\ lookups'[q].gen = sched'[q].gen
                           /\ lookups'[q].plan = sched'[q].plan
                      /\ ~transferEnabled => sched'[q].plan = 0
    BY <1>3 DEF KnownOk, Waiting, IsRunning
  <2>1. CASE q = r
    BY <1>0, <1>2, <1>4, <1>5, <1>6, <2>1 DEF Waiting
  <2>2. CASE q # r
    BY <1>0, <1>2, <1>6, <2>2 DEF Serving, KnownOk, Waiting, IsRunning
  <2> QED BY <2>1, <2>2
<1>10. WaitingOk' /\ RunningOk'
  BY <1>0, <1>2, <1>3, <1>5, <1>6, ConnectorAssumption
  DEF Serving, WaitingOk, RunningOk, Waiting, IsRunning
<1>11. AdmittingOk' /\ PendingOk'
  <2>1. transferEnabled => \A q \in Requests : ~IsRunning(q)
    BY <1>0, AdmitsAlone
  <2>2. r # None
    BY ConnectorAssumption
  <2> QED BY <1>0, <1>2, <1>3, <1>5, <1>6, <2>1, <2>2
      DEF Serving, AdmittingOk, PendingOk, Waiting, IsRunning
<1>12. receipts = {} /\ output = {} /\ late = {} /\ meta = None /\ active = None
  BY <1>0 DEF Serving, ReceiptsOk, OutputOk, LateOk, MetaOk, ActiveOk
<1>13. MetaOk' /\ ReceiptsOk' /\ OutputOk' /\ LateOk' /\ HandedOffOk'
  BY <1>0, <1>2, <1>3, <1>5, <1>6, <1>12
  DEF Serving, MetaOk, ReceiptsOk, OutputOk, LateOk, HandedOffOk, IsRunning
<1>14. WorkerOk'
  BY <1>0, <1>2, <1>3, <1>5, <1>6
  DEF Serving, WorkerOk, NotToldYet, IsOld, Recorded, Waiting
<1>15. DoneOk' /\ ActiveOk' /\ PlanesOk'
  BY <1>0, <1>2, <1>3, <1>5, <1>6, <1>12 DEF Serving, DoneOk, ActiveOk, PlanesOk, Waiting
<1>16. StoresAreComplete'
  BY <1>3 DEF IInv, StoresAreComplete, PromptLen
<1> QED BY <1>0, <1>2, <1>7, <1>8, <1>9, <1>10, <1>11, <1>13, <1>14, <1>15, <1>16,
           ServingSuffices DEF Serving

\* The lookup fails closed: the hook raises with the preemption already recorded.
LEMMA LookupFailsStep ==
  ASSUME IInv, NEW r \in Requests, LookupFailsClosed(r)
  PROVE  IInv'
<1> USE DEF LookupFailsClosed, Up, engineVars, workerVars
<1>0. Serving /\ TypeOK /\ Waiting(r)
  BY DEF IInv, Waiting
<1>1. /\ AfterPreemption(r) \in State /\ AfterPreemption(r).receipt = None
      /\ ~WasPreempted(r) => AfterPreemption(r).gen = sched[r].gen
      /\ WasPreempted(r) => r \in known /\ seen[r] + 1 = preemptions[r]
  BY <1>0, AfterPreemptionFacts, RuntimeLookupFacts
<1>2. /\ sched'[r] = AfterPreemption(r) /\ \A q \in Requests \ {r} : sched'[q] = sched[q]
      /\ seen'[r] = preemptions[r] /\ \A q \in Requests \ {r} : seen'[q] = seen[q]
  BY <1>0 DEF TypeOK
<1>3. TypeOK' /\ raised' # None
  <2>1. sched' \in [Requests -> State] /\ seen' \in [Requests -> Nat \cup {None}]
    BY <1>0, <1>1 DEF TypeOK
  <2> QED BY <1>0, <2>1, ConnectorNoneAssumption DEF TypeOK, Hooks
<1>4. OnlyKnownFailuresRaise'
  BY DEF OnlyKnownFailuresRaise, PreemptionFailures
<1>5. BoundToHeldBlocks'
  BY <1>0, <1>2 DEF IInv, BoundToHeldBlocks, Waiting
<1>6. DispositionsAgree'
  <2>1. preemptions[r] \in Nat /\ (r \in known => seen[r] \in Nat)
    BY <1>0 DEF TypeOK, Serving, KnownOk
  <2>2. lookups[r] # None => r \in known /\ lookups[r].preemptions = seen[r]
          /\ lookups[r].gen = sched[r].gen
    BY <1>0 DEF Serving, KnownOk
  <2>3. lookups[r] # None /\ lookups[r].preemptions = preemptions[r] =>
          lookups[r].gen = sched'[r].gen
    BY <1>1, <1>2, <2>1, <2>2
  <2> QED BY <1>1, <1>2, <2>3 DEF IInv, DispositionsAgree
<1>7. StoresAreComplete'
  BY DEF IInv, StoresAreComplete, PromptLen
<1> QED BY <1>3, <1>4, <1>5, <1>6, <1>7 DEF IInv

\* update_state_after_alloc binds the plan of the admitted request to blocks that
\* nobody holds.
LEMMA AllocateStep ==
  ASSUME IInv, NEW r \in Requests, NEW b \in BlockTables, UpdateStateAfterAlloc(r, b)
  PROVE  IInv'
<1> USE DEF Up, workerVars
<1>0. /\ Serving /\ TypeOK /\ step = "admit" /\ r = admitting /\ raised = None
      /\ \A q \in Requests : held[q] # b
      /\ Waiting(r) /\ r \in known /\ seen[r] = preemptions[r] /\ sched[r].phase = "looked_up"
      /\ transferEnabled => \A q \in Requests : ~IsRunning(q)
  BY DEF IInv, UpdateStateAfterAlloc, Serving, AdmittingOk
<1>1. AllocateOk(sched[r], b)
  BY <1>0 DEF AllocateOk
<1>2. /\ sched' = [sched EXCEPT ![r] = Allocate(@, b)]
      /\ pending' = pending \cup {r}
      /\ status' = [status EXCEPT ![r] = "running"]
      /\ held' = [held EXCEPT ![r] = b]
      /\ scheduled' = [scheduled EXCEPT ![r] = Min2(Budget, Remaining(r))]
      /\ step' = "schedule"
      /\ admitting' = None
      /\ UNCHANGED raised
  BY <1>0, <1>1 DEF UpdateStateAfterAlloc
<1>3. UNCHANGED <<transferEnabled, workload, preemptions, computed, outputs, finished, visited,
                  known, seen, late, lookups, worker, active, receipts, stored, meta, output>>
  BY DEF UpdateStateAfterAlloc
<1> DEFINE s == Allocate(sched[r], b)
<1>4. /\ s \in State /\ Consistent(s) /\ s.phase = "allocated" /\ s.plan = sched[r].plan
      /\ s.gen = sched[r].gen /\ s.alloc # None /\ s.alloc.blocks = b
      /\ sched[r] \in State
  <2>1. sched[r] \in State /\ Consistent(sched[r])
    BY <1>0 DEF TypeOK, Serving, PlanesOk
  <2>2. s \in State /\ Consistent(s)
    BY <1>1, <2>1, TransitionTypes, TransitionsConsistent
  <2>3. /\ s.phase = "allocated" /\ s.plan = sched[r].plan /\ s.gen = sched[r].gen
        /\ s.alloc # None /\ s.alloc = [gen |-> sched[r].gen, blocks |-> b]
    BY <1>0, <2>1, AllocateFacts
  <2> HIDE DEF s
  <2> QED BY <2>1, <2>2, <2>3
<1> HIDE DEF s
<1>5. /\ sched'[r] = s /\ \A q \in Requests \ {r} : sched'[q] = sched[q]
      /\ status'[r] = "running" /\ \A q \in Requests \ {r} : status'[q] = status[q]
      /\ held'[r] = b /\ \A q \in Requests \ {r} : held'[q] = held[q]
      /\ \A q \in Requests \ {r} : scheduled'[q] = scheduled[q]
  BY <1>0, <1>2 DEF TypeOK, s
<1>6. /\ scheduled'[r] \in Nat /\ r \in DOMAIN PromptLen
      /\ computed[r] + scheduled'[r] <= PromptLen[r] + outputs[r]
  <2>1. /\ r \in DOMAIN PromptLen /\ PromptLen[r] \in Nat /\ Budget \in Nat
        /\ computed[r] \in Nat /\ outputs[r] \in Nat
    BY <1>0, PromptFacts, ConnectorAssumption DEF TypeOK, Serving, EngineOk, Waiting
  <2>2. computed[r] <= PromptLen[r] + outputs[r]
    BY <1>0, <2>1 DEF Serving, EngineOk, Waiting, IsRunning
  <2>3. scheduled'[r] = Min2(Budget, PromptLen[r] + outputs[r] - computed[r])
    BY <1>0, <1>2 DEF TypeOK, Remaining
  <2> QED BY <2>1, <2>2, <2>3 DEF Min2
<1>7. TypeOK'
  <2>1. /\ sched' \in [Requests -> State] /\ scheduled' \in [Requests -> Nat]
        /\ held' \in [Requests -> BlockTables \cup {None}]
    BY <1>0, <1>2, <1>4, <1>5, <1>6 DEF TypeOK
  <2> QED BY <1>0, <1>2, <1>3, <2>1 DEF TypeOK, Steps
<1>8. EngineOk'
  BY <1>0, <1>2, <1>3, <1>5, <1>6 DEF Serving, EngineOk, IsRunning, Waiting, PromptLen
<1>9. KnownOk'
  BY <1>0, <1>2, <1>3, <1>4, <1>5 DEF Serving, KnownOk, IsRunning, Waiting
<1>10. WaitingOk' /\ RunningOk'
  <2>1. WaitingOk'
    BY <1>0, <1>2, <1>3, <1>5 DEF Serving, WaitingOk, Waiting
  <2>2. RunningOk'
    BY <1>0, <1>2, <1>3, <1>4, <1>5 DEF Serving, RunningOk, IsRunning
  <2> QED BY <2>1, <2>2
<1>11. AdmittingOk' /\ PendingOk'
  <2>1. \A q \in pending : q \in Requests
    BY <1>0 DEF TypeOK
  <2> QED BY <1>0, <1>2, <1>3, <1>5, <2>1 DEF Serving, AdmittingOk, PendingOk, IsRunning
<1>12. receipts = {} /\ output = {} /\ late = {} /\ meta = None /\ active = None
  BY <1>0 DEF Serving, ReceiptsOk, OutputOk, LateOk, MetaOk, ActiveOk
<1>13. MetaOk' /\ ReceiptsOk' /\ OutputOk' /\ LateOk' /\ HandedOffOk'
  <2>1. \A q \in finished : q \in Requests
    BY <1>0 DEF TypeOK
  <2> QED BY <1>0, <1>2, <1>3, <1>4, <1>5, <1>12, <2>1
      DEF Serving, MetaOk, ReceiptsOk, OutputOk, LateOk, HandedOffOk, IsRunning, Waiting
<1>14. WorkerOk'
  BY <1>0, <1>2, <1>3, <1>4, <1>5 DEF Serving, WorkerOk, NotToldYet, IsOld, Recorded
<1>15. DoneOk' /\ ActiveOk' /\ PlanesOk'
  BY <1>0, <1>2, <1>3, <1>4, <1>5, <1>12 DEF Serving, DoneOk, ActiveOk, PlanesOk, Waiting
<1>16. StoresAreComplete'
  BY <1>3 DEF IInv, StoresAreComplete, PromptLen
<1> QED BY <1>0, <1>2, <1>7, <1>8, <1>9, <1>10, <1>11, <1>13, <1>14, <1>15, <1>16,
           ServingSuffices DEF Serving

\* Without free blocks, which other running requests must hold, the request
\* waits on.
LEMMA AllocationFailsStep ==
  ASSUME IInv, AllocationFails
  PROVE  IInv'
<1> USE DEF AllocationFails, Up, engineVars, schedVars, workerVars
<1>0. Serving /\ TypeOK
  BY DEF IInv
<1>1. ~transferEnabled
  <2> SUFFICES ASSUME transferEnabled PROVE FALSE
    OBVIOUS
  <2>1. PICK b \in BlockTables : TRUE
    BY ConnectorAssumption
  <2>2. PICK q \in Requests : held[q] = b
    BY <2>1
  <2>3. held[q] = None
    BY <1>0 DEF Serving, AdmittingOk, EngineOk
  <2> QED BY <2>1, <2>2, <2>3, ConnectorAssumption
<1>2. TypeOK'
  BY <1>0 DEF TypeOK, Steps
<1>3. EngineOk'
  BY <1>0 DEF Serving, EngineOk, IsRunning, PromptLen
<1>4. KnownOk' /\ WaitingOk' /\ RunningOk' /\ AdmittingOk' /\ PendingOk'
  BY <1>0, <1>1 DEF Serving, KnownOk, WaitingOk, RunningOk, AdmittingOk, PendingOk,
     IsRunning, Waiting
<1>5. MetaOk' /\ ReceiptsOk' /\ OutputOk' /\ LateOk' /\ HandedOffOk'
  BY <1>0 DEF Serving, MetaOk, ReceiptsOk, OutputOk, LateOk, HandedOffOk, IsRunning
<1>6. WorkerOk' /\ DoneOk' /\ ActiveOk' /\ PlanesOk'
  BY <1>0 DEF Serving, WorkerOk, DoneOk, ActiveOk, PlanesOk, IsRunning, NotToldYet, IsOld
<1>7. StoresAreComplete'
  BY DEF IInv, StoresAreComplete, PromptLen
<1> QED BY <1>2, <1>3, <1>4, <1>5, <1>6, <1>7, ServingSuffices DEF Serving

\* The allocations a step hands off are of running requests of the plane's and the
\* runtime's generation, so only a resumed request can make the hook raise.
LEMMA BuildErrors ==
  ASSUME TypeOK, Serving, step \in {"build", "schedule"}
  PROVE  /\ \A r \in pending : r \in Requests /\ IsRunning(r) /\ sched[r].phase = "allocated"
                                 /\ HandOffOk(sched[r])
         /\ BuildError # None =>
              /\ BuildError = "scheduled_tokens" /\ transferEnabled
              /\ \E r \in Requests : preemptions[r] > 0
              /\ \E r \in Requests : outputs[r] > 0
<1>1. ASSUME NEW r \in pending
      PROVE  r \in Requests /\ IsRunning(r) /\ sched[r].phase = "allocated" /\ HandOffOk(sched[r])
  BY DEF TypeOK, Serving, PendingOk, RunningOk, HandOffOk
<1>2. ASSUME transferEnabled, NEW r \in pending
      PROVE  /\ lookups[r] # None /\ sched[r].alloc.gen = lookups[r].gen
             /\ scheduled[r] > PromptLen[r] => preemptions[r] > 0 /\ outputs[r] > 0
  <2>1. lookups[r] # None /\ lookups[r].gen = sched[r].gen
    BY <1>1, <1>2 DEF Serving, RunningOk, KnownOk
  <2>2. sched[r].alloc.gen = sched[r].gen
    BY <1>1 DEF Serving, PlanesOk, Consistent
  <2>3. /\ r \in DOMAIN PromptLen /\ PromptLen[r] \in Nat
        /\ computed[r] = 0 /\ scheduled[r] \in Nat /\ outputs[r] \in Nat /\ preemptions[r] \in Nat
        /\ preemptions[r] = 0 => outputs[r] = 0
        /\ computed[r] + scheduled[r] <= PromptLen[r] + outputs[r]
    BY <1>1, PromptFacts DEF Serving, EngineOk, TypeOK, IsRunning
  <2> QED BY <2>1, <2>2, <2>3
<1>3. BuildError # None => transferEnabled /\ BuildError = "scheduled_tokens"
          /\ \E r \in pending : scheduled[r] > PromptLen[r]
  BY <1>1, <1>2 DEF BuildError
<1> QED BY <1>1, <1>2, <1>3

\* build_connector_meta hands every new allocation off.
LEMMA BuildStep ==
  ASSUME IInv, BuildConnectorMeta
  PROVE  IInv'
<1> USE DEF Up, engineVars, workerVars
<1>0. Serving /\ TypeOK /\ step \in {"build", "schedule"} /\ raised = None
  BY DEF IInv, BuildConnectorMeta
<1>1. UNCHANGED <<transferEnabled, workload, status, preemptions, computed, outputs, held,
                  scheduled, admitting, visited, known, seen, late,
                  lookups, worker, active, receipts, stored, output>>
  BY DEF BuildConnectorMeta
<1>2. CASE BuildError # None
  <2>1. /\ raised' = BuildError /\ UNCHANGED <<sched, meta, pending, finished, step>>
        /\ BuildError = "scheduled_tokens" /\ transferEnabled
        /\ \E r \in Requests : preemptions[r] > 0
        /\ \E r \in Requests : outputs[r] > 0
    BY <1>0, <1>2, BuildErrors DEF BuildConnectorMeta
  <2>2. TypeOK' /\ raised' # None
    BY <1>0, <1>1, <2>1, ConnectorNoneAssumption DEF TypeOK, Hooks
  <2>3. OnlyKnownFailuresRaise'
    BY <1>1, <2>1 DEF OnlyKnownFailuresRaise, PreemptionFailures
  <2> QED BY <1>1, <2>1, <2>2, <2>3, RaiseSuffices
<1>3. CASE BuildError = None
  <2> DEFINE sent == {HandoffMetadata(r, sched[r]) : r \in pending}
             moved == IF transferEnabled THEN {r \in pending : TransferFits(r)} ELSE {}
  <2>1. /\ sched' = [r \in Requests |->
                      IF r \in pending THEN HandOff(sched[r]) ELSE sched[r]]
        /\ meta' = [handoffs |-> sent, transfers |-> moved, finished |-> finished]
        /\ pending' = {} /\ finished' = {} /\ step' = "load" /\ UNCHANGED raised
    BY <1>3 DEF BuildConnectorMeta
  <2>2. /\ meta'.handoffs = sent /\ meta'.transfers = moved /\ meta'.finished = finished
    BY <2>1
  <2>3. ASSUME NEW r \in pending
        PROVE  /\ r \in Requests /\ IsRunning(r) /\ sched[r].phase = "allocated"
               /\ sched'[r] \in State /\ Consistent(sched'[r])
               /\ sched'[r].phase = "handed_off"
               /\ sched'[r].plan = sched[r].plan /\ sched'[r].gen = sched[r].gen
               /\ sched'[r].alloc = sched[r].alloc
               /\ HandoffMetadata(r, sched[r]) = HandoffMetadata(r, sched'[r])
               /\ HandoffMetadata(r, sched[r]) \in Handoff
    <3>1. /\ r \in Requests /\ IsRunning(r) /\ sched[r].phase = "allocated"
          /\ HandOffOk(sched[r]) /\ sched[r] \in State /\ Consistent(sched[r])
      BY <1>0, BuildErrors DEF TypeOK, Serving, PlanesOk
    <3>2. sched'[r] = HandOff(sched[r])
      BY <2>1, <3>1
    <3>3. HandOff(sched[r]).phase = "handed_off"
      BY <3>1 DEF HandOff, State
    <3>4. HandOff(sched[r]) \in State /\ Consistent(HandOff(sched[r]))
      BY <3>1, TransitionTypes, TransitionsConsistent
    <3>5. HandoffMetadata(r, sched[r]) \in Handoff
      BY <3>1, HandoffType
    <3> QED BY <3>1, <3>2, <3>3, <3>4, <3>5, HandOffFacts
  <2>4. \A r \in Requests \ pending : sched'[r] = sched[r]
    BY <2>1
  <2>5. /\ \A h \in sent : h \in Handoff /\ h.req \in pending
                           /\ h = HandoffMetadata(h.req, sched'[h.req])
        /\ \A r \in pending : \E h \in sent : h.req = r
    <3>1. \A r : HandoffMetadata(r, sched[r]).req = r
      BY DEF HandoffMetadata
    <3> QED BY <2>3, <3>1
  <2>6. /\ \A r \in moved : r \in pending /\ transferEnabled /\ scheduled[r] = PromptLen[r]
    BY DEF TransferFits
  <2> HIDE DEF sent, moved
  <2>7. TypeOK'
    <3>1. sched' \in [Requests -> State]
      BY <1>0, <2>1, <2>3, <2>4 DEF TypeOK
    <3>2. moved \subseteq Requests /\ sent \subseteq Handoff /\ finished \subseteq Requests
      BY <1>0, <2>5, <2>6 DEF TypeOK
    <3>3. meta' \in Metadata
      BY <2>1, <3>2 DEF Metadata
    <3> QED BY <1>0, <1>1, <2>1, <3>1, <3>3 DEF TypeOK, Steps
  <2>8. meta' # None
    <3>1. moved \subseteq Requests /\ sent \subseteq Handoff /\ finished \subseteq Requests
      BY <1>0, <2>5, <2>6 DEF TypeOK
    <3> QED BY <2>1, <3>1, ConnectorNoneAssumption DEF Metadata
  <2>9. receipts = {} /\ output = {} /\ late = {} /\ active = None /\ admitting = None
    BY <1>0 DEF Serving, ReceiptsOk, OutputOk, LateOk, ActiveOk, AdmittingOk
  <2>10. \A r \in Requests : sched[r].phase # "handed_off"
    BY <1>0, <2>9 DEF Serving, HandedOffOk
  <2>11. EngineOk'
    BY <1>0, <1>1, <2>1 DEF Serving, EngineOk, IsRunning, PromptLen
  <2>12. KnownOk'
    <3>1. \A r \in Requests : /\ sched'[r].plan = sched[r].plan /\ sched'[r].gen = sched[r].gen
                              /\ r \notin pending => sched'[r] = sched[r]
                              /\ r \in pending => sched'[r].phase # "absent"
                                                  /\ r \in known
      BY <1>0, <2>3, <2>4 DEF Serving, RunningOk
    <3> QED BY <1>0, <1>1, <3>1 DEF Serving, KnownOk, IsRunning, Waiting
  <2>13. WaitingOk' /\ AdmittingOk' /\ PendingOk'
    BY <1>0, <1>1, <2>1, <2>3, <2>4, <2>9
    DEF Serving, WaitingOk, AdmittingOk, PendingOk, IsRunning, Waiting
  <2>14. RunningOk'
    BY <1>0, <1>1, <2>1, <2>3, <2>4 DEF Serving, RunningOk, IsRunning
  <2>15. MetaOk'
    <3>1. \A h \in sent : h.req \in Requests /\ IsRunning(h.req)
                          /\ sched'[h.req].phase = "handed_off"
      BY <2>3, <2>5
    <3>2. \A r \in moved : \E h \in sent : h.req = r
      BY <2>5, <2>6
    <3> QED BY <1>0, <1>1, <2>1, <2>2, <2>5, <2>6, <2>8, <3>1, <3>2
        DEF Serving, MetaOk, IsRunning, PromptLen
  <2>16. ReceiptsOk' /\ OutputOk' /\ LateOk'
    BY <1>1, <2>9 DEF ReceiptsOk, OutputOk, LateOk
  <2>17. HandedOffOk'
    BY <2>1, <2>2, <2>4, <2>5, <2>10 DEF HandedOffOk
  <2>18. WorkerOk'
    <3> SUFFICES ASSUME NEW r \in Requests
                 PROVE  /\ worker[r].phase \in {"absent", "worker_validated"}
                        /\ r \in known /\ NotToldYet(r)' =>
                             worker[r].phase = "absent" \/ IsOld(r)'
                        /\ r \in known /\ sched'[r].phase = "worker_validated" =>
                             Recorded(worker[r], sched'[r].receipt)
                        /\ status[r] = "done" /\ worker[r].phase # "absent" =>
                             r \in meta'.finished
      BY <1>1, <2>1 DEF WorkerOk, Recorded
    <3>1. status[r] = "done" /\ worker[r].phase # "absent" => r \in finished
      BY <1>0 DEF Serving, WorkerOk
    <3>2. CASE r \in pending
      BY <1>0, <1>1, <2>2, <2>3, <3>1, <3>2 DEF Serving, WorkerOk, NotToldYet, IsOld
    <3>3. CASE r \notin pending
      <4>1. sched'[r] = sched[r] /\ sched[r].phase # "handed_off"
        BY <2>4, <2>10, <3>3
      <4> QED BY <1>0, <1>1, <2>2, <3>1, <4>1 DEF Serving, WorkerOk, NotToldYet, IsOld, Recorded
    <3> QED BY <3>2, <3>3
  <2>19. DoneOk' /\ ActiveOk' /\ PlanesOk'
    BY <1>0, <1>1, <2>3, <2>4, <2>9 DEF Serving, DoneOk, ActiveOk, PlanesOk, IsRunning
  <2>20. StoresAreComplete'
    BY <1>1 DEF IInv, StoresAreComplete, PromptLen
  <2> QED BY <1>0, <2>1, <2>7, <2>11, <2>12, <2>13, <2>14, <2>15, <2>16, <2>17, <2>18, <2>19,
             <2>20, ServingSuffices DEF Serving
<1> QED BY <1>2, <1>3

-----------------------------------------------------------------------------
(* Worker-role hooks.                                                      *)

\* A handoff the worker accepts is of a request it did not have: the state of an
\* earlier generation is in conflict with it.
LEMMA AcceptedIsNew ==
  ASSUME TypeOK, Serving, step = "load", NEW h \in meta.handoffs
  PROVE  /\ h \in Handoff /\ h.req \in Requests /\ IsRunning(h.req)
         /\ sched[h.req].phase = "handed_off" /\ h = HandoffMetadata(h.req, sched[h.req])
         /\ h.alloc = sched[h.req].alloc /\ h.plan = sched[h.req].plan
         /\ AcceptOk(worker[h.req], h) => worker[h.req].phase = "absent"
         /\ ~AcceptOk(worker[h.req], h) => preemptions[h.req] > 0
<1>1. meta \in Metadata
  BY DEF TypeOK, Serving, MetaOk
<1>2. h \in Handoff /\ h.req \in Requests
  BY <1>1 DEF Metadata, Handoff
<1>3. /\ IsRunning(h.req) /\ sched[h.req].phase = "handed_off"
      /\ h = HandoffMetadata(h.req, sched[h.req])
  BY DEF Serving, MetaOk
<1>4. h.alloc = sched[h.req].alloc /\ h.plan = sched[h.req].plan
  BY <1>3 DEF HandoffMetadata
<1>5. worker[h.req].phase = "absent" \/ IsOld(h.req)
  BY <1>2, <1>3 DEF Serving, RunningOk, WorkerOk, NotToldYet
<1>6. h.alloc.gen = sched[h.req].gen /\ sched[h.req].gen \in Nat
  BY <1>2, <1>3, <1>4 DEF Serving, PlanesOk, Consistent, TypeOK, State
<1>7. ASSUME IsOld(h.req) PROVE HandoffMetadata(h.req, worker[h.req]) # h
  <2>1. worker[h.req].alloc.gen # h.alloc.gen
    BY <1>2, <1>6, <1>7 DEF IsOld
  <2>2. HandoffMetadata(h.req, worker[h.req]).alloc = worker[h.req].alloc
    BY DEF HandoffMetadata
  <2> QED BY <2>1, <2>2
<1>8. AcceptOk(worker[h.req], h) => worker[h.req].phase = "absent"
  BY <1>5, <1>7 DEF AcceptOk
<1>9. ~AcceptOk(worker[h.req], h) => preemptions[h.req] > 0
  BY <1>5 DEF AcceptOk, IsOld
<1> QED BY <1>2, <1>3, <1>4, <1>8, <1>9

\* What start_load_kv makes of a handoff: a complete receipt for the scheduler's
\* allocation, and a worker state that records it.
LEMMA LoadFacts ==
  ASSUME TypeOK, Serving, step = "load", NEW loadedReqs, NEW h \in meta.handoffs,
         worker[h.req].phase = "absent"
  PROVE  /\ LoadReceipt(h, loadedReqs) \in Receipt
         /\ LoadReceipt(h, loadedReqs).req = h.req
         /\ Awaits(sched[h.req], LoadReceipt(h, loadedReqs))
         /\ ApplyReceiptOk(Accept(worker[h.req], h), LoadReceipt(h, loadedReqs))
         /\ LET w == ApplyReceipt(Accept(worker[h.req], h), LoadReceipt(h, loadedReqs))
            IN  w \in State /\ Consistent(w) /\ Recorded(w, LoadReceipt(h, loadedReqs))
<1> DEFINE a == Accept(worker[h.req], h)
           loaded == IF h.req \in loadedReqs THEN Matches(h.plan) ELSE {}
           rc == LoadReceipt(h, loadedReqs)
<1>1. /\ h \in Handoff /\ h.req \in Requests /\ sched[h.req].phase = "handed_off"
      /\ h.alloc = sched[h.req].alloc /\ h.plan = sched[h.req].plan
      /\ worker[h.req] \in State /\ Consistent(worker[h.req])
  BY AcceptedIsNew DEF TypeOK, Serving, PlanesOk
<1>2. /\ a \in State /\ Consistent(a) /\ a.phase = "handed_off" /\ a.plan = h.plan
      /\ a.alloc = h.alloc /\ a.alloc # None
  <2>1. a \in State /\ Consistent(a)
    BY <1>1, TransitionTypes, TransitionsConsistent
  <2>2. a.phase = "handed_off" /\ a.plan = h.plan /\ a.alloc = h.alloc
    BY <1>1, AcceptFacts
  <2> HIDE DEF a
  <2> QED BY <2>1, <2>2 DEF Consistent
<1>3. loaded \subseteq Matches(a.plan)
  BY <1>2
<1>4. rc = WorkerReceipt(h.req, a, loaded)
  BY DEF LoadReceipt
<1> HIDE DEF a, rc, loaded
<1>5. rc \in Receipt
  BY <1>1, <1>2, <1>3, <1>4, WorkerReceiptType
<1>6. rc.req = h.req /\ rc.alloc = a.alloc /\ rc.loaded \cup rc.rejected = Matches(a.plan)
  BY <1>3, <1>4 DEF WorkerReceipt
<1>7. ApplyReceiptOk(a, rc)
  BY <1>2, <1>6 DEF ApplyReceiptOk
<1>8. Awaits(sched[h.req], rc)
  BY <1>1, <1>2, <1>6 DEF Awaits
<1>9. /\ ApplyReceipt(a, rc) \in State /\ Consistent(ApplyReceipt(a, rc))
      /\ Recorded(ApplyReceipt(a, rc), rc)
  BY <1>2, <1>5, <1>7, TransitionTypes, TransitionsConsistent, ApplyReceiptFacts DEF Recorded
<1> QED BY <1>5, <1>6, <1>7, <1>8, <1>9 DEF a, rc

\* Transfer mode moves one request at a time.
LEMMA OneTransfer ==
  ASSUME TypeOK, Serving, step = "load"
  PROVE  /\ ~(Cardinality(meta.transfers) > 1)
         /\ \A r \in meta.transfers :
              /\ r \in Requests /\ transferEnabled /\ IsRunning(r)
              /\ scheduled[r] = PromptLen[r] /\ scheduled[r] > 0
              /\ \E h \in meta.handoffs : h.req = r
<1>1. meta.transfers \subseteq Requests
  BY DEF TypeOK, Serving, MetaOk, Metadata
<1>2. ASSUME NEW r \in meta.transfers
      PROVE  /\ r \in Requests /\ transferEnabled /\ IsRunning(r)
             /\ scheduled[r] = PromptLen[r] /\ scheduled[r] > 0
             /\ \E h \in meta.handoffs : h.req = r
  <2>1. /\ transferEnabled /\ scheduled[r] = PromptLen[r]
        /\ \E h \in meta.handoffs : h.req = r
    BY DEF Serving, MetaOk
  <2>2. IsRunning(r)
    BY <2>1 DEF Serving, MetaOk
  <2>3. PromptLen[r] \in Nat \ {0}
    BY <1>1, <2>2, PromptFacts DEF Serving, EngineOk, IsRunning
  <2> QED BY <1>1, <2>1, <2>2, <2>3
<1>3. \A q, r \in meta.transfers : q = r
  BY <1>1, <1>2 DEF Serving, EngineOk
<1>4. CASE meta.transfers = {}
  <2>1. Cardinality(meta.transfers) = 0
    BY <1>4, FS_EmptySet
  <2> QED BY <1>2, <2>1
<1>5. CASE meta.transfers # {}
  <2>1. PICK r \in meta.transfers : TRUE
    BY <1>5
  <2>2. meta.transfers = {r}
    BY <1>3, <2>1
  <2>3. Cardinality(meta.transfers) = 1
    BY <2>2, FS_Singleton
  <2> QED BY <1>2, <2>3
<1> QED BY <1>4, <1>5

\* start_load_kv raises for a resumed request only, and leaves a receipt for every
\* handoff.
LEMMA StartStep ==
  ASSUME IInv, NEW loadedReqs, StartLoadKv(loadedReqs)
  PROVE  IInv'
<1> USE DEF Up, engineVars, schedVars
<1>0. /\ Serving /\ TypeOK /\ step = "load" /\ raised = None
      /\ receipts = {} /\ output = {} /\ late = {} /\ active = None /\ meta # None
  BY DEF IInv, StartLoadKv, Serving, ReceiptsOk, OutputOk, LateOk, ActiveOk, MetaOk
<1>1. UNCHANGED <<transferEnabled, workload, status, preemptions, computed, outputs, held,
                  scheduled, finished, admitting, sched, known, seen, pending, late, lookups,
                  stored, meta, output>>
  BY DEF StartLoadKv
<1>2. CASE \E h \in meta.handoffs : ~AcceptOk(worker[h.req], h)
  <2>1. StartError(loadedReqs) = "accept_conflict"
    BY <1>0, <1>2, OneTransfer DEF StartError
  <2>2. \E r \in Requests : preemptions[r] > 0
    BY <1>0, <1>2, AcceptedIsNew
  <2>3. raised' = "accept_conflict" /\ UNCHANGED <<worker, receipts, active, visited, step>>
    BY <2>1, ConnectorNoneAssumption DEF StartLoadKv, Hooks
  <2>4. TypeOK' /\ raised' # None
    BY <1>0, <1>1, <2>3, ConnectorNoneAssumption DEF TypeOK, Hooks
  <2>5. OnlyKnownFailuresRaise'
    BY <1>1, <2>2, <2>3 DEF OnlyKnownFailuresRaise, PreemptionFailures
  <2> QED BY <1>1, <2>3, <2>4, <2>5, RaiseSuffices
<1>3. CASE \A h \in meta.handoffs : AcceptOk(worker[h.req], h)
  <2>1. \A h \in meta.handoffs : worker[h.req].phase = "absent"
    BY <1>0, <1>3, AcceptedIsNew
  <2>2. StartError(loadedReqs) = None
    BY <1>0, <1>3, <2>1, OneTransfer, LoadFacts DEF StartError
  <2>3. /\ worker' = [r \in Requests |->
             IF \E h \in meta.handoffs : h.req = r
               THEN LET h == CHOOSE x \in meta.handoffs : x.req = r
                    IN  ApplyReceipt(Accept(worker[r], h), LoadReceipt(h, loadedReqs))
               ELSE worker[r]]
        /\ receipts' = receipts \cup
             {ReportedReceipt(h, loadedReqs) : h \in meta.handoffs}
        /\ active' = IF meta.transfers = {} THEN None
             ELSE LET h == CHOOSE x \in meta.handoffs : x.req \in meta.transfers
                  IN  [req |-> h.req, alloc |-> h.alloc, saved |-> {}]
        /\ visited' = {}
        /\ step' = IF \E r \in Requests : scheduled[r] > 0
                     THEN "forward" ELSE "collect"
        /\ UNCHANGED raised
    BY <2>2 DEF StartLoadKv
  <2>4. receipts' = {LoadReceipt(h, loadedReqs) : h \in meta.handoffs}
    BY <1>0, <2>3 DEF ReportedReceipt
  <2>5. ASSUME NEW h \in meta.handoffs
        PROVE  /\ worker'[h.req] \in State /\ Consistent(worker'[h.req])
               /\ Recorded(worker'[h.req], LoadReceipt(h, loadedReqs))
               /\ worker'[h.req].phase = "worker_validated"
    <3>1. h.req \in Requests
      BY <1>0, AcceptedIsNew
    <3>2. (CHOOSE x \in meta.handoffs : x.req = h.req) = h
      BY <1>0, AcceptedIsNew
    <3>3. worker'[h.req] = ApplyReceipt(Accept(worker[h.req], h), LoadReceipt(h, loadedReqs))
      BY <2>3, <3>1, <3>2
    <3> QED BY <1>0, <2>1, <3>3, LoadFacts DEF Recorded
  <2>6. \A r \in Requests : (\A h \in meta.handoffs : h.req # r) => worker'[r] = worker[r]
    BY <2>3
  <2>7. ASSUME NEW rc \in receipts'
        PROVE  /\ rc \in Receipt /\ IsRunning(rc.req) /\ Awaits(sched[rc.req], rc)
               /\ Recorded(worker'[rc.req], rc)
    <3>1. PICK h \in meta.handoffs : rc = LoadReceipt(h, loadedReqs)
      BY <2>4
    <3> QED BY <1>0, <2>1, <2>5, <3>1, LoadFacts, AcceptedIsNew
  <2>8. /\ active' \in ActiveTransfer \cup {None}
        /\ active' # None =>
             /\ step' = "forward" /\ transferEnabled /\ IsRunning(active'.req)
             /\ held[active'.req] = active'.alloc.blocks
             /\ scheduled[active'.req] = PromptLen[active'.req]
             /\ active'.saved = {}
    <3>1. CASE meta.transfers = {}
      BY <2>3, <3>1
    <3>2. CASE meta.transfers # {}
      <4>1. \E x \in meta.handoffs : x.req \in meta.transfers
        BY <1>0, <3>2, OneTransfer
      <4> DEFINE h == CHOOSE x \in meta.handoffs : x.req \in meta.transfers
      <4>2. h \in meta.handoffs /\ h.req \in meta.transfers
        BY <4>1
      <4>3. active' = [req |-> h.req, alloc |-> h.alloc, saved |-> {}]
        BY <2>3, <3>2
      <4> HIDE DEF h
      <4>4. /\ transferEnabled /\ IsRunning(h.req) /\ h.req \in Requests
            /\ scheduled[h.req] = PromptLen[h.req] /\ step' = "forward"
        BY <1>0, <2>3, <4>2, OneTransfer
      <4>5. h \in Handoff /\ h.alloc = sched[h.req].alloc
        BY <1>0, <4>2, AcceptedIsNew
      <4>6. held[h.req] = h.alloc.blocks
        BY <1>0, <4>4, <4>5 DEF Serving, RunningOk
      <4>7. h.alloc \in Allocation
        BY <4>5 DEF Handoff
      <4> QED BY <4>3, <4>4, <4>6, <4>7 DEF ActiveTransfer
    <3> QED BY <3>1, <3>2
  <2>9. TypeOK'
    <3>1. worker' \in [Requests -> State]
      <4>1. \A r \in Requests : worker'[r] \in State
        BY <1>0, <2>5, <2>6 DEF TypeOK
      <4> QED BY <2>3, <4>1
    <3>2. receipts' \subseteq Receipt /\ step' \in Steps
      BY <2>3, <2>7 DEF Steps
    <3> QED BY <1>0, <1>1, <2>3, <2>8, <3>1, <3>2 DEF TypeOK
  <2>10. step' \in {"forward", "collect"}
    BY <2>3
  <2>11. EngineOk'
    BY <1>0, <1>1, <2>10 DEF Serving, EngineOk, IsRunning, PromptLen
  <2>12. KnownOk'
    <3>1. ASSUME NEW h \in meta.handoffs PROVE h.req \in known
      BY <1>0, AcceptedIsNew DEF Serving, RunningOk
    <3> QED BY <1>0, <1>1, <2>6, <3>1 DEF Serving, KnownOk, IsRunning, Waiting
  <2>13. WaitingOk' /\ RunningOk' /\ AdmittingOk' /\ PendingOk'
    BY <1>0, <1>1, <2>10
    DEF Serving, WaitingOk, RunningOk, AdmittingOk, PendingOk, IsRunning, Waiting
  <2>14. MetaOk'
    BY <1>0, <1>1, <2>10 DEF Serving, MetaOk
  <2>15. ReceiptsOk' /\ OutputOk' /\ LateOk'
    BY <1>0, <1>1, <2>7, <2>10 DEF ReceiptsOk, OutputOk, LateOk, IsRunning
  <2>16. HandedOffOk'
    <3> SUFFICES ASSUME NEW r \in Requests, sched[r].phase = "handed_off"
                 PROVE  \E rc \in receipts' : rc.req = r
      BY <1>1 DEF HandedOffOk
    <3>1. PICK h \in meta.handoffs : h.req = r
      BY <1>0 DEF Serving, HandedOffOk
    <3>2. LoadReceipt(h, loadedReqs).req = r
      BY <1>0, <2>1, <3>1, LoadFacts
    <3> QED BY <2>4, <3>1, <3>2
  <2>17. WorkerOk'
    <3> SUFFICES ASSUME NEW r \in Requests
                 PROVE  /\ worker'[r].phase \in {"absent", "worker_validated"}
                        /\ r \in known /\ NotToldYet(r)' =>
                             worker'[r].phase = "absent" \/ IsOld(r)'
                        /\ r \in known /\ sched[r].phase = "worker_validated" =>
                             Recorded(worker'[r], sched[r].receipt)
                        /\ status[r] = "done" /\ worker'[r].phase # "absent" =>
                             r \in finished \/ r \in meta.finished
      BY <1>1, <2>10 DEF WorkerOk, Recorded
    <3>1. CASE \E h \in meta.handoffs : h.req = r
      <4>1. /\ sched[r].phase = "handed_off" /\ IsRunning(r)
            /\ worker'[r].phase = "worker_validated"
        BY <1>0, <2>5, <3>1, AcceptedIsNew
      <4> QED BY <1>1, <2>10, <4>1 DEF NotToldYet, IsRunning
    <3>2. CASE \A h \in meta.handoffs : h.req # r
      <4>1. worker'[r] = worker[r]
        BY <2>6, <3>2
      <4> QED BY <1>0, <1>1, <2>10, <4>1 DEF Serving, WorkerOk, NotToldYet, IsOld, Recorded
    <3> QED BY <3>1, <3>2
  <2>18. DoneOk' /\ PlanesOk'
    BY <1>0, <1>1, <2>5, <2>6 DEF Serving, DoneOk, PlanesOk
  <2>19. ActiveOk'
    BY <1>1, <2>3, <2>8 DEF ActiveOk, IsRunning, PromptLen
  <2>20. StoresAreComplete'
    BY <1>1 DEF IInv, StoresAreComplete, PromptLen
  <2> QED BY <1>0, <2>3, <2>9, <2>11, <2>12, <2>13, <2>14, <2>15, <2>16, <2>17, <2>18, <2>19,
             <2>20, ServingSuffices DEF Serving
<1> QED BY <1>2, <1>3

\* A layer of the forward pass reports to the active transfer.
LEMMA SaveLayerStep ==
  ASSUME IInv, NEW l \in Layers, SaveKvLayer(l)
  PROVE  IInv'
<1> USE DEF SaveKvLayer, Up, engineVars, schedVars
<1>0. Serving /\ TypeOK
  BY DEF IInv
<1>1. /\ active' \in ActiveTransfer \cup {None}
      /\ active' # None =>
           /\ active # None /\ active'.req = active.req /\ active'.alloc = active.alloc
           /\ active'.saved = active.saved \cup {l}
  <2>1. CASE active = None
    BY <2>1
  <2>2. CASE active # None
    <3>1. active \in ActiveTransfer /\ active' = [active EXCEPT !.saved = @ \cup {l}]
      BY <1>0, <2>2 DEF TypeOK
    <3> QED BY <2>2, <3>1 DEF ActiveTransfer
  <2> QED BY <2>1, <2>2
<1>2. TypeOK'
  BY <1>0, <1>1 DEF TypeOK
<1>3. EngineOk'
  BY <1>0 DEF Serving, EngineOk, IsRunning, PromptLen
<1>4. KnownOk' /\ WaitingOk' /\ RunningOk' /\ AdmittingOk' /\ PendingOk'
  BY <1>0 DEF Serving, KnownOk, WaitingOk, RunningOk, AdmittingOk, PendingOk,
     IsRunning, Waiting
<1>5. MetaOk' /\ ReceiptsOk' /\ OutputOk' /\ LateOk' /\ HandedOffOk'
  BY <1>0 DEF Serving, MetaOk, ReceiptsOk, OutputOk, LateOk, HandedOffOk, IsRunning
<1>6. WorkerOk' /\ DoneOk' /\ PlanesOk'
  BY <1>0 DEF Serving, WorkerOk, DoneOk, PlanesOk, NotToldYet, IsOld
<1>7. ActiveOk'
  BY <1>0, <1>1 DEF Serving, ActiveOk, IsRunning, PromptLen
<1>8. StoresAreComplete'
  BY DEF IInv, StoresAreComplete, PromptLen
<1> QED BY <1>2, <1>3, <1>4, <1>5, <1>6, <1>7, <1>8, ServingSuffices DEF Serving

\* The hooks after the forward pass leave the engine and the scheduler role alone.
LEMMA CollectFrame ==
  ASSUME Serving, TypeOK,
         step \in {"forward", "collect"}, step' \in {"collect", "drain"},
         UNCHANGED <<transferEnabled, workload, status, preemptions, computed, outputs, held,
                     scheduled, finished, admitting, visited, sched, known, seen, pending, late,
                     lookups, receipts, meta, output>>
  PROVE  /\ EngineOk' /\ WaitingOk' /\ RunningOk' /\ AdmittingOk' /\ PendingOk'
         /\ MetaOk' /\ OutputOk' /\ LateOk' /\ HandedOffOk' /\ DoneOk'
<1>1. EngineOk'
  BY DEF Serving, EngineOk, IsRunning, PromptLen
<1>2. WaitingOk' /\ RunningOk' /\ AdmittingOk' /\ PendingOk'
  BY DEF Serving, WaitingOk, RunningOk, AdmittingOk, PendingOk, IsRunning, Waiting
<1>3. MetaOk' /\ LateOk' /\ HandedOffOk' /\ DoneOk'
  BY DEF Serving, MetaOk, LateOk, HandedOffOk, DoneOk
<1>4. output = {}
  BY DEF Serving, OutputOk
<1>5. OutputOk'
  BY <1>4 DEF OutputOk
<1> QED BY <1>1, <1>2, <1>3, <1>5

\* wait_for_save stores a prompt only when every layer of it was visited.
LEMMA WaitForSaveStep ==
  ASSUME IInv, WaitForSave
  PROVE  IInv'
<1> USE DEF Up, engineVars, schedVars
<1>0. Serving /\ TypeOK /\ step = "forward" /\ raised = None
  BY DEF IInv, WaitForSave
<1>1. UNCHANGED <<transferEnabled, workload, status, preemptions, computed, outputs, held,
                  scheduled, finished, admitting, visited, sched, known, seen, pending, late,
                  lookups, worker, receipts, meta, output>>
  BY DEF WaitForSave
<1>2. ASSUME active # None
      PROVE  /\ active.req \in Requests /\ scheduled[active.req] = PromptLen[active.req]
             /\ active.saved = visited /\ scheduled[active.req] \in Nat
  BY <1>0, <1>2 DEF Serving, ActiveOk, TypeOK, ActiveTransfer
<1>3. CASE active # None /\ active.saved # Layers
  <2>1. raised' = "missing_layer" /\ UNCHANGED <<active, stored, step>>
    BY <1>3 DEF WaitForSave
  <2>2. TypeOK' /\ raised' # None
    BY <1>0, <1>1, <2>1, ConnectorNoneAssumption DEF TypeOK, Hooks
  <2>3. OnlyKnownFailuresRaise'
    BY <1>1, <1>2, <1>3, <2>1 DEF OnlyKnownFailuresRaise, PreemptionFailures
  <2> QED BY <1>1, <2>1, <2>2, <2>3, RaiseSuffices
<1>4. CASE active = None \/ active.saved = Layers
  <2>1. /\ step' = "collect" /\ raised' = None /\ active' = None
        /\ \/ UNCHANGED stored
           \/ /\ active # None /\ active.saved = Layers
              /\ stored' = stored \cup
                   {[req |-> active.req, tokens |-> scheduled[active.req],
                     layers |-> active.saved]}
    BY <1>0, <1>4 DEF WaitForSave
  <2>2. /\ stored' \subseteq [req : Requests, tokens : Nat, layers : SUBSET Layers]
        /\ StoresAreComplete'
    <3>1. /\ StoresAreComplete
          /\ stored \subseteq [req : Requests, tokens : Nat, layers : SUBSET Layers]
      BY <1>0 DEF IInv, TypeOK
    <3>2. CASE UNCHANGED stored
      BY <1>1, <3>1, <3>2 DEF StoresAreComplete, PromptLen
    <3>3. CASE ~(UNCHANGED stored)
      <4> DEFINE new == [req |-> active.req, tokens |-> scheduled[active.req],
                         layers |-> active.saved]
      <4>1. /\ stored' = stored \cup {new}
            /\ new \in [req : Requests, tokens : Nat, layers : SUBSET Layers]
            /\ new.tokens = PromptLen[new.req] /\ new.layers = Layers
        BY <1>2, <2>1, <3>3
      <4> HIDE DEF new
      <4> QED BY <1>1, <3>1, <4>1 DEF StoresAreComplete, PromptLen
    <3> QED BY <3>2, <3>3
  <2>3. TypeOK'
    BY <1>0, <1>1, <2>1, <2>2 DEF TypeOK, Steps
  <2>4. KnownOk' /\ ReceiptsOk' /\ WorkerOk' /\ PlanesOk'
    BY <1>0, <1>1, <2>1
    DEF Serving, KnownOk, ReceiptsOk, WorkerOk, PlanesOk, NotToldYet, IsOld, IsRunning, Waiting
  <2>5. ActiveOk'
    BY <2>1 DEF ActiveOk
  <2> QED BY <1>0, <1>1, <2>1, <2>2, <2>3, <2>4, <2>5, CollectFrame, ServingSuffices DEF Serving
<1> QED BY <1>3, <1>4

\* get_finished forgets finished requests, which the active transfer, the receipts
\* and the known requests are not among.
LEMMA GetFinishedStep ==
  ASSUME IInv, GetFinished
  PROVE  IInv'
<1> USE DEF Up, engineVars, schedVars
<1>0. Serving /\ TypeOK /\ step = "collect" /\ raised = None /\ active = None /\ meta # None
  BY DEF IInv, GetFinished, Serving, ActiveOk, MetaOk
<1>1. UNCHANGED <<transferEnabled, workload, status, preemptions, computed, outputs, held,
                  scheduled, finished, admitting, visited, sched, known, seen, pending, late,
                  lookups, active, receipts, stored, meta, output>>
  BY DEF GetFinished
<1>2. /\ worker' = [r \in Requests |-> IF r \in meta.finished THEN Absent ELSE worker[r]]
      /\ step' = "drain" /\ raised' = None
  BY <1>0 DEF GetFinished
<1>3. /\ \A r \in Requests \ meta.finished : worker'[r] = worker[r]
      /\ \A r \in Requests : r \in meta.finished => worker'[r] = Absent
      /\ Absent.phase = "absent"
  BY <1>2 DEF Absent
<1>4. \A r \in meta.finished : status[r] = "done"
  BY <1>0 DEF Serving, MetaOk
<1>5. TypeOK'
  <2>1. worker' \in [Requests -> State]
    BY <1>0, <1>2, AbsentTyped DEF TypeOK
  <2> QED BY <1>0, <1>1, <1>2, <2>1 DEF TypeOK, Steps
<1>6. KnownOk'
  BY <1>0, <1>1, <1>3, <1>4 DEF Serving, KnownOk, IsRunning, Waiting
<1>7. ReceiptsOk'
  <2>1. \A rc \in receipts : rc.req \in Requests
    BY <1>0 DEF TypeOK, Receipt
  <2> QED BY <1>0, <1>1, <1>2, <1>3, <1>4, <2>1 DEF Serving, ReceiptsOk, IsRunning
<1>8. WorkerOk'
  <2> SUFFICES ASSUME NEW r \in Requests
               PROVE  /\ worker'[r].phase \in {"absent", "worker_validated"}
                      /\ r \in known /\ NotToldYet(r)' =>
                           worker'[r].phase = "absent" \/ IsOld(r)'
                      /\ r \in known /\ sched[r].phase = "worker_validated" =>
                           Recorded(worker'[r], sched[r].receipt)
                      /\ status[r] = "done" /\ worker'[r].phase # "absent" => r \in finished
    BY <1>1 DEF WorkerOk, Recorded
  <2>1. CASE r \in meta.finished
    BY <1>0, <1>3, <1>4, <2>1 DEF Serving, KnownOk, Waiting, IsRunning
  <2>2. CASE r \notin meta.finished
    BY <1>0, <1>1, <1>2, <1>3, <2>2 DEF Serving, WorkerOk, NotToldYet, IsOld, Recorded
  <2> QED BY <2>1, <2>2
<1>9. PlanesOk'
  BY <1>0, <1>1, <1>3, AbsentTyped DEF Serving, PlanesOk
<1>10. ActiveOk' /\ StoresAreComplete'
  BY <1>0, <1>1 DEF IInv, ActiveOk, StoresAreComplete, PromptLen
<1> QED BY <1>0, <1>1, <1>2, <1>5, <1>6, <1>7, <1>8, <1>9, <1>10, CollectFrame,
           ServingSuffices DEF Serving

\* build_connector_worker_meta: the receipts become the step's output.
LEMMA DrainStep ==
  ASSUME IInv, BuildConnectorWorkerMeta
  PROVE  IInv'
<1> USE DEF BuildConnectorWorkerMeta, Up, engineVars, schedVars
<1>0. Serving /\ TypeOK /\ output = {} /\ active = None
  BY DEF IInv, Serving, OutputOk, ActiveOk
<1>1. TypeOK'
  BY <1>0 DEF TypeOK, Steps
<1>2. EngineOk'
  BY <1>0 DEF Serving, EngineOk, IsRunning, PromptLen
<1>3. KnownOk' /\ WaitingOk' /\ RunningOk' /\ AdmittingOk' /\ PendingOk'
  BY <1>0 DEF Serving, KnownOk, WaitingOk, RunningOk, AdmittingOk, PendingOk,
     IsRunning, Waiting
<1>4. MetaOk' /\ ReceiptsOk' /\ LateOk' /\ HandedOffOk'
  BY <1>0 DEF Serving, MetaOk, ReceiptsOk, LateOk, HandedOffOk
<1>5. OutputOk'
  BY <1>0 DEF Serving, ReceiptsOk, OutputOk, IsRunning
<1>6. WorkerOk'
  BY <1>0 DEF Serving, WorkerOk, NotToldYet, IsOld
<1>7. DoneOk' /\ ActiveOk' /\ PlanesOk' /\ StoresAreComplete'
  BY <1>0 DEF IInv, Serving, DoneOk, ActiveOk, PlanesOk, StoresAreComplete, PromptLen
<1> QED BY <1>1, <1>2, <1>3, <1>4, <1>5, <1>6, <1>7, ServingSuffices DEF Serving

-----------------------------------------------------------------------------
(* Output processing and completion.                                       *)

\* Between the worker's hooks and the next schedule nothing but the output is on
\* its way, and what is handed off has its receipt in the output.
LEMMA OutputFacts ==
  ASSUME TypeOK, Serving, step \in {"idle", "output"}
  PROVE  /\ pending = {} /\ receipts = {} /\ meta = None /\ active = None /\ admitting = None
         /\ \A r \in Requests : sched[r].phase = "handed_off" =>
              step = "output" /\ \E rc \in output : rc.req = r
<1>1. pending = {} /\ receipts = {} /\ meta = None /\ active = None /\ admitting = None
  BY DEF Serving, PendingOk, ReceiptsOk, MetaOk, ActiveOk, AdmittingOk
<1>2. \A r \in Requests : sched[r].phase = "handed_off" => \E rc \in output : rc.req = r
  BY <1>1 DEF Serving, HandedOffOk
<1>3. output # {} => step = "output"
  BY DEF Serving, OutputOk
<1> QED BY <1>1, <1>2, <1>3

\* The completion hook raises for a request that was never looked up or that was
\* preempted, and waits only for a receipt that is in the step's output.
LEMMA FinishFacts ==
  ASSUME TypeOK, Serving, step \in {"idle", "output"},
         NEW r \in Requests, Waiting(r) \/ IsRunning(r)
  PROVE  /\ FinishError(r) \in {None, "finish_unknown", "finish_table"}
         /\ FinishError(r) # None => Waiting(r)
         /\ FinishError(r) = "finish_unknown" => r \notin known
         /\ FinishError(r) = "finish_table" => preemptions[r] > 0
         /\ FinishError(r) = None => r \in known
         /\ FinishError(r) = None /\ AwaitsReceipt(r) =>
              \E rc \in output : rc.req = r
<1>1. /\ sched[r] \in State /\ Consistent(sched[r]) /\ pending = {} /\ admitting = None
      /\ "finish_unknown" # None /\ "finish_table" # None
      /\ preemptions[r] \in Nat
      /\ r # None
  BY OutputFacts, ConnectorNoneAssumption, ConnectorAssumption
  DEF TypeOK, Serving, PlanesOk, Hooks
<1>2. CASE r \notin known
  <2>1. sched[r].phase = "absent" /\ Waiting(r)
    BY <1>2 DEF Serving, KnownOk, RunningOk, Waiting, IsRunning, Absent
  <2> QED BY <1>1, <1>2, <2>1 DEF FinishError
<1>3. CASE r \in known /\ IsRunning(r)
  <2>1. FinishError(r) = None
    BY <1>3 DEF Serving, KnownOk, RunningOk, FinishError
  <2>2. sched[r].phase \in {"handed_off", "worker_validated"}
    BY <1>1, <1>3 DEF Serving, RunningOk
  <2>3. AwaitsReceipt(r) => sched[r].phase = "handed_off"
    BY <1>1, <2>2 DEF AwaitsReceipt, Consistent
  <2> QED BY <1>1, <1>3, <2>1, <2>3, OutputFacts
<1>4. CASE r \in known /\ Waiting(r)
  <2>1. CASE sched[r].phase = "looked_up"
    <3>1. sched[r].alloc = None
      BY <1>1, <2>1 DEF Consistent
    <3>2. FinishError(r) = None
      BY <2>1, <3>1 DEF FinishError
    <3>3. seen[r] \in Nat
      BY <1>4 DEF Serving, KnownOk, TypeOK
    <3>4. ~transferEnabled
      BY <1>1, <1>4, <2>1 DEF Serving, WaitingOk
    <3> QED BY <1>1, <1>4, <3>2, <3>4 DEF AwaitsReceipt
  <2>2. CASE sched[r].phase # "looked_up"
    <3>1. seen[r] + 1 = preemptions[r] /\ sched[r].phase = "worker_validated" /\ seen[r] \in Nat
      BY <1>4, <2>2 DEF Serving, WaitingOk, KnownOk, TypeOK
    <3>2. sched[r].alloc # None /\ sched[r].alloc \in Allocation
      BY <1>1, <3>1 DEF Consistent, State
    <3>3. sched[r].alloc.blocks # held[r]
      BY <1>4, <3>2, ConnectorAssumption DEF Serving, EngineOk, Allocation, Waiting, IsRunning
    <3>4. FinishError(r) = "finish_table"
      BY <3>1, <3>2, <3>3 DEF FinishError
    <3> QED BY <1>1, <1>4, <3>1, <3>4
  <2> QED BY <2>1, <2>2
<1> QED BY <1>2, <1>3, <1>4

\* What request_finished_all_groups and the engine do to a request that completes
\* or is cancelled, whatever its token counts become.
LEMMA FinishStep ==
  ASSUME IInv, raised = None, step \in {"idle", "output"},
         NEW r \in Requests, Waiting(r) \/ IsRunning(r),
         RequestFinishedAllGroups(r),
         scheduled' = [scheduled EXCEPT ![r] = 0],
         computed' \in [Requests -> Nat], outputs' \in [Requests -> Nat],
         \A q \in Requests \ {r} : computed'[q] = computed[q] /\ outputs'[q] = outputs[q],
         computed'[r] <= PromptLen[r] + outputs'[r],
         UNCHANGED <<transferEnabled, workload, preemptions, step, admitting, visited,
                     workerVars, meta, output>>
  PROVE  IInv'
<1> USE DEF workerVars
<1>0. /\ Serving /\ TypeOK
      /\ pending = {} /\ receipts = {} /\ meta = None /\ active = None /\ admitting = None
  BY OutputFacts DEF IInv, Up
<1>1. CASE FinishError(r) # None
  <2>1. /\ raised' = FinishError(r) /\ UNCHANGED <<schedVars, status, held, finished>>
    BY <1>1 DEF RequestFinishedAllGroups
  <2>2. raised' \in Hooks /\ raised' # None
    BY <1>0, <1>1, <2>1, FinishFacts DEF Hooks
  <2>3. TypeOK'
    BY <1>0, <2>1, <2>2 DEF TypeOK, schedVars
  <2>4. OnlyKnownFailuresRaise'
    <3>1. raised' = "finish_unknown" => Waiting(r) /\ r \notin known
      BY <1>0, <1>1, <2>1, FinishFacts
    <3>2. raised' = "finish_table" => preemptions[r] > 0
      BY <1>0, <2>1, FinishFacts
    <3>3. raised' \in {"finish_unknown", "finish_table"}
      BY <1>0, <1>1, <2>1, FinishFacts
    <3> QED BY <2>1, <3>1, <3>2, <3>3
        DEF OnlyKnownFailuresRaise, PreemptionFailures, schedVars, Waiting
  <2> QED BY <2>1, <2>2, <2>3, <2>4, RaiseSuffices DEF schedVars
<1>2. CASE FinishError(r) = None
  <2>1. /\ IF AwaitsReceipt(r)
             THEN late' = late \cup {r} /\ UNCHANGED sched
             ELSE sched' = [sched EXCEPT ![r] = Absent] /\ UNCHANGED late
        /\ lookups' = [lookups EXCEPT ![r] = None]
        /\ known' = known \ {r}
        /\ seen' = [seen EXCEPT ![r] = None]
        /\ status' = [status EXCEPT ![r] = "done"]
        /\ held' = [held EXCEPT ![r] = None]
        /\ finished' = finished \cup {r}
        /\ UNCHANGED <<pending, raised>>
    BY <1>2 DEF RequestFinishedAllGroups
  <2>2. /\ status'[r] = "done" /\ \A q \in Requests \ {r} : status'[q] = status[q]
        /\ held'[r] = None /\ \A q \in Requests \ {r} : held'[q] = held[q]
        /\ scheduled'[r] = 0 /\ \A q \in Requests \ {r} : scheduled'[q] = scheduled[q]
        /\ seen'[r] = None /\ \A q \in Requests \ {r} : seen'[q] = seen[q]
        /\ lookups'[r] = None /\ \A q \in Requests \ {r} : lookups'[q] = lookups[q]
        /\ \A q \in Requests \ {r} : sched'[q] = sched[q]
        /\ sched'[r] = IF AwaitsReceipt(r) THEN sched[r] ELSE Absent
        /\ late' = IF AwaitsReceipt(r) THEN late \cup {r} ELSE late
        /\ Absent.plan = 0 /\ Absent.phase = "absent"
    BY <1>0, <2>1 DEF TypeOK, Absent
  <2>3. /\ AwaitsReceipt(r) => transferEnabled /\ \E rc \in output : rc.req = r
    BY <1>0, <1>2, FinishFacts DEF AwaitsReceipt
  <2>4. TypeOK'
    <3>1. /\ sched' \in [Requests -> State] /\ late' \subseteq Requests
          /\ lookups' \in [Requests -> StoredLookup \cup {None}]
          /\ seen' \in [Requests -> Nat \cup {None}]
          /\ held' \in [Requests -> BlockTables \cup {None}]
      BY <1>0, <2>1, AbsentTyped DEF TypeOK
    <3> QED BY <1>0, <2>1, <3>1 DEF TypeOK
  <2>5. EngineOk'
    <3>1. \A q \in Requests : q \in DOMAIN PromptLen => PromptLen[q] \in Nat
      BY <1>0, PromptFacts DEF Serving, EngineOk
    <3>2. computed'[r] \in Nat /\ computed'[r] + scheduled'[r] = computed'[r]
      BY <2>2
    <3> QED BY <1>0, <2>1, <2>2, <3>1, <3>2
        DEF Serving, EngineOk, IsRunning, Waiting, PromptLen
  <2>6. KnownOk'
    BY <1>0, <2>1, <2>2 DEF Serving, KnownOk, IsRunning, Waiting
  <2>7. WaitingOk' /\ RunningOk' /\ AdmittingOk' /\ PendingOk'
    BY <1>0, <2>1, <2>2
    DEF Serving, WaitingOk, RunningOk, AdmittingOk, PendingOk, IsRunning, Waiting
  <2>8. MetaOk' /\ ReceiptsOk'
    <3>1. \A q \in finished : q \in Requests
      BY <1>0 DEF TypeOK
    <3> QED BY <1>0, <2>1, <2>2, <3>1 DEF Serving, MetaOk, ReceiptsOk
  <2>9. OutputOk'
    <3> SUFFICES ASSUME NEW rc \in output
                 PROVE  /\ \/ (IsRunning(rc.req)' \/ rc.req \in late') /\ Awaits(sched'[rc.req], rc)
                           \/ status'[rc.req] = "done" /\ ~transferEnabled
                        /\ status'[rc.req] # "done" => Recorded(worker[rc.req], rc)
      BY <1>0 DEF Serving, OutputOk, Awaits, Recorded
    <3>1. rc.req \in Requests
      BY <1>0 DEF TypeOK, Receipt
    <3>2. CASE rc.req = r
      <4>1. IsRunning(r) \/ r \in late
        BY <1>0, <3>2 DEF Serving, OutputOk, Waiting, IsRunning
      <4>2. Awaits(sched[r], rc)
        BY <1>0, <3>2 DEF Serving, OutputOk, Waiting, IsRunning
      <4>3. sched[r].receipt = None
        BY <1>0, <4>2 DEF Serving, PlanesOk, Consistent, Awaits
      <4> QED BY <2>2, <3>2, <4>2, <4>3 DEF AwaitsReceipt
    <3>3. CASE rc.req # r
      BY <1>0, <2>2, <3>1, <3>3 DEF Serving, OutputOk, IsRunning
    <3> QED BY <3>2, <3>3
  <2>10. LateOk'
    BY <1>0, <2>2, <2>3 DEF Serving, LateOk, TypeOK
  <2>11. HandedOffOk'
    BY <1>0, <2>2, <2>3 DEF Serving, HandedOffOk
  <2>12. WorkerOk'
    BY <1>0, <2>1, <2>2 DEF Serving, WorkerOk, NotToldYet, IsOld, Recorded
  <2>13. DoneOk' /\ ActiveOk' /\ PlanesOk'
    BY <1>0, <2>2, AbsentTyped DEF Serving, DoneOk, ActiveOk, PlanesOk
  <2>14. StoresAreComplete'
    BY DEF IInv, StoresAreComplete, PromptLen
  <2> QED BY <1>0, <2>1, <2>4, <2>5, <2>6, <2>7, <2>8, <2>9, <2>10, <2>11, <2>12, <2>13, <2>14,
             ServingSuffices DEF Serving
<1> QED BY <1>1, <1>2

\* A client's abort, between steps or before the output of a step is processed.
LEMMA CancelStep ==
  ASSUME IInv, NEW r \in Requests, Cancel(r)
  PROVE  IInv'
<1>0. /\ Serving /\ TypeOK /\ raised = None /\ step \in {"idle", "output"}
      /\ Waiting(r) \/ IsRunning(r)
      /\ scheduled' = [scheduled EXCEPT ![r] = 0]
      /\ RequestFinishedAllGroups(r)
      /\ UNCHANGED <<transferEnabled, workload, preemptions, computed, outputs, step, admitting,
                     visited, workerVars, meta, output>>
  BY DEF IInv, Up, Cancel, Waiting, IsRunning
<1>1. /\ r \in DOMAIN PromptLen /\ computed[r] + scheduled[r] <= PromptLen[r] + outputs[r]
      /\ computed[r] \in Nat /\ scheduled[r] \in Nat /\ outputs[r] \in Nat
  BY <1>0 DEF Serving, EngineOk, TypeOK, Waiting, IsRunning
<1>2. PromptLen[r] \in Nat
  BY <1>0, <1>1, PromptFacts DEF Serving, EngineOk
<1>3. computed'[r] <= PromptLen[r] + outputs'[r]
  BY <1>0, <1>1, <1>2
<1>4. /\ computed' \in [Requests -> Nat] /\ outputs' \in [Requests -> Nat]
      /\ \A q \in Requests \ {r} : computed'[q] = computed[q] /\ outputs'[q] = outputs[q]
  BY <1>0 DEF TypeOK
<1> QED BY <1>0, <1>3, <1>4, FinishStep

\* What running the scheduled tokens of a request through the model does to its
\* token counts; a token is sampled at the end of what is known.
LEMMA TokenFacts ==
  ASSUME TypeOK, Serving, NEW r \in Requests, scheduled[r] > 0,
         computed' = [computed EXCEPT ![r] = @ + scheduled[r]],
         \/ outputs' = outputs
         \/ outputs' = [outputs EXCEPT ![r] = @ + 1]
  PROVE  /\ IsRunning(r)
         /\ computed' \in [Requests -> Nat] /\ outputs' \in [Requests -> Nat]
         /\ \A q \in Requests \ {r} : computed'[q] = computed[q] /\ outputs'[q] = outputs[q]
         /\ computed'[r] <= PromptLen[r] + outputs'[r]
<1>1. /\ computed[r] \in Nat /\ scheduled[r] \in Nat /\ outputs[r] \in Nat
      /\ computed \in [Requests -> Nat] /\ outputs \in [Requests -> Nat]
  BY DEF TypeOK
<1>2. IsRunning(r)
  BY <1>1 DEF Serving, EngineOk
<1>3. r \in DOMAIN PromptLen /\ computed[r] + scheduled[r] <= PromptLen[r] + outputs[r]
  BY <1>2 DEF Serving, EngineOk, IsRunning
<1>4. PromptLen[r] \in Nat
  BY <1>3, PromptFacts DEF Serving, EngineOk
<1>5. /\ computed'[r] = computed[r] + scheduled[r]
      /\ outputs'[r] \in {outputs[r], outputs[r] + 1}
  BY <1>1
<1>6. computed'[r] <= PromptLen[r] + outputs'[r]
  BY <1>1, <1>3, <1>4, <1>5
<1> QED BY <1>1, <1>2, <1>6

\* The sampled token ends the request.
LEMMA StopStep ==
  ASSUME IInv, NEW r \in Requests, Stop(r)
  PROVE  IInv'
<1>0. /\ Serving /\ TypeOK /\ raised = None /\ step = "output" /\ scheduled[r] > 0
      /\ computed' = [computed EXCEPT ![r] = @ + scheduled[r]]
      /\ outputs' = [outputs EXCEPT ![r] = @ + 1]
      /\ scheduled' = [scheduled EXCEPT ![r] = 0]
      /\ RequestFinishedAllGroups(r)
      /\ UNCHANGED <<transferEnabled, workload, preemptions, step, admitting, visited,
                     workerVars, meta, output>>
  BY DEF IInv, Up, Stop
<1>1. /\ IsRunning(r)
      /\ computed' \in [Requests -> Nat] /\ outputs' \in [Requests -> Nat]
      /\ \A q \in Requests \ {r} : computed'[q] = computed[q] /\ outputs'[q] = outputs[q]
      /\ computed'[r] <= PromptLen[r] + outputs'[r]
  BY <1>0, TokenFacts
<1> QED BY <1>0, <1>1, FinishStep

\* The request goes on with the tokens of this step computed.
LEMMA AdvanceStep ==
  ASSUME IInv, NEW r \in Requests, Advance(r)
  PROVE  IInv'
<1> USE DEF Advance, Up, schedVars, workerVars
<1>0. /\ Serving /\ TypeOK
      /\ pending = {} /\ receipts = {} /\ meta = None /\ active = None /\ admitting = None
  BY OutputFacts DEF IInv
<1>1. /\ IsRunning(r)
      /\ computed' \in [Requests -> Nat] /\ outputs' \in [Requests -> Nat]
      /\ \A q \in Requests \ {r} : computed'[q] = computed[q] /\ outputs'[q] = outputs[q]
      /\ computed'[r] <= PromptLen[r] + outputs'[r]
  <2>1. \/ outputs' = outputs
        \/ outputs' = [outputs EXCEPT ![r] = @ + 1]
    BY <1>0 DEF TypeOK
  <2> QED BY <1>0, <2>1, TokenFacts
<1>2. scheduled'[r] = 0 /\ \A q \in Requests \ {r} : scheduled'[q] = scheduled[q]
  BY <1>0 DEF TypeOK
<1>3. TypeOK'
  BY <1>0, <1>1 DEF TypeOK
<1>4. EngineOk'
  <2>1. computed'[r] \in Nat /\ computed'[r] + scheduled'[r] = computed'[r]
    BY <1>1, <1>2
  <2> QED BY <1>0, <1>1, <1>2, <2>1 DEF Serving, EngineOk, IsRunning, PromptLen
<1>5. KnownOk' /\ WaitingOk' /\ RunningOk' /\ AdmittingOk' /\ PendingOk'
  BY <1>0 DEF Serving, KnownOk, WaitingOk, RunningOk, AdmittingOk, PendingOk,
     IsRunning, Waiting
<1>6. MetaOk' /\ ReceiptsOk' /\ OutputOk' /\ LateOk' /\ HandedOffOk'
  BY <1>0 DEF Serving, MetaOk, ReceiptsOk, OutputOk, LateOk, HandedOffOk, IsRunning
<1>7. WorkerOk' /\ DoneOk' /\ ActiveOk' /\ PlanesOk'
  BY <1>0 DEF Serving, WorkerOk, DoneOk, ActiveOk, PlanesOk, NotToldYet, IsOld
<1>8. StoresAreComplete'
  BY DEF IInv, StoresAreComplete, PromptLen
<1> QED BY <1>3, <1>4, <1>5, <1>6, <1>7, <1>8, ServingSuffices DEF Serving

\* update_connector_output: a receipt is of a running request that awaits it, or
\* of one that finished in this step and is then forgotten; only in control-flow
\* mode can it be of a request that nothing is known of any more.
LEMMA UpdateOutputStep ==
  ASSUME IInv, UpdateConnectorOutput
  PROVE  IInv'
<1> USE DEF Up, engineVars, workerVars
<1>0. /\ Serving /\ TypeOK /\ raised = None /\ step = "output"
      /\ \A r \in Requests : scheduled[r] = 0
      /\ UNCHANGED <<engineVars, scheduled, finished, admitting, visited, known,
                     seen, pending, lookups, workerVars, meta>>
  BY DEF IInv, UpdateConnectorOutput
<1>1. /\ pending = {} /\ receipts = {} /\ meta = None /\ active = None /\ admitting = None
      /\ \A r \in Requests : sched[r].phase = "handed_off" => \E rc \in output : rc.req = r
  BY <1>0, OutputFacts
<1>2. \A rc \in output : rc \in Receipt /\ rc.req \in Requests
  BY <1>0 DEF TypeOK, Receipt
<1>3. CASE \E rc \in output : ~ApplyReceiptOk(sched[rc.req], rc)
  <2>1. raised' = "receipt" /\ UNCHANGED <<sched, late, output, step>>
    BY <1>3 DEF UpdateConnectorOutput
  <2>2. ~transferEnabled
    BY <1>0, <1>3 DEF Serving, OutputOk, Awaits, ApplyReceiptOk
  <2>3. TypeOK' /\ raised' # None
    BY <1>0, <2>1, ConnectorNoneAssumption DEF TypeOK, Hooks
  <2>4. OnlyKnownFailuresRaise'
    BY <1>0, <2>1, <2>2 DEF OnlyKnownFailuresRaise, PreemptionFailures
  <2> QED BY <1>0, <2>1, <2>3, <2>4, RaiseSuffices
<1>4. CASE \A rc \in output : ApplyReceiptOk(sched[rc.req], rc)
  <2> DEFINE reported == {rc.req : rc \in output}
             receiptOf(r) == CHOOSE rc \in output : rc.req = r
  <2>1. /\ sched' = [r \in Requests |->
             IF r \notin reported THEN sched[r]
             ELSE IF r \in late THEN Absent
             ELSE ApplyReceipt(sched[r], receiptOf(r))]
        /\ late' = late \ reported /\ output' = {} /\ step' = "idle" /\ raised' = None
    BY <1>0, <1>4 DEF UpdateConnectorOutput
  <2>2. ASSUME NEW rc \in output
        PROVE  /\ Awaits(sched[rc.req], rc)
               /\ rc.req \notin late => IsRunning(rc.req) /\ Recorded(worker[rc.req], rc)
    <3>1. sched[rc.req].phase # "absent"
      BY <1>4 DEF ApplyReceiptOk
    <3>2. rc.req \in late \/ status[rc.req] # "done"
      BY <1>0, <1>2, <3>1 DEF Serving, DoneOk, Absent
    <3> QED BY <1>0, <3>2 DEF Serving, OutputOk, LateOk, IsRunning
  <2>3. late' = {}
    BY <1>0, <2>1 DEF Serving, LateOk
  <2>4. ASSUME NEW r \in Requests
        PROVE  \/ r \notin late /\ sched'[r] = sched[r] /\ sched[r].phase # "handed_off"
               \/ r \in late /\ sched'[r] = Absent
               \/ /\ IsRunning(r) /\ r \notin late /\ sched[r].phase = "handed_off"
                  /\ sched'[r] \in State /\ Consistent(sched'[r])
                  /\ sched'[r].phase = "worker_validated" /\ sched'[r].plan = sched[r].plan
                  /\ sched'[r].gen = sched[r].gen /\ sched'[r].alloc = sched[r].alloc
                  /\ Recorded(worker[r], sched'[r].receipt)
    <3>1. CASE r \notin reported
      BY <1>0, <1>1, <2>1, <3>1 DEF Serving, LateOk
    <3>2. CASE r \in reported /\ r \in late
      BY <2>1, <3>2
    <3>3. CASE r \in reported /\ r \notin late
      <4> DEFINE rc == receiptOf(r)
      <4>1. rc \in output /\ rc.req = r
        BY <3>3
      <4>2. sched'[r] = ApplyReceipt(sched[r], rc)
        BY <2>1, <3>3
      <4> HIDE DEF rc
      <4>3. /\ IsRunning(r) /\ Recorded(worker[r], rc) /\ Awaits(sched[r], rc)
            /\ rc \in Receipt /\ ApplyReceiptOk(sched[r], rc)
        BY <1>2, <1>4, <2>2, <3>3, <4>1
      <4>4. sched[r] \in State /\ Consistent(sched[r]) /\ sched[r].phase = "handed_off"
        BY <1>0, <4>3 DEF TypeOK, Serving, PlanesOk, Awaits
      <4>5. sched'[r] \in State /\ Consistent(sched'[r])
        BY <4>2, <4>3, <4>4, TransitionTypes, TransitionsConsistent
      <4>6. /\ sched'[r].phase = "worker_validated" /\ sched'[r].plan = sched[r].plan
            /\ sched'[r].gen = sched[r].gen /\ sched'[r].alloc = sched[r].alloc
            /\ sched'[r].receipt = rc
        BY <4>2, <4>3, <4>4, ApplyReceiptFacts
      <4> QED BY <3>3, <4>3, <4>4, <4>5, <4>6
    <3> QED BY <3>1, <3>2, <3>3
  <2>5. \A r \in Requests : sched'[r] \in State /\ Consistent(sched'[r])
    BY <1>0, <2>4, AbsentTyped DEF TypeOK, Serving, PlanesOk
  <2> HIDE DEF reported, receiptOf
  <2>6. TypeOK'
    <3>1. sched' \in [Requests -> State]
      BY <2>1, <2>5
    <3> QED BY <1>0, <2>1, <2>3, <3>1 DEF TypeOK, Steps
  <2>7. \A r \in late : status[r] = "done"
    BY <1>0 DEF Serving, LateOk
  <2>8. Absent.plan = 0 /\ Absent.phase = "absent"
    BY DEF Absent
  <2>9. EngineOk'
    BY <1>0, <2>1 DEF Serving, EngineOk, IsRunning, PromptLen
  <2>10. KnownOk'
    BY <1>0, <2>4, <2>7, <2>8 DEF Serving, KnownOk, RunningOk, IsRunning, Waiting
  <2>11. WaitingOk' /\ RunningOk'
    BY <1>0, <1>1, <2>4, <2>7 DEF Serving, WaitingOk, RunningOk, IsRunning, Waiting
  <2>12. AdmittingOk' /\ PendingOk' /\ ReceiptsOk' /\ OutputOk' /\ LateOk' /\ ActiveOk'
    BY <1>0, <1>1, <2>1, <2>3
    DEF AdmittingOk, PendingOk, ReceiptsOk, OutputOk, LateOk, ActiveOk
  <2>13. MetaOk'
    BY <1>0, <1>1, <2>1 DEF Serving, MetaOk
  <2>14. HandedOffOk'
    BY <2>4, <2>8 DEF HandedOffOk
  <2>15. WorkerOk'
    BY <1>0, <1>1, <2>1, <2>4, <2>7 DEF Serving, KnownOk, WorkerOk, NotToldYet, IsOld,
       IsRunning, Waiting
  <2>16. DoneOk'
    BY <1>0, <2>4 DEF Serving, DoneOk, IsRunning
  <2>17. PlanesOk' /\ StoresAreComplete'
    BY <1>0, <2>5 DEF IInv, Serving, PlanesOk, StoresAreComplete, PromptLen
  <2> QED BY <2>1, <2>6, <2>9, <2>10, <2>11, <2>12, <2>13, <2>14, <2>15, <2>16, <2>17,
             ServingSuffices DEF Serving
<1> QED BY <1>3, <1>4

\* After shutdown the scheduler role remembers nothing it knew.
LEMMA ShutdownStep ==
  ASSUME IInv, Shutdown
  PROVE  IInv'
<1> USE DEF Shutdown, engineVars
<1>0. TypeOK /\ step' = "down"
  BY DEF IInv
<1>1. TypeOK'
  <2>1. sched' \in [Requests -> State]
    BY <1>0, AbsentTyped DEF TypeOK
  <2> QED BY <1>0, <2>1 DEF TypeOK, Steps
<1>2. OnlyKnownFailuresRaise'
  BY <1>0 DEF IInv, OnlyKnownFailuresRaise
<1>3. BoundToHeldBlocks' /\ StoresAreComplete'
  BY <1>0 DEF IInv, BoundToHeldBlocks, StoresAreComplete, PromptLen
<1>4. DispositionsAgree'
  BY <1>0 DEF IInv, DispositionsAgree, Absent
<1> QED BY <1>0, <1>1, <1>2, <1>3, <1>4 DEF IInv

\* The invariant does not depend on anything but the variables.
LEMMA ConnectorStutter == IInv /\ UNCHANGED vars => IInv'
<1> SUFFICES ASSUME IInv, UNCHANGED vars PROVE IInv'
  OBVIOUS
<1> USE DEF vars, engineVars, schedVars, workerVars
<1>1. TypeOK' /\ OnlyKnownFailuresRaise' /\ BoundToHeldBlocks'
  BY DEF IInv, TypeOK, OnlyKnownFailuresRaise, BoundToHeldBlocks
<1>2. StoresAreComplete' /\ DispositionsAgree'
  BY DEF IInv, StoresAreComplete, DispositionsAgree, PromptLen
<1>3. ASSUME Up, step # "down"
      PROVE  Serving'
  <2>0. Serving
    BY <1>3 DEF IInv
  <2>1. EngineOk' /\ KnownOk' /\ WaitingOk' /\ RunningOk' /\ AdmittingOk' /\ PendingOk'
    BY <2>0 DEF Serving, EngineOk, KnownOk, WaitingOk, RunningOk, AdmittingOk, PendingOk,
       IsRunning, Waiting, PromptLen
  <2>2. MetaOk' /\ ReceiptsOk' /\ OutputOk' /\ LateOk' /\ HandedOffOk'
    BY <2>0 DEF Serving, MetaOk, ReceiptsOk, OutputOk, LateOk, HandedOffOk, IsRunning, PromptLen
  <2>3. WorkerOk' /\ DoneOk' /\ ActiveOk' /\ PlanesOk'
    BY <2>0 DEF Serving, WorkerOk, DoneOk, ActiveOk, PlanesOk, NotToldYet, IsOld, IsRunning,
       PromptLen
  <2> QED BY <2>1, <2>2, <2>3 DEF Serving
<1> QED BY <1>1, <1>2, <1>3 DEF IInv, Up

-----------------------------------------------------------------------------
(* The safety properties.                                                  *)

\* Every step of the engine, of its clients and of the operator keeps the
\* invariant.
LEMMA ConnectorNext == IInv /\ [Next]_vars => IInv'
<1> SUFFICES ASSUME IInv, [Next]_vars PROVE IInv'
  OBVIOUS
<1>1. CASE EngineStep
  <2>1. CASE BeginStep
    BY <2>1, BeginStepStep
  <2>2. ASSUME NEW r \in Requests, GetNumNewMatchedTokens(r) PROVE IInv'
    BY <2>2, LookupStep
  <2>3. ASSUME NEW r \in Requests, LookupFailsClosed(r) PROVE IInv'
    BY <2>3, LookupFailsStep
  <2>4. ASSUME NEW r \in Requests, NEW b \in BlockTables, UpdateStateAfterAlloc(r, b)
        PROVE  IInv'
    BY <2>4, AllocateStep
  <2>5. CASE AllocationFails
    BY <2>5, AllocationFailsStep
  <2>6. CASE BuildConnectorMeta
    BY <2>6, BuildStep
  <2>7. ASSUME NEW ok \in SUBSET meta.transfers, StartLoadKv(ok) PROVE IInv'
    BY <2>7, StartStep
  <2>8. ASSUME NEW l \in Layers, SaveKvLayer(l) PROVE IInv'
    BY <2>8, SaveLayerStep
  <2>9. CASE WaitForSave
    BY <2>9, WaitForSaveStep
  <2>10. CASE GetFinished
    BY <2>10, GetFinishedStep
  <2>11. CASE BuildConnectorWorkerMeta
    BY <2>11, DrainStep
  <2>12. ASSUME NEW r \in Requests, Advance(r) PROVE IInv'
    BY <2>12, AdvanceStep
  <2>13. ASSUME NEW r \in Requests, Stop(r) PROVE IInv'
    BY <2>13, StopStep
  <2>14. CASE UpdateConnectorOutput
    BY <2>14, UpdateOutputStep
  <2> QED BY <1>1, <2>1, <2>2, <2>3, <2>4, <2>5, <2>6, <2>7, <2>8, <2>9, <2>10, <2>11, <2>12,
             <2>13, <2>14 DEF EngineStep
<1>2. CASE Environment
  <2>1. ASSUME NEW r \in Requests, Arrive(r) PROVE IInv'
    BY <2>1, ArriveStep
  <2>2. ASSUME NEW r \in Requests, PreemptRunning(r) PROVE IInv'
    BY <2>2, PreemptStep
  <2>3. ASSUME NEW r \in Requests, Cancel(r) PROVE IInv'
    BY <2>3, CancelStep
  <2>4. CASE Shutdown
    BY <2>4, ShutdownStep
  <2> QED BY <1>2, <2>1, <2>2, <2>3, <2>4 DEF Environment
<1>3. CASE UNCHANGED vars
  BY <1>3, ConnectorStutter
<1> QED BY <1>1, <1>2, <1>3 DEF Next

\* The invariant holds in every reachable state of the connector and its engine.
THEOREM ConnectorInvariant == Spec => []IInv
BY ConnectorInit, ConnectorNext, PTL DEF Spec

\* No hook of either role ever kills the engine core for a reason other than the
\* named ones (connector.py raises in each hook it does not expect).
THEOREM OnlyKnownFailuresEverRaise == Spec => []OnlyKnownFailuresRaise
<1>1. IInv => OnlyKnownFailuresRaise
  BY DEF IInv
<1> QED BY <1>1, ConnectorInvariant, PTL

\* The plane of a running request is bound to the blocks that the request holds
\* and that no other running request is bound to (update_state_after_alloc).
THEOREM AlwaysBoundToHeldBlocks == Spec => []BoundToHeldBlocks
<1>1. IInv => BoundToHeldBlocks
  BY DEF IInv
<1> QED BY <1>1, ConnectorInvariant, PTL

\* Only complete prompts, every layer of which was visited in the step, are
\* written back (wait_for_save).
THEOREM StoresAreAlwaysComplete == Spec => []StoresAreComplete
<1>1. IInv => StoresAreComplete
  BY DEF IInv
<1> QED BY <1>1, ConnectorInvariant, PTL

\* From start_load_kv to wait_for_save the active transfer's request runs, holds
\* the blocks and is not among the requests reported finished.
THEOREM ActiveTransferAlwaysOwnsBlocks == Spec => []ActiveTransferOwnsBlocks
<1>1. IInv => ActiveTransferOwnsBlocks
  <2> SUFFICES ASSUME IInv, Up, active # None
               PROVE  /\ status[active.req] = "running"
                      /\ held[active.req] = active.alloc.blocks
                      /\ meta # None => active.req \notin meta.finished
    BY DEF ActiveTransferOwnsBlocks
  <2>1. step # "down" \/ active = None
    BY DEF IInv
  <2> QED BY <2>1 DEF IInv, Serving, ActiveOk, MetaOk, IsRunning
<1> QED BY <1>1, ConnectorInvariant, PTL

\* The two roles never disagree on what became of an allocation, and between
\* steps every running request has its disposition.
THEOREM RolesAlwaysAgree == Spec => []RolesAgree
<1>1. IInv => RolesAgree
  <2> SUFFICES ASSUME IInv PROVE RolesAgree
    OBVIOUS
  <2>1. TypeOK /\ DispositionsAgree
    BY DEF IInv
  <2>2. ASSUME Up, step = "idle"
        PROVE  /\ \A r \in Requests :
                    status[r] = "running" => sched[r].phase = "worker_validated"
               /\ pending = {} /\ receipts = {} /\ active = None /\ late = {}
    BY <2>1, <2>2, IdleFacts DEF IInv, IsRunning
  <2> QED BY <2>1, <2>2 DEF RolesAgree, DispositionsAgree
<1> QED BY <1>1, ConnectorInvariant, PTL

\* Between steps the scheduler role has forgotten every finished request, and the
\* worker role has, or is about to be told (request_finished_all_groups,
\* get_finished).
THEOREM FinishedAreAlwaysForgotten == Spec => []FinishedAreForgotten
<1>1. IInv => FinishedAreForgotten
  <2> SUFFICES ASSUME IInv, Up, step = "idle", NEW r \in Requests, status[r] = "done"
               PROVE  /\ sched[r].phase = "absent" /\ lookups[r] = None /\ seen[r] = None
                      /\ r \notin known \cup late
                      /\ worker[r].phase # "absent" => r \in finished
    BY DEF FinishedAreForgotten
  <2>1. Serving /\ late = {}
    BY IdleFacts DEF IInv
  <2>2. sched[r].phase = "absent"
    BY <2>1 DEF Serving, DoneOk, Absent
  <2>3. r \notin known /\ seen[r] = None /\ lookups[r] = None
    BY <2>1 DEF Serving, KnownOk, Waiting, IsRunning
  <2>4. worker[r].phase # "absent" => r \in finished
    BY <2>1 DEF Serving, WorkerOk
  <2> QED BY <2>1, <2>2, <2>3, <2>4
<1> QED BY <1>1, ConnectorInvariant, PTL

==============================================================================
