---------------------------- MODULE ControlPlane ----------------------------
(***************************************************************************)
(* The two RequestControlPlane instances of connector/control_plane.py     *)
(* (scheduler side and worker side) joined by an unreliable channel: a     *)
(* handoff or a receipt, once sent, may be delivered late, repeatedly, out *)
(* of order or never.  vLLM's own channel is better behaved; this module   *)
(* says what the planes guarantee by themselves, which is what the         *)
(* generation and equality checks in the code are for.                     *)
(*                                                                         *)
(* A call that raises leaves its plane unchanged (the states are immutable *)
(* and are stored only after the transition returned), so it is a          *)
(* stuttering step and only the calls that return are actions.             *)
(***************************************************************************)
EXTENDS Lifecycle

CONSTANT MaxGen   \* bound on preemptions, hence on allocation generations

ASSUME MaxGenAssumption == MaxGen \in Nat

VARIABLES
  sched,     \* the scheduler plane's _states
  worker,    \* the worker plane's _states
  handoffs,  \* every RequestHandoffMetadata ever sent
  receipts,  \* every WorkerValidationReceipt ever sent
  retired    \* ids the scheduler has discarded: vLLM does not reuse an id

vars == <<sched, worker, handoffs, receipts, retired>>

TypeOK ==
  /\ sched \in [Requests -> State]
  /\ worker \in [Requests -> State]
  /\ handoffs \subseteq Handoff
  /\ receipts \subseteq Receipt
  /\ retired \subseteq Requests

Init ==
  /\ sched = [r \in Requests |-> Absent]
  /\ worker = [r \in Requests |-> Absent]
  /\ handoffs = {}
  /\ receipts = {}
  /\ retired = {}

SchedLookup(r, p) ==
  /\ r \notin retired
  /\ LookupOk(sched[r], p)
  /\ sched' = [sched EXCEPT ![r] = Lookup(@, p)]
  /\ UNCHANGED <<worker, handoffs, receipts, retired>>

SchedAllocate(r, b) ==
  /\ AllocateOk(sched[r], b)
  /\ sched' = [sched EXCEPT ![r] = Allocate(@, b)]
  /\ UNCHANGED <<worker, handoffs, receipts, retired>>

SchedHandoff(r) ==
  /\ HandOffOk(sched[r])
  /\ sched' = [sched EXCEPT ![r] = HandOff(@)]
  /\ handoffs' = handoffs \cup {HandoffMetadata(r, sched[r])}
  /\ UNCHANGED <<worker, receipts, retired>>

WorkerAccept(h) ==
  /\ AcceptOk(worker[h.req], h)
  /\ worker' = [worker EXCEPT ![h.req] = Accept(@, h)]
  /\ UNCHANGED <<sched, handoffs, receipts, retired>>

WorkerValidate(r, loaded) ==
  LET rc == WorkerReceipt(r, worker[r], loaded) IN
  /\ worker[r].alloc # None
  /\ ApplyReceiptOk(worker[r], rc)
  /\ worker' = [worker EXCEPT ![r] = ApplyReceipt(@, rc)]
  /\ receipts' = receipts \cup {rc}
  /\ UNCHANGED <<sched, handoffs, retired>>

SchedApply(rc) ==
  /\ ApplyReceiptOk(sched[rc.req], rc)
  /\ sched' = [sched EXCEPT ![rc.req] = ApplyReceipt(@, rc)]
  /\ UNCHANGED <<worker, handoffs, receipts, retired>>

SchedPreempt(r) ==
  /\ PreemptOk(sched[r])
  /\ sched[r].gen < MaxGen
  /\ sched' = [sched EXCEPT ![r] = Preempt(@)]
  /\ UNCHANGED <<worker, handoffs, receipts, retired>>

SchedFinish(r) ==
  /\ FinishOk(sched[r])
  /\ sched' = [sched EXCEPT ![r] = Finish(@)]
  /\ UNCHANGED <<worker, handoffs, receipts, retired>>

SchedDiscard(r) ==
  /\ sched[r].phase # "absent"
  /\ sched' = [sched EXCEPT ![r] = Absent]
  /\ retired' = retired \cup {r}
  /\ UNCHANGED <<worker, handoffs, receipts>>

WorkerDiscard(r) ==
  /\ worker[r].phase # "absent"
  /\ worker' = [worker EXCEPT ![r] = Absent]
  /\ UNCHANGED <<sched, handoffs, receipts, retired>>

Next ==
  \/ \E r \in Requests :
       \/ \E p \in Plan : SchedLookup(r, p)
       \/ \E b \in BlockTables : SchedAllocate(r, b)
       \/ SchedHandoff(r)
       \/ \E loaded \in SUBSET Matches(worker[r].plan) : WorkerValidate(r, loaded)
       \/ SchedPreempt(r)
       \/ SchedFinish(r)
       \/ SchedDiscard(r)
       \/ WorkerDiscard(r)
  \/ \E h \in handoffs : WorkerAccept(h)
  \/ \E rc \in receipts : SchedApply(rc)

Spec == Init /\ [][Next]_vars

-----------------------------------------------------------------------------
(***************************************************************************)
(* Properties                                                              *)
(***************************************************************************)

\* Every state either plane stores passes RequestLifecycleState.__post_init__:
\* no sequence of calls and deliveries makes the constructor's own
\* consistency checks fire.
PlanesConsistent ==
  \A r \in Requests : Consistent(sched[r]) /\ Consistent(worker[r])

\* A disposition the scheduler has accepted was reported by the worker for
\* the very allocation the scheduler holds now, and that allocation was handed
\* to the worker under the plan of the request: a receipt from before a
\* preemption is never applied, however late or often it arrives.
ReceiptIsCurrent ==
  \A r \in Requests :
    sched[r].phase \in {"worker_validated", "finished"} =>
      /\ sched[r].receipt \in receipts
      /\ sched[r].receipt.alloc = sched[r].alloc
      /\ HandoffMetadata(r, sched[r]) \in handoffs

\* found == loaded + rejected: an accepted disposition splits the matches of
\* the scheduler's plan into loaded and rejected ones, none lost, none twice.
DispositionIsPartition ==
  \A r \in Requests :
    sched[r].phase \in {"worker_validated", "finished"} =>
      /\ sched[r].receipt.loaded \cup sched[r].receipt.rejected
           = Matches(sched[r].plan)
      /\ sched[r].receipt.loaded \cap sched[r].receipt.rejected = {}

\* While the scheduler knows a request, nothing in flight and nothing on the
\* worker is of a later generation than the scheduler's, or of another plan.
WorkerNeverAhead ==
  \A r \in Requests : sched[r].phase # "absent" =>
    /\ \A h \in handoffs : h.req = r =>
         h.alloc.gen <= sched[r].gen /\ h.plan = sched[r].plan
    /\ worker[r].phase # "absent" =>
         worker[r].gen <= sched[r].gen /\ worker[r].plan = sched[r].plan

\* One generation has one allocation: two handoffs of a request that carry the
\* same generation are the same handoff.
OneAllocationPerGeneration ==
  \A h1, h2 \in handoffs :
    h1.req = h2.req /\ h1.alloc.gen = h2.alloc.gen => h1 = h2

\* What a step may never do to a request the scheduler keeps: lower its
\* generation, or rebind its blocks or change its accepted disposition within
\* one generation.
GenerationIsFrozen ==
  [][\A r \in Requests :
       sched[r].phase # "absent" /\ sched'[r].phase # "absent" =>
         /\ sched'[r].plan = sched[r].plan
         /\ \/ sched'[r].gen = sched[r].gen + 1
            \/ /\ sched'[r].gen = sched[r].gen
               /\ sched[r].alloc # None => sched'[r].alloc = sched[r].alloc
               /\ sched[r].receipt # None =>
                    sched'[r].receipt = sched[r].receipt]_vars

-----------------------------------------------------------------------------
(***************************************************************************)
(* The abstract specification.                                             *)
(***************************************************************************)

\* What a state of the scheduler's plane amounts to, a receipt and a handoff.
LedgerEntry(s) ==
  [st |-> CASE s.phase = "absent" -> "none"
            [] s.phase = "looked_up" -> "open"
            [] s.phase \in {"allocated", "handed_off"} -> "placed"
            [] OTHER -> "settled",
   plan |-> s.plan, gen |-> s.gen,
   blocks |-> IF s.alloc = None THEN None ELSE s.alloc.blocks,
   loaded |-> IF s.receipt = None THEN {} ELSE s.receipt.loaded]

LedgerPlacement(h) ==
  [req |-> h.req, plan |-> h.plan, gen |-> h.alloc.gen, blocks |-> h.alloc.blocks]

\* A receipt does not name a plan: it accounts for the matches of one.
LedgerWork(rc, p) ==
  [of |-> [req |-> rc.req, plan |-> p, gen |-> rc.alloc.gen, blocks |-> rc.alloc.blocks],
   loaded |-> rc.loaded]

Accounts(rc, p) ==
  rc.loaded \cup rc.rejected = Matches(p) /\ rc.loaded \cap rc.rejected = {}

Ledger == INSTANCE RequestLedger WITH
  NoBlocks <- None,
  entry <- [r \in Requests |-> LedgerEntry(sched[r])],
  offered <- {LedgerPlacement(h) : h \in handoffs},
  done <- {LedgerWork(x[1], x[2]) : x \in {y \in receipts \X Plan : Accounts(y[1], y[2])}},
  closed <- retired

\* The planes implement the ledger: seen from the scheduler, over a channel that
\* delays, repeats and reorders handoffs and receipts, every placement is settled
\* at most once, by a complete disposition of work that the worker did for exactly
\* these blocks, generation and plan, and a preemption reopens the request under
\* the next generation (control_plane.py, the whole of RequestControlPlane).
ImplementsLedger == Ledger!Spec

=============================================================================
