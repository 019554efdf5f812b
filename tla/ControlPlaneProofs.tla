------------------------- MODULE ControlPlaneProofs -------------------------
(***************************************************************************)
(* The properties of ControlPlane for any requests, block tables and       *)
(* bounds.  The channel keeps every message for ever, so the argument is   *)
(* about what a message that is still around may say: HandoffsBounded      *)
(* below ties each handoff to the state of the scheduler's plane, and      *)
(* everything else follows from it.                                        *)
(***************************************************************************)
EXTENDS ControlPlane, TLAPS

-----------------------------------------------------------------------------
(* What the transitions of RequestLifecycleState preserve and produce, one  *)
(* state at a time, in either plane.                                        *)

USE DEF Phases, Plan

\* Each transition of RequestLifecycleState returns a well-formed state.
LEMMA TransitionTypes ==
  ASSUME NEW s \in State
  PROVE  /\ Absent \in State
         /\ \A p \in Plan : Lookup(s, p) \in State
         /\ \A b \in BlockTables : Allocate(s, b) \in State
         /\ HandOff(s) \in State
         /\ \A h \in Handoff : Accept(s, h) \in State
         /\ \A rc \in Receipt : ApplyReceipt(s, rc) \in State
         /\ Preempt(s) \in State
         /\ Finish(s) \in State
<1>1. Absent \in State
  BY MaxMatchesAssumption DEF State, Absent
<1>2. \A p \in Plan : Lookup(s, p) \in State
  BY <1>1 DEF State, Lookup, Absent
<1>3. \A b \in BlockTables : Allocate(s, b) \in State
  BY DEF State, Allocate, Candidate, Allocation
<1>4. HandOff(s) \in State
  BY DEF State, HandOff
<1>5. \A h \in Handoff : Accept(s, h) \in State
  BY DEF State, Accept, Handoff, Allocation
<1>6. \A rc \in Receipt : ApplyReceipt(s, rc) \in State
  BY DEF State, ApplyReceipt
<1>7. Preempt(s) \in State
  BY DEF State, Preempt
<1>8. Finish(s) \in State
  BY DEF State, Finish
<1> QED BY <1>1, <1>2, <1>3, <1>4, <1>5, <1>6, <1>7, <1>8

\* What handoff does to a state it accepts: the state is handed off and keeps
\* its plan, generation and allocation, and so the metadata sent for it.
LEMMA HandOffFacts ==
  ASSUME NEW s \in State, HandOffOk(s), NEW r \in Requests
  PROVE  /\ HandOff(s) \in State /\ HasHandoff(HandOff(s))
         /\ HandOff(s).phase # "absent"
         /\ HandOff(s).plan = s.plan /\ HandOff(s).gen = s.gen
         /\ HandOff(s).alloc = s.alloc
         /\ HandoffMetadata(r, HandOff(s)) = HandoffMetadata(r, s)
<1>1. HandOff(s) \in State
  BY TransitionTypes
<1>2. CASE s.phase = "allocated"
  <2>1. /\ HandOff(s).phase = "handed_off" /\ HandOff(s).plan = s.plan
        /\ HandOff(s).gen = s.gen /\ HandOff(s).alloc = s.alloc
    BY <1>2 DEF HandOff, State
  <2> QED BY <1>1, <2>1 DEF HasHandoff, HandoffMetadata
<1>3. CASE s.phase # "allocated"
  <2>1. HandOff(s) = s /\ HasHandoff(s)
    BY <1>3 DEF HandOff, HandOffOk
  <2> QED BY <1>1, <2>1 DEF HasHandoff
<1> QED BY <1>2, <1>3

\* Each transition that returns keeps __post_init__'s consistency.
LEMMA TransitionsConsistent ==
  ASSUME NEW s \in State, Consistent(s)
  PROVE  /\ Consistent(Absent)
         /\ \A p \in Plan : Consistent(Lookup(s, p))
         /\ \A b \in BlockTables : AllocateOk(s, b) => Consistent(Allocate(s, b))
         /\ HandOffOk(s) => Consistent(HandOff(s))
         /\ \A h \in Handoff : Consistent(Accept(s, h))
         /\ \A rc \in Receipt :
              ApplyReceiptOk(s, rc) => Consistent(ApplyReceipt(s, rc))
         /\ Consistent(Preempt(s))
         /\ FinishOk(s) => Consistent(Finish(s))
<1> USE NoneAssumption DEF Consistent
<1>1. Consistent(Absent)
  BY DEF Absent
<1>2. \A p \in Plan : Consistent(Lookup(s, p))
  BY DEF Lookup, Absent
<1>3. \A b \in BlockTables : AllocateOk(s, b) => Consistent(Allocate(s, b))
  BY DEF Allocate, AllocateOk, Candidate, State, Allocation
<1>4. HandOffOk(s) => Consistent(HandOff(s))
  BY DEF HandOff, HandOffOk, State
<1>5. \A h \in Handoff : Consistent(Accept(s, h))
  BY DEF Accept, Handoff
<1>6. \A rc \in Receipt : ApplyReceiptOk(s, rc) => Consistent(ApplyReceipt(s, rc))
  BY DEF ApplyReceipt, ApplyReceiptOk, State
<1>7. Consistent(Preempt(s))
  BY DEF Preempt, State
<1>8. FinishOk(s) => Consistent(Finish(s))
  BY DEF Finish, FinishOk, State
<1> QED BY <1>1, <1>2, <1>3, <1>4, <1>5, <1>6, <1>7, <1>8

\* The receipt validate_worker builds is well-formed and its two halves are
\* disjoint.
LEMMA WorkerReceiptType ==
  ASSUME NEW r \in Requests, NEW s \in State, s.alloc # None,
         NEW loaded \in SUBSET Matches(s.plan)
  PROVE  /\ WorkerReceipt(r, s, loaded) \in Receipt
         /\ WorkerReceipt(r, s, loaded).loaded
              \cap WorkerReceipt(r, s, loaded).rejected = {}
<1>1. Matches(s.plan) \subseteq Matches(MaxMatches)
  BY MaxMatchesAssumption DEF Matches, State
<1>2. s.alloc \in Allocation
  BY DEF State
<1>3. WorkerReceipt(r, s, loaded) \in Receipt
  BY <1>1, <1>2 DEF WorkerReceipt, Receipt
<1>4. WorkerReceipt(r, s, loaded).loaded
        \cap WorkerReceipt(r, s, loaded).rejected = {}
  BY DEF WorkerReceipt
<1> QED BY <1>3, <1>4

\* A plane that has been handed off, or is about to be, holds an allocation,
\* so its handoff metadata is well-formed.
LEMMA HandoffType ==
  ASSUME NEW r \in Requests, NEW s \in State, Consistent(s), HandOffOk(s)
  PROVE  HandoffMetadata(r, s) \in Handoff
<1>1. s.alloc \in Allocation
  BY DEF Consistent, HandOffOk, HasHandoff, State
<1> QED BY <1>1 DEF HandoffMetadata, Handoff, State

-----------------------------------------------------------------------------
(* The invariant.                                                           *)

\* A handoff was made by a request the scheduler has, or has had.
HandoffsHaveOwner ==
  \A h \in handoffs : sched[h.req].phase = "absent" => h.req \in retired

\* A handoff of a live request carries its plan and no later generation, and
\* one of the current generation is the scheduler's current handoff.
HandoffsBounded ==
  \A h \in handoffs : h.req \notin retired =>
    /\ h.plan = sched[h.req].plan
    /\ h.alloc.gen <= sched[h.req].gen
    /\ h.alloc.gen = sched[h.req].gen =>
         HasHandoff(sched[h.req]) /\ h = HandoffMetadata(h.req, sched[h.req])

\* What either plane says was handed off is among the handoffs.
HandoffsRecorded ==
  \A r \in Requests :
    /\ HasHandoff(sched[r]) => HandoffMetadata(r, sched[r]) \in handoffs
    /\ worker[r].phase # "absent" =>
         /\ worker[r].phase \in {"handed_off", "worker_validated"}
         /\ HandoffMetadata(r, worker[r]) \in handoffs

\* Accepted dispositions are complete and were sent.
ReceiptsRecorded ==
  /\ \A rc \in receipts : rc.loaded \cap rc.rejected = {}
  /\ \A r \in Requests :
       sched[r].phase \in {"worker_validated", "finished"} =>
         /\ sched[r].receipt \in receipts
         /\ sched[r].receipt.loaded \cup sched[r].receipt.rejected
              = Matches(sched[r].plan)

RetiredAreAbsent == \A r \in retired : sched[r].phase = "absent"

IInv ==
  /\ TypeOK
  /\ PlanesConsistent
  /\ HandoffsHaveOwner
  /\ HandoffsBounded
  /\ HandoffsRecorded
  /\ ReceiptsRecorded
  /\ RetiredAreAbsent
  /\ OneAllocationPerGeneration

-----------------------------------------------------------------------------
(* Type correctness. *)

USE DEF Phases, Plan

\* Every step keeps the two planes and the channels well-formed.
LEMMA TypeStep ==
  ASSUME TypeOK, PlanesConsistent, [Next]_vars
  PROVE  TypeOK'
<1> USE DEF TypeOK
<1>1. ASSUME NEW r \in Requests, NEW p \in Plan, SchedLookup(r, p)
      PROVE  TypeOK'
  BY <1>1, TransitionTypes DEF SchedLookup
<1>2. ASSUME NEW r \in Requests, NEW b \in BlockTables, SchedAllocate(r, b)
      PROVE  TypeOK'
  BY <1>2, TransitionTypes DEF SchedAllocate
<1>3. ASSUME NEW r \in Requests, SchedHandoff(r)
      PROVE  TypeOK'
  <2>1. HandoffMetadata(r, sched[r]) \in Handoff
    BY <1>3, HandoffType DEF SchedHandoff, PlanesConsistent
  <2> QED BY <2>1, <1>3, TransitionTypes DEF SchedHandoff
<1>4. ASSUME NEW r \in Requests, NEW loaded \in SUBSET Matches(worker[r].plan),
             WorkerValidate(r, loaded)
      PROVE  TypeOK'
  <2>1. WorkerReceipt(r, worker[r], loaded) \in Receipt
    BY <1>4, WorkerReceiptType DEF WorkerValidate
  <2> QED BY <2>1, <1>4, TransitionTypes DEF WorkerValidate
<1>5. ASSUME NEW r \in Requests, SchedPreempt(r)
      PROVE  TypeOK'
  BY <1>5, TransitionTypes DEF SchedPreempt
<1>6. ASSUME NEW r \in Requests, SchedFinish(r)
      PROVE  TypeOK'
  BY <1>6, TransitionTypes DEF SchedFinish
<1>7. ASSUME NEW r \in Requests, SchedDiscard(r)
      PROVE  TypeOK'
  BY <1>7, TransitionTypes DEF SchedDiscard
<1>8. ASSUME NEW r \in Requests, WorkerDiscard(r)
      PROVE  TypeOK'
  BY <1>8, TransitionTypes DEF WorkerDiscard
<1>9. ASSUME NEW h \in handoffs, WorkerAccept(h)
      PROVE  TypeOK'
  <2>1. h \in Handoff /\ h.req \in Requests
    BY DEF Handoff
  <2> QED BY <2>1, <1>9, TransitionTypes DEF WorkerAccept
<1>10. ASSUME NEW rc \in receipts, SchedApply(rc)
       PROVE  TypeOK'
  <2>1. rc \in Receipt /\ rc.req \in Requests
    BY DEF Receipt
  <2> QED BY <2>1, <1>10, TransitionTypes DEF SchedApply
<1>11. CASE UNCHANGED vars
  BY <1>11 DEF vars
<1> QED
  BY <1>1, <1>2, <1>3, <1>4, <1>5, <1>6, <1>7, <1>8, <1>9, <1>10, <1>11 DEF Next

\* Every step leaves both planes in states that pass __post_init__.
LEMMA ConsistentStep ==
  ASSUME TypeOK, PlanesConsistent, [Next]_vars
  PROVE  PlanesConsistent'
<1> USE DEF TypeOK, PlanesConsistent
<1>1. ASSUME NEW r \in Requests, NEW p \in Plan, SchedLookup(r, p)
      PROVE  PlanesConsistent'
  BY <1>1, TransitionsConsistent DEF SchedLookup
<1>2. ASSUME NEW r \in Requests, NEW b \in BlockTables, SchedAllocate(r, b)
      PROVE  PlanesConsistent'
  BY <1>2, TransitionsConsistent DEF SchedAllocate
<1>3. ASSUME NEW r \in Requests, SchedHandoff(r)
      PROVE  PlanesConsistent'
  BY <1>3, TransitionsConsistent DEF SchedHandoff
<1>4. ASSUME NEW r \in Requests, NEW loaded \in SUBSET Matches(worker[r].plan),
             WorkerValidate(r, loaded)
      PROVE  PlanesConsistent'
  <2>1. WorkerReceipt(r, worker[r], loaded) \in Receipt
    BY <1>4, WorkerReceiptType DEF WorkerValidate
  <2> QED BY <2>1, <1>4, TransitionsConsistent DEF WorkerValidate
<1>5. ASSUME NEW r \in Requests, SchedPreempt(r)
      PROVE  PlanesConsistent'
  BY <1>5, TransitionsConsistent DEF SchedPreempt
<1>6. ASSUME NEW r \in Requests, SchedFinish(r)
      PROVE  PlanesConsistent'
  BY <1>6, TransitionsConsistent DEF SchedFinish
<1>7. ASSUME NEW r \in Requests, SchedDiscard(r)
      PROVE  PlanesConsistent'
  BY <1>7, TransitionsConsistent DEF SchedDiscard
<1>8. ASSUME NEW r \in Requests, WorkerDiscard(r)
      PROVE  PlanesConsistent'
  BY <1>8, TransitionsConsistent DEF WorkerDiscard
<1>9. ASSUME NEW h \in handoffs, WorkerAccept(h)
      PROVE  PlanesConsistent'
  <2>1. h \in Handoff /\ h.req \in Requests
    BY DEF Handoff
  <2> QED BY <2>1, <1>9, TransitionsConsistent DEF WorkerAccept
<1>10. ASSUME NEW rc \in receipts, SchedApply(rc)
       PROVE  PlanesConsistent'
  <2>1. rc \in Receipt /\ rc.req \in Requests
    BY DEF Receipt
  <2> QED BY <2>1, <1>10, TransitionsConsistent DEF SchedApply
<1>11. CASE UNCHANGED vars
  BY <1>11 DEF vars
<1> QED
  BY <1>1, <1>2, <1>3, <1>4, <1>5, <1>6, <1>7, <1>8, <1>9, <1>10, <1>11 DEF Next

\* Both planes always hold well-formed states that pass __post_init__,
\* whatever the channel does.
THEOREM TypeCorrect == Spec => [](TypeOK /\ PlanesConsistent)
<1>1. Init => TypeOK /\ PlanesConsistent
  <2>1. Absent \in State /\ Consistent(Absent)
    BY MaxMatchesAssumption DEF Absent, State, Consistent
  <2> QED BY <2>1 DEF Init, TypeOK, PlanesConsistent
<1>2. TypeOK /\ PlanesConsistent /\ [Next]_vars => (TypeOK /\ PlanesConsistent)'
  BY TypeStep, ConsistentStep
<1> QED BY <1>1, <1>2, PTL DEF Spec

-----------------------------------------------------------------------------
(* The inductive invariant. *)

\* A step that leaves the channel and the retired ids alone and moves one
\* scheduler state from s to t, keeping its plan, not lowering its generation
\* and not touching an existing handoff of an unchanged generation.
Advances(r, t) ==
  /\ sched' = [sched EXCEPT ![r] = t]
  /\ UNCHANGED <<worker, handoffs, retired>>
  /\ sched[r].phase # "absent" /\ t.phase # "absent"
  /\ t.plan = sched[r].plan
  /\ \/ t.gen = sched[r].gen + 1 /\ ~HasHandoff(t)
     \/ /\ t.gen = sched[r].gen
        /\ HasHandoff(t) <=> HasHandoff(sched[r])
        /\ HasHandoff(t) => t.alloc = sched[r].alloc

HandoffInv ==
  /\ HandoffsHaveOwner
  /\ HandoffsBounded
  /\ HandoffsRecorded
  /\ RetiredAreAbsent
  /\ OneAllocationPerGeneration

\* Steps that only advance one scheduler state keep the facts about handoffs.
LEMMA AdvanceKeepsHandoffs ==
  ASSUME TypeOK, HandoffInv,
         NEW r \in Requests, NEW t \in State, Advances(r, t)
  PROVE  HandoffInv'
<1> USE DEF HandoffInv, Advances, TypeOK
<1>1. HandoffsHaveOwner'
  BY DEF HandoffsHaveOwner, Handoff
<1>2. HandoffsBounded'
  <2> SUFFICES ASSUME NEW h \in handoffs, h.req = r, r \notin retired
               PROVE  /\ h.plan = t.plan
                      /\ h.alloc.gen <= t.gen
                      /\ h.alloc.gen = t.gen =>
                           HasHandoff(t) /\ h = HandoffMetadata(h.req, t)
    BY DEF HandoffsBounded, Handoff
  <2>1. h.alloc.gen \in Nat /\ sched[r].gen \in Nat /\ t.gen \in Nat
    BY DEF Handoff, Allocation, State
  <2> QED BY <2>1 DEF HandoffsBounded, HandoffMetadata
<1>3. HandoffsRecorded'
  BY DEF HandoffsRecorded, HandoffsBounded, HandoffMetadata
<1>4. RetiredAreAbsent'
  BY DEF RetiredAreAbsent
<1>5. OneAllocationPerGeneration'
  BY DEF OneAllocationPerGeneration
<1> QED BY <1>1, <1>2, <1>3, <1>4, <1>5

\* Every step keeps the record of handoffs: the scheduler leads, and a
\* generation has one allocation.
LEMMA HandoffStep ==
  ASSUME TypeOK, PlanesConsistent, HandoffInv, [Next]_vars
  PROVE  HandoffInv'
<1> USE DEF TypeOK, PlanesConsistent
<1>1. ASSUME NEW r \in Requests, NEW p \in Plan, SchedLookup(r, p)
      PROVE  HandoffInv'
  <2>1. CASE sched[r].phase # "absent"
    BY <1>1, <2>1 DEF SchedLookup, Lookup, HandoffInv, HandoffsHaveOwner,
         HandoffsBounded, HandoffsRecorded, RetiredAreAbsent,
         OneAllocationPerGeneration
  <2>2. CASE sched[r].phase = "absent"
    <3>1. \A h \in handoffs : h.req # r
      BY <1>1, <2>2 DEF SchedLookup, HandoffInv, HandoffsHaveOwner
    <3>2. /\ Lookup(sched[r], p).phase = "looked_up"
          /\ ~HasHandoff(Lookup(sched[r], p))
      BY <2>2 DEF Lookup, Absent, HasHandoff
    <3> QED
      BY <1>1, <3>1, <3>2 DEF SchedLookup, HandoffInv, HandoffsHaveOwner,
         HandoffsBounded, HandoffsRecorded, RetiredAreAbsent,
         OneAllocationPerGeneration, Handoff
  <2> QED BY <2>1, <2>2
<1>2. ASSUME NEW r \in Requests, NEW b \in BlockTables, SchedAllocate(r, b)
      PROVE  HandoffInv'
  <2>1. Advances(r, Allocate(sched[r], b))
    BY <1>2 DEF Advances, SchedAllocate, Allocate, AllocateOk, HasHandoff, State
  <2> QED BY <2>1, AdvanceKeepsHandoffs, TransitionTypes
<1>3. ASSUME NEW r \in Requests, SchedHandoff(r)
      PROVE  HandoffInv'
  <2> DEFINE h == HandoffMetadata(r, sched[r])
             t == HandOff(sched[r])
  <2>1. /\ h \in Handoff /\ h.req = r /\ h.plan = sched[r].plan
        /\ h.alloc = sched[r].alloc /\ h.alloc.gen = sched[r].gen
    BY <1>3, HandoffType DEF SchedHandoff, HandoffMetadata, Consistent,
         HandOffOk, HasHandoff
  <2>2. /\ t \in State /\ HasHandoff(t) /\ t.phase # "absent"
        /\ t.plan = sched[r].plan /\ t.gen = sched[r].gen
        /\ t.alloc = sched[r].alloc /\ HandoffMetadata(r, t) = h
    BY <1>3, HandOffFacts DEF SchedHandoff
  <2>3. /\ r \notin retired /\ sched[r].phase # "absent"
        /\ sched' = [sched EXCEPT ![r] = t]
        /\ handoffs' = handoffs \cup {h}
        /\ worker' = worker /\ retired' = retired
    BY <1>3 DEF SchedHandoff, HandOffOk, HasHandoff, HandoffInv, RetiredAreAbsent
  <2> HIDE DEF h, t
  <2>4. HandoffsHaveOwner'
    BY <2>1, <2>2, <2>3 DEF HandoffInv, HandoffsHaveOwner, Handoff
  <2>5. HandoffsBounded'
    BY <2>1, <2>2, <2>3
       DEF HandoffInv, HandoffsBounded, HandoffMetadata, Handoff, Allocation, State
  <2>6. HandoffsRecorded'
    BY <2>1, <2>2, <2>3 DEF HandoffInv, HandoffsRecorded
  <2>7. RetiredAreAbsent'
    BY <2>3 DEF HandoffInv, RetiredAreAbsent
  <2>8. OneAllocationPerGeneration'
    BY <2>1, <2>2, <2>3 DEF HandoffInv, HandoffsBounded, OneAllocationPerGeneration,
         HandoffMetadata
  <2> QED BY <2>4, <2>5, <2>6, <2>7, <2>8 DEF HandoffInv
<1>4. ASSUME NEW r \in Requests, NEW loaded \in SUBSET Matches(worker[r].plan),
             WorkerValidate(r, loaded)
      PROVE  HandoffInv'
  <2> DEFINE rc == WorkerReceipt(r, worker[r], loaded)
             t == ApplyReceipt(worker[r], rc)
  <2>1. /\ t.phase \in {"handed_off", "worker_validated"}
        /\ HandoffMetadata(r, t) = HandoffMetadata(r, worker[r])
        /\ worker[r].phase # "absent"
    BY <1>4 DEF WorkerValidate, ApplyReceipt, ApplyReceiptOk, HandoffMetadata,
         HandoffInv, HandoffsRecorded, State
  <2>2. worker' = [worker EXCEPT ![r] = t] /\ UNCHANGED <<sched, handoffs, retired>>
    BY <1>4 DEF WorkerValidate
  <2> HIDE DEF t
  <2> QED
    BY <2>1, <2>2 DEF HandoffInv, HandoffsHaveOwner, HandoffsBounded,
       HandoffsRecorded, RetiredAreAbsent, OneAllocationPerGeneration
<1>5. ASSUME NEW r \in Requests, SchedPreempt(r)
      PROVE  HandoffInv'
  <2>1. Advances(r, Preempt(sched[r]))
    BY <1>5 DEF Advances, SchedPreempt, Preempt, PreemptOk, HasHandoff
  <2> QED BY <2>1, AdvanceKeepsHandoffs, TransitionTypes
<1>6. ASSUME NEW r \in Requests, SchedFinish(r)
      PROVE  HandoffInv'
  <2>1. Advances(r, Finish(sched[r]))
    BY <1>6 DEF Advances, SchedFinish, Finish, FinishOk, HasHandoff, State
  <2> QED BY <2>1, AdvanceKeepsHandoffs, TransitionTypes
<1>7. ASSUME NEW r \in Requests, SchedDiscard(r)
      PROVE  HandoffInv'
  BY <1>7 DEF SchedDiscard, HandoffInv, HandoffsHaveOwner, HandoffsBounded,
     HandoffsRecorded, RetiredAreAbsent, OneAllocationPerGeneration, Absent,
     HasHandoff, Handoff
<1>8. ASSUME NEW r \in Requests, WorkerDiscard(r)
      PROVE  HandoffInv'
  BY <1>8 DEF WorkerDiscard, HandoffInv, HandoffsHaveOwner, HandoffsBounded,
     HandoffsRecorded, RetiredAreAbsent, OneAllocationPerGeneration, Absent
<1>9. ASSUME NEW h \in handoffs, WorkerAccept(h)
      PROVE  HandoffInv'
  <2>1. h \in Handoff /\ h.req \in Requests
    BY DEF Handoff
  <2>2. /\ Accept(worker[h.req], h).phase \in {"handed_off", "worker_validated"}
        /\ HandoffMetadata(h.req, Accept(worker[h.req], h)) \in handoffs
    <3>1. CASE worker[h.req].phase = "absent"
      <4>1. h = [req |-> h.req, plan |-> h.plan, alloc |-> h.alloc]
        BY <2>1 DEF Handoff
      <4> QED BY <3>1, <4>1 DEF Accept, HandoffMetadata
    <3>2. CASE worker[h.req].phase # "absent"
      BY <2>1, <3>2 DEF Accept, HandoffInv, HandoffsRecorded
    <3> QED BY <3>1, <3>2
  <2> QED
    BY <1>9, <2>1, <2>2 DEF WorkerAccept, HandoffInv, HandoffsHaveOwner,
       HandoffsBounded, HandoffsRecorded, RetiredAreAbsent,
       OneAllocationPerGeneration
<1>10. ASSUME NEW rc \in receipts, SchedApply(rc)
       PROVE  HandoffInv'
  <2>1. rc \in Receipt /\ rc.req \in Requests
    BY DEF Receipt
  <2>2. Advances(rc.req, ApplyReceipt(sched[rc.req], rc))
    BY <1>10, <2>1
       DEF Advances, SchedApply, ApplyReceipt, ApplyReceiptOk, HasHandoff, State
  <2> QED BY <2>1, <2>2, AdvanceKeepsHandoffs, TransitionTypes
<1>11. CASE UNCHANGED vars
  BY <1>11 DEF vars, HandoffInv, HandoffsHaveOwner, HandoffsBounded,
     HandoffsRecorded, RetiredAreAbsent, OneAllocationPerGeneration
<1> QED
  BY <1>1, <1>2, <1>3, <1>4, <1>5, <1>6, <1>7, <1>8, <1>9, <1>10, <1>11 DEF Next

\* Every step keeps the record of receipts: each answers a recorded handoff.
LEMMA ReceiptStep ==
  ASSUME TypeOK, ReceiptsRecorded, [Next]_vars
  PROVE  ReceiptsRecorded'
<1> USE DEF TypeOK, ReceiptsRecorded
<1>1. ASSUME NEW r \in Requests, NEW p \in Plan, SchedLookup(r, p)
      PROVE  ReceiptsRecorded'
  BY <1>1 DEF SchedLookup, Lookup, Absent
<1>2. ASSUME NEW r \in Requests, NEW b \in BlockTables, SchedAllocate(r, b)
      PROVE  ReceiptsRecorded'
  BY <1>2 DEF SchedAllocate, Allocate, State
<1>3. ASSUME NEW r \in Requests, SchedHandoff(r)
      PROVE  ReceiptsRecorded'
  BY <1>3 DEF SchedHandoff, HandOff, State
<1>4. ASSUME NEW r \in Requests, NEW loaded \in SUBSET Matches(worker[r].plan),
             WorkerValidate(r, loaded)
      PROVE  ReceiptsRecorded'
  BY <1>4, WorkerReceiptType DEF WorkerValidate
<1>5. ASSUME NEW r \in Requests, SchedPreempt(r)
      PROVE  ReceiptsRecorded'
  BY <1>5 DEF SchedPreempt, Preempt
<1>6. ASSUME NEW r \in Requests, SchedFinish(r)
      PROVE  ReceiptsRecorded'
  BY <1>6 DEF SchedFinish, Finish, FinishOk, State
<1>7. ASSUME NEW r \in Requests, SchedDiscard(r)
      PROVE  ReceiptsRecorded'
  BY <1>7 DEF SchedDiscard, Absent
<1>8. ASSUME NEW r \in Requests, WorkerDiscard(r)
      PROVE  ReceiptsRecorded'
  BY <1>8 DEF WorkerDiscard
<1>9. ASSUME NEW h \in handoffs, WorkerAccept(h)
      PROVE  ReceiptsRecorded'
  BY <1>9 DEF WorkerAccept
<1>10. ASSUME NEW rc \in receipts, SchedApply(rc)
       PROVE  ReceiptsRecorded'
  <2>1. rc \in Receipt /\ rc.req \in Requests
    BY DEF Receipt
  <2> QED BY <1>10, <2>1 DEF SchedApply, ApplyReceipt, ApplyReceiptOk, State
<1>11. CASE UNCHANGED vars
  BY <1>11 DEF vars
<1> QED
  BY <1>1, <1>2, <1>3, <1>4, <1>5, <1>6, <1>7, <1>8, <1>9, <1>10, <1>11 DEF Next

\* The inductive invariant holds throughout.
THEOREM Inductive == Spec => []IInv
<1>1. Init => IInv
  <2>1. Absent \in State /\ Consistent(Absent) /\ ~HasHandoff(Absent)
        /\ Absent.phase = "absent"
    BY MaxMatchesAssumption DEF Absent, State, Consistent, HasHandoff
  <2> QED
    BY <2>1 DEF Init, IInv, TypeOK, PlanesConsistent, HandoffsHaveOwner,
       HandoffsBounded, HandoffsRecorded, ReceiptsRecorded, RetiredAreAbsent,
       OneAllocationPerGeneration
<1>2. IInv /\ [Next]_vars => IInv'
  <2>1. IInv <=> /\ TypeOK /\ PlanesConsistent /\ HandoffInv /\ ReceiptsRecorded
    BY DEF IInv, HandoffInv
  <2>2. IInv' <=> /\ TypeOK' /\ PlanesConsistent' /\ HandoffInv'
                  /\ ReceiptsRecorded'
    BY DEF IInv, HandoffInv
  <2> QED BY <2>1, <2>2, TypeStep, ConsistentStep, HandoffStep, ReceiptStep
<1> QED BY <1>1, <1>2, PTL DEF Spec

-----------------------------------------------------------------------------
(* The results. *)

\* No stale receipt is ever accepted: an accepted disposition is the worker's,
\* for the allocation the scheduler holds now.
THEOREM StaleReceiptsRejected == Spec => []ReceiptIsCurrent
<1>1. IInv => ReceiptIsCurrent
  BY DEF IInv, ReceiptIsCurrent, ReceiptsRecorded, HandoffsRecorded, HasHandoff,
     PlanesConsistent, Consistent
<1> QED BY <1>1, Inductive, PTL

\* found == loaded + rejected for every accepted disposition.
THEOREM DispositionsReconcile == Spec => []DispositionIsPartition
<1>1. IInv => DispositionIsPartition
  BY DEF IInv, DispositionIsPartition, ReceiptsRecorded
<1> QED BY <1>1, Inductive, PTL

\* Neither the worker nor a message in flight is ahead of the scheduler.
THEOREM SchedulerLeads == Spec => []WorkerNeverAhead
<1>1. IInv => WorkerNeverAhead
  <2> SUFFICES ASSUME IInv, NEW r \in Requests, sched[r].phase # "absent"
               PROVE  /\ \A h \in handoffs : h.req = r =>
                           h.alloc.gen <= sched[r].gen /\ h.plan = sched[r].plan
                      /\ worker[r].phase # "absent" =>
                           /\ worker[r].gen <= sched[r].gen
                           /\ worker[r].plan = sched[r].plan
    BY DEF WorkerNeverAhead
  <2>1. r \notin retired
    BY DEF IInv, RetiredAreAbsent
  <2>2. \A h \in handoffs : h.req = r =>
          h.alloc.gen <= sched[r].gen /\ h.plan = sched[r].plan
    BY <2>1 DEF IInv, HandoffsBounded
  <2>3. ASSUME worker[r].phase # "absent"
        PROVE  worker[r].gen <= sched[r].gen /\ worker[r].plan = sched[r].plan
    <3> DEFINE h == HandoffMetadata(r, worker[r])
    <3>1. h \in handoffs /\ h.req = r /\ h.plan = worker[r].plan
          /\ h.alloc.gen = worker[r].gen
      BY <2>3 DEF IInv, HandoffsRecorded, PlanesConsistent, Consistent,
         HandoffMetadata
    <3> QED BY <2>2, <3>1
  <2> QED BY <2>2, <2>3
<1> QED BY <1>1, Inductive, PTL

\* A generation has one allocation, in every message ever sent.
THEOREM GenerationsAreUnique == Spec => []OneAllocationPerGeneration
<1>1. IInv => OneAllocationPerGeneration
  BY DEF IInv
<1> QED BY <1>1, Inductive, PTL

\* No step rebinds blocks or changes a disposition within a generation.
THEOREM GenerationsAreFrozen == Spec => GenerationIsFrozen
<1> DEFINE Frozen == \A r \in Requests :
       sched[r].phase # "absent" /\ sched'[r].phase # "absent" =>
         /\ sched'[r].plan = sched[r].plan
         /\ \/ sched'[r].gen = sched[r].gen + 1
            \/ /\ sched'[r].gen = sched[r].gen
               /\ sched[r].alloc # None => sched'[r].alloc = sched[r].alloc
               /\ sched[r].receipt # None =>
                    sched'[r].receipt = sched[r].receipt
<1>1. TypeOK /\ PlanesConsistent /\ [Next]_vars => [Frozen]_vars
  <2> SUFFICES ASSUME TypeOK, PlanesConsistent, Next
               PROVE  Frozen
    OBVIOUS
  <2> USE DEF TypeOK, PlanesConsistent
  <2>1. ASSUME NEW r \in Requests, NEW p \in Plan, SchedLookup(r, p)
        PROVE  Frozen
    BY <2>1 DEF SchedLookup, Lookup
  <2>2. ASSUME NEW r \in Requests, NEW b \in BlockTables, SchedAllocate(r, b)
        PROVE  Frozen
    BY <2>2 DEF SchedAllocate, Allocate, State, Consistent
  <2>3. ASSUME NEW r \in Requests, SchedHandoff(r)
        PROVE  Frozen
    BY <2>3 DEF SchedHandoff, HandOff, State
  <2>4. ASSUME NEW r \in Requests, SchedPreempt(r)
        PROVE  Frozen
    BY <2>4 DEF SchedPreempt, Preempt
  <2>5. ASSUME NEW r \in Requests, SchedFinish(r)
        PROVE  Frozen
    BY <2>5 DEF SchedFinish, Finish, State
  <2>6. ASSUME NEW r \in Requests, SchedDiscard(r)
        PROVE  Frozen
    BY <2>6 DEF SchedDiscard, Absent
  <2>7. ASSUME NEW rc \in receipts, SchedApply(rc)
        PROVE  Frozen
    BY <2>7 DEF SchedApply, ApplyReceipt, State, Receipt, Consistent
  <2>8. ASSUME UNCHANGED sched
        PROVE  Frozen
    BY <2>8
  <2> QED
    BY <2>1, <2>2, <2>3, <2>4, <2>5, <2>6, <2>7, <2>8
       DEF Next, WorkerAccept, WorkerValidate, WorkerDiscard
<1> QED BY <1>1, TypeCorrect, PTL DEF Spec, GenerationIsFrozen

-----------------------------------------------------------------------------
(***************************************************************************)
(* ControlPlane implements RequestLedger, for any requests, block tables   *)
(* and bounds: every step of the planes is a step of the ledger under the  *)
(* mapping that ControlPlane states, or leaves the ledger as it is.  The   *)
(* simulation rests on the inductive invariant above: it is what makes a   *)
(* receipt that the scheduler accepts work that was done for the present   *)
(* placement.                                                              *)
(***************************************************************************)

\* A request that the scheduler does not have leaves nothing behind.
AbsentIsAbsent == \A r \in Requests : sched[r].phase = "absent" => sched[r] = Absent

LInv == IInv /\ AbsentIsAbsent

\* No transition turns a present state into an absent one that remembers
\* something: only discard makes a request absent.
LEMMA AbsentStep ==
  ASSUME TypeOK, AbsentIsAbsent, [Next]_vars
  PROVE  AbsentIsAbsent'
<1> USE DEF TypeOK, AbsentIsAbsent
<1>1. ASSUME NEW r \in Requests, NEW p \in Plan, SchedLookup(r, p)
      PROVE  AbsentIsAbsent'
  BY <1>1 DEF SchedLookup, Lookup, Absent
<1>2. ASSUME NEW r \in Requests, NEW b \in BlockTables, SchedAllocate(r, b)
      PROVE  AbsentIsAbsent'
  BY <1>2 DEF SchedAllocate, Allocate, State
<1>3. ASSUME NEW r \in Requests, SchedHandoff(r)
      PROVE  AbsentIsAbsent'
  BY <1>3 DEF SchedHandoff, HandOff, State
<1>4. ASSUME NEW r \in Requests, SchedPreempt(r)
      PROVE  AbsentIsAbsent'
  BY <1>4 DEF SchedPreempt, Preempt
<1>5. ASSUME NEW r \in Requests, SchedFinish(r)
      PROVE  AbsentIsAbsent'
  BY <1>5 DEF SchedFinish, Finish, State
<1>6. ASSUME NEW r \in Requests, SchedDiscard(r)
      PROVE  AbsentIsAbsent'
  BY <1>6 DEF SchedDiscard
<1>7. ASSUME NEW rc \in receipts, SchedApply(rc)
      PROVE  AbsentIsAbsent'
  BY <1>7 DEF SchedApply, ApplyReceipt, State, Receipt
<1>8. ASSUME UNCHANGED sched
      PROVE  AbsentIsAbsent'
  BY <1>8
<1> QED
  BY <1>1, <1>2, <1>3, <1>4, <1>5, <1>6, <1>7, <1>8
     DEF Next, WorkerAccept, WorkerValidate, WorkerDiscard, vars

\* The invariant of the simulation.
THEOREM SimulationInvariant == Spec => []LInv
<1>1. Init => AbsentIsAbsent
  BY DEF Init, AbsentIsAbsent
<1>2. IInv /\ AbsentIsAbsent /\ [Next]_vars => AbsentIsAbsent'
  BY AbsentStep DEF IInv
<1> QED BY <1>1, <1>2, Inductive, PTL DEF Spec, LInv

-----------------------------------------------------------------------------
(* The mapping. *)

entryBar == [r \in Requests |-> LedgerEntry(sched[r])]
offeredBar == {LedgerPlacement(h) : h \in handoffs}
doneBar == {LedgerWork(x[1], x[2]) : x \in {y \in receipts \X Plan : Accounts(y[1], y[2])}}

\* A plan is known by its matches: two plans with the same matches are one.
LEMMA MatchesDeterminePlan ==
  ASSUME NEW p \in Plan, NEW q \in Plan, Matches(p) = Matches(q)
  PROVE  p = q
<1>1. p \in Nat /\ q \in Nat
  BY MaxMatchesAssumption DEF Plan
<1>2. ASSUME p < q PROVE FALSE
  <2>1. q \in Matches(q) /\ q \notin Matches(p)
    BY <1>1, <1>2 DEF Matches
  <2> QED BY <2>1
<1>3. ASSUME q < p PROVE FALSE
  <2>1. p \in Matches(p) /\ p \notin Matches(q)
    BY <1>1, <1>3 DEF Matches
  <2> QED BY <2>1
<1> QED BY <1>1, <1>2, <1>3

\* The status of a ledger entry, by the phase of the plane's state.
LEMMA EntryFacts ==
  ASSUME NEW s \in State
  PROVE  /\ LedgerEntry(s).plan = s.plan /\ LedgerEntry(s).gen = s.gen
         /\ s.phase = "looked_up" => LedgerEntry(s).st = "open"
         /\ s.phase \in {"allocated", "handed_off"} => LedgerEntry(s).st = "placed"
         /\ s.phase \in {"worker_validated", "finished"} => LedgerEntry(s).st = "settled"
         /\ s.phase # "absent" => LedgerEntry(s).st # "none"
         /\ s.alloc # None => LedgerEntry(s).blocks = s.alloc.blocks
         /\ s.receipt # None => LedgerEntry(s).loaded = s.receipt.loaded
BY DEF LedgerEntry, State

\* A request without a state in the plane is one the ledger has not opened.
LEMMA UnopenedIsAbsent == LedgerEntry(Absent) = Ledger!Unopened
BY DEF LedgerEntry, Absent, Ledger!Unopened, Ledger!Entry

\* What the scheduler's plane hands off is the placement in the ledger.
LEMMA PlacementOfHandoff ==
  ASSUME TypeOK, PlanesConsistent, NEW r \in Requests, HandOffOk(sched[r])
  PROVE  Ledger!Placement(r) = LedgerPlacement(HandoffMetadata(r, sched[r]))
<1>1. sched[r] \in State /\ Consistent(sched[r])
  BY DEF TypeOK, PlanesConsistent
<1>2. sched[r].alloc # None /\ sched[r].alloc.gen = sched[r].gen
  BY <1>1, NoneAssumption DEF HandOffOk, HasHandoff, Consistent
<1>3. /\ LedgerEntry(sched[r]).plan = sched[r].plan
      /\ LedgerEntry(sched[r]).gen = sched[r].gen
      /\ LedgerEntry(sched[r]).blocks = sched[r].alloc.blocks
  BY <1>1, <1>2, EntryFacts
<1> QED BY <1>2, <1>3 DEF Ledger!Placement, LedgerPlacement, HandoffMetadata

-----------------------------------------------------------------------------
(* The simulation, one step of the planes at a time. *)

\* A step that only moves the scheduler's state of r from s to t changes the
\* entry of r in the ledger and nothing else.
LEMMA EntryUpdate ==
  ASSUME TypeOK, NEW r \in Requests, NEW t,
         sched' = [sched EXCEPT ![r] = t]
  PROVE  entryBar' = [entryBar EXCEPT ![r] = LedgerEntry(t)]
BY DEF entryBar, TypeOK

\* Init maps to the ledger's initial state.
LEMMA LedgerInit == Init => Ledger!Init
<1> SUFFICES ASSUME Init PROVE Ledger!Init
  OBVIOUS
<1>1. entryBar = [r \in Requests |-> Ledger!Unopened]
  BY UnopenedIsAbsent DEF Init, entryBar
<1>2. offeredBar = {} /\ doneBar = {}
  BY DEF Init, offeredBar, doneBar
<1> QED BY <1>1, <1>2 DEF Init, Ledger!Init, entryBar, offeredBar, doneBar

\* What is done in the ledger: the receipts, read with the plan they account for.
LEMMA InDone ==
  /\ \A w : w \in doneBar <=>
       \E x \in receipts, p \in Plan : Accounts(x, p) /\ w = LedgerWork(x, p)
  /\ \A w : w \in doneBar' <=>
       \E x \in receipts', p \in Plan : Accounts(x, p) /\ w = LedgerWork(x, p)
<1> DEFINE Of(R) == {LedgerWork(y[1], y[2]) : y \in {z \in R \X Plan : Accounts(z[1], z[2])}}
<1>1. ASSUME NEW R, NEW w
      PROVE  w \in Of(R) <=> \E x \in R, p \in Plan : Accounts(x, p) /\ w = LedgerWork(x, p)
  <2>1. ASSUME w \in Of(R)
        PROVE  \E x \in R, p \in Plan : Accounts(x, p) /\ w = LedgerWork(x, p)
    <3>1. PICK y \in R \X Plan : Accounts(y[1], y[2]) /\ w = LedgerWork(y[1], y[2])
      BY <2>1
    <3>2. y[1] \in R /\ y[2] \in Plan
      OBVIOUS
    <3> QED BY <3>1, <3>2
  <2>2. ASSUME NEW x \in R, NEW p \in Plan, Accounts(x, p), w = LedgerWork(x, p)
        PROVE  w \in Of(R)
    <3> DEFINE y == <<x, p>>
    <3>1. y \in R \X Plan /\ y[1] = x /\ y[2] = p
      OBVIOUS
    <3> HIDE DEF y
    <3>2. y \in {z \in R \X Plan : Accounts(z[1], z[2])} /\ w = LedgerWork(y[1], y[2])
      BY <2>2, <3>1
    <3> QED BY <3>2
  <2> QED BY <2>1, <2>2
<1>2. doneBar = Of(receipts) /\ doneBar' = Of(receipts')
  BY DEF doneBar
<1> HIDE DEF Of
<1> QED BY <1>1, <1>2

\* The worker's receipt is one piece of work in the ledger: it accounts for the
\* matches of one plan only, the worker's.
LEMMA ReceiptIsOneWork ==
  ASSUME TypeOK, NEW r \in Requests, worker[r].alloc # None,
         NEW loaded \in SUBSET Matches(worker[r].plan),
         NEW rc, rc = WorkerReceipt(r, worker[r], loaded),
         receipts' = receipts \cup {rc}
  PROVE  doneBar' = doneBar \cup {LedgerWork(rc, worker[r].plan)}
<1>1. worker[r].plan \in Plan
  BY DEF TypeOK, State
<1>2. rc.loaded \cup rc.rejected = Matches(worker[r].plan) /\ rc.loaded \cap rc.rejected = {}
  BY DEF WorkerReceipt
<1>3. \A p \in Plan : Accounts(rc, p) <=> p = worker[r].plan
  BY <1>1, <1>2, MatchesDeterminePlan DEF Accounts
<1> QED BY <1>1, <1>3, InDone

\* Every step of the planes is a step of the ledger, or leaves it alone.
LEMMA LedgerStep ==
  ASSUME LInv, [Next]_vars
  PROVE  [Ledger!Next]_(Ledger!vars)
<1> DEFINE Same == UNCHANGED <<entryBar, offeredBar, doneBar, retired>>
<1>0. TypeOK /\ PlanesConsistent
  BY DEF LInv, IInv
<1> USE DEF TypeOK, PlanesConsistent
<1>s. Same => UNCHANGED Ledger!vars
  BY DEF Ledger!vars, entryBar, offeredBar, doneBar
<1>1. ASSUME NEW r \in Requests, NEW p \in Plan, SchedLookup(r, p)
      PROVE  Ledger!Next \/ Same
  <2>1. CASE sched[r].phase = "absent"
    <3> DEFINE t == [Absent EXCEPT !.phase = "looked_up", !.plan = p]
    <3>1. sched[r] = Absent /\ r \notin retired /\ sched' = [sched EXCEPT ![r] = t]
      BY <1>1, <2>1 DEF SchedLookup, Lookup, LInv, AbsentIsAbsent
    <3>2. LedgerEntry(t) = Ledger!Entry("open", p, 0, None, {})
      BY DEF LedgerEntry, Absent, Ledger!Entry
    <3>3. entryBar[r] = Ledger!Unopened
      BY <3>1, UnopenedIsAbsent DEF entryBar
    <3>4. entryBar' = [entryBar EXCEPT ![r] = LedgerEntry(t)]
      BY <1>0, <3>1, EntryUpdate
    <3>5. UNCHANGED <<offeredBar, doneBar, retired>>
      BY <1>1 DEF SchedLookup, offeredBar, doneBar
    <3>6. Ledger!Open(r, p)
      BY <3>1, <3>2, <3>3, <3>4, <3>5 DEF Ledger!Open, entryBar, offeredBar, doneBar
    <3> QED BY <3>6 DEF Ledger!Next, Plan
  <2>2. CASE sched[r].phase # "absent"
    BY <1>0, <1>1, <2>2 DEF SchedLookup, Lookup, entryBar, offeredBar, doneBar
  <2> QED BY <2>1, <2>2
<1>2. ASSUME NEW r \in Requests, NEW b \in BlockTables, SchedAllocate(r, b)
      PROVE  Ledger!Next \/ Same
  <2>1. CASE sched[r].phase = "looked_up"
    <3> DEFINE t == [sched[r] EXCEPT !.phase = "allocated", !.alloc = Candidate(sched[r], b)]
    <3>1. /\ sched' = [sched EXCEPT ![r] = t]
          /\ sched[r].alloc = None /\ sched[r].receipt = None
      BY <1>0, <1>1, <1>2, <2>1 DEF SchedAllocate, Allocate, Consistent
    <3>2. t.alloc # None /\ t.alloc.blocks = b /\ t.receipt = None
      BY <1>0, <3>1, NoneAssumption DEF Candidate, State, Allocation
    <3>3. LedgerEntry(t) = Ledger!Entry("placed", sched[r].plan, sched[r].gen, b, {})
      <4>1. t.phase = "allocated" /\ t.plan = sched[r].plan /\ t.gen = sched[r].gen
        BY <1>0, <3>1 DEF State
      <4> HIDE DEF t
      <4> QED BY <3>2, <4>1 DEF LedgerEntry, Ledger!Entry
    <3>4. entryBar' = [entryBar EXCEPT ![r] = LedgerEntry(t)]
      BY <1>0, <3>1, EntryUpdate
    <3>5. /\ entryBar[r].st = "open" /\ entryBar[r].plan = sched[r].plan
          /\ entryBar[r].gen = sched[r].gen
      BY <1>0, <2>1, EntryFacts DEF entryBar
    <3>6. UNCHANGED <<offeredBar, doneBar, retired>>
      BY <1>2 DEF SchedAllocate, offeredBar, doneBar
    <3> HIDE DEF t
    <3>7. Ledger!Place(r, b)
      BY <3>3, <3>4, <3>5, <3>6 DEF Ledger!Place, entryBar, offeredBar, doneBar
    <3> QED BY <3>7 DEF Ledger!Next
  <2>2. CASE sched[r].phase # "looked_up"
    BY <1>0, <1>2, <2>2 DEF SchedAllocate, Allocate, entryBar, offeredBar, doneBar
  <2> QED BY <2>1, <2>2
<1>3. ASSUME NEW r \in Requests, SchedHandoff(r)
      PROVE  Ledger!Next \/ Same
  <2> DEFINE h == HandoffMetadata(r, sched[r])
             t == HandOff(sched[r])
  <2>1. HandOffOk(sched[r]) /\ sched' = [sched EXCEPT ![r] = t]
        /\ handoffs' = handoffs \cup {h} /\ receipts' = receipts /\ retired' = retired
    BY <1>3 DEF SchedHandoff
  <2>2. LedgerEntry(t) = LedgerEntry(sched[r])
    BY <1>0 DEF HandOff, LedgerEntry, State
  <2>3. entryBar' = entryBar
    <3>1. entryBar' = [entryBar EXCEPT ![r] = LedgerEntry(t)]
      BY <1>0, <2>1, EntryUpdate
    <3> QED BY <2>2, <3>1 DEF entryBar
  <2>4. entryBar[r].st \in {"placed", "settled"}
    BY <1>0, <2>1, EntryFacts DEF entryBar, HandOffOk, HasHandoff
  <2>5. offeredBar' = offeredBar \cup {Ledger!Placement(r)}
    <3>1. Ledger!Placement(r) = LedgerPlacement(h)
      BY <1>0, <2>1, PlacementOfHandoff
    <3> HIDE DEF h
    <3> QED BY <2>1, <3>1 DEF offeredBar
  <2>6. doneBar' = doneBar
    BY <2>1 DEF doneBar
  <2>7. Ledger!Offer(r)
    BY <2>1, <2>3, <2>4, <2>5, <2>6 DEF Ledger!Offer, entryBar, offeredBar, doneBar
  <2> QED BY <2>7 DEF Ledger!Next
<1>4. ASSUME NEW r \in Requests, NEW loaded \in SUBSET Matches(worker[r].plan),
             WorkerValidate(r, loaded)
      PROVE  Ledger!Next \/ Same
  <2> DEFINE rc == WorkerReceipt(r, worker[r], loaded)
             h == HandoffMetadata(r, worker[r])
             p == LedgerPlacement(h)
  <2>1. /\ worker[r].alloc # None /\ worker[r].phase # "absent"
        /\ receipts' = receipts \cup {rc}
        /\ UNCHANGED <<sched, handoffs, retired>>
    BY <1>4 DEF WorkerValidate, ApplyReceiptOk
  <2>2. h \in handoffs
    BY <2>1 DEF LInv, IInv, HandoffsRecorded
  <2>3. p \in offeredBar
    BY <2>2 DEF offeredBar
  <2>4. p.plan = worker[r].plan /\ loaded \in SUBSET Matches(MaxMatches)
    BY <1>0, MaxMatchesAssumption DEF LedgerPlacement, HandoffMetadata, Matches, State, Plan
  <2>5. LedgerWork(rc, worker[r].plan) = [of |-> p, loaded |-> loaded]
    BY DEF LedgerWork, LedgerPlacement, HandoffMetadata, WorkerReceipt
  <2>6. doneBar' = doneBar \cup {[of |-> p, loaded |-> loaded]}
    BY <1>0, <2>1, <2>5, ReceiptIsOneWork
  <2>7. UNCHANGED <<entryBar, offeredBar, retired>>
    BY <2>1 DEF entryBar, offeredBar
  <2>8. Ledger!Matches(p.plan) = Matches(worker[r].plan)
        /\ Ledger!Matches(MaxMatches) = Matches(MaxMatches)
    BY <2>4 DEF Ledger!Matches, Matches
  <2> HIDE DEF p
  <2>9. Ledger!Work(p, loaded)
    BY <2>6, <2>7, <2>8 DEF Ledger!Work, entryBar, offeredBar, doneBar
  <2> QED BY <2>3, <2>4, <2>8, <2>9 DEF Ledger!Next, offeredBar
<1>5. ASSUME NEW r \in Requests, SchedPreempt(r)
      PROVE  Ledger!Next \/ Same
  <2>1. CASE sched[r].phase = "looked_up"
    BY <1>0, <1>5, <2>1 DEF SchedPreempt, Preempt, entryBar, offeredBar, doneBar
  <2>2. CASE sched[r].phase # "looked_up"
    <3> DEFINE s == sched[r]
               t == [phase |-> "looked_up", plan |-> s.plan, gen |-> s.gen + 1,
                     alloc |-> None, receipt |-> None]
    <3>1. sched' = [sched EXCEPT ![r] = t] /\ s.phase \notin {"absent", "looked_up"}
      BY <1>5, <2>2 DEF SchedPreempt, Preempt, PreemptOk
    <3>2. /\ entryBar[r].st \in {"placed", "settled"}
          /\ entryBar[r].plan = s.plan /\ entryBar[r].gen = s.gen
      BY <1>0, <3>1, EntryFacts DEF entryBar, State, Phases
    <3>3. LedgerEntry(t) = Ledger!Entry("open", s.plan, s.gen + 1, None, {})
      BY DEF LedgerEntry, Ledger!Entry
    <3>4. entryBar' = [entryBar EXCEPT ![r] = LedgerEntry(t)]
      BY <1>0, <3>1, EntryUpdate
    <3>5. UNCHANGED <<offeredBar, doneBar, retired>>
      BY <1>5 DEF SchedPreempt, offeredBar, doneBar
    <3> HIDE DEF s, t
    <3>6. Ledger!Reopen(r)
      BY <3>2, <3>3, <3>4, <3>5 DEF Ledger!Reopen, entryBar, offeredBar, doneBar
    <3> QED BY <3>6 DEF Ledger!Next
  <2> QED BY <2>1, <2>2
<1>6. ASSUME NEW r \in Requests, SchedFinish(r)
      PROVE  Ledger!Next \/ Same
  <2>1. LedgerEntry(Finish(sched[r])) = LedgerEntry(sched[r])
    BY <1>0, <1>6 DEF SchedFinish, Finish, FinishOk, LedgerEntry, State
  <2> QED BY <1>0, <1>6, <2>1 DEF SchedFinish, entryBar, offeredBar, doneBar
<1>7. ASSUME NEW r \in Requests, SchedDiscard(r)
      PROVE  Ledger!Next \/ Same
  <2>1. entryBar' = [entryBar EXCEPT ![r] = Ledger!Unopened]
    BY <1>0, <1>7, EntryUpdate, UnopenedIsAbsent DEF SchedDiscard
  <2>2. entryBar[r] # Ledger!Unopened
    BY <1>0, <1>7, EntryFacts DEF SchedDiscard, entryBar, Ledger!Unopened, Ledger!Entry
  <2>3. retired' = retired \cup {r} /\ UNCHANGED <<offeredBar, doneBar>>
    BY <1>7 DEF SchedDiscard, offeredBar, doneBar
  <2>4. Ledger!Close(r)
    BY <2>1, <2>2, <2>3 DEF Ledger!Close, entryBar, offeredBar, doneBar
  <2> QED BY <2>4 DEF Ledger!Next
<1>8. ASSUME NEW rc \in receipts, SchedApply(rc)
      PROVE  Ledger!Next \/ Same
  <2> DEFINE r == rc.req
             s == sched[r]
             t == ApplyReceipt(s, rc)
  <2>1. /\ rc \in Receipt /\ r \in Requests /\ s \in State /\ Consistent(s)
        /\ ApplyReceiptOk(s, rc) /\ sched' = [sched EXCEPT ![r] = t]
    BY <1>0, <1>8 DEF SchedApply, Receipt
  <2>2. UNCHANGED <<offeredBar, doneBar, retired>>
    BY <1>8 DEF SchedApply, offeredBar, doneBar
  <2>3. CASE s.phase = "handed_off"
    <3>1. /\ t = [s EXCEPT !.phase = "worker_validated", !.receipt = rc]
          /\ rc # None /\ s.alloc # None
          /\ rc.alloc = s.alloc /\ s.alloc.gen = s.gen
          /\ rc.loaded \cup rc.rejected = Matches(s.plan)
          /\ rc.loaded \cap rc.rejected = {}
      BY <2>1, <2>3, NoneAssumption
         DEF ApplyReceipt, ApplyReceiptOk, Consistent, LInv, IInv, ReceiptsRecorded
    <3>2. LedgerEntry(t) = Ledger!Entry("settled", s.plan, s.gen, s.alloc.blocks, rc.loaded)
      <4>1. /\ t.phase = "worker_validated" /\ t.plan = s.plan /\ t.gen = s.gen
            /\ t.alloc = s.alloc /\ t.receipt = rc
        BY <2>1, <3>1 DEF State
      <4> HIDE DEF t
      <4> QED BY <3>1, <4>1 DEF LedgerEntry, Ledger!Entry
    <3>3. entryBar' = [entryBar EXCEPT ![r] = LedgerEntry(t)]
      BY <1>0, <2>1, EntryUpdate
    <3>4. /\ entryBar[r].st = "placed" /\ entryBar[r].plan = s.plan
          /\ entryBar[r].gen = s.gen /\ entryBar[r].blocks = s.alloc.blocks
      BY <2>1, <2>3, <3>1, EntryFacts DEF entryBar
    <3>5. LedgerWork(rc, s.plan) \in doneBar
      BY <2>1, <3>1, InDone DEF Accounts, State
    <3>6. Ledger!Placement(r) = LedgerPlacement(HandoffMetadata(r, s))
      BY <1>0, <2>1, <2>3, PlacementOfHandoff DEF HandOffOk, HasHandoff
    <3>7. [of |-> Ledger!Placement(r), loaded |-> rc.loaded] = LedgerWork(rc, s.plan)
      BY <3>1, <3>6 DEF LedgerWork, LedgerPlacement, HandoffMetadata
    <3>8. rc.loaded \in SUBSET Ledger!Matches(MaxMatches)
      BY <2>1 DEF Receipt, Matches, Ledger!Matches
    <3> HIDE DEF r, s, t
    <3>9. Ledger!Settle(r, rc.loaded)
      BY <2>2, <3>2, <3>3, <3>4, <3>5, <3>7 DEF Ledger!Settle, entryBar, offeredBar, doneBar
    <3> QED BY <2>1, <3>8, <3>9 DEF Ledger!Next
  <2>4. CASE s.phase # "handed_off"
    BY <1>0, <2>1, <2>2, <2>4 DEF ApplyReceipt, entryBar
  <2> QED BY <2>3, <2>4
<1>9. ASSUME UNCHANGED <<sched, handoffs, receipts, retired>>
      PROVE  Same
  BY <1>9 DEF entryBar, offeredBar, doneBar
<1> QED
  <2>1. CASE Next
    BY <2>1, <1>s, <1>1, <1>2, <1>3, <1>4, <1>5, <1>6, <1>7, <1>8, <1>9
       DEF Next, WorkerAccept, WorkerDiscard
  <2>2. CASE UNCHANGED vars
    BY <2>2, <1>s, <1>9 DEF vars
  <2> QED BY <2>1, <2>2

\* The planes implement the ledger: the detailed protocol, over a channel that
\* delays, repeats and reorders, settles each placement at most once, by work
\* done for exactly that placement.
THEOREM PlanesImplementLedger == Spec => ImplementsLedger
<1>1. LInv /\ [Next]_vars => [Ledger!Next]_(Ledger!vars)
  BY LedgerStep
<1> QED BY <1>1, LedgerInit, SimulationInvariant, PTL DEF Spec, ImplementsLedger, Ledger!Spec

=============================================================================
