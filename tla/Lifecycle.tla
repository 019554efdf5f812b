------------------------------ MODULE Lifecycle ------------------------------
(***************************************************************************)
(* RequestLifecycleState of connector/control_plane.py as pure operators.  *)
(*                                                                         *)
(* One state is what one control plane (the scheduler's or the worker's)   *)
(* keeps for one request id; the id itself is the index of the planes'     *)
(* dictionaries, so it is not a field here.  A transition of the code      *)
(* either returns a new immutable state or raises; each one is a pair      *)
(* XOk(s, ...), true when it returns, and X(s, ...), what it returns.      *)
(*                                                                         *)
(* Data that the properties do not tell apart is abstracted: a match plan  *)
(* is the number of its verified matches, and the block tables of all      *)
(* cache groups are one element of BlockTables.  preemption_count moves    *)
(* together with allocation_generation (control_plane.py, preempt) and     *)
(* handoff_metadata is always (plan, allocation), so neither is stored.    *)
(***************************************************************************)
EXTENDS Naturals

CONSTANTS
  Requests,     \* request ids
  BlockTables,  \* grouped block tables the KV manager can hand out
  MaxMatches,   \* bound on the verified matches of one plan
  None          \* Python's None

ASSUME MaxMatchesAssumption == MaxMatches \in Nat

Phases == {"absent", "looked_up", "allocated", "handed_off",
           "worker_validated", "finished"}

Plan == 0..MaxMatches

\* The indexes of the matches of plan p.
Matches(p) == 1..p

\* RequestAllocation: block tables bound to one generation.
Allocation == [gen : Nat, blocks : BlockTables]

\* RequestHandoffMetadata: the scheduler-to-worker payload.
Handoff == [req : Requests, plan : Plan, alloc : Allocation]

\* WorkerValidationReceipt: the worker-to-scheduler payload.
Receipt == [req : Requests, alloc : Allocation,
            loaded : SUBSET Matches(MaxMatches),
            rejected : SUBSET Matches(MaxMatches)]

ASSUME NoneAssumption == None \notin Allocation /\ None \notin Receipt

State == [phase : Phases, plan : Plan, gen : Nat,
          alloc : Allocation \cup {None}, receipt : Receipt \cup {None}]

\* No entry in the plane's dictionary.
Absent == [phase |-> "absent", plan |-> 0, gen |-> 0,
           alloc |-> None, receipt |-> None]

\* __post_init__: the fields a phase requires and forbids.
Consistent(s) ==
  /\ s.phase \in {"absent", "looked_up"} => s.alloc = None /\ s.receipt = None
  /\ s.phase \notin {"absent", "looked_up"} =>
       s.alloc # None /\ s.alloc.gen = s.gen
  /\ s.phase \in {"allocated", "handed_off"} => s.receipt = None
  /\ s.phase \in {"worker_validated", "finished"} =>
       s.receipt # None /\ s.receipt.alloc = s.alloc

\* RequestControlPlane.lookup: an exact duplicate is harmless.
LookupOk(s, p) == s.phase = "absent" \/ s.plan = p
Lookup(s, p) ==
  IF s.phase = "absent" THEN [Absent EXCEPT !.phase = "looked_up", !.plan = p]
                        ELSE s

\* allocate: bind the plan to blocks of the current generation.
Candidate(s, b) == [gen |-> s.gen, blocks |-> b]
AllocateOk(s, b) ==
  /\ s.phase # "absent"
  /\ s.phase = "looked_up" \/ s.alloc = Candidate(s, b)
Allocate(s, b) ==
  IF s.phase = "looked_up"
    THEN [s EXCEPT !.phase = "allocated", !.alloc = Candidate(s, b)]
    ELSE s

HasHandoff(s) == s.phase \in {"handed_off", "worker_validated", "finished"}

\* handoff: freeze the allocation; repeated calls return the same metadata.
HandOffOk(s) == s.phase = "allocated" \/ HasHandoff(s)
HandOff(s) ==
  IF s.phase = "allocated" THEN [s EXCEPT !.phase = "handed_off"] ELSE s
HandoffMetadata(r, s) == [req |-> r, plan |-> s.plan, alloc |-> s.alloc]

\* accept_handoff and from_handoff: the worker plane installs or re-accepts.
AcceptOk(s, h) ==
  s.phase = "absent" \/ (HasHandoff(s) /\ HandoffMetadata(h.req, s) = h)
Accept(s, h) ==
  IF s.phase = "absent"
    THEN [phase |-> "handed_off", plan |-> h.plan, gen |-> h.alloc.gen,
          alloc |-> h.alloc, receipt |-> None]
    ELSE s

\* Mutant of ApplyReceiptOk: a receipt for an earlier allocation passes.
ApplyReceiptOkStale(s, rc) ==
  /\ s.phase # "absent"
  /\ rc.loaded \cup rc.rejected = Matches(s.plan)
  /\ \/ s.phase = "handed_off"
     \/ s.phase \in {"worker_validated", "finished"} /\ s.receipt = rc

\* apply_worker_validation: a complete result for the current allocation.
ApplyReceiptOk(s, rc) ==
  /\ s.phase # "absent"
  /\ rc.alloc = s.alloc
  /\ rc.loaded \cup rc.rejected = Matches(s.plan)
  /\ \/ s.phase = "handed_off"
     \/ s.phase \in {"worker_validated", "finished"} /\ s.receipt = rc
ApplyReceipt(s, rc) ==
  IF s.phase = "handed_off"
    THEN [s EXCEPT !.phase = "worker_validated", !.receipt = rc]
    ELSE s

\* Mutant of WorkerReceipt: every match is reported rejected.
WorkerReceiptOverlaps(r, s, loaded) ==
  [req |-> r, alloc |-> s.alloc,
   loaded |-> loaded, rejected |-> Matches(s.plan)]

\* validate_worker: the receipt the worker makes from its own allocation.
WorkerReceipt(r, s, loaded) ==
  [req |-> r, alloc |-> s.alloc,
   loaded |-> loaded, rejected |-> Matches(s.plan) \ loaded]

\* Mutants of Preempt: the generation is lowered, ...
PreemptLowers(s) ==
  IF s.phase = "looked_up" THEN s
  ELSE [Absent EXCEPT !.phase = "looked_up", !.plan = s.plan, !.gen = s.gen - 1]

\* ... the receipt survives, ...
PreemptKeepsReceipt(s) ==
  IF s.phase = "looked_up" THEN s
  ELSE [s EXCEPT !.phase = "looked_up", !.gen = @ + 1, !.alloc = None]

\* ... or it is not advanced.
PreemptSameGeneration(s) ==
  IF s.phase = "looked_up" THEN s
  ELSE [Absent EXCEPT !.phase = "looked_up", !.plan = s.plan, !.gen = s.gen]

\* preempt: drop everything bound to the allocation, advance the generation.
PreemptOk(s) == s.phase \notin {"absent", "finished"}
Preempt(s) ==
  IF s.phase = "looked_up"
    THEN s
    ELSE [phase |-> "looked_up", plan |-> s.plan, gen |-> s.gen + 1,
          alloc |-> None, receipt |-> None]

\* finish: only once every planned match has a worker disposition.
FinishOk(s) == s.phase \in {"worker_validated", "finished"}
Finish(s) == [s EXCEPT !.phase = "finished"]

=============================================================================
