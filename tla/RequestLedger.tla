---------------------------- MODULE RequestLedger ----------------------------
(***************************************************************************)
(* What the two control planes promise together, without phases, messages  *)
(* or a worker plane.  A request is opened once with a plan, placed on     *)
(* blocks, offered to the worker, and settled at most once for each        *)
(* placement, by work that was done for exactly that placement; a          *)
(* preemption reopens it under the next generation.  ControlPlane          *)
(* implements this ledger over a channel that delays, repeats and reorders *)
(* everything.                                                             *)
(***************************************************************************)
EXTENDS Naturals

CONSTANTS Requests, BlockTables,
          MaxMatches,   \* bound on the matches of a plan
          NoBlocks      \* a request that has no placement

VARIABLES
  entry,    \* request -> [st, plan, gen, blocks, loaded]
  offered,  \* placements the worker was told of
  done,     \* work: a placement and the matches loaded for it
  closed    \* requests that have left the ledger

vars == <<entry, offered, done, closed>>

Matches(p) == 1..p
Entry(st, plan, gen, blocks, loaded) ==
  [st |-> st, plan |-> plan, gen |-> gen, blocks |-> blocks, loaded |-> loaded]
Unopened == Entry("none", 0, 0, NoBlocks, {})

\* A placement of r, as it is offered.
Placement(r) == [req |-> r, plan |-> entry[r].plan, gen |-> entry[r].gen, blocks |-> entry[r].blocks]

Init ==
  /\ entry = [r \in Requests |-> Unopened]
  /\ offered = {} /\ done = {} /\ closed = {}

Open(r, p) ==
  /\ entry[r] = Unopened /\ r \notin closed
  /\ entry' = [entry EXCEPT ![r] = Entry("open", p, 0, NoBlocks, {})]
  /\ UNCHANGED <<offered, done, closed>>

Place(r, b) ==
  /\ entry[r].st = "open"
  /\ entry' = [entry EXCEPT ![r] = Entry("placed", @.plan, @.gen, b, {})]
  /\ UNCHANGED <<offered, done, closed>>

Offer(r) ==
  /\ entry[r].st \in {"placed", "settled"}
  /\ offered' = offered \cup {Placement(r)}
  /\ UNCHANGED <<entry, done, closed>>

\* The worker works on any placement it was ever offered, an old one too.
Work(p, loaded) ==
  /\ loaded \subseteq Matches(p.plan)
  /\ done' = done \cup {[of |-> p, loaded |-> loaded]}
  /\ UNCHANGED <<entry, offered, closed>>

\* Only work on the present placement settles it.
Settle(r, loaded) ==
  /\ entry[r].st = "placed"
  /\ [of |-> Placement(r), loaded |-> loaded] \in done
  /\ entry' = [entry EXCEPT ![r] = Entry("settled", @.plan, @.gen, @.blocks, loaded)]
  /\ UNCHANGED <<offered, done, closed>>

Reopen(r) ==
  /\ entry[r].st \in {"placed", "settled"}
  /\ entry' = [entry EXCEPT ![r] = Entry("open", @.plan, @.gen + 1, NoBlocks, {})]
  /\ UNCHANGED <<offered, done, closed>>

Close(r) ==
  /\ entry[r] # Unopened
  /\ entry' = [entry EXCEPT ![r] = Unopened]
  /\ closed' = closed \cup {r}
  /\ UNCHANGED <<offered, done>>

Next ==
  \/ \E r \in Requests :
       \/ \E p \in 0..MaxMatches : Open(r, p)
       \/ \E b \in BlockTables : Place(r, b)
       \/ Offer(r) \/ Reopen(r) \/ Close(r)
       \/ \E loaded \in SUBSET Matches(MaxMatches) : Settle(r, loaded)
  \/ \E p \in offered : \E loaded \in SUBSET Matches(MaxMatches) : Work(p, loaded)

Spec == Init /\ [][Next]_vars
=============================================================================
