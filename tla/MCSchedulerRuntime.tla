------------------------- MODULE MCSchedulerRuntime -------------------------
(* Small instances of SchedulerRuntime for TLC. *)
EXTENDS SchedulerRuntime, TLC

\* Requests of equal size are interchangeable.
Symmetry == Permutations(Requests \ TooLarge)
=============================================================================
