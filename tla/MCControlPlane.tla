--------------------------- MODULE MCControlPlane ---------------------------
(* Small instances of ControlPlane for TLC. *)
EXTENDS ControlPlane, TLC

\* Block tables are only compared for equality.
Symmetry == Permutations(BlockTables)
=============================================================================
