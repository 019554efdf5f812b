------------------------- MODULE MCWorkerTransfer -------------------------
(* Small instances of WorkerTransfer; the constants are set by the cfgs. *)
EXTENDS WorkerTransfer
=============================================================================
