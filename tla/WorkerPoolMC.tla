---------------------------- MODULE WorkerPoolMC ----------------------------
(***************************************************************************)
(* Small instances of WorkerPool for TLC.                                  *)
(***************************************************************************)
EXTENDS WorkerPool

=============================================================================
