--------------------------- MODULE MCExecuteOnce ---------------------------
(* Bounds for the runs of ExecuteOnce: four steps of everyone else and two *)
(* faults, so that a commit, a foreign edit and a lost snapshot can meet.  *)
EXTENDS ExecuteOnce

MCMoves == 4
MCFaults == 2

=============================================================================
