-------------------------- MODULE MCDecisionRemoval --------------------------
(* Bounds for DecisionRemoval: two linking documents, two foreign moves  *)
(* and two kills or errors.                                                *)
EXTENDS DecisionRemoval

MCDocs == 2
MCMoves == 2
MCFaults == 2

=============================================================================
