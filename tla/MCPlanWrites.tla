---------------------------- MODULE MCPlanWrites ----------------------------
(* Bounds for PlanWrites: two phases, two tasks that both need a decision, *)
(* documents that overlap and one that collides with itself.               *)
EXTENDS PlanWrites, TLC

CONSTANTS p1, p2, t1, t2

TwoPhases == {p1, p2}
TwoTasks == {t1, t2}
FourDocs ==
    {p1 :> {t1} @@ p2 :> {t2},
     p1 :> {t2},
     p1 :> {} @@ p2 :> {t1, t2},
     p1 :> {t1} @@ p2 :> {t1}}
=============================================================================
