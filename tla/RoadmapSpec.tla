---------------------------- MODULE RoadmapSpec ----------------------------
(***************************************************************************)
(* What the design-mutating commands promise about the roadmap: it is a     *)
(* list that only grows, by one phase that it does not list yet.            *)
(***************************************************************************)
CONSTANT PhaseId
VARIABLE roadmap

Init == roadmap = {}

Add(id) ==
    /\ id \notin roadmap
    /\ roadmap' = roadmap \cup {id}

Next == \E id \in PhaseId : Add(id)

Spec == Init /\ [][Next]_roadmap
=============================================================================
