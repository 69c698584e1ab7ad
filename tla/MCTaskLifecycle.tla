-------------------------- MODULE MCTaskLifecycle --------------------------
(* Small instances of TaskLifecycle for TLC.                                *)
EXTENDS TaskLifecycle

CONSTANTS p1, p2, t1, t2, phaseA

TwoProcs == {p1, p2}
TwoTasks == {t1, t2}

\* t2 waits for t1.
ChainOfTwo == [t \in {t1, t2} |-> IF t = t2 THEN {t1} ELSE {}]
OnePhase == [t \in {t1, t2} |-> phaseA]

\* Content ids of events with equal times are in an order of their own: here the
\* later statuses come first, which disorders most histories.
StatusRank == [done |-> 1, resumed |-> 2, blocked |-> 3, started |-> 4, failed |-> 5]
LaterFirst(e, f) ==
    \/ StatusRank[e.status] < StatusRank[f.status]
    \/ e.status = f.status /\ e.author = p1 /\ f.author # p1

FirstTask == {t1}
Everything == AllCommands

\* Either the first process runs alone, any commands, while declarations are
\* edited; or both run and only start, complete, finalize and cancel, five of
\* them, or four when one cancels.
Alone == pc[p2] = "idle" /\ \A e \in events : e.author = p1
Cancelling ==
    \/ \E p \in Procs : cmd[p] = "cancel"
    \/ \E t \in Tasks : design[t].status = "cancelled"
Together ==
    /\ clock <= 4 \/ (clock = 5 /\ ~ Cancelling)
    /\ \A t \in Tasks : design[t].decl = 0
    /\ \A p \in Procs : cmd[p] \in {None, "start", "complete", "finalize", "cancel"}
    /\ \A e \in events : e.status \in {"started", "done"}
AloneOrTogether == Alone \/ Together
=============================================================================
