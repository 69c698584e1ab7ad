------------------------- MODULE MCPhaseCompaction -------------------------
(* Small instances of PhaseCompaction for TLC: a task's start, its            *)
(* completion and a second completion.                                        *)
EXTENDS PhaseCompaction

ThreeEvents == 1 .. 3
Completions == {2, 3}
NoFailures == {}
ReadersOrFaults == {[readers |-> TRUE, faults |-> 0], [readers |-> FALSE, faults |-> 2]}
=============================================================================
