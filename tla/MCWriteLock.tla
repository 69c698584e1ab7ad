---------------------------- MODULE MCWriteLock ----------------------------
(* Small instances of WriteLock for TLC.                                    *)
EXTENDS WriteLock

CONSTANTS p1, p2, p3, a, b

MCProc3 == {p1, p2, p3}
MCPhase == {a, b}
=============================================================================
