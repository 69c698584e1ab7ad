SPECIFICATION FairSpec
CONSTANTS
    p1 = p1
    p2 = p2
    p3 = p3
    a = a
    b = b
    Nobody = Nobody
    Proc <- MCProc3
    PhaseId <- MCPhase
    Inode = {1}
    MaxRuns = 3
INVARIANTS
    MutualExclusion
PROPERTIES
    ImplementsRoadmap
    LockIsReleased
CHECK_DEADLOCK FALSE
