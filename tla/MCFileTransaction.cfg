SPECIFICATION FairSpec
CONSTANTS
    c1 = c1
    c2 = c2
    c3 = c3
    N = 2
    Content <- ThreeContents
    Absent = Absent
    Keep = Keep
    MaxEdits = 1
    MaxFaults = 2
INVARIANTS
    NoOrphanArtifacts
PROPERTIES
    OldContentKept
    ImplementsAtomicFiles
    RecoveryConverges
CHECK_DEADLOCK FALSE
