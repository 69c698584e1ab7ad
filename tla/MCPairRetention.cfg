SPECIFICATION FairSpec
CONSTANTS
    a = a
    b = b
    k = k
    s = s
    None = None
    Phases <- FourPhases
    Old <- ThreeOld
    Paired <- ThreePaired
    Stores <- AllStores
    Scenarios <- PassingScenarios
    MaxFaults = 2
INVARIANTS
    PairIsWhole
    KeptStays
    JournalIsCompletable
    ReportedStaysGone
    MaintainConverges
PROPERTIES
    PendingIsCompleted
