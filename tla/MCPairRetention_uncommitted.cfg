SPECIFICATION Spec
CONSTANTS
    a = a
    b = b
    k = k
    s = s
    None = None
    Phases <- FourPhases
    Old <- ThreeOld
    Paired <- ThreePaired
    Stores <- LooseStore
    Scenarios <- AnyFault
    MaxFaults = 2
INVARIANTS
    PairIsWhole
