SPECIFICATION Spec
CONSTANTS
    p1 = p1
    p2 = p2
    t1 = t1
    t2 = t2
    phaseA = phaseA
    None = None
    Procs <- TwoProcs
    Tasks <- TwoTasks
    DependsOn <- ChainOfTwo
    PhaseOf <- OnePhase
    Commands <- Everything
    Legacy <- FirstTask
    MaxClock = 6
    MaxDecl = 1
    HashBelow <- LaterFirst
CONSTRAINT
    AloneOrTogether
INVARIANTS
    DependenciesWereDone
    EventsAreLocked
    FinalizedWasDone
PROPERTIES
    BlindStartIsCaught
    FreshCommandIsLegal
CHECK_DEADLOCK FALSE
