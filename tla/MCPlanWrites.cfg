SPECIFICATION FairSpec
CONSTANTS
    p1 = p1
    p2 = p2
    t1 = t1
    t2 = t2
    None = None
    Phases <- TwoPhases
    Tasks <- TwoTasks
    Gated <- TwoTasks
    Docs <- FourDocs
    MaxMoves = 2
    MaxFaults = 1
INVARIANTS
    IdsStayUnique
PROPERTIES
    DecisionsStand
    ImportConverges
