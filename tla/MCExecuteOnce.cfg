SPECIFICATION Spec
CONSTANTS
    MaxMoves <- MCMoves
    MaxFaults <- MCFaults
INVARIANT ResultIsHonest
PROPERTY DoneMatchesTree
PROPERTY ForeignKept
CHECK_DEADLOCK FALSE
