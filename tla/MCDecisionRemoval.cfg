SPECIFICATION Spec
CONSTANTS
    NumDocs <- MCDocs
    MaxMoves <- MCMoves
    MaxFaults <- MCFaults
INVARIANT ReportIsHonest
PROPERTY RemovalIsAccountedFor
PROPERTY ForeignKept
PROPERTY RerunConverges
