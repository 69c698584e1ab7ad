SPECIFICATION FairSpec
CONSTANTS
    Events <- ThreeEvents
    Done <- Completions
    Failed <- NoFailures
    None = None
    Gone = Gone
    MaxEdits = 1
    Scenarios <- ReadersOrFaults
INVARIANTS
    NoEventIsLost
    ArchivedIsRecorded
    ReportIsTrue
    AnswerIsComplete
PROPERTIES
    CompactionConverges
CHECK_DEADLOCK FALSE
