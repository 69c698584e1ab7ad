SPECIFICATION VerifySpec
CONSTANTS
    MaxFull <- MCFull
    FullCommands <- MCFullCommands
    MaxRuns <- MCRuns
    MaxEdits <- MCEdits
    MaxOthers <- MCOthers
ACTION_CONSTRAINT
    MCCommandsAlone
    MCPlainCommands
    MCSpoiledByOne
PROPERTY OutcomeIsTrue
PROPERTY FullIsAuthorized
PROPERTY VerificationEnds
CHECK_DEADLOCK FALSE
