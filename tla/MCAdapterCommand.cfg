SPECIFICATION CommandSpec
CONSTANTS
    g1 = g1
    g2 = g2
    u = u
    N = 3
    Content <- TextsAndManifests
    Absent = Absent
    Keep = Keep
    Nothing = Nothing
    Generated <- TwoGenerated
    UserText <- OneUserText
    Generations <- ThreeGenerations
    Dynamic <- StaticAndDynamic
    Flags <- EveryOption
    MaxEdits = 2
    MaxFaults = 2
    MaxRuns = 3
CONSTRAINT
    FewerEditsWithFaults
ACTION_CONSTRAINT
    OptionsUninterrupted
INVARIANTS
    ManifestTellsTruth
    RefusesOnlyEdits
PROPERTIES
    ConsentNeeded
    DynamicNeverOverwritten
CHECK_DEADLOCK FALSE
