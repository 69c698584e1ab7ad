SPECIFICATION CommandSpec
CONSTANTS
    g1 = g1
    g2 = g2
    u = u
    N = 3
    Content <- TextsAndManifests
    Absent = Absent
    Keep = Keep
    Nothing = Nothing
    Generated <- TwoGenerated
    UserText <- OneUserText
    Generations <- ThreeGenerations
    Dynamic <- StaticAndDynamic
    Flags <- EveryOption
    MaxEdits = 1
    MaxFaults = 1
    MaxRuns = 3
PROPERTIES
    ForceNeverOverridesModified
CHECK_DEADLOCK FALSE
