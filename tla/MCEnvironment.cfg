SPECIFICATION FairSpec
CONSTANTS
    Engines = {e1, e2}
    Settings = {s1, s2}
    Default = s1
    MaxGen = 3
    MaxCommands = 4
    MaxCrashes = 1
    MaxFails = 1
    MaxLost = 1
CHECK_DEADLOCK FALSE
INVARIANTS GenerationsWhole OneGenerationServes LogsTellTheTruth
PROPERTIES RolledBackRestores RecoverySettles ImplementsVersions
