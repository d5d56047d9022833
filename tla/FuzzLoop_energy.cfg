SPECIFICATION Spec
CONSTANTS
    MaxEnergy = 4
    Log1p <- MCLog1p
    MaxItems = 2
    MapSize = 2
    Lens = {1}
    ExecTimes = {8}
    Domains = {"cpu"}
    Readings = {1, 2}
    MaxLevel = 1
    MaxHits = 1
    FixedSeed = FALSE
    DisableRedundant = TRUE
    MaxSeeds = 1
    StartSchedules = {"SEEK", "QUAD"}
    CycleSchedules = TRUE
    CalChances = 2
    SkipItems = 2
    Unstable = FALSE
INVARIANTS
    CountersExact
    RangeOrdered
PROPERTY RangeMovesOnRetryOnly
