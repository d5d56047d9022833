SPECIFICATION Spec
CONSTANTS
    MaxEnergy = 4
    Log1p <- MCLog1p
    MaxItems = 2
    MapSize = 2
    Lens = {1}
    ExecTimes = {1}
    Domains = {"cpu"}
    Readings = {0, 1}
    MaxLevel = 1
    MaxHits = 1
    FixedSeed = FALSE
    DisableRedundant = FALSE
    MaxSeeds = 1
    StartSchedules = {"EXPLORE"}
    CycleSchedules = FALSE
    CalChances = 2
    SkipItems = 2
    Unstable = FALSE
INVARIANT SampledHasCost
