SPECIFICATION FairSpec
CONSTANTS
    MaxEnergy = 4
    Log1p <- MCLog1p
    MaxItems = 3
    MapSize = 2
    Lens = {1, 2}
    ExecTimes = {1}
    Domains = {"cpu"}
    Readings = {0}
    MaxLevel = 1
    MaxHits = 1
    FixedSeed = FALSE
    DisableRedundant = FALSE
    MaxSeeds = 2
    StartSchedules = {"EXPLORE"}
    CycleSchedules = FALSE
    CalChances = 2
    SkipItems = 2
    Unstable = FALSE
INVARIANTS
    EntryAtHand
    RefCountExact
    KeptTraceIsOwn
    CountersExact
    SmallestIsPending
    ActiveExact
    CullCoversKept
    OneSeedPerTrace
PROPERTY SmallestIsServed
