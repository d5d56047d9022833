SPECIFICATION FairSpec
CONSTANTS
    Entries = {e1}
    NoEntry = none
    MaxRuns = 4
    MaxCnt = 3
INVARIANTS
    InStep
    CrashIsReal
    OneChild
    SampleIsFresh
PROPERTIES
    RunEnds
    RunsAsPromised
