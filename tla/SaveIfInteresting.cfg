SPECIFICATION Spec
CONSTANTS
    Edges = {e1}
    Counts = {0, 1, 3}
    MaxCalls = 3
    KeepHangs = 2
    KeepCrashes = 2
    Configs <- MCConfigs
INVARIANTS
    EntriesSound
    SeenIsKept
    NothingTwice
PROPERTY CallReturns
