SPECIFICATION Spec
CONSTANTS
    Entries = {e1}
    NoEntry = none
    MaxRuns = 4
    MaxCnt = 3
INVARIANT ReadingIsOneRun
