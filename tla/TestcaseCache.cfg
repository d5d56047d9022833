SPECIFICATION Spec
CONSTANTS
    MaxItems = 4
    MaxTrimItems = 3
    MaxLight = 2
    Seeds = 1
    Lens = {1, 3}
    MaxSize = 6
    MaxEntries = 4
    SpliceLen = 2
    Slack = 1
    W = 16
INVARIANTS
    TableSound
    BufferIsFile
    HeldBuffers
    VictimExists
    SpliceHasPartner
PROPERTY LoadFits
