CONSTANTS
    MaxEvents = 9
    MaxChunks = 3
    MaxAnyChunks = 2
    MaxToolCalls = 1
    MaxIndex = 1
    None = None
SPECIFICATION Spec
INVARIANT EveryItemDone
CHECK_DEADLOCK FALSE
