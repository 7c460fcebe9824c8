CONSTANTS
    MaxEvents = 9
    MaxChunks = 3
    MaxAnyChunks = 2
    MaxToolCalls = 2
    MaxIndex = 1
    None = None
SPECIFICATION Spec
INVARIANTS EndedCleanly DeltasRelayed
PROPERTIES ImplementsClaudeStream ImplementsResponsesStream ImplementsChatStream
CHECK_DEADLOCK FALSE
