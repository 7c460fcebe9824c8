CONSTANTS
    MaxRequests = 3
    MaxCalls = 2
    OddAnswers = 1
    None = None
SPECIFICATION Spec
INVARIANTS ToolChainPreserved MeaningPreserved AnswerPreserved LoopCanEnd
CHECK_DEADLOCK FALSE
