CONSTANTS
    Kinds <- AllKinds
    Cap = 2
    MaxPieces = 7
    MaxChunk = 4
    MaxPending = 4
SPECIFICATION FairSpec
INVARIANTS DataInOrder SuccessIsComplete FailureIsTerminated TerminatorIsLast
PROPERTY AbandonedTaskEnds
CHECK_DEADLOCK FALSE
