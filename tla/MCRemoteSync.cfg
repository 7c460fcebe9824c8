SPECIFICATION Spec
CONSTANTS
    None = None
    Broken = Broken
    w = w
    h = h
    b = b
    Callers = {w, h, b}
    Installations = {"A", "B"}
    Home <- MCHome
    InitialRemotes <- MCInitialRemotes
    MaxClock = 2
    MaxEdits = 2
    MaxCalls = 2
SYMMETRY Symmetry
INVARIANT SuccessIsStored
PROPERTY OverwriteConfirmed
CHECK_DEADLOCK FALSE
