SPECIFICATION Spec
CONSTANTS
    None = None
    Missing = Missing
    Broken = Broken
    Callers = {c1, c2}
    Groups = {"g"}
    Dirs = {"d1", "d2"}
    HomeDir = "d1"
    Kinds <- MCKinds
    InitialFiles <- MCInitialFiles
    Sources <- MCSources
    Forms <- MCForms
    Providers = {"mine"}
    Keys = {"key", "new key"}
    GroupIds = {"g", "old"}
    MaxCalls = 2
SYMMETRY Symmetry
INVARIANTS TargetsDistinct WrittenIsReadBack UserFilesKept
CHECK_DEADLOCK FALSE
