CONSTANTS
    Writers = {w1, w2}
    Boot = boot
    Settings = {"s0", "s1", "badset"}
    GroupSets = {"none", "g1", "raw", "badgroups"}
    DefaultSettings = "s0"
    NoGroups = "none"
    ValidSettings = {"s0", "s1"}
    ValidGroups = {"none", "g1"}
    Normalize <- MCNormalize
    MaxSaves = 3
    MaxCrashes = 2
    Empty = Empty
    Garbage = Garbage
    Missing = Missing
SYMMETRY Symmetry
SPECIFICATION Spec
INVARIANTS StoresAgreeAfterSoloSave OnlyValidatedData
PROPERTY BootKeepsGroups
CHECK_DEADLOCK FALSE
