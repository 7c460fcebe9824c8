CONSTANTS
    Documents <- MCDocuments
    RequestModels <- MCModels
    Default <- default
    MaxSaves = 2
    None = None
SPECIFICATION Spec
INVARIANT SavedIsReadBack
