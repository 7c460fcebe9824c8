CONSTANTS
    Documents <- MCDocuments
    RequestModels <- MCModels
    Default <- default
    MaxSaves = 2
    None = None
SPECIFICATION Spec
INVARIANTS GroupsKeepTheirProviders ServedAsTested MigrationFillsDefaults
PROPERTY RestartKeepsConfig
