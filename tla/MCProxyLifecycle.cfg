CONSTANTS
    Callers = {c1, c2}
    HttpCallers = {c2}
    Ports = {"localhost", "lan"}
    Addresses = {"127.0.0.1", "::1", "192.168.0.2"}
    Candidates <- MCCandidates
    MaxCalls = 3
    None = None
SPECIFICATION HistoryFairSpec
INVARIANTS AdvertisedIsServing NoOrphanServer RunningAsConfigured
PROPERTIES EveryCallReturns
CHECK_DEADLOCK FALSE
