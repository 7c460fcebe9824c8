CONSTANTS
    Requests = {t1, t2}
    Limit = 2
    Ping = Ping
SPECIFICATION FairSpec
INVARIANTS OneEntryPerRequest ProcessingMeansRunning CountersReconcile
PROPERTY NonStreamRequestEnds
