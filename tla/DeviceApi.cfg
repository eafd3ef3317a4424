SPECIFICATION Spec
CONSTANTS
    Devices = {d1, d2}
    AllDevices = all
    MaxEvents = 2
    MaxJobs = 2
    MaxPosition = 3
    MaxHead = 3
    MaxAge = 1
    StaleAge = 0
    NewSessionAge = 0
    HistoryAge = 0
    MaxBatch = 2
SYMMETRY Consoles
INVARIANTS
    TypeOK
    LogTellsCancels
PROPERTIES
    FollowsLifecycle
    RevokedIsShutOut
    JoinsQueueLast
