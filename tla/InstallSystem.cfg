SPECIFICATION Spec
CONSTANTS
    Devices = {switch}
    Console = switch
    AllDevices = all
    MaxEvents = 2
    MaxJobs = 2
    MaxPosition = 3
    MaxHead = 4
    MaxAge = 1
    StaleAge = 0
    NewSessionAge = 0
    HistoryAge = 1
    MaxBatch = 2
    MaxResumes = 1
    MaxLosses = 1
    MaxCrashes = 1
    MaxRestarts = 1
    MaxRevokes = 1
    MaxSpent = 2
INVARIANTS
    TypeOK
    HoldsEachJobOnce
    TakenJobsAreHeld
    DoneMeansInstalled
    OutcomesAreKept
