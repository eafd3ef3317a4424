SPECIFICATION TickSpec
CONSTANTS
    Devices = {switch}
    Console = switch
    AllDevices = all
    MaxEvents = 2
    MaxJobs = 1
    MaxPosition = 3
    MaxHead = 4
    MaxAge = 1
    StaleAge = 0
    NewSessionAge = 0
    HistoryAge = 1
    MaxBatch = 1
    MaxResumes = 0
    MaxLosses = 0
    MaxCrashes = 0
    MaxRestarts = 0
    MaxRevokes = 0
    MaxSpent = 0
PROPERTY CancelReachesInstall
