SPECIFICATION TimedSpec
CONSTANTS
    Devices = {switch}
    Console = switch
    AllDevices = all
    MaxEvents = 2
    MaxJobs = 2
    MaxPosition = 3
    MaxHead = 4
    MaxAge = 2
    StaleAge = 1
    NewSessionAge = 0
    HistoryAge = 2
    MaxBatch = 2
    MaxResumes = 0
    MaxLosses = 0
    MaxCrashes = 0
    MaxRestarts = 0
    MaxRevokes = 0
    MaxSpent = 0
PROPERTY SweepSparesLiveConsole
