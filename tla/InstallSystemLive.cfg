SPECIFICATION FairSpec
CONSTANTS
    Devices = {switch}
    Console = switch
    AllDevices = all
    MaxEvents = 3
    MaxJobs = 2
    MaxPosition = 3
    MaxHead = 3
    MaxAge = 1
    StaleAge = 0
    NewSessionAge = 0
    HistoryAge = 1
    MaxBatch = 1
    MaxResumes = 0
    MaxLosses = 1
    MaxCrashes = 1
    MaxRestarts = 0
    MaxRevokes = 1
    MaxSpent = 1
PROPERTIES
    QueuedIsTaken
    NothingStaysTaken
    OutcomesAreDelivered
