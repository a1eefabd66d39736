SPECIFICATION MCScheduledSpec

CONSTANTS
    MaxSessions = 3
    TransitionIntervals = 0
    MaxThreads = 3
    MaxFd = 5
    DumpIsCancellationPoint = FALSE
    Live = TRUE
    FileCount = 1
    Iterations = 1
    DeviceMayFail = FALSE
    ClientsConnectDuringOpen = FALSE
    MaxConnects = 1
    MaxHangUps = 1
    Signals = FALSE

PROPERTIES
    LostClientsRemoved
