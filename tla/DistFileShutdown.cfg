SPECIFICATION MCFairSpec

CONSTANTS
    MaxSessions = 2
    TransitionIntervals = 0
    MaxThreads = 2
    MaxFd = 5
    DumpIsCancellationPoint = FALSE
    Live = FALSE
    FileCount = 1
    Iterations = 2
    DeviceMayFail = FALSE
    ClientsConnectDuringOpen = FALSE
    MaxConnects = 0
    MaxHangUps = 0
    Signals = TRUE

PROPERTIES
    ShutdownTerminates
