SPECIFICATION MCFairSpec

CONSTANTS
    MaxSessions = 2
    TransitionIntervals = 1
    MaxThreads = 2
    MaxFd = 5
    DumpIsCancellationPoint = FALSE
    Live = TRUE
    FileCount = 1
    Iterations = 1
    DeviceMayFail = FALSE
    ClientsConnectDuringOpen = FALSE
    MaxConnects = 1
    MaxHangUps = 0
    Signals = FALSE

PROPERTIES
    ServerRestarts
