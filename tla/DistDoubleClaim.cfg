SPECIFICATION MCSpec

CONSTANTS
    MaxSessions = 3
    TransitionIntervals = 1
    MaxThreads = 4
    MaxFd = 5
    DumpIsCancellationPoint = FALSE
    Live = TRUE
    FileCount = 1
    Iterations = 1
    DeviceMayFail = FALSE
    ClientsConnectDuringOpen = TRUE
    MaxConnects = 1
    MaxHangUps = 0
    Signals = TRUE

INVARIANTS
    ThreadsMatchSlots
