SPECIFICATION MCSpec

CONSTANTS
    MaxSessions = 3
    TransitionIntervals = 0
    MaxThreads = 2
    MaxFd = 5
    DumpIsCancellationPoint = FALSE
    Live = FALSE
    FileCount = 1
    Iterations = 2
    DeviceMayFail = FALSE
    ClientsConnectDuringOpen = FALSE
    MaxConnects = 1
    MaxHangUps = 0
    Signals = TRUE

INVARIANTS
    RunningIsServed
    PassesBounded
