SPECIFICATION MCSpec

CONSTANTS
    MaxSessions = 3
    TransitionIntervals = 0
    MaxThreads = 3
    MaxFd = 5
    DumpIsCancellationPoint = TRUE
    Live = TRUE
    FileCount = 1
    Iterations = 1
    DeviceMayFail = TRUE
    ClientsConnectDuringOpen = FALSE
    MaxConnects = 1
    MaxHangUps = 1
    Signals = TRUE

INVARIANTS
    ThreadsMatchSlots
    StopsAreCarriedThrough
    RunningIsServed
    MutexHoldersDump
    ListedClientsOpen
    SessionInv

PROPERTY
    FollowsLifecycle

CHECK_DEADLOCK FALSE
