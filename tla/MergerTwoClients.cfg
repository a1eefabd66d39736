SPECIFICATION MCSpec

CONSTANTS
    MaxSessions = 3
    TransitionIntervals = 0
    MaxThreads = 3
    MaxFd = 5
    Servers = 2
    DumpIsCancellationPoint = FALSE
    MaxFaults = 1
    Signals = FALSE

INVARIANTS
    TypeOK
    ThreadsMatchSlots
    StopsAreCarriedThrough
    RunningIsServed
    MutexHoldersDump

PROPERTIES
    FollowsLifecycle
