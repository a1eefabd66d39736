SPECIFICATION FairSpec

CONSTANTS
    MaxSessions = 2
    TransitionIntervals = 0
    MaxThreads = 2
    MaxFd = 4
    Servers = 1
    DumpIsCancellationPoint = TRUE

PROPERTIES
    ShutdownTerminates

CHECK_DEADLOCK FALSE
