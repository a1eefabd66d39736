SPECIFICATION Spec

CONSTANTS
    Slots = {0, 1, 2}
    LastSlot = 2
    MONITOR_OUTPUT_INTERVAL = 2
    StartTime = 2
    MaxTime = 6
    MaxPackets = 2
    MaxStops = 1

INVARIANTS
    TypeOK
    CountsExact
    RateDivisorPositive
    IdleOutputFlushed
    MonitorsOwned
