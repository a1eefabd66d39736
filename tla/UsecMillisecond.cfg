SPECIFICATION Spec

CONSTANTS
    UINT_RANGE = 1000
    Captures <- MCCaptures
    old_ip = "old"
    new_ip = "new"
    ControlMessages <- MCControlMessages
    DecodedTypes = {2, 5, 7, 16, 17, 128, 200}
    DecodedLengths = {2, 6}
    IMSI_MAP_SIZE = 2
    IMSI_TIMEOUT = 1
    Teids = {0, 1, 2}
    Imsis <- MCImsis
    ElementTypes = {2, 6, 17, 128}
    TLVLengths = {2, 6, 40}
    Caplens = {50}
    Lengths = {10}
    MaxTime = 2
    MaxMessages = 3
    MaxAsked = 3
    USEC = 1000000
    Stamps <- MCStamps
    MaxStamped = 6
    MIN_CHUNK_SIZE = 78
    ChunkSizes = {10, 78, 90}
    MaxCaplen = 3
    MaxChunks = 2
    Hosts <- MCHosts
    HIGHEST_IP_PORT = 1
    MAX_ADDRESSES = 3
    Absent = Absent
    Unreadable = Unreadable
    Configs <- MCConfigs

INVARIANTS
    MillisecondsApart

CHECK_DEADLOCK FALSE
