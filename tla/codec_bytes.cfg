SPECIFICATION Spec
CONSTANTS
    NoBuffer = NoBuffer
    NULL = NULL
    USHRT_MAX = 65535
    MAX_SEND_SIZE = 2147483647
    Leftover = 170
    Requests <- AllRequests
    Packets <- Short
    Faults = {"alloc", "empty", "drop"}
    Resets = FALSE
    MaxPackets = 2
    MaxBuffers = 2
    MaxBody = 3
INVARIANTS
    TypeOK
    InBounds
PROPERTIES
    OnlyResetLoses
CHECK_DEADLOCK FALSE
