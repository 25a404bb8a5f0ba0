SPECIFICATION Spec
CONSTANTS
    NoBuffer = NoBuffer
    NULL = NULL
    USHRT_MAX = 65535
    MAX_SEND_SIZE = 2147483647
    Leftover = 170
    Requests <- Understandable
    Packets <- GoodAndBad
    Faults = {"alloc", "empty"}
    Resets = TRUE
    MaxPackets = 2
    MaxBuffers = 2
    MaxBody = 140
INVARIANTS
    Synchronized
    ReceivedWhenComplete
    BrokerUnderstands
    PublishUnderstood
PROPERTIES
    StreamSpec
    OnlyResetLoses
CHECK_DEADLOCK FALSE
