SPECIFICATION Spec
CONSTANTS
    NoBuffer = NoBuffer
    NULL = NULL
    USHRT_MAX = 65535
    MAX_SEND_SIZE = 2147483647
    Leftover = 170
    Requests <- AllRequests
    Packets <- OnlyCONNACK
    Faults = {"drop"}
    Resets = TRUE
    MaxPackets = 2
    MaxBuffers = 1
    MaxBody = 128
PROPERTIES
    StreamSpec
CHECK_DEADLOCK FALSE
