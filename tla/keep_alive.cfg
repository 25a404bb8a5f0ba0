SPECIFICATION Spec
CONSTANTS
    Intervals = {0, 1, 3, 5}
    DefaultMaxPing = 1
    TicksPerSecond = 2
    Poll = 2
    Lag = 1
    Faults = {"clock", "send", "alloc"}
    MaxTime = 20
INVARIANTS
    TypeOK
    PingTracked
    SilenceReported
    KeepAliveKept
PROPERTIES
    NoFalseAlarm
CHECK_DEADLOCK FALSE
