SPECIFICATION Spec
CONSTANTS
    x1 = x1
    x2 = x2
    NoXio = NoXio
    Xio <- OneXio
    Field <- Fields
    Supplies <- SuppliesOne
    AppPackets = {"PUBLISH"}
    AppMay = {"disconnect_idle", "disconnect_early"}
    Faults = {"alloc", "open", "send", "clock", "io", "parse", "drain"}
    QueuedSends = TRUE
    MaxSends = 3
    MaxDepth = 1
    MaxDisconnects = 1
INVARIANTS
    TypeOK
    ConnectFirst
    SessionPacketsAfterConnack
PROPERTIES
    DisconnectedWhenCalledBack
CHECK_DEADLOCK FALSE
