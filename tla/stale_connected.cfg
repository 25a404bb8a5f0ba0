SPECIFICATION Spec
CONSTANTS
    x1 = x1
    x2 = x2
    NoXio = NoXio
    Xio <- TwoXios
    Field <- Fields
    Supplies <- SuppliesTwo
    AppPackets = {"PUBLISH"}
    AppMay = {}
    Faults = {"io"}
    QueuedSends = TRUE
    MaxSends = 3
    MaxDepth = 0
    MaxDisconnects = 1
INVARIANTS
    SessionPacketsAfterConnack
CHECK_DEADLOCK FALSE
