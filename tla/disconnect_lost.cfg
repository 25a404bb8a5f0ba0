SPECIFICATION Spec
CONSTANTS
    x1 = x1
    x2 = x2
    NoXio = NoXio
    Xio <- OneXio
    Field <- Fields
    Supplies <- SuppliesOne
    AppPackets = {"PUBLISH"}
    AppMay = {}
    Faults = {}
    QueuedSends = TRUE
    MaxSends = 3
    MaxDepth = 0
    MaxDisconnects = 1
INVARIANTS
    GracefulClose
CHECK_DEADLOCK FALSE
