SPECIFICATION Spec
CONSTANTS
    x1 = x1
    x2 = x2
    NoXio = NoXio
    Xio <- TwoXios
    Field <- Fields
    Supplies <- SuppliesAll
    AppPackets = {"PUBLISH"}
    AppMay = {}
    Faults = {"alloc", "open", "io", "parse"}
    QueuedSends = FALSE
    MaxSends = 2
    MaxDepth = 1
    MaxDisconnects = 1
INVARIANTS
    GracefulClose
PROPERTIES
    ConnectCarriesOwnOptions
CHECK_DEADLOCK FALSE
