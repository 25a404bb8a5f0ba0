SPECIFICATION FairSpec
CONSTANTS
    x1 = x1
    x2 = x2
    NoXio = NoXio
    Xio <- OneXio
    Field <- Fields
    Supplies <- SuppliesOne
    AppPackets = {"PUBLISH"}
    AppMay = {}
    Faults = {"open", "send", "clock", "io", "parse", "drain"}
    QueuedSends = TRUE
    MaxSends = 2
    MaxDepth = 0
    MaxDisconnects = 2
INVARIANTS
    ConnectSentOrReported
    DisconnectCallbackOnce
PROPERTIES
    ErrorLeadsToClose
    DisconnectLeadsToClose
    DisconnectCallbackCalled
CHECK_DEADLOCK FALSE
