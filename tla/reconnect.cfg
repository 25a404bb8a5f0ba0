SPECIFICATION Spec
CONSTANTS
    x1 = x1
    x2 = x2
    NoXio = NoXio
    Xio <- TwoXios
    Field <- Fields
    Supplies <- SuppliesTwo
    AppPackets = {"PUBLISH"}
    AppMay = {"abandon", "disconnect_opening", "disconnect_idle",
              "disconnect_early", "send_anytime"}
    Faults = {"open", "send", "io", "parse", "drain"}
    QueuedSends = TRUE
    MaxSends = 1
    MaxDepth = 1
    MaxDisconnects = 1
INVARIANTS
    OpenIsTracked
    IoErrorCloses
    Tracking
CHECK_DEADLOCK FALSE
