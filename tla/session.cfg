SPECIFICATION FairSpec
CONSTANTS
    u1 = u1
    u2 = u2
    d0 = d0
    d1 = d1
    d2 = d2
    Up = {u1, u2}
    Down = {d0, d1, d2}
    Qos <- QosOf
    UpId = {1}
    DownId = {1}
    RequestId <- Ids
    Workloads <- Mixes
    ReturnCodes <- Answers
    AckOptions = {"SYNC", "ASYNC"}
    AppMay = {}
    Faults = {"alloc", "send", "clock", "lost", "bad"}
    NoPacket = NoPacket
    MaxConnections = 2
    MaxChannel = 2
INVARIANTS
    Flows
    TypeOK
    AckMeansDelivered
    ReleasedWhenTaken
    ExactlyOnce
    SubackWhole
PROPERTIES
    DeliverySpec
    PublishCompletes
    DeliveryCompletes
CHECK_DEADLOCK FALSE
