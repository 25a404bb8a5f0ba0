SPECIFICATION Spec
CONSTANTS
    t1 = t1
    t2 = t2
    p1 = p1
    Free = Free
    Empty = Empty
    Address = {1, 2, 3, 4, 5, 6, 7, 8, 9}
    Topic = {t1, t2}
    Payload = {p1, Empty}
    Made <- Contents
    MaxMessages = 3
INVARIANTS
    TypeOK
    EveryBlockOwned
    ReadsAsGiven
CHECK_DEADLOCK FALSE
