\* Three connections, two attempts each time one is lost.
CONSTANTS
    Sock = {w1, w2, w3}
    NoSock = NoSock
    MaxAttempts = 2
SPECIFICATION FairSpec
CHECK_DEADLOCK FALSE
INVARIANTS TypeOK UserKnows FreshSessions Orderly
PROPERTIES LossResolved LoopEnds
