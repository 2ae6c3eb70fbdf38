\* alice and bob, one connection each, one session; liveness.
CONSTANTS
    alice = alice
    bob = bob
    carol = carol
    a1 = a1
    a2 = a2
    b1 = b1
    k1 = k1
    User = {alice, bob}
    Conn = {a1, b1}
    user <- TwoUsers
    SessionId = {s1}
    MaxPending = 1
    MaxDown = 3
    MaxGarbled = 1
    NoConn = NoConn
    Nobody = Nobody
    NoSession = NoSession
SPECIFICATION FairSpec
CHECK_DEADLOCK FALSE
PROPERTIES DeadSocketForgotten EndedSessionIsTold
