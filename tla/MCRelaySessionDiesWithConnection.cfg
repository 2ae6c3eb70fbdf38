\* alice may reconnect, bob has one connection; any connection may go down.
CONSTANTS
    alice = alice
    bob = bob
    carol = carol
    a1 = a1
    a2 = a2
    b1 = b1
    k1 = k1
    User = {alice, bob}
    Conn = {a1, a2, b1}
    user <- Reconnecting
    SessionId = {s1}
    MaxPending = 1
    MaxDown = 3
    MaxGarbled = 0
    NoConn = NoConn
    Nobody = Nobody
    NoSession = NoSession
SPECIFICATION Spec
SYMMETRY SwapConnections
CHECK_DEADLOCK FALSE
INVARIANT SessionDiesWithConnection
