\* alice may reconnect, bob has one connection; any two may go down.
CONSTANTS
    alice = alice
    bob = bob
    carol = carol
    a1 = a1
    a2 = a2
    b1 = b1
    k1 = k1
    User = {alice, bob}
    Conn = {a1, a2, b1}
    user <- Reconnecting
    SessionId = {s1}
    MaxPending = 1
    MaxDown = 2
    MaxGarbled = 1
    NoConn = NoConn
    Nobody = Nobody
    NoSession = NoSession
SPECIFICATION Spec
SYMMETRY SwapConnections
CHECK_DEADLOCK FALSE
INVARIANTS TypeOK Bookkeeping OrphansOnlyFromStrays NobodyLeftInTheDark
    ServedIsRegistered
