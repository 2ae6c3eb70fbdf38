\* Three users, one connection each; at most one connection goes down.
CONSTANTS
    alice = alice
    bob = bob
    carol = carol
    a1 = a1
    a2 = a2
    b1 = b1
    k1 = k1
    User = {alice, bob, carol}
    Conn = {a1, b1, k1}
    user <- ThreeUsers
    SessionId = {s1}
    MaxPending = 1
    MaxDown = 1
    MaxGarbled = 1
    NoConn = NoConn
    Nobody = Nobody
    NoSession = NoSession
SPECIFICATION Spec
SYMMETRY SwapUsers
CHECK_DEADLOCK FALSE
INVARIANTS OnlyPartiesHear
PROPERTIES ImplementsRendezvous
