\* Two crossed sessions; two repeated inits at most, the sessions together.
CONSTANTS
    alice = alice
    bob = bob
    s1 = s1
    s2 = s2
    User = {alice, bob}
    Session = {s1, s2}
    initiator <- EachAsks
    responder <- EachAccepts
    Key = {k1, k2, k3, k4}
    NoKey = NoKey
    NoSession = NoSession
    NoFrame = NoFrame
SPECIFICATION FairSpec
CHECK_DEADLOCK FALSE
INVARIANTS TypeOK Consistent Accounted
PROPERTIES ImplementsAgreement NoHandshakeHangs
