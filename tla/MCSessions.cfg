\* alice and bob, two sessions that alice has asked for.
CONSTANTS
    alice = alice
    bob = bob
    s1 = s1
    s2 = s2
    User = {alice, bob}
    Session = {s1, s2}
    initiator <- AskedTwice
    responder <- AcceptedTwice
    NoSession = NoSession
    MaxFaults = 2
SPECIFICATION Spec
SYMMETRY Alike
CHECK_DEADLOCK FALSE
INVARIANTS DeadIsTold HeldTogether OneSessionUnlessCrossed
PROPERTY ImplementsNegotiation
