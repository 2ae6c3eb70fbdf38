\* alice and bob, two crossed sessions; nothing fails.
CONSTANTS
    alice = alice
    bob = bob
    s1 = s1
    s2 = s2
    User = {alice, bob}
    Session = {s1, s2}
    initiator <- AskedBoth
    responder <- AcceptedBoth
    NoSession = NoSession
    MaxFaults = 0
SPECIFICATION Spec
CHECK_DEADLOCK FALSE
INVARIANT OneSessionPerPair
