\* Two sessions between alice and bob, two lines per end and session.
CONSTANTS
    User = {alice, bob}
    Session = {s1, s2}
    CounterLimit = 2
    NoSession = NoSession
SPECIFICATION Spec
SYMMETRY Swaps
CHECK_DEADLOCK FALSE
INVARIANTS TypeOK InStep NonceUsedOnce
PROPERTY ImplementsChannel
