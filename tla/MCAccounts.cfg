\* Two users, one of them with two spellings, two machines, five clients.
CONSTANTS
    alice = alice
    Alice = Alice
    bob = bob
    home = home
    work = work
    right = right
    wrong = wrong
    c1 = c1
    c2 = c2
    c3 = c3
    c4 = c4
    c5 = c5
    User = {alice, bob}
    Name = {alice, Alice, bob}
    normalized <- Normalized
    Machine = {home, work}
    Caseless = {home}
    Protected = {work}
    Password = {right, wrong}
    Client = {c1, c2, c3, c4, c5}
    typed <- Typed
    machine <- Machines
    password <- Passwords
    Key = {k1, k2, k3, k4}
    NoKey = NoKey
    NoPassword = NoPassword
    NoClient = NoClient
SPECIFICATION Spec
SYMMETRY SwapKeys
CHECK_DEADLOCK FALSE
INVARIANTS TypeOK InByPassword KeysOfOwner ReadyIsFindable NotLockedOut
