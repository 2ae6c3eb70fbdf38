\* alice and bob ask carol.
CONSTANTS
    alice = alice
    bob = bob
    carol = carol
    User = {alice, bob, carol}
    maxAsks <- AskCarol
    MaxFaults = 2
SPECIFICATION FairSpec
CHECK_DEADLOCK FALSE
INVARIANTS TypeOK HeldIsShown ShownIsHeld
PROPERTIES EveryMatterEnds
