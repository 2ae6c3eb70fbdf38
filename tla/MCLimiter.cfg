\* Three threads, two calls in any three moments.
CONSTANTS
    t1 = t1
    t2 = t2
    t3 = t3
    Thread = {t1, t2, t3}
    max_events = 2
    window_seconds = 1
    MaxClock = 3
    MaxAdmitted = 5
SPECIFICATION Spec
SYMMETRY SwapThreads
CHECK_DEADLOCK FALSE
INVARIANTS LimitKept Races
