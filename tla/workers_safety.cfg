SPECIFICATION Spec
CONSTANTS
    Sources = {a, b}
    Initial = {a}
    Requests = {r1, r2, r3}
    Intervals = {i1, i2}
    None = None
    Failures = FALSE
SYMMETRY Symmetry
INVARIANTS NoOrphans EverySourcePolled PollsAsStored
CHECK_DEADLOCK FALSE
