SPECIFICATION FairSpec
CONSTANTS
    Sources = {a}
    Initial = {a}
    Requests = {r1}
    Intervals = {i1}
    None = None
    Failures = FALSE
PROPERTY StopReturns
CHECK_DEADLOCK FALSE
