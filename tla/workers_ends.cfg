SPECIFICATION FairSpec
CONSTANTS
    Sources = {a, b}
    Initial = {a}
    Requests = {r1, r2}
    Intervals = {i1}
    None = None
    Failures = TRUE
PROPERTIES StoppedWorkersEnd StopsOwnWorkers
CHECK_DEADLOCK FALSE
