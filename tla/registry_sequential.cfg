SPECIFICATION Spec
CONSTANTS
    Agents = {a1, a2}
    Conns = {c1, c2, c3}
    NoConn = NoConn
    Healths = {"none", "unhealthy"}
    QueueCap = 2
    Overlap = FALSE
    Crashes = FALSE
CHECK_DEADLOCK FALSE
SYMMETRY Symmetry
INVARIANTS OnlineIsRegistered RoutesToLink
