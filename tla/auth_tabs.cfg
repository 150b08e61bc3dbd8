SPECIFICATION Spec
CONSTANTS
    Tabs = {t1, t2}
    Requests = {d1, d2}
    MaxPairs = 3
    MaxActions = 2
    MaxTroubles = 1
    None = None
SYMMETRY Symmetry
INVARIANTS TypeOK SingleFlight AwaitsARefresh StoredTokenHonoured
CHECK_DEADLOCK FALSE
