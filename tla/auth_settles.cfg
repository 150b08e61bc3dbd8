SPECIFICATION FairSpec
CONSTANTS
    Tabs = {t1}
    Requests = {d1, d2}
    MaxPairs = 3
    MaxActions = 3
    MaxTroubles = 1
    None = None
PROPERTY CallsSettle
CHECK_DEADLOCK FALSE
