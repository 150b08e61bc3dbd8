SPECIFICATION Spec
CONSTANTS
    Senders = {s1, s2}
    Configs = {k1}
    Default = Default
    Empty = Empty
    NoHash = NoHash
    None = None
    Accepts = TRUE
    Descrs = {"byId", "byName"}
    QueueCap = 1
    Events = 1
SYMMETRY Symmetry
INVARIANTS RemoteConfigNeverNil RemoteFollowsCustom NoLostWakeup
