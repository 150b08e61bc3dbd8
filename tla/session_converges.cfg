SPECIFICATION FairSpec
CONSTANTS
    Senders = {s1}
    Configs = {k1}
    Default = Default
    Empty = Empty
    NoHash = NoHash
    None = None
    Accepts = TRUE
    Descrs = {"none", "byName"}
    QueueCap = 1
    Events = 1
PROPERTIES Converges QuietAtLast WaitersNotified
