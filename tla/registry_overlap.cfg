SPECIFICATION FairSpec
CONSTANTS
    Agents = {a1, a2}
    Conns = {c1, c2}
    NoConn = NoConn
    Healths = {"none"}
    QueueCap = 1
    Overlap = TRUE
    Crashes = TRUE
CHECK_DEADLOCK FALSE
INVARIANTS TypeOK RegistryConsistent NoClosedRegistration
PROPERTIES NoEviction Implements RegistrationHeals StatusHeals ClosesEveryConnection
