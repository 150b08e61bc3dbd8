SPECIFICATION Spec
CONSTANTS
    Rows = {r1, r2}
    Slots = {h1, h2}
    ConfigSlots = {s1}
    MaxRev = 2
    MaxFuel = 1
    None = None
    Word = Word
    Groups = {g1, g2}
    Main = Main
    Items = {i1, i2}
    Remote = {i1, i2}
    DrawerFuel = 2
    Agents = {1, 2}
    Types = {t1, t2}
    Limit = 2
    MaxEvents = 3
    MaxKeys = 3
    KeysFuel = 2
    otlp = otlp
    otlp2 = otlp2
    batch = batch
SYMMETRY Symmetry
INVARIANTS TypeOK PagesSeeOwnWrites BusyIsTrue UpdatesItsOwn SendsOwnText PageExists VerdictIsCurrent MarkersAreRight DrawingIsFaithful
PROPERTIES KeysAreShown
CHECK_DEADLOCK FALSE
