CONSTANTS
    Conns = {c1}
    Accounts = {a1}
    Syncs = {s1}
    Callbacks = {p1}
    Requests = {q1, q2}
    Bookings = {}
    TicksPerDay = 1
    Lookback = 4
    DefaultLookback = 3
    Overlap = 1
    PostDelay = 1
    Throttle = 1
    SlowestSync = 2
    RequestTTL = 2
    MaxClock = 3
    ConsentTerms <- ShortTerm
    None = None
    Orphan = Orphan
    NoBucket = NoBucket
    Forces <- OnlyUnattended
SPECIFICATION Spec
SYMMETRY Symmetry
INVARIANTS
    ExpiredMeansLapsed
CHECK_DEADLOCK FALSE
