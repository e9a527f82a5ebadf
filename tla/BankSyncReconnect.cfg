CONSTANTS
    Conns = {c1, c2}
    Accounts = {a1}
    Syncs = {s1}
    Callbacks = {p1, p2}
    Requests = {q1, q2}
    Bookings = {k1}
    TicksPerDay = 1
    Lookback = 3
    DefaultLookback = 2
    Overlap = 0
    PostDelay = 0
    Throttle = 1
    SlowestSync = 2
    RequestTTL = 1
    MaxClock = 1
    ConsentTerms <- EitherTerm
    None = None
    Orphan = Orphan
    NoBucket = NoBucket
    Forces <- OnlyUnattended
SPECIFICATION Spec
SYMMETRY Symmetry
INVARIANTS
    HonouredOnce
CHECK_DEADLOCK FALSE
