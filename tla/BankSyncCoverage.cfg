CONSTANTS
    Conns = {c1}
    Accounts = {a1, a2}
    Syncs = {s1, s2}
    Callbacks = {p1}
    Requests = {q1, q2}
    Bookings = {k1}
    TicksPerDay = 1
    Lookback = 4
    DefaultLookback = 3
    Overlap = 1
    PostDelay = 1
    Throttle = 2
    SlowestSync = 1
    RequestTTL = 2
    MaxClock = 2
    ConsentTerms <- OpenEnded
    None = None
    Orphan = Orphan
    NoBucket = NoBucket
    Forces <- OnlyUnattended
SPECIFICATION Spec
SYMMETRY Symmetry
INVARIANTS
    NothingSkippedUnlessRaced
PROPERTIES
    OneUnattendedSyncPerInterval
CHECK_DEADLOCK FALSE
