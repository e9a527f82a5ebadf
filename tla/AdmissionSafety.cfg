CONSTANTS
    Users = {u1, u2}
    Requests = {r1, r2, r3, r4}
    Nobody = Nobody
    QueueDepth = 0
    HourlyQuota = 2
    Window = 1
    MaxEpoch = 1
SPECIFICATION Spec
SYMMETRY Symmetry
INVARIANTS
    OneInFlight
    RoomBounded
    QuotaKept
    OneLivePerMember
    OptOutHonoured
