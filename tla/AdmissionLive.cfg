CONSTANTS
    Users = {u1, u2}
    Calls = {r1, r2, r3}
    Nobody = Nobody
    QueueDepth = 1
    HourlyQuota = 2
    Window = 1
    MaxEpoch = 0
    Presses = {p1, p2}
    MaxBeside = 1
SPECIFICATION LiveSpec
INVARIANTS
    HaltReachesEveryCall
    HaltNeverLost
PROPERTIES
    NoAnswerOnceHalted
    NobodyStarves
