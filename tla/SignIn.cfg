CONSTANTS
    Requests = {r1, r2}
    OldSessions = {s1, s2}
    OldChallenges = {c1}
    Nobody = Nobody
    NoCode = NoCode
    Steps = {1, 2}
    MaxAttempts = 2
SPECIFICATION Spec
INVARIANTS
    NoSessionOutlivesChange
    WaitsOnlyWhileAsked
    CodeSpentOnce
PROPERTIES
    EndedStaysEnded
    ChangeProvenAtCommit
    PendingSignInsEnd
