CONSTANTS
    Attempts = {r1, r2, r3}
    s1 = s1
    i1 = i1
    i2 = i2
    Keys = {s1, i1, i2}
    Callers <- OneSubject
    None = None
    MaxAttempts = 1
    Window = 1
    SlowestClaim = 1
    MaxClock = 5
SPECIFICATION Spec
SYMMETRY Symmetry
INVARIANTS
    BudgetKept
    OnlyFailuresCount
