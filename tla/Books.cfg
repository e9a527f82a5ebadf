CONSTANTS
    Requests = {r1, r2, r3}
    Rows <- MCRows
    Readings <- MCReadings
    Amount <- MCAmount
    Expenses <- MCExpenses
    Mirror <- MCMirror
    Divided <- MCDivided
    First = First
    FirstReading <- MCFirst
    Nobody = Nobody
    MaxFaults = 1
    Lines = {l1, l2}
    Banked = {b1, b2}
    Orphans = {b2}
    Manual = Manual
    Unlinked = Unlinked
    Figures = {1, 2}
    MaxSnapshots = 3
    MaxRestarts = 1
    MaxImports = 2
SPECIFICATION Spec
SYMMETRY Symmetry
INVARIANTS
    NothingLostUnlessShared
    RefusalsTrue
    CountIsLedger
    DoubledOnlyIfOverlapped
    FedOnceUnlessReturned
    BankLinksStand
    HeadlineIsNewest
