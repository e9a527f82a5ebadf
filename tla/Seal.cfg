CONSTANTS
    Hosts = {h1, h2}
    None = None
    MaxLines = 6
    MaxStarts = 3
    MaxFaults = 1
SPECIFICATION Spec
SYMMETRY Symmetry
INVARIANTS
    UntouchedNotBroken
    OrderlyReadsVerified
    VerifiedMeansSealed
