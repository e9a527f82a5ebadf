CONSTANTS
    Requests = {r1, r2, r3}
    Transactions = {1, 2, 3}
    Nobody = Nobody
    Unpaired = Unpaired
    Linkable <- MCLinkable
    Batch <- MCBatch
    Names = {food, trip, gift}
    NoName = NoName
    OldLinks <- MCOldLinks
    Filters <- MCFilters
    MaxTags = 1
    MaxLinkAttempts = 2
    MaxRows = 6
    MaxBeside = 1
SPECIFICATION Spec
SYMMETRY Symmetry
INVARIANTS
    PairsMutualUnlessOvertaken
    SplitNeverPaired
    PartsWhole
    ConfirmsNeverCircle
    OrphansExplained
    FailedEditsUnlinkNothing
    CapKeptUnlessRaced
