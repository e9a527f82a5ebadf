CONSTANTS
    Queries = {q1, q2}
    Txs = {t1, t2}
    None = None
    Failed = Failed
    MaxStatements = 2
SPECIFICATION LiveSpec
INVARIANTS
    CleanHandover
PROPERTIES
    AllOrNothing
    EveryoneServed
CHECK_DEADLOCK FALSE
