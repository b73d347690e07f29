SPECIFICATION FairSpec
CONSTANTS
    Row = {r1, r2}
    Family = {f1}
    Column = {c1}
    Time <- MCTime
    Value = {v1, n1}
    None = None
    Numeric = {n1}
    Aggregate = {f1}
    Micros <- MCMicros
    TimeRange <- MCTimeRange
    MaxVersions = 1
    Persistent = FALSE
    MaxUndo = 2
INVARIANTS
    UndoLogLeadsBack
    RollbackRestoresMemory
PROPERTIES
    AtomicRows
    RollbackEnds
