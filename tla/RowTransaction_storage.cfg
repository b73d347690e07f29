SPECIFICATION Spec
CONSTANTS
    Row = {r1, r2}
    Family = {f1, f2}
    Column = {c1}
    Time = {1}
    Value = {n1}
    None = None
    Numeric = {n1}
    Aggregate = {f2}
    Micros <- MCMicrosServerTime
    TimeRange <- MCTimeRange
    MaxVersions = 1
    Persistent = TRUE
    MaxUndo = 1
INVARIANTS
    TypeOK
    UndoLogCoversRow
    StoredCellsReachable
    AckedCellsPersist
