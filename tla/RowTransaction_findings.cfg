SPECIFICATION Spec
CONSTANTS
    Row = {r1}
    Family = {f1}
    Column = {c1}
    Time <- MCTime
    Value = {v1, n1}
    None = None
    Numeric = {n1}
    Aggregate = {f1}
    Micros <- MCMicrosServerTime
    TimeRange <- MCTimeRange
    MaxVersions = 1
    Persistent = TRUE
    MaxUndo = 1
INVARIANTS
    DeleteValueIsNewCell
PROPERTIES
    SetCellIsMirrored
    DeleteFromColumnIsMirrored
