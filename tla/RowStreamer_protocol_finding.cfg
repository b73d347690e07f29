SPECIFICATION Spec
CONSTANTS
    Row = {s1, s2}
    Family = {s1, s3}
    Qualifier = {s1, s4}
    None = None
    MaxPending = 2
    RowsLimit = 0
    MaxCells = 3
INVARIANT ImplementsProtocol
CHECK_DEADLOCK FALSE
