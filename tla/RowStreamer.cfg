SPECIFICATION Spec
CONSTANTS
    Row = {s1, s2, s5}
    Family = {s1, s3}
    Qualifier = {s1, s4}
    None = None
    MaxPending = 2
    RowsLimit = 2
    MaxCells = 5
INVARIANTS
    CellsDecode
    RowsCommittedWhole
    AllCellsSent
CHECK_DEADLOCK FALSE
