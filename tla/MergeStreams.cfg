SPECIFICATION Spec
CONSTANTS
    s1 = s1
    s2 = s2
    s3 = s3
    MaxCells = 6
    Streams <- MCStreams
    Inputs <- MCInputs
    Filters <- MCFilters
INVARIANTS
    UnfinishedAreKept
    AppliedFiltersHold
PROPERTIES
    NeverBack
    NextReturns
    IsOneStream
CHECK_DEADLOCK FALSE
