SPECIFICATION Spec
CONSTANTS
    s1 = s1
    s2 = s2
    s3 = s3
    MaxCells = 2
    Streams <- MCStreams
    Inputs <- MCInputs
    Filters <- MCFilters
PROPERTIES
    SortedByTimestamp
    UnchangedWhenRefused
CHECK_DEADLOCK FALSE
