SPECIFICATION Spec
CONSTANTS
    Names <- MCNames
    Parts <- MCParts
    PartRank <- MCPartRank
    Tables <- MCTables
    RowSets <- MCRowSets
    Regexes <- MCRegexes
    ColumnRanges <- MCColumnRanges
    TimeRanges <- MCTimeRanges
    MaxFilters = 2
INVARIANTS
    RegexesAllMatch
    TimeRangesAsDocumented
PROPERTIES
    SortedByRow
CHECK_DEADLOCK FALSE
