SPECIFICATION SampleSpec
CONSTANTS
    Tables <- MCTables
    RowFilters <- MCRowFilters
    SampleEvery = 2
    LastKey = 98
    NoKey = 99
INVARIANTS
    ShowsWhatTheFilterSays
    InColumnOrder
    DrawnRowsAreSampled
    OffsetsIncrease
CHECK_DEADLOCK FALSE
