SPECIFICATION SampleSpec
CONSTANTS
    Tables <- MCTables
    RowFilters <- MCRowFilters
    SampleEvery = 2
    LastKey = 98
    NoKey = 99
INVARIANTS
    AlwaysWhatTheFilterSays
    StorageAppliesFilters
    ColumnLimitKeepsTheLatest
    PopulatedTableHasASample
CHECK_DEADLOCK FALSE
