SPECIFICATION Spec
CONSTANTS
    MaxKey = 3
    Consecutive = {1}
    MaxRequests = 3
INVARIANTS
    SumIsTheSetSum
    AdjacentRangesAreMerged
CHECK_DEADLOCK FALSE
