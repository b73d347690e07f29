SPECIFICATION Spec
CONSTANTS
    MaxKey = 4
    Consecutive = {1}
    MaxRequests = 4
INVARIANTS
    RangesAreDisjoint
    AskedIsCovered
    ViewShowsTheSelection
    AdjacencyIsAskedInOrder
CHECK_DEADLOCK FALSE
