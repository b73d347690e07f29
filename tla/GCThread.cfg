SPECIFICATION FairSpec
CONSTANTS
    Client = {c1, c2, c3}
    GC = GC
    None = None
INVARIANTS
    NoUseAfterFree
    OneDestructor
PROPERTY DestructorReturns
CHECK_DEADLOCK FALSE
