SPECIFICATION FairSpec
CONSTANTS
    Name = {t1}
    Family = {f1}
    Rule = {g1}
    ValidRule = {g1}
    NewSchema <- MCOneSchema
    Updates <- MCOneUpdate
    Client = {c1, c2}
    Main = Main
    Object = {o1, o2}
    None = None
    EarlyRequests = TRUE
    MaxModifications = 0
    MaxRestarts = 1
INVARIANTS
    NoDanglingTable
    ManifestHasNoDuplicates
PROPERTY ClusterMutexReleased
