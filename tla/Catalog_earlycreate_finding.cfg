SPECIFICATION Spec
CONSTANTS
    Name = {t1}
    Family = {f1}
    Rule = {g1}
    ValidRule = {g1}
    NewSchema <- MCOneSchema
    Updates <- MCAllUpdates
    Client = {c1}
    Main = Main
    Object = {o1, o2}
    None = None
    EarlyRequests = TRUE
    MaxModifications = 0
    MaxRestarts = 0
INVARIANT CreatedTablesAreListed
