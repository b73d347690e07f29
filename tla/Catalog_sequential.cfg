SPECIFICATION Spec
CONSTANTS
    Name = {t1, t2}
    Family = {f1}
    Rule = {g1, g2}
    ValidRule = {g1}
    NewSchema <- MCTwoSchemas
    Updates <- MCAllUpdates
    Client = {c1}
    Main = Main
    Object = {o1, o2, o3}
    None = None
    EarlyRequests = FALSE
    MaxModifications = 2
    MaxRestarts = 2
SYMMETRY MCSymmetry
INVARIANTS
    ManifestListsTables
    StoredSchemaIsCurrent
    FamiliesMatchSchema
PROPERTY DeleteLeavesNothing
