SPECIFICATION Spec
CONSTANTS
    Rule <- MCRule
    Depth <- RuleDepth
    EraseVerdict <- GCRuleEraseVerdict
    Garbage <- GCRuleGarbage
    Time <- MCTime
    MaxNow = 4
INVARIANTS
    NewestSurvive
    CollectsWhatTheRuleSays
    NoGarbageLeft
