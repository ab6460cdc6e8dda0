SPECIFICATION FairSpec
CONSTANT MaxSaves = 3
CHECK_DEADLOCK FALSE
INVARIANTS
    NoLostUpdate
    RulesFollowReads
PROPERTIES
    RulesNeverRegress
    ReloadSettles
