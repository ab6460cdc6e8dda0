SPECIFICATION FairSpec
CONSTANTS
    QueueSize = 1
    MaxChoices = 2
CHECK_DEADLOCK FALSE
INVARIANTS
    IconFollows
    OneOfEach
    
PROPERTIES
    ShowHonoured
    QuitEnds
