SPECIFICATION FairSpec
CONSTANTS
    e1 = e1
    Examples = {e1}
    MaxSessions = 2
    MaxSaved = 1
    MaxAsks = 3
    MaxLevel = 2
    MaxReloads = 1
    MaxFaults = 1
CHECK_DEADLOCK FALSE
INVARIANTS
    TypeOK
    OwnAnswers
    ContextFollowsAnswer
PROPERTIES
    ImplementsShell
