SPECIFICATION FairDesk
CONSTANTS
    f1 = f1
    words = words
    none = none
    Sessions = {1, 2}
    NoSession = none
    Files = {f1}
    Words = words
CHECK_DEADLOCK FALSE
INVARIANTS
    TypeOK
    PanelsStayHome
PROPERTIES
    WaitEnds
