SPECIFICATION FairSpec
CONSTANTS
    q1 = q1
    q2 = q2
    f1 = f1
    Questions = {q1, q2}
    Attachments = {f1}
    Calls = {q1, q2}
    Threads = 1
    QueueSize = 0
    Slots = 2
    MaxAttempts = 2
CHECK_DEADLOCK FALSE
INVARIANTS
    TypeOK
    PermitsConserved
    AnsweredHoldsNothing
    SlotsConserved
    NoOverlap
    NoLateStart
PROPERTIES
    NoAbandonedStart
    PermitsComeBack
