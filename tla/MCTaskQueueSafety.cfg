SPECIFICATION Spec
CONSTANTS
    Tasks = {t1, t2}
    Archiving = {t1}
    Workers = {w1, w2}
    Capacity = 2
    MaxAttempts = 2
    RecoveredCap = 1
    MaxFaults = 2
SYMMETRY WorkerSymmetry
INVARIANTS
    TypeOK
    NoTaskLost
    DeadLetteredOnce
    BoundedExecutions
    ArchivedOnce
PROPERTIES
    OutcomeIsFinal
    OnlyLatestAttemptCommits
    ImplementsLifecycle
