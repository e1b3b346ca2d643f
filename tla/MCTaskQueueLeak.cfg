SPECIFICATION Spec
CONSTANTS
    Tasks = {t1}
    Archiving = {t1}
    Workers = {w1, w2}
    Capacity = 1
    MaxAttempts = 3
    RecoveredCap = 1
    MaxFaults = 1
INVARIANTS
    CapacityIsReclaimable
