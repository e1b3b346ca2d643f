SPECIFICATION FairSpec
CONSTANTS
    k1 = k1
    r1 = r1
    r2 = r2
    r3 = r3
    a = a
    b = b
    Nobody = Nobody
    Keys = {k1}
    KeyOf <- MCKeyOf
    BodyOf <- MCBodyOf
    Requests = {r1, r2, r3}
    ShortTTL = TRUE
    MaxFaults = 2
    MaxCrashes = 1
CHECK_DEADLOCK FALSE
INVARIANTS
    TypeOK
    OneExecution
    NoExecutionAfterCompletion
    FaithfulReplay
    AnswersAgreeWithoutFaults
PROPERTIES
    OnlyOwnerSettles
    ReservationEnds
