SPECIFICATION Spec
CONSTANTS
    k1 = k1
    r1 = r1
    r2 = r2
    r3 = r3
    a = a
    b = b
    Nobody = Nobody
    Keys = {k1}
    KeyOf <- MCKeyOf
    BodyOf <- MCBodyOf
    Requests = {r1, r2}
    ShortTTL = FALSE
    MaxFaults = 1
    MaxCrashes = 0
CHECK_DEADLOCK FALSE
INVARIANTS
    AnswersAgree
