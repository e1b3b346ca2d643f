SPECIFICATION FairSpec
CONSTANTS
    h1 = h1
    h2 = h2
    h3 = h3
    Handlers = {h1, h2, h3}
    Threshold = 2
    Cooldown = 2
    MaxBad = 4
INVARIANTS
    TypeOK
    ProbeIsHeld
PROPERTIES
    Recovers
