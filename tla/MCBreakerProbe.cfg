SPECIFICATION Spec
CONSTANTS
    h1 = h1
    h2 = h2
    h3 = h3
    Handlers = {h1, h2, h3}
    Threshold = 2
    Cooldown = 1
    MaxBad = 3
INVARIANTS
    OneProbe
