\* One steer and an exact stop.
CONSTANTS
    i1 = i1  i2 = i2  c1 = c1  c2 = c2
    MaxTurn = 2
    Input = {i1}
    Stop = {c1}
    Exact = {c1}
    Flaky = {}
    Fallible = FALSE
    Refusing = FALSE
    MaxInterrupt = 0
    MaxCrash = 0
    Deferred = FALSE
    Nobody = Nobody
SPECIFICATION FairSpec
PROPERTIES
    StopFinishes
CHECK_DEADLOCK FALSE
