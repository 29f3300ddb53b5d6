\* One steer, a user stop of the session, one restart; storage works.
CONSTANTS
    i1 = i1  i2 = i2  c1 = c1  c2 = c2
    MaxTurn = 3
    Input = {i1}
    Stop = {c1}
    Exact = {}
    Flaky = {}
    Fallible = FALSE
    Refusing = FALSE
    MaxInterrupt = 1
    MaxCrash = 1
    Deferred = FALSE
    Nobody = Nobody
SPECIFICATION FairSpec
PROPERTIES
    NoInputStranded
    StopFinishes
CHECK_DEADLOCK FALSE
