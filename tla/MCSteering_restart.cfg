\* One steer, a user stop, one restart.
CONSTANTS
    i1 = i1  i2 = i2  c1 = c1  c2 = c2
    MaxTurn = 2
    Input = {i1}
    Stop = {c1}
    Exact = {}
    Flaky = {}
    Fallible = FALSE
    Refusing = FALSE
    MaxInterrupt = 0
    MaxCrash = 1
    Deferred = FALSE
    Nobody = Nobody
SPECIFICATION Spec
PROPERTIES
    StopSurvivesRestart
CHECK_DEADLOCK FALSE
