\* Two steers, an exact user stop, an interrupting message, a deferred recovery; every write
\* may fail, a follow-up may be refused, one restart.
CONSTANTS
    i1 = i1  i2 = i2  c1 = c1  c2 = c2
    MaxTurn = 3
    Input = {i1, i2}
    Stop = {c2}
    Exact = {c2}
    Flaky = {i1, i2}
    Fallible = TRUE
    Refusing = TRUE
    MaxInterrupt = 1
    MaxCrash = 1
    Deferred = TRUE
    Nobody = Nobody
SPECIFICATION Spec
SYMMETRY InputSymmetry
INVARIANTS
    TypeOK
    AcceptanceClosed
    AnsweredOnce
    FollowupOwnsInput
    StoppedInputsNotRun
PROPERTIES
    PromotedForGood
    StoppedExactly
CHECK_DEADLOCK FALSE
