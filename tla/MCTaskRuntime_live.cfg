\* Two turns, one an interrupt; one may be stopped, raise, ask and fail to be saved.
CONSTANTS
    t1 = t1  t2 = t2  t3 = t3  s1 = s1  s2 = s2
    Task = {t1, t2}
    Session = {s1}
    SessionOf <- PairSession
    Interrupting = {t2}
    Asking = {t1}
    Steered = {}
    Stoppable = {t1}
    Raising = {t1}
    Unsaved = {t1}
    Idle = {s1}
    Draining = FALSE
    DropOldest = TRUE
    MaxPending = 1
    MaxResident = 3
    NoTask = NoTask
SPECIFICATION FairSpec
INVARIANTS
    RunningEntryExact
PROPERTIES
    EveryTurnEnds
CHECK_DEADLOCK FALSE
