\* A turn that raises with an applied steer to record, and a stop.
CONSTANTS
    t1 = t1  t2 = t2  t3 = t3  s1 = s1  s2 = s2
    Task = {t1, t2}
    Session = {s1}
    SessionOf <- PairSession
    Interrupting = {}
    Asking = {}
    Steered = {t1}
    Stoppable = {t1}
    Raising = {t1}
    Unsaved = {}
    Idle = {}
    Draining = FALSE
    DropOldest = TRUE
    MaxPending = 2
    MaxResident = 3
    NoTask = NoTask
SPECIFICATION Spec
INVARIANTS
    NoUnsettledTurn
CHECK_DEADLOCK FALSE
