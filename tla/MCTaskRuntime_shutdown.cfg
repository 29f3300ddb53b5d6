\* Two turns of one session; the gateway shuts down at any time, its deadlines included.
CONSTANTS
    t1 = t1  t2 = t2  t3 = t3  s1 = s1  s2 = s2
    Task = {t1, t2}
    Session = {s1}
    SessionOf <- PairSession
    Interrupting = {}
    Asking = {}
    Steered = {}
    Stoppable = {}
    Raising = {}
    Unsaved = {t2}
    Idle = {}
    Draining = TRUE
    DropOldest = TRUE
    MaxPending = 2
    MaxResident = 3
    NoTask = NoTask
SPECIFICATION FairSpec
INVARIANTS
    SweptTurnsDurable
PROPERTIES
    EveryTurnEnds
CHECK_DEADLOCK FALSE
