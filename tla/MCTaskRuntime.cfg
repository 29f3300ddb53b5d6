\* Three turns of one session, drop_oldest at one pending: one eviction follows another.
CONSTANTS
    t1 = t1  t2 = t2  t3 = t3  s1 = s1  s2 = s2
    Task = {t1, t2, t3}
    Session = {s1}
    SessionOf <- OneSession
    Interrupting = {}
    Asking = {}
    Steered = {t1}
    Stoppable = {t1}
    Raising = {t2}
    Unsaved = {t1}
    Idle = {}
    Draining = FALSE
    DropOldest = TRUE
    MaxPending = 1
    MaxResident = 3
    NoTask = NoTask
SPECIFICATION Spec
INVARIANTS
    TypeOK
    ResidentExact
    PendingBounded
    TerminalOutcomeKept
    NoneEndedWhileRunning
PROPERTIES
    OutcomeStable
CHECK_DEADLOCK FALSE
