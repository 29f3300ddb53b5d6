\* Two edits and a manual run of a one-shot job, in few instants.
CONSTANTS
    j1 = j1  j2 = j2  r1 = r1  r2 = r2  r3 = r3  m1 = m1  e1 = e1  e2 = e2
    Job = {j1, j2}
    OneShot = {j1}
    Unschedulable = {j2}
    Unhandled = {j2}
    Uses <- UsesOf
    Run = {r1, r2, r3}
    Manual = {m1}
    Editor = {e1, e2}
    MaxConcurrent = 1
    MaxCatchup = 1
    MaxErrors = 2
    OneShotRetries = 2
    MaxTime = 2
    MaxRestart = 1
    MaxFault = 1
    Timer = Timer
    None = None
SPECIFICATION FenceSpec
INVARIANTS
    EditsDiffer
CHECK_DEADLOCK FALSE
