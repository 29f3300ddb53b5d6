------------------------------ MODULE TaskRuntime ------------------------------
(***************************************************************************)
(* The turn runtime of the gateway (gateway/task_runtime.py): admission of  *)
(* a turn (reserve, commit, activate), the per-session execution lane, the  *)
(* driver coroutine that runs the turn handler, cancellation, eviction of   *)
(* the oldest waiting turn, idle-time auxiliary work, the settlement that   *)
(* ends every turn, and shutdown.                                           *)
(*                                                                          *)
(* The runtime is one asyncio loop.  A block under _state_lock has no await *)
(* inside, so it is one step here; every await between two such blocks is a *)
(* point where another coroutine may act, and separates two actions.        *)
(*                                                                          *)
(* How compute slots are shared between lanes is the subject of FairSlots:  *)
(* here a task that owns its lane may be granted a slot at any time.        *)
(***************************************************************************)
EXTENDS Naturals, Sequences, FiniteSets

CONSTANTS
    Task,          \* the task ids the callers may submit
    Session,       \* session keys
    SessionOf,     \* the session of each task's envelope
    Interrupting,  \* tasks whose queue_mode is steer or interrupt
    Asking,        \* tasks whose handler may raise an approval request
    Steered,       \* tasks with applied steers still to be recorded when they unwind
    Stoppable,     \* tasks a caller of cancel() may name (bounds the environment)
    Raising,       \* tasks whose handler, permit claim or RUNNING write may raise
    Unsaved,       \* tasks whose terminal write may fail
    Idle,          \* sessions for which auxiliary work is submitted
    Draining,      \* BOOLEAN: whether shutdown() is ever called
    DropOldest,    \* the pending overflow policy is drop_oldest, not reject
    MaxPending,    \* max_pending_per_session
    MaxResident,   \* max_resident_tasks
    NoTask         \* the Python None

ASSUME TaskRuntimeAssumption ==
    /\ IsFiniteSet(Task) /\ IsFiniteSet(Session)
    /\ SessionOf \in [Task -> Session]
    /\ Interrupting \subseteq Task
    /\ Asking \subseteq Task
    /\ Steered \subseteq Task
    /\ Stoppable \subseteq Task /\ Raising \subseteq Task /\ Unsaved \subseteq Task
    /\ Idle \subseteq Session
    /\ Draining \in BOOLEAN /\ DropOldest \in BOOLEAN
    /\ MaxPending \in Nat \ {0}
    /\ MaxResident \in Nat \ {0}
    /\ NoTask \notin Task /\ NoTask # "auxiliary" /\ "auxiliary" \notin Task

Auxiliary == "auxiliary"     \* the other possible holder of an execution lock

Terminal == {"succeeded", "cancelled", "failed", "abandoned"}
Status == {"queued", "running"} \union Terminal

VARIABLES
    resv,        \* life of each task's TaskReservation
    victim,      \* the overflow_victim a reservation has picked
    registered,  \* _tasks
    order,       \* tasks in the order they were activated
    pending,     \* union of the _pending_by_session lists (their order is `order')
    running,     \* _running_by_session
    lane,        \* holder of each _session_execution_locks entry
    status,      \* _RuntimeTask.status
    row,         \* the durable AgentTask row
    driver,      \* where the _execute coroutine of each task stands
    interrupted, \* tasks whose driver has an undelivered asyncio cancellation
    cancelled,   \* tasks with cancel_requested
    source,      \* cancel_source
    intent,      \* the cancelling coroutine at work on each task
    settle,      \* progress of _mark_terminal_claimed
    owner,       \* settlements that captured was_running_owner
    retry,       \* unpersisted entries of _terminal_pending_updates
    holds,       \* _terminal_resident_holds
    resident,    \* _resident_count
    aux,         \* _auxiliary_tasks_by_session
    approvals,   \* tasks whose approval request is pending in the ApprovalQueue
    drain,       \* progress of shutdown: once it is not "open", _closing holds
    sweep,       \* the tasks it froze in a list and has still to visit
    swept        \* those it has marked abandoned, or found settled

shutdown  == <<drain, sweep, swept>>
admission == <<resv, victim, order, shutdown>>
ledger    == <<registered, pending, running, resident, holds>>
execution == <<lane, driver, interrupted>>
cancel    == <<cancelled, source, intent>>
settlement == <<settle, owner, retry>>
vars == <<admission, ledger, execution, cancel, settlement,
          status, row, aux, approvals>>

DriverState == {"none", "created", "lane", "gate", "marking", "announcing",
                "handler", "returning", "unwinding", "settling", "gone"}
Source == {"none", "user", "queue", "overflow", "shutdown", "timeout"}

TypeOK ==
    /\ resv \in [Task -> {"none", "held", "durable", "activated", "aborted"}]
    /\ victim \in [Task -> Task \union {NoTask}]
    /\ registered \subseteq Task
    /\ order \in Seq(Task)
    /\ pending \subseteq Task
    /\ running \in [Session -> Task \union {NoTask}]
    /\ lane \in [Session -> Task \union {NoTask, Auxiliary}]
    /\ status \in [Task -> Status]
    /\ row \in [Task -> Status \union {"absent"}]
    /\ driver \in [Task -> DriverState]
    /\ interrupted \subseteq Task
    /\ cancelled \subseteq Task
    /\ source \in [Task -> Source]
    /\ intent \in [Task -> {"none", "signal", "signalSettle", "settle"}]
    /\ settle \in [Task -> {"open", "claimed", "persisting", "emitting",
                            "compensating", "finishing", "settled"}]
    /\ owner \subseteq Task
    /\ retry \subseteq Task
    /\ holds \subseteq Task
    /\ resident \in Nat
    /\ aux \in [Session -> {"none", "waiting", "working"}]
    /\ approvals \subseteq Task
    /\ drain \in {"open", "draining", "sweeping", "forcing", "over"}
    /\ sweep \subseteq Task /\ swept \subseteq Task

Init ==
    /\ resv = [t \in Task |-> "none"]
    /\ victim = [t \in Task |-> NoTask]
    /\ registered = {} /\ order = <<>> /\ pending = {}
    /\ running = [s \in Session |-> NoTask]
    /\ lane = [s \in Session |-> NoTask]
    /\ status = [t \in Task |-> "queued"]
    /\ row = [t \in Task |-> "absent"]
    /\ driver = [t \in Task |-> "none"]
    /\ interrupted = {} /\ cancelled = {}
    /\ source = [t \in Task |-> "none"]
    /\ intent = [t \in Task |-> "none"]
    /\ settle = [t \in Task |-> "open"]
    /\ owner = {} /\ retry = {} /\ holds = {}
    /\ resident = 0
    /\ aux = [s \in Session |-> "none"]
    /\ approvals = {}
    /\ drain = "open" /\ sweep = {} /\ swept = {}

--------------------------------------------------------------------------------
(* State formulae *)

Closing == drain # "open"
InSession(s) == {t \in Task : SessionOf[t] = s}
OpenReservations == {t \in Task : resv[t] \in {"held", "durable"}}

\* The turn whose settlement the activation of t is still waiting for, if any.
Evicting(t) == {v \in Task : resv[t] = "activated" /\ victim[t] = v
                                /\ settle[v] # "settled"}

\* collect_admission(s): the per-session gate every enqueue, channel dispatch,
\* accepted turn and promotion holds from reserve until activate returns.
GateFree(s) == \A t \in InSession(s) : t \notin OpenReservations /\ Evicting(t) = {}

\* _reserved_overflow_victims
ReservedVictims == {victim[t] : t \in OpenReservations} \ {NoTask}

Waiting(s) == pending \intersect InSession(s)
Before(t, u) == \E i, j \in DOMAIN order : i < j /\ order[i] = t /\ order[j] = u

\* has_session_work
HasWork(s) ==
    \/ OpenReservations \intersect InSession(s) # {}
    \/ Waiting(s) # {}
    \/ running[s] # NoTask

\* _RuntimeTask.terminal_closing
TerminalClosing(t) == settle[t] # "open"

\* collect_claim is held by _mark_running; steer_claim by a cancellation that is
\* still writing its durable intent.  A settlement takes both.
ClaimsFree(t) ==
    /\ driver[t] \notin {"marking", "announcing"}
    /\ intent[t] \notin {"signal", "signalSettle"}

\* A driver parked in _complete_terminal_settlement swallows cancellations.
Interruptible(t) == driver[t] \in {"created", "lane", "gate", "marking",
                                   "announcing", "handler", "unwinding"}

--------------------------------------------------------------------------------
(* Admission *)

Unclaimed(s) == Waiting(s) \ ReservedVictims
PendingCount(s) == Cardinality(Unclaimed(s))
                     + Cardinality(OpenReservations \intersect InSession(s))

\* Mutant: one too many.
PendingFullLate(s) == PendingCount(s) > MaxPending

PendingFull(s) == PendingCount(s) >= MaxPending

\* reserve: the shutdown fence, the resident cap, then the pending limit, which
\* steer and interrupt bypass.  drop_oldest picks the oldest QUEUED waiting task
\* and sets it aside; without one, or under reject, the caller is refused.
Reserve(t) ==
    LET s == SessionOf[t]
        full == t \notin Interrupting /\ PendingFull(s)
        queued == {v \in Unclaimed(s) : status[v] = "queued"}
        oldest == {v \in queued : \A u \in queued \ {v} : Before(v, u)}
    IN  /\ resv[t] = "none"
        /\ GateFree(s)
        /\ ~Closing
        /\ resident < MaxResident
        /\ \/ ~full /\ UNCHANGED victim
           \/ /\ full /\ DropOldest
              /\ \E v \in oldest : victim' = [victim EXCEPT ![t] = v]
        /\ resv' = [resv EXCEPT ![t] = "held"]
        /\ resident' = resident + 1
        /\ UNCHANGED <<order, shutdown, registered, pending, running, holds, execution,
                       cancel, settlement, status, row, aux, approvals>>

\* create_agent_task committed the QUEUED row (also when its caller was cancelled
\* and the read-back finds the row).
CommitRow(t) ==
    /\ resv[t] = "held"
    /\ resv' = [resv EXCEPT ![t] = "durable"]
    /\ row' = [row EXCEPT ![t] = "queued"]
    /\ UNCHANGED <<victim, order, shutdown, ledger, execution, cancel, settlement,
                   status, aux, approvals>>

\* Mutant: the reservation is not closed, so that a second abort counts again.
AbortReservationAgain(t) ==
    /\ t \in OpenReservations
    /\ resident' = resident - 1
    /\ UNCHANGED <<admission, registered, pending, running, holds,
                   execution, cancel, settlement, status, row, aux, approvals>>

\* abort_reservation: the commit failed, or it succeeded and activation failed
\* before its in-memory boundary; the row, if any, is left for startup recovery.
AbortReservation(t) ==
    /\ t \in OpenReservations
    /\ resv' = [resv EXCEPT ![t] = "aborted"]
    /\ resident' = resident - 1
    /\ UNCHANGED <<victim, order, shutdown, registered, pending, running, holds,
                   execution, cancel, settlement, status, row, aux, approvals>>

\* The ready queue is FIFO and an admission awaits storage between its gate and
\* its activation, so a driver created by an earlier admission of the session has
\* taken its first step before a later one activates.
EarlierDriversStarted(s) == \A u \in InSession(s) : driver[u] # "created"

\* Mutant: the victim that reserve has picked is evicted wherever it stands by now.
PickedVictim(t) == {victim[t]} \intersect registered

\* The overflow victim, if it has not started while the acceptance was written.
WaitingVictim(t) == {v \in Waiting(SessionOf[t]) : v = victim[t] /\ status[v] = "queued"}

\* activate: steer and interrupt cancel every unfinished task of the session; a victim
\* that still waits is evicted; then the task is registered and its driver created.  The
\* caller still waits until the victim has been settled.
Activate(t) ==
    LET s == SessionOf[t]
        targets == IF t \in Interrupting
                   THEN {u \in registered \intersect InSession(s) :
                            status[u] \notin Terminal}
                   ELSE {}
        evicted == WaitingVictim(t)
    IN  /\ resv[t] = "durable"
        /\ EarlierDriversStarted(s)
        /\ resv' = [resv EXCEPT ![t] = "activated"]
        /\ victim' = [victim EXCEPT ![t] = IF evicted = {} THEN NoTask ELSE @]
        /\ cancelled' = cancelled \union targets \union evicted
        /\ source' = [u \in Task |-> IF u \in evicted THEN "overflow"
                                     ELSE IF u \in targets THEN "queue"
                                     ELSE source[u]]
        /\ interrupted' = interrupted
                \union {u \in targets \union evicted : Interruptible(u)}
        /\ intent' = [u \in Task |-> IF u \notin evicted THEN intent[u]
                                     ELSE IF intent[u] = "signal" THEN "signalSettle"
                                     ELSE IF intent[u] = "none" THEN "settle"
                                     ELSE intent[u]]
        /\ registered' = registered \union {t}
        /\ pending' = pending \union {t}
        /\ order' = Append(order, t)
        /\ driver' = [driver EXCEPT ![t] = "created"]
        /\ UNCHANGED <<shutdown, running, resident, holds, lane, settlement, status, row,
                       aux, approvals>>

--------------------------------------------------------------------------------
(* The driver: _execute *)

\* First step of the coroutine: execution_started, then wait for the lane.
StartDriver(t) ==
    /\ driver[t] = "created" /\ t \notin interrupted
    /\ driver' = [driver EXCEPT ![t] = "lane"]
    /\ UNCHANGED <<admission, ledger, lane, interrupted, cancel, settlement, status,
                   row, aux, approvals>>

\* The execution lock is FIFO; its new holder first checks cancel_requested.
EnterLane(t) ==
    LET s == SessionOf[t]
        waiters == {u \in InSession(s) : driver[u] = "lane" /\ u \notin interrupted}
    IN  /\ t \in waiters
        /\ lane[s] = NoTask
        /\ \A u \in waiters \ {t} : Before(t, u)
        /\ lane' = [lane EXCEPT ![s] = t]
        /\ driver' = [driver EXCEPT ![t] = IF t \in cancelled THEN "returning" ELSE "gate"]
        /\ UNCHANGED <<admission, ledger, interrupted, cancel, settlement, status, row,
                       aux, approvals>>

\* _acquire_fair_slot granted a slot; _mark_running takes collect_claim and awaits
\* the activation permit.
GrantSlot(t) ==
    /\ driver[t] = "gate" /\ t \notin interrupted
    /\ t \notin cancelled /\ ~TerminalClosing(t)
    /\ driver' = [driver EXCEPT ![t] = "marking"]
    /\ UNCHANGED <<admission, ledger, lane, interrupted, cancel, settlement, status,
                   row, aux, approvals>>

\* The decision of _mark_running_claimed, under _state_lock.
MarkRunning(t) ==
    /\ driver[t] = "marking" /\ t \notin interrupted
    /\ ~TerminalClosing(t) /\ status[t] \notin Terminal /\ t \notin cancelled
    /\ status' = [status EXCEPT ![t] = "running"]
    /\ pending' = pending \ {t}
    /\ running' = [running EXCEPT ![SessionOf[t]] = t]
    /\ driver' = [driver EXCEPT ![t] = "announcing"]
    /\ UNCHANGED <<admission, registered, resident, holds, lane, interrupted, cancel,
                   settlement, row, aux, approvals>>

\* _persist_running_state and the task.running event; the turn handler is entered.
AnnounceRunning(t) ==
    /\ driver[t] = "announcing" /\ t \notin interrupted
    /\ row' = [row EXCEPT ![t] = "running"]
    /\ driver' = [driver EXCEPT ![t] = "handler"]
    /\ UNCHANGED <<admission, ledger, lane, interrupted, cancel, settlement, status,
                   aux, approvals>>

\* The turn handler returned; the slot is released, the lane is kept.
HandlerReturns(t) ==
    /\ driver[t] = "handler" /\ t \notin interrupted /\ t \notin approvals
    /\ driver' = [driver EXCEPT ![t] = "returning"]
    /\ UNCHANGED <<admission, ledger, lane, interrupted, cancel, settlement, status,
                   row, aux, approvals>>

\* An exception left the `async with execution_lock' block: the slot and the lane
\* are released before its handler runs, and steers that were applied but not yet
\* recorded are persisted by awaits that nothing shields.
Unwind(t) ==
    LET s == SessionOf[t]
        recording == t \in Steered /\ status[t] = "running"
    IN  /\ driver' = [driver EXCEPT ![t] = IF recording THEN "unwinding" ELSE "settling"]
        /\ lane' = [lane EXCEPT ![s] = IF @ = t THEN NoTask ELSE @]

\* `except CancelledError' closes steer acceptance by setting the status.
UnwindCancelled(t) ==
    /\ Unwind(t)
    /\ status' = [status EXCEPT ![t] =
                    IF TerminalClosing(t) THEN @
                    ELSE IF source[t] = "timeout" THEN "abandoned" ELSE "cancelled"]

\* _acquire_fair_slot or _mark_running saw the cancellation before it was delivered.
RefuseToRun(t) ==
    /\ driver[t] \in {"gate", "marking"} /\ t \notin interrupted
    /\ t \in cancelled \/ TerminalClosing(t)
    /\ UnwindCancelled(t)
    /\ UNCHANGED <<admission, ledger, interrupted, cancel, settlement, row, aux, approvals>>

\* The handler, the permit claim or the RUNNING write raised.
HandlerFails(t) ==
    /\ t \in Raising
    /\ driver[t] \in {"marking", "announcing", "handler"} /\ t \notin interrupted
    /\ Unwind(t)
    /\ UNCHANGED <<admission, ledger, interrupted, cancel, settlement, status, row,
                   aux, approvals>>

\* An asyncio cancellation reaches the driver: before its first step the coroutine
\* never runs; in the body it unwinds (a RUNNING write in flight may still commit);
\* in the exception handler it leaves _execute without settling the task.
DeliverCancellation(t) ==
    /\ t \in interrupted
    /\ interrupted' = interrupted \ {t}
    /\ \/ /\ driver[t] \in {"created", "unwinding"}
          /\ driver' = [driver EXCEPT ![t] = "gone"]
          /\ UNCHANGED <<lane, status, row>>
       \/ /\ driver[t] \notin {"created", "unwinding"}
          /\ UnwindCancelled(t)
          /\ \/ UNCHANGED row
             \/ driver[t] = "announcing" /\ row' = [row EXCEPT ![t] = "running"]
    /\ UNCHANGED <<admission, ledger, cancel, settlement, aux, approvals>>

\* The steer dispositions are recorded; the driver goes on to _mark_terminal.
RecordSteers(t) ==
    /\ driver[t] = "unwinding" /\ t \notin interrupted
    /\ driver' = [driver EXCEPT ![t] = "settling"]
    /\ UNCHANGED <<admission, ledger, lane, interrupted, cancel, settlement, status,
                   row, aux, approvals>>

\* The settlement the driver waits for (its own or another's) is over.
DriverExits(t) ==
    LET s == SessionOf[t]
    IN  /\ driver[t] \in {"returning", "settling"} /\ settle[t] = "settled"
        /\ driver' = [driver EXCEPT ![t] = "gone"]
        /\ lane' = [lane EXCEPT ![s] = IF @ = t THEN NoTask ELSE @]
        /\ UNCHANGED <<admission, ledger, interrupted, cancel, settlement, status, row,
                       aux, approvals>>

--------------------------------------------------------------------------------
(* Approvals raised by handlers; the queue addresses them by session *)

RaiseApproval(t) ==
    /\ driver[t] = "handler" /\ t \notin interrupted
    /\ t \in Asking \ approvals
    /\ approvals' = approvals \union {t}
    /\ UNCHANGED <<admission, ledger, execution, cancel, settlement, status, row, aux>>

ResolveApproval(t) ==
    /\ driver[t] = "handler" /\ t \in approvals
    /\ approvals' = approvals \ {t}
    /\ UNCHANGED <<admission, ledger, execution, cancel, settlement, status, row, aux>>

--------------------------------------------------------------------------------
(* Cancellation *)

\* _cancel_runtime_tasks_impl, first half: with every steer_claim of the batch held,
\* mark the unfinished tasks; a QUEUED one whose driver has not started is to be
\* settled by the canceller.  The claims stay held while the intent is persisted.
RequestCancel(batch, src) ==
    /\ batch # {}
    /\ \A t \in batch : /\ t \in registered /\ status[t] \notin Terminal
                        /\ settle[t] = "open" /\ intent[t] = "none"
    /\ cancelled' = cancelled \union batch
    /\ source' = [t \in Task |-> IF t \in batch THEN src ELSE source[t]]
    /\ intent' = [t \in Task |->
                    IF t \notin batch THEN intent[t]
                    ELSE IF status[t] = "queued" /\ driver[t] = "created"
                         THEN "signalSettle" ELSE "signal"]
    /\ UNCHANGED <<admission, ledger, execution, settlement, status, row, aux, approvals>>

\* cancel(task_id=..., session_key=...): one task, or all of the session's.
Cancel(s) ==
    LET live == {t \in registered \intersect InSession(s) \intersect Stoppable :
                    status[t] \notin Terminal}
    IN  \E batch \in {{t} : t \in live} \union {live} : RequestCancel(batch, "user")

\* Mutant: a task that never started is signalled but not settled.
SignalOnly(t) ==
    /\ intent[t] \in {"signal", "signalSettle"}
    /\ intent' = [intent EXCEPT ![t] = "none"]
    /\ interrupted' = interrupted \union {u \in {t} : Interruptible(u)}
    /\ UNCHANGED <<admission, ledger, lane, driver, cancelled, source, settlement, status,
                   row, aux, approvals>>

\* Second half: the intent is durable (or its write failed), the driver is signalled.
Signal(t) ==
    /\ intent[t] \in {"signal", "signalSettle"}
    /\ intent' = [intent EXCEPT ![t] = IF @ = "signalSettle" THEN "settle" ELSE "none"]
    /\ interrupted' = interrupted \union {u \in {t} : Interruptible(u)}
    /\ UNCHANGED <<admission, ledger, lane, driver, cancelled, source, settlement, status,
                   row, aux, approvals>>

--------------------------------------------------------------------------------
(* Settlement: _mark_terminal *)

\* The status the driver settles its task with.
DriverVerdict(t) ==
    IF driver[t] = "returning"
    THEN IF status[t] = "running" THEN "succeeded" ELSE "cancelled"
    ELSE IF status[t] \in Terminal THEN status[t] ELSE "failed"

\* Mutant: a later caller passes too.
ClaimSettlementAgain(t, verdict) ==
    /\ t \in registered
    /\ ClaimsFree(t)
    /\ settle' = [settle EXCEPT ![t] = "claimed"]
    /\ owner' = IF running[SessionOf[t]] = t THEN owner \union {t} ELSE owner
    /\ status' = [status EXCEPT ![t] = verdict]
    /\ UNCHANGED <<admission, ledger, execution, cancel, retry, row, aux, approvals>>

\* The first block of _mark_terminal_claimed: only the first caller passes.
ClaimSettlement(t, verdict) ==
    /\ t \in registered /\ ~TerminalClosing(t)
    /\ ClaimsFree(t)
    /\ settle' = [settle EXCEPT ![t] = "claimed"]
    /\ owner' = IF running[SessionOf[t]] = t THEN owner \union {t} ELSE owner
    /\ status' = [status EXCEPT ![t] = verdict]
    /\ UNCHANGED <<admission, ledger, execution, cancel, retry, row, aux, approvals>>

DriverSettles(t) ==
    /\ driver[t] \in {"returning", "settling"}
    /\ ClaimSettlement(t, DriverVerdict(t))

\* The canceller settles a task that never started, the activation its victim.
CancellerSettles(t) ==
    /\ intent[t] = "settle"
    /\ ClaimSettlement(t, "cancelled")

\* A task that held the running slot fails its orphaned approval closed; the queue
\* is addressed by session and the expiry runs on a worker thread.
ExpireApprovals(t) ==
    /\ settle[t] = "claimed"
    /\ settle' = [settle EXCEPT ![t] = "persisting"]
    /\ approvals' = IF t \in owner THEN approvals \ InSession(SessionOf[t]) ELSE approvals
    /\ UNCHANGED <<admission, ledger, execution, cancel, owner, retry, status, row, aux>>

PersistTerminal(t) ==
    /\ settle[t] = "persisting"
    /\ settle' = [settle EXCEPT ![t] = "emitting"]
    /\ \/ row' = [row EXCEPT ![t] = status[t]]
       \/ t \in Unsaved /\ UNCHANGED row       \* cached as a fallback record
    /\ UNCHANGED <<admission, ledger, execution, cancel, owner, retry, status, aux,
                   approvals>>

EmitTerminal(t) ==
    /\ settle[t] = "emitting"
    /\ settle' = [settle EXCEPT ![t] = IF row[t] = status[t] THEN "finishing"
                                                           ELSE "compensating"]
    /\ UNCHANGED <<admission, ledger, execution, cancel, owner, retry, status, row, aux,
                   approvals>>

\* Mutant: the second failure schedules no retry.
CompensateOnce(t) ==
    /\ settle[t] = "compensating"
    /\ settle' = [settle EXCEPT ![t] = "finishing"]
    /\ row' \in {row, [row EXCEPT ![t] = status[t]]}
    /\ UNCHANGED <<admission, ledger, execution, cancel, owner, retry, status, aux,
                   approvals>>

\* One more write after the fallback event; if it fails too a retry is scheduled.
Compensate(t) ==
    /\ settle[t] = "compensating"
    /\ settle' = [settle EXCEPT ![t] = "finishing"]
    /\ \/ row' = [row EXCEPT ![t] = status[t]] /\ UNCHANGED retry
       \/ retry' = retry \union {t} /\ UNCHANGED row
    /\ UNCHANGED <<admission, ledger, execution, cancel, owner, status, aux, approvals>>

\* Mutants: the entry is popped whoever it names; the slot is freed although it is held.
PopRunningAny(t) == running' = [running EXCEPT ![SessionOf[t]] = NoTask]
FreeHeldSlot(t) ==
    /\ resident' = resident - 1
    /\ holds' = IF t \in retry THEN holds \union {t} ELSE holds

\* The session's entry is popped only if it names this task.
PopRunning(t) ==
    running' = [running EXCEPT ![SessionOf[t]] = IF @ = t THEN NoTask ELSE @]

\* The resident slot is freed, or kept while the terminal row is still to be written.
FreeResidentSlot(t) ==
    IF t \in retry
    THEN holds' = holds \union {t} /\ UNCHANGED resident
    ELSE resident' = resident - 1 /\ UNCHANGED holds

\* The final block: leave the lists and the ledger.
FinishSettlement(t) ==
    /\ settle[t] = "finishing"
    /\ settle' = [settle EXCEPT ![t] = "settled"]
    /\ pending' = pending \ {t}
    /\ PopRunning(t)
    /\ registered' = registered \ {t}
    /\ FreeResidentSlot(t)
    /\ intent' = [intent EXCEPT ![t] = "none"]
    /\ UNCHANGED <<admission, execution, cancelled, source, owner, retry, status, row,
                   aux, approvals>>

\* _retry_terminal_updates got the row written and releases the resident hold.
RetryPersists(t) ==
    /\ t \in retry
    /\ row' = [row EXCEPT ![t] = status[t]]
    /\ retry' = retry \ {t}
    /\ holds' = holds \ {t}
    /\ resident' = IF t \in holds THEN resident - 1 ELSE resident
    /\ UNCHANGED <<admission, registered, pending, running, execution, cancel, settle,
                   owner, status, aux, approvals>>

--------------------------------------------------------------------------------
(* Shutdown: close admission, cancel, wait, then abandon what is left.  Its deadlines may
   pass at any time.  (A desktop quit, which cancels before taking any claim, is not
   modelled.) *)

CloseAdmission ==
    /\ Draining /\ ~Closing
    /\ drain' = "draining"
    /\ UNCHANGED <<sweep, swept, resv, victim, order, ledger, execution, cancel, settlement,
                   status, row, aux, approvals>>

\* _request_shutdown_cancellation, repeated while it waits; once more, for the tasks it
\* then froze, after the deadline.
ShutdownCancels ==
    LET src == IF drain = "forcing" THEN "timeout" ELSE "shutdown"
        reach == IF drain = "forcing" THEN sweep ELSE registered
    IN  /\ drain \in {"draining", "forcing"}
        /\ RequestCancel({t \in registered \intersect reach :
                            status[t] \notin Terminal /\ source[t] # src}, src)

\* A cancellation that the shutdown itself requested is finished first.
RequestServed(src) == \A t \in Task : intent[t] # "none" => source[t] # src

\* _wait_for_shutdown_quiescence reached its fixed point.
Quiesce ==
    /\ drain = "draining" /\ RequestServed("shutdown")
    /\ \A t \in Task : driver[t] \in {"none", "gone"}
    /\ OpenReservations = {} /\ retry = {}
    /\ \A s \in Session : aux[s] = "none"
    /\ drain' = "over"
    /\ UNCHANGED <<sweep, swept, resv, victim, order, ledger, execution, cancel, settlement,
                   status, row, aux, approvals>>

\* Its deadline passed: _mark_unfinished_abandoned freezes the unfinished tasks.
BeginSweep ==
    /\ drain = "draining" /\ RequestServed("shutdown")
    /\ drain' = "sweeping"
    /\ sweep' = {t \in registered : ~TerminalClosing(t)}
    /\ UNCHANGED <<swept, resv, victim, order, ledger, execution, cancel, settlement,
                   status, row, aux, approvals>>

NextSwept(t) == t \in sweep /\ \A u \in sweep \ {t} : Before(t, u)

\* One after the other: it settles the task,
SweepSettles(t) ==
    /\ drain = "sweeping" /\ NextSwept(t)
    /\ ClaimSettlement(t, "abandoned")

\* Mutant: a task somebody else is settling is passed over.
SweepPasses(t) ==
    /\ drain = "sweeping" /\ NextSwept(t)
    /\ TerminalClosing(t)
    /\ sweep' = sweep \ {t} /\ swept' = swept \union {t}
    /\ UNCHANGED <<drain, resv, victim, order, ledger, execution, cancel, settlement,
                   status, row, aux, approvals>>

\* or waits, on the claims of the task, until whoever came first has settled it.
SweepAdvances(t) ==
    /\ drain = "sweeping" /\ NextSwept(t)
    /\ settle[t] = "settled"
    /\ sweep' = sweep \ {t} /\ swept' = swept \union {t}
    /\ UNCHANGED <<drain, resv, victim, order, ledger, execution, cancel, settlement,
                   status, row, aux, approvals>>

\* The forced cancellation freezes the tasks and drivers it sees.
EndSweep ==
    /\ drain = "sweeping" /\ sweep = {}
    /\ drain' = "forcing"
    /\ sweep' = registered \union {t \in Task : driver[t] \notin {"none", "gone"}}
    /\ UNCHANGED <<swept, resv, victim, order, ledger, execution, cancel, settlement,
                   status, row, aux, approvals>>

\* It signals the drivers whose tasks are settled already, and returns.
ShutdownReturns ==
    /\ drain = "forcing" /\ RequestServed("timeout")
    /\ \A t \in sweep \intersect registered : status[t] \in Terminal \/ source[t] = "timeout"
    /\ drain' = "over" /\ sweep' = {}
    /\ interrupted' = interrupted
            \union {t \in sweep : source[t] # "timeout" /\ Interruptible(t)}
    /\ UNCHANGED <<swept, resv, victim, order, ledger, lane, driver, cancel,
                   settlement, status, row, aux, approvals>>

--------------------------------------------------------------------------------
(* Auxiliary work: run_auxiliary_if_idle *)

AdmitAuxiliary(s) ==
    /\ s \in Idle
    /\ GateFree(s) /\ ~Closing
    /\ ~HasWork(s) /\ aux[s] = "none"
    /\ resident < MaxResident
    /\ aux' = [aux EXCEPT ![s] = "waiting"]
    /\ resident' = resident + 1
    /\ UNCHANGED <<admission, registered, pending, running, holds, execution, cancel,
                   settlement, status, row, approvals>>

\* One auxiliary slot for the process, then the lane, then real work is re-checked.
StartAuxiliary(s) ==
    /\ aux[s] = "waiting" /\ lane[s] = NoTask /\ ~HasWork(s)
    /\ \A z \in Session : aux[z] # "working"
    /\ lane' = [lane EXCEPT ![s] = Auxiliary]
    /\ aux' = [aux EXCEPT ![s] = "working"]
    /\ UNCHANGED <<admission, ledger, driver, interrupted, cancel, settlement, status,
                   row, approvals>>

\* The operation returned, real work was found, or cancel_auxiliary reached it.
EndAuxiliary(s) ==
    /\ aux[s] # "none"
    /\ aux' = [aux EXCEPT ![s] = "none"]
    /\ lane' = [lane EXCEPT ![s] = IF @ = Auxiliary THEN NoTask ELSE @]
    /\ resident' = resident - 1
    /\ UNCHANGED <<admission, registered, pending, running, holds, driver, interrupted,
                   cancel, settlement, status, row, approvals>>

--------------------------------------------------------------------------------
(* Steps the runtime itself takes, and steps its environment may take *)

AdmissionStep(t) == CommitRow(t) \/ Activate(t)

DriverStep(t) ==
    \/ StartDriver(t) \/ EnterLane(t) \/ GrantSlot(t) \/ MarkRunning(t)
    \/ AnnounceRunning(t) \/ HandlerReturns(t) \/ RefuseToRun(t)
    \/ DeliverCancellation(t) \/ RecordSteers(t) \/ DriverExits(t)

ClaimStep(t) == DriverSettles(t) \/ CancellerSettles(t) \/ SweepSettles(t)

SettlementStep(t) ==
    \/ ExpireApprovals(t) \/ PersistTerminal(t) \/ EmitTerminal(t)
    \/ Compensate(t) \/ FinishSettlement(t)

EnvironmentStep(t) ==
    \/ Reserve(t) \/ AbortReservation(t) \/ HandlerFails(t) \/ RaiseApproval(t)

ShutdownStep ==
    \/ CloseAdmission \/ ShutdownCancels \/ Quiesce
    \/ BeginSweep \/ (\E t \in Task : SweepAdvances(t)) \/ EndSweep \/ ShutdownReturns

AuxiliaryStep(s) == StartAuxiliary(s) \/ EndAuxiliary(s)

Next ==
    \/ \E t \in Task :
        \/ AdmissionStep(t) \/ DriverStep(t) \/ ResolveApproval(t) \/ Signal(t)
        \/ ClaimStep(t) \/ SettlementStep(t) \/ RetryPersists(t)
        \/ EnvironmentStep(t)
    \/ \E s \in Session : Cancel(s) \/ AdmitAuxiliary(s) \/ AuxiliaryStep(s)
    \/ ShutdownStep

Spec == Init /\ [][Next]_vars

\* Every ready coroutine is eventually run; approvals are answered (they time out) and
\* no handler asks for ever (a finite hard deadline ends it); the claims of a task are
\* FIFO locks, so a settlement that waits for them gets them although cancellations
\* keep coming; real work and shutdown cancel auxiliary work.  Nothing is assumed of
\* storage (a terminal write may fail again and again, a retry need not succeed), nor of
\* the shutdown, which need not come to an end.
Fairness ==
    /\ \A t \in Task : /\ WF_vars(Activate(t)) /\ WF_vars(DriverStep(t))
                      /\ WF_vars(ResolveApproval(t)) /\ SF_vars(HandlerReturns(t))
                      /\ WF_vars(Signal(t)) /\ WF_vars(SettlementStep(t))
                      /\ SF_vars(ClaimStep(t))
    /\ \A s \in Session : WF_vars(EndAuxiliary(s) /\ (HasWork(s) \/ Closing))
FairSpec == Spec /\ Fairness

--------------------------------------------------------------------------------
(* Properties *)

\* A resident slot spans reservation, queued and running execution, settlement and
\* any terminal write still owed (reserve, abort_reservation, _mark_terminal_claimed,
\* _release_terminal_resident_hold): the counter is exact, so no path leaks a slot or
\* frees one twice, and the cap of reserve holds.
ResidentExact ==
    /\ resident = Cardinality(OpenReservations) + Cardinality(registered)
                    + Cardinality(holds) + Cardinality({s \in Session : aux[s] # "none"})
    /\ resident <= MaxResident

\* Eviction makes room exactly once: tasks that wait to run and nobody has told to stop, together
\* with the reservation in flight, stay within max_pending_per_session, whatever the
\* victim of a reservation did between reserve and activate; each steer or interrupt
\* bypasses the limit and may exceed it by one.
PendingBounded ==
    \A s \in Session :
        LET counted == {t \in Waiting(s) \ ReservedVictims :
                            status[t] = "queued" /\ t \notin cancelled}
            arriving == OpenReservations \intersect InSession(s)
            bypassing == {t \in InSession(s) \intersect Interrupting : resv[t] # "none"}
        IN  Cardinality(counted) + Cardinality(arriving)
                <= MaxPending + Cardinality(bypassing)

\* The task whose handler runs in a lane is the one _running_by_session names until
\* its own settlement begins, although predecessors that unwound early still settle
\* and pop that entry in their finally block.
RunningEntryExact ==
    \A t \in Task :
        driver[t] \in {"announcing", "handler"} /\ ~TerminalClosing(t)
            => running[SessionOf[t]] = t

\* A terminal outcome is never lost: once a task has settled, its durable row shows
\* the outcome or a scheduled retry still owes the write and keeps its resident slot.
TerminalOutcomeKept ==
    \A t \in Task :
        settle[t] = "settled" => \/ row[t] = status[t]
                                 \/ t \in retry /\ t \in holds

\* One terminal outcome per task: neither the outcome in memory after the settlement
\* was claimed nor the durable terminal row is ever replaced, whoever else (driver,
\* canceller, evicting activation) also tries to settle the task.
OutcomeStable ==
    [][\A t \in Task :
        /\ TerminalClosing(t) => status'[t] = status[t]
        /\ row[t] \in Terminal => row'[t] = row[t]]_vars

\* `DROP_OLDEST only evicts waiting work' (activate), and a canceller settles only what
\* never started: from the permit claim of its driver to the end of its handler nobody
\* ends a turn, however grant, permit, cancellation and eviction overlap.  The sweep alone
\* abandons turns under their handlers, and it too waits for the RUNNING write.
NoneEndedWhileRunning ==
    \A t \in Task : TerminalClosing(t) =>
        /\ driver[t] \notin {"marking", "announcing"}
        /\ driver[t] = "handler" => status[t] = "abandoned"

\* An activated turn always ends: settled, off every list, its driver gone.
EveryTurnEnds ==
    \A t \in Task :
        resv[t] = "activated" ~> /\ settle[t] = "settled" /\ driver[t] = "gone"
                                 /\ t \notin registered \union pending

\* `Otherwise the driver can win the cancellation race, publish an earlier classification,
\* and leave the shutdown coordinator without a durable ABANDONED record' (_shutdown_impl):
\* every turn the shutdown has gone past after its deadline has a durable outcome, its own
\* or another's, or a retry that owes it.
SweptTurnsDurable == \A t \in swept : row[t] \in Terminal \/ t \in retry

\* `Finish accepted-input settlement even if the task is cancelled again': a driver
\* that is gone leaves no running turn behind.
NoUnsettledTurn ==
    \A t \in Task : driver[t] = "gone" /\ status[t] = "running" => TerminalClosing(t)

================================================================================
