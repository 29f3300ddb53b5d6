------------------------------- MODULE Scheduler -------------------------------
(***************************************************************************)
(* The job scheduler (scheduler/engine.py, timer.py, ops.py, jobs.py and     *)
(* persistence.py): one table of jobs, the timer loop that runs what is due, *)
(* runs asked for by hand, the user's edits and the recovery at start.       *)
(*                                                                           *)
(* Whoever wants to run a job reserves its row with a fresh token, runs the  *)
(* handler, and gives the row back by a write that names the token.  Nobody  *)
(* holds a lock meanwhile: the user may pause, reschedule or delete the job, *)
(* and every write that was computed from an earlier read of the row is      *)
(* conditional on that read.                                                 *)
(***************************************************************************)
EXTENDS Naturals, FiniteSets

CONSTANTS
    Job,            \* jobs there may be in the table
    OneShot,        \* those created as AT jobs (delete_after_run)
    Unschedulable,  \* those whose next run may fail to be computed
    Unhandled,      \* those whose handler may not be registered
    Uses,           \* the operations the user tries on each
    Run,            \* reservation tokens, taken again once nothing refers to them
    Manual,         \* calls of run_job_now
    Editor,         \* calls of pause, resume, update and delete
    MaxConcurrent,  \* max_concurrent_runs
    MaxCatchup,     \* max_catchup_jobs
    MaxErrors,      \* MAX_CONSECUTIVE_ERRORS
    OneShotRetries, \* _ONE_SHOT_MAX_RETRIES
    MaxTime,        \* bound: instants of the clock, the refire gap apart
    MaxRestart,     \* bound: times the engine stops, or the process ends and comes back
    MaxFault,       \* bound: writes of a run that fail
    Timer,          \* the owner name of the timer
    None

Operation == {"add", "delete", "pause", "resume", "disable", "enable", "at", "every"}

ASSUME SchedulerAssumption ==
    /\ IsFiniteSet(Job) /\ IsFiniteSet(Run)
    /\ OneShot \subseteq Job /\ Unschedulable \subseteq Job
    /\ Unhandled \subseteq Job /\ Uses \in [Job -> SUBSET Operation]
    /\ MaxConcurrent \in Nat \ {0} /\ MaxCatchup \in Nat
    /\ MaxErrors \in Nat \ {0} /\ OneShotRetries \in Nat \ {0}
    /\ MaxTime \in Nat \ {0} /\ MaxRestart \in Nat /\ MaxFault \in Nat
    /\ Timer \notin Manual
    /\ None \notin Run \union Job \union Manual \union {Timer}

VARIABLES
    now,        \* the clock
    jobs,       \* durable: ids in scheduler_jobs
    row,        \* durable: their columns
    phase,      \* where each run stands
    of,         \* the job it reserved
    by,         \* the owner it reserved it as
    outcome,    \* how its handler ended
    read,       \* the row it is about to finalize
    tracked,    \* _running: the last timer task of each job
    engine,     \* what start() or the timer loop is doing
    todo,       \* jobs its current pass has still to handle
    at,         \* the instant that pass took from the clock
    seen,       \* the rows that pass has read
    aside,      \* recovered_ids, then the missed jobs beyond max_catchup
    manual,     \* progress of each run_job_now
    edit,       \* progress of each edit, with the row it has read
    failed,     \* history: runs of this engine ended by a failed write or a lost start
    intent,     \* history: what the user last asked of each job
    wanted,     \* history: the one-shot time the user is still owed
    back,       \* history: jobs whose updated_at a reservation has moved back
    asked,      \* the instant each run_job_now still waiting was made
    restarts, faults

runs == <<phase, of, by, outcome, read>>
passes == <<engine, todo, at, seen, aside>>
history == <<failed, intent, wanted, back>>
others == <<asked, restarts, faults>>
vars == <<now, jobs, row, runs, tracked, passes, manual, edit, history, others>>

Status == {"pending", "running", "paused", "failed", "disabled"}
\* "granted": the timer's reservation is committed and its caller has not resumed;
\* "created": the task has not taken its first step; "executing": the stagger, the
\* handler and the record of the execution; "writing": the row has been read.
Live == {"granted", "created", "executing", "writing", "notifying", "releasing"}
Off == {"paused", "disabled"}
Owner == {Timer, None} \union Manual

\* The columns of a job that the scheduler decides on; 0 stands for a NULL instant.
Row == [status : Status, enabled : BOOLEAN, kind : {"at", "every"}, next : Nat,
        backoff : Nat, errs : Nat, count : Nat, updated : Nat, last : Nat,
        token : Run \union {None}, owner : Owner, sched : Nat]

Command == [op : {"pause", "resume", "disable", "enable", "every"}, time : {0}]
             \union [op : {"at"}, time : 2 .. MaxTime + 1]

NoRow == [status |-> "pending", enabled |-> TRUE, kind |-> "every", next |-> 0,
          backoff |-> 0, errs |-> 0, count |-> 0, updated |-> 0, last |-> 0,
          token |-> None, owner |-> None, sched |-> 0]
Idle == [pc |-> "idle", job |-> None, cmd |-> [op |-> "pause", time |-> 0], row |-> NoRow]
NoEdit == [Idle EXCEPT !.pc = "done"]

TypeOK ==
    /\ now \in Nat \ {0}
    /\ jobs \subseteq Job
    /\ row \in [Job -> Row]
    /\ phase \in [Run -> Live \union {"free"}]
    /\ of \in [Run -> Job \union {None}]
    /\ by \in [Run -> Owner]
    /\ outcome \in [Run -> {"none", "ok", "transient", "permanent", "missing"}]
    /\ read \in [Run -> Row]
    /\ tracked \in [Job -> Run \union {None}]
    /\ engine \in {"fresh", "recovering", "catching", "forwarding", "idle", "ticking",
                   "stopped"}
    /\ todo \subseteq Job /\ aside \subseteq Job
    /\ at \in Nat
    /\ seen \in [Job -> Row]
    /\ manual \in [Manual -> {"idle", "asked", "owner", "done"}]
    /\ edit \in [Editor -> [pc : {"idle", "editing", "done"}, job : Job \union {None},
                            cmd : Command, row : Row]]
    /\ failed \subseteq Run
    /\ intent \in [Job -> {"absent", "on", "off", "deleted"}]
    /\ wanted \in [Job -> Nat]
    /\ back \subseteq Job
    /\ asked \in [Manual -> Nat]
    /\ restarts \in Nat /\ faults \in Nat

\* The row add() creates for a job to run at the next instant.
NewRow(j, t) == [NoRow EXCEPT !.kind = IF j \in OneShot THEN "at" ELSE "every",
                              !.next = t + 1, !.updated = t]

\* The table may hold any of the jobs, and a behaviour may use any part of the bounds.
Init ==
    /\ now = 1
    /\ jobs \in SUBSET Job
    /\ row = [j \in Job |-> IF j \in jobs THEN NewRow(j, 1) ELSE NoRow]
    /\ phase = [r \in Run |-> "free"] /\ of = [r \in Run |-> None]
    /\ by = [r \in Run |-> None] /\ outcome = [r \in Run |-> "none"]
    /\ read = [r \in Run |-> NoRow]
    /\ tracked = [j \in Job |-> None]
    /\ engine = "fresh" /\ todo = {} /\ aside = {} /\ at = 0
    /\ seen = [j \in Job |-> NoRow]
    /\ manual \in [Manual -> {"idle", "done"}]
    /\ edit \in [Editor -> {Idle, NoEdit}]
    /\ failed = {} /\ intent = [j \in Job |-> IF j \in jobs THEN "on" ELSE "absent"]
    /\ wanted = [j \in Job |-> 0] /\ back = {}
    /\ asked = [m \in Manual |-> 0]
    /\ restarts \in 0 .. MaxRestart /\ faults \in 0 .. MaxFault

Later(a, b) == IF a < b THEN b ELSE a
IsLive(r) == phase[r] \in Live
\* Mutants: the limit forgets the tasks in _running; it counts one too many.
AllSlots(n) == MaxConcurrent
SlotsLess(n) == IF n + 1 < MaxConcurrent THEN MaxConcurrent - n - 1 ELSE 0

Slots(n) == IF n < MaxConcurrent THEN MaxConcurrent - n ELSE 0

\* An EVERY or CRON job runs again at the next instant, unless none can be computed.
NextRuns(j, t) == {t + 1} \union (IF j \in Unschedulable THEN {0} ELSE {})

-------------------------------------------------------------------------------
(* The conditional writes of the store. *)

\* Mutant: only the status is asked, not the reservation.
ReservableByStatus(j, t) ==
    j \in jobs /\ row[j].enabled /\ row[j].status = "pending" /\ row[j].backoff <= t

Reservable(j, t) ==
    /\ j \in jobs
    /\ row[j].enabled /\ row[j].status = "pending" /\ row[j].token = None
    /\ row[j].backoff <= t

Due(j, t) ==
    /\ j \in jobs
    /\ row[j].enabled /\ row[j].status = "pending"
    /\ row[j].next # 0 /\ row[j].next <= t /\ row[j].backoff <= t

\* A new uuid: nothing durable or in memory refers to it.
Unused(r) ==
    /\ phase[r] = "free"
    /\ \A j \in Job : row[j].token # r /\ seen[j].token # r /\ tracked[j] # r
    /\ \A q \in Run : read[q].token # r
    /\ \A e \in Editor : edit[e].row.token # r

TokenLeft == \E r \in Run : Unused(r)
NewToken == CHOOSE r \in Run : Unused(r)

Reserve(j, r, owner, t, p) ==
    /\ r \in Run /\ Unused(r)
    /\ row' = [row EXCEPT ![j] =
                 [@ EXCEPT !.status = "running", !.token = r, !.owner = owner,
                           !.sched = row[j].next, !.last = t, !.updated = t]]
    /\ phase' = [phase EXCEPT ![r] = p]
    /\ of' = [of EXCEPT ![r] = j] /\ by' = [by EXCEPT ![r] = owner]
    /\ wanted' = [wanted EXCEPT ![j] = IF @ = row[j].next THEN 0 ELSE @]
    /\ back' = IF t < row[j].updated THEN back \union {j} ELSE back
    /\ failed' = failed \ {r}
    /\ UNCHANGED <<outcome, read, intent>>

Cleared(w) == [w EXCEPT !.token = None, !.owner = None, !.sched = 0]

\* Mutant: a row the user stopped meanwhile keeps its reservation.
ReleasedIfRunning(w, t) ==
    IF w.status = "running"
      THEN [Cleared(w) EXCEPT !.status = "pending", !.updated = Later(@, t)] ELSE w

Released(w, t) ==
    [Cleared(w) EXCEPT !.status = IF @ = "running" THEN "pending" ELSE @,
                       !.updated = Later(@, t)]

\* update_configuration: by its fence, the snapshot an edit was computed from is the row.
Unedited(j, w) ==
    /\ j \in jobs
    /\ row[j].updated = w.updated /\ row[j].token = w.token
    /\ row[j].status = w.status /\ row[j].enabled = w.enabled /\ row[j].count = w.count

EndRun(r) ==
    /\ phase' = [phase EXCEPT ![r] = "free"]
    /\ of' = [of EXCEPT ![r] = None] /\ by' = [by EXCEPT ![r] = None]
    /\ outcome' = [outcome EXCEPT ![r] = "none"]
    /\ read' = [read EXCEPT ![r] = NoRow]
    /\ manual' = [m \in Manual |-> IF m = by[r] THEN "done" ELSE manual[m]]

Goto(r, p) == phase' = [phase EXCEPT ![r] = p]

-------------------------------------------------------------------------------
(* Start: reservations left by an earlier process, then the missed jobs. *)

Start ==
    /\ engine = "fresh"
    /\ engine' = "recovering" /\ todo' = jobs /\ at' = now /\ seen' = row /\ aside' = {}
    /\ failed' = {}
    /\ UNCHANGED <<now, jobs, row, runs, tracked, manual, edit, intent, wanted, back,
                   others>>

\* Mutant: runs asked for before the start are not known to it.
ActiveTimer(j, w) == w.owner = Timer /\ tracked[j] # None /\ IsLive(tracked[j])

\* A timer task that runs here, or a run_job_now whose task is not done.
ActiveOwner(j, w) ==
    \/ w.owner = Timer /\ tracked[j] # None /\ IsLive(tracked[j])
    \/ w.owner \in Manual /\ manual[w.owner] \in {"asked", "owner"}

Recover(j) ==
    LET w == seen[j]
        stale == w.status = "running" \/ w.token # None
        same == /\ j \in jobs
                /\ row[j].updated = w.updated /\ row[j].token = w.token
                /\ row[j].owner = w.owner /\ row[j].status = w.status
    IN  /\ engine = "recovering" /\ j \in todo
        /\ \/ /\ ~stale \/ ActiveOwner(j, w) \/ j \notin jobs
              /\ todo' = todo \ {j} /\ seen' = [seen EXCEPT ![j] = NoRow]
              /\ UNCHANGED <<row, aside>>
           \/ /\ stale /\ ~ActiveOwner(j, w) /\ same
              /\ row' = [row EXCEPT ![j] = Released(@, at)]
              /\ aside' = IF w.status = "running" THEN aside \union {j} ELSE aside
              /\ todo' = todo \ {j} /\ seen' = [seen EXCEPT ![j] = NoRow]
           \/ /\ stale /\ ~ActiveOwner(j, w) /\ j \in jobs /\ ~same
              /\ seen' = [seen EXCEPT ![j] = row[j]]
              /\ UNCHANGED <<row, todo, aside>>
        /\ UNCHANGED <<now, jobs, runs, tracked, engine, at, manual, edit, history, others>>

\* The first n of a set of jobs in the order of next_run_at.
First(n, S) ==
    {q \in SUBSET S : /\ Cardinality(q) = (IF Cardinality(S) < n THEN Cardinality(S) ELSE n)
                      /\ \A j \in q, k \in S \ q : row[j].next <= row[k].next}

CollectMissed ==
    LET missed == {j \in Job : Due(j, at)} \ aside
    IN  /\ engine = "recovering" /\ todo = {}
        /\ \E q \in First(MaxCatchup, missed) :
             /\ todo' = q /\ aside' = missed \ q
             /\ seen' = [j \in Job |-> IF j \in missed \ q THEN row[j] ELSE NoRow]
        /\ engine' = "catching"
        /\ UNCHANGED <<now, jobs, row, runs, tracked, at, manual, edit, history, others>>

\* reserve_due_job, for a job of the pass: granted, or skipped because the row changed.
ReserveDue(j) ==
    /\ todo' = todo \ {j}
    /\ \/ /\ Due(j, at) /\ Reservable(j, at)
          /\ TokenLeft /\ Reserve(j, NewToken, Timer, at, "granted")
       \/ /\ ~(Due(j, at) /\ Reservable(j, at))
          /\ UNCHANGED <<row, runs, history>>

CatchupReserve(j) ==
    /\ engine = "catching" /\ j \in todo
    /\ ReserveDue(j)
    /\ UNCHANGED <<now, jobs, tracked, engine, at, seen, aside, manual, edit, others>>

Granted == {r \in Run : phase[r] = "granted" /\ by[r] = Timer}

\* create_task for every reservation of the pass, and the entry in _running.
Launched ==
    /\ phase' = [r \in Run |-> IF r \in Granted THEN "created" ELSE phase[r]]
    /\ tracked' = [j \in Job |-> IF \E r \in Granted : of[r] = j
                                   THEN CHOOSE r \in Granted : of[r] = j ELSE tracked[j]]
    /\ UNCHANGED <<of, by, outcome, read>>

CatchupLaunch ==
    /\ engine = "catching" /\ todo = {}
    /\ Launched
    /\ engine' = "forwarding" /\ todo' = aside /\ aside' = {}
    /\ UNCHANGED <<now, jobs, row, at, seen, manual, edit, history, others>>

\* The rest is fast-forwarded, one-shots excepted, unless the user came first.
FastForward(j) ==
    /\ engine = "forwarding" /\ j \in todo
    /\ todo' = todo \ {j} /\ seen' = [seen EXCEPT ![j] = NoRow]
    /\ \E n \in NextRuns(j, at) :
         row' = IF seen[j].kind = "every" /\ n # 0 /\ Unedited(j, seen[j])
                  THEN [row EXCEPT ![j] =
                          [@ EXCEPT !.next = n, !.updated = Later(at, seen[j].updated + 1)]]
                  ELSE row
    /\ UNCHANGED <<now, jobs, runs, tracked, engine, at, aside, manual, edit, history, others>>

Started ==
    /\ engine = "forwarding" /\ todo = {}
    /\ engine' = "idle" /\ at' = 0
    /\ UNCHANGED <<now, jobs, row, runs, tracked, todo, seen, aside, manual, edit,
                   history, others>>

-------------------------------------------------------------------------------
(* The timer loop. *)

Collect ==
    LET kept == [j \in Job |-> IF tracked[j] # None /\ IsLive(tracked[j])
                                 THEN tracked[j] ELSE None]
        due == {j \in Job : Due(j, now) /\ row[j].last # now}
        slots == Slots(Cardinality({j \in Job : kept[j] # None}))
    IN  /\ engine = "idle"
        /\ tracked' = kept
        /\ \E q \in First(slots, due) :
             IF q = {} THEN UNCHANGED <<engine, todo, at>>
                       ELSE engine' = "ticking" /\ todo' = q /\ at' = now
        /\ UNCHANGED <<now, jobs, row, runs, seen, aside, manual, edit, history, others>>

TickReserve(j) ==
    /\ engine = "ticking" /\ j \in todo /\ Granted = {}
    /\ ReserveDue(j)
    /\ UNCHANGED <<now, jobs, tracked, engine, at, seen, aside, manual, edit, others>>

TickLaunch ==
    /\ engine = "ticking" /\ (Granted # {} \/ todo = {})
    /\ Launched
    /\ IF todo = {} THEN engine' = "idle" /\ at' = 0 ELSE UNCHANGED <<engine, at>>
    /\ UNCHANGED <<now, jobs, row, todo, seen, aside, manual, edit, history, others>>

Tick ==
    /\ now < MaxTime
    /\ now' = now + 1
    /\ UNCHANGED <<jobs, row, runs, tracked, passes, manual, edit, history, others>>

-------------------------------------------------------------------------------
(* A run, whoever reserved it. *)

Holds(r) == of[r] \in jobs /\ row[of[r]].token = r

\* The loop of apply_reserved_result and finalize_reserved_missing_handler: read the
\* row, and leave it alone if the reservation is gone...
ToFinalize(r, o) ==
    /\ Goto(r, IF Holds(r) THEN "writing" ELSE "notifying")
    /\ outcome' = [outcome EXCEPT ![r] = IF Holds(r) THEN o ELSE "none"]
    /\ read' = [read EXCEPT ![r] = IF Holds(r) THEN row[of[r]] ELSE NoRow]

StartRun(r) ==
    /\ phase[r] = "created"
    /\ \/ Goto(r, "executing") /\ UNCHANGED <<outcome, read>>
       \/ of[r] \in Unhandled /\ ToFinalize(r, "missing")
    /\ UNCHANGED <<now, jobs, row, of, by, tracked, passes, manual, edit, history, others>>

HandlerEnds(r) ==
    /\ phase[r] = "executing"
    /\ \E o \in {"ok", "transient", "permanent"} : ToFinalize(r, o)
    /\ UNCHANGED <<now, jobs, row, of, by, tracked, passes, manual, edit, history, others>>

IsRescheduled(w) ==
    w.kind = "at" /\ w.token # None /\ w.sched # 0 /\ w.next # 0 /\ w.next # w.sched

Charged(w) == [w EXCEPT !.errs = @ + 1]
\* Mutant: the status of a deleted job, which no row has.
StoppedAsDeleted(w) == [w EXCEPT !.status = "deleted", !.enabled = FALSE]
Stopped(w) == [w EXCEPT !.status = "disabled", !.enabled = FALSE]
Broken(w) == [w EXCEPT !.status = "failed", !.next = 0, !.backoff = 0]
Again(w, next, backoff) ==
    [w EXCEPT !.status = "pending", !.next = next, !.backoff = backoff]
Reset(w) == [w EXCEPT !.errs = 0, !.backoff = 0]

\* _apply_result_state and its missing-handler counterpart; n is the recomputed next run.
AfterResult(w, o, n) ==
    CASE IsRescheduled(w) -> Again(Reset(w), w.next, 0)
      [] ~IsRescheduled(w) /\ o = "missing" -> Broken(Charged(w))
      [] ~IsRescheduled(w) /\ o = "permanent" ->
           [Stopped(Charged(w)) EXCEPT !.next = 0, !.backoff = 0]
      [] ~IsRescheduled(w) /\ o = "ok" ->
           IF w.kind = "at" THEN Stopped(Reset(w))
           ELSE IF n = 0 THEN Broken(Charged(Reset(w))) ELSE Again(Reset(w), n, 0)
      [] ~IsRescheduled(w) /\ o = "transient" ->
           IF w.kind = "at"
             THEN IF w.errs + 1 >= OneShotRetries THEN Stopped(Charged(w))
                  ELSE Again(Charged(w), w.next, now + 1)
             ELSE IF w.errs + 1 >= MaxErrors \/ n = 0 THEN Broken(Charged(w))
                  ELSE Again(Charged(w), n, now + 1)

\* Mutant: the job goes with the success of an occurrence it no longer has.
ConsumedAnyway(j, w, o) ==
    w.status \notin Off /\ o = "ok" /\ w.kind = "at" /\ j \in OneShot

\* delete_after_run: a one-shot job goes with its success.
Consumed(j, w, o) ==
    w.status \notin Off /\ ~IsRescheduled(w) /\ o = "ok" /\ w.kind = "at" /\ j \in OneShot

\* The columns a finalizer writes; a job the user stopped only loses its reservation.
Finalized(w, o, n) ==
    IF w.status \in Off THEN Cleared(w)
    ELSE [Cleared(AfterResult(w, o, n)) EXCEPT !.count = @ + 1, !.updated = Later(@, now)]

\* Mutant: the token alone admits the result.
StillHeld(r) == Holds(r)

StillRead(r) == Holds(r) /\ row[of[r]].updated = read[r].updated

\* ...then write, if the token and the row it was computed from are still there.
Finalize(r) ==
    LET j == of[r]
        over == /\ Goto(r, "notifying")
                /\ outcome' = [outcome EXCEPT ![r] = "none"]
                /\ read' = [read EXCEPT ![r] = NoRow]
    IN  /\ phase[r] = "writing"
        /\ \/ /\ StillRead(r) /\ Consumed(j, read[r], outcome[r])
              /\ jobs' = jobs \ {j}
              /\ over /\ UNCHANGED row
           \/ /\ StillRead(r) /\ ~Consumed(j, read[r], outcome[r])
              /\ \E n \in NextRuns(j, now) :
                   row' = [row EXCEPT ![j] = Finalized(read[r], outcome[r], n)]
              /\ over /\ UNCHANGED jobs
           \/ /\ ~StillRead(r)
              /\ ToFinalize(r, outcome[r]) /\ UNCHANGED <<jobs, row>>
        /\ UNCHANGED <<now, of, by, tracked, passes, manual, edit, history, others>>

Notify(r) ==
    /\ phase[r] = "notifying"
    /\ EndRun(r)
    /\ UNCHANGED <<now, jobs, row, tracked, passes, edit, history, others>>

\* release_reservation, after the run was cancelled.
Release(r) ==
    /\ phase[r] = "releasing"
    /\ row' = IF of[r] \in jobs /\ row[of[r]].token = r
                THEN [row EXCEPT ![of[r]] = Released(@, now)] ELSE row
    /\ EndRun(r)
    /\ UNCHANGED <<now, jobs, tracked, passes, edit, history, others>>

\* The write raises: nothing but a cancellation releases, so the row stays reserved.
WriteFails(r) ==
    /\ phase[r] \in {"executing", "writing", "releasing"}
    /\ faults < MaxFault
    /\ faults' = faults + 1
    /\ EndRun(r)
    /\ failed' = failed \union {r}
    /\ UNCHANGED <<now, jobs, row, tracked, passes, edit, intent, wanted, back, asked,
                   restarts>>

-------------------------------------------------------------------------------
(* run_job_now. *)

RunJobNow(m) ==
    /\ manual[m] = "idle" /\ engine # "stopped"
    /\ manual' = [manual EXCEPT ![m] = "asked"] /\ asked' = [asked EXCEPT ![m] = now]
    /\ UNCHANGED <<now, jobs, row, runs, tracked, passes, edit, history, restarts, faults>>

\* The write takes its turn some time after the instant t it reserves the job for.  The
\* handler is looked up again and on_admitted may raise: both give the row back.
ManualReserve(m, j) ==
    /\ manual[m] = "asked" /\ TokenLeft
    /\ \E t \in asked[m] .. now, p \in {"executing", "releasing"} :
         Reservable(j, t) /\ Reserve(j, NewToken, m, t, p)
    /\ manual' = [manual EXCEPT ![m] = "owner"] /\ asked' = [asked EXCEPT ![m] = 0]
    /\ UNCHANGED <<now, jobs, tracked, passes, edit, restarts, faults>>

\* Not found, no handler, busy, disabled, backing off, or the caller went away.
ManualGivesUp(m) ==
    /\ manual[m] = "asked"
    /\ manual' = [manual EXCEPT ![m] = "done"] /\ asked' = [asked EXCEPT ![m] = 0]
    /\ UNCHANGED <<now, jobs, row, runs, tracked, passes, edit, history, restarts, faults>>

CallerLeaves(r) ==
    /\ by[r] \in Manual /\ phase[r] \in Live \ {"releasing"}
    /\ Goto(r, "releasing")
    /\ outcome' = [outcome EXCEPT ![r] = "none"] /\ read' = [read EXCEPT ![r] = NoRow]
    /\ UNCHANGED <<now, jobs, row, of, by, tracked, passes, manual, edit,
                   history, others>>

-------------------------------------------------------------------------------
(* The user's edits: read the row, apply the command, write if nothing moved. *)

EditRead(e, j, c) ==
    /\ edit[e].pc = "idle" /\ j \in jobs /\ c.op \in Uses[j]
    /\ edit' = [edit EXCEPT ![e] = [pc |-> "editing", job |-> j, cmd |-> c, row |-> row[j]]]
    /\ UNCHANGED <<now, jobs, row, runs, tracked, passes, manual, history, others>>

Revived(w, n) == Again(Reset(w), IF w.kind = "at" THEN w.next ELSE n, 0)

Applied(w, c, n) ==
    CASE c.op = "pause" -> [w EXCEPT !.status = "paused"]
      [] c.op = "resume" -> [Revived(w, n) EXCEPT !.enabled = TRUE]
      [] c.op = "disable" -> [w EXCEPT !.status = "paused", !.enabled = FALSE]
      [] c.op = "enable" ->
           [(IF w.status \in {"paused", "disabled", "failed"} THEN Revived(w, n) ELSE w)
              EXCEPT !.enabled = TRUE]
      [] c.op = "at" ->
           [(IF w.kind = "at" /\ w.next # c.time THEN Reset(w) ELSE w)
              EXCEPT !.kind = "at", !.next = c.time]
      [] c.op = "every" -> [w EXCEPT !.kind = "every", !.next = n]

\* The command is refused: a time in the past, or no next run to be found.
Refused(w, c, n) ==
    \/ c.op = "at" /\ c.time < now
    \/ n = 0 /\ (c.op = "every" \/ (c.op \in {"resume", "enable"} /\ w.kind = "every"))

Asked(c, i) ==
    CASE c.op \in {"pause", "disable"} -> "off"
      [] c.op \in {"resume", "enable"} -> "on"
      [] OTHER -> i

\* An edit writes the columns it has changed.
Merged(old, was, new) == IF new = was THEN old ELSE new
\* Mutant: an edit is dated by the clock alone.
EditedNow(v, w, u) ==
    [v EXCEPT !.status = Merged(@, w.status, u.status),
              !.enabled = Merged(@, w.enabled, u.enabled),
              !.kind = Merged(@, w.kind, u.kind), !.next = Merged(@, w.next, u.next),
              !.backoff = Merged(@, w.backoff, u.backoff), !.errs = Merged(@, w.errs, u.errs),
              !.updated = now]

Edited(v, w, u) ==
    [v EXCEPT !.status = Merged(@, w.status, u.status),
              !.enabled = Merged(@, w.enabled, u.enabled),
              !.kind = Merged(@, w.kind, u.kind), !.next = Merged(@, w.next, u.next),
              !.backoff = Merged(@, w.backoff, u.backoff), !.errs = Merged(@, w.errs, u.errs),
              !.updated = Later(now, w.updated + 1)]

\* The occurrence a rescheduled job still owes: none if the run in progress is that
\* one or has no scheduled time to tell it from, or if the scheduler had stopped it.
Owed(w, c, owed) ==
    CASE c.op = "every" -> 0
      [] c.op = "at" -> IF \/ w.status \in {"failed", "disabled"}
                           \/ w.token # None /\ w.sched \in {0, c.time}
                          THEN 0 ELSE c.time
      [] OTHER -> owed

EditWrite(e) ==
    LET j == edit[e].job  c == edit[e].cmd  w == edit[e].row
        ends == edit' = [edit EXCEPT ![e] = NoEdit]
        keep == UNCHANGED <<row, intent, wanted>>
    IN  /\ edit[e].pc = "editing"
        /\ \/ j \notin jobs /\ ends /\ keep
           \/ /\ j \in jobs
              /\ \E n \in NextRuns(j, now) :
                   \/ Refused(w, c, n) /\ ends /\ keep
                   \/ /\ ~Refused(w, c, n) /\ ~Unedited(j, w) /\ keep
                      /\ edit' = [edit EXCEPT ![e].row = row[j]]
                   \/ /\ ~Refused(w, c, n) /\ Unedited(j, w) /\ ends
                      /\ row' = [row EXCEPT ![j] = Edited(@, w, Applied(w, c, n))]
                      /\ intent' = [intent EXCEPT ![j] = Asked(c, @)]
                      /\ wanted' = [wanted EXCEPT ![j] = Owed(row[j], c, @)]
        /\ UNCHANGED <<now, jobs, runs, tracked, passes, manual, failed, back, others>>

AddJob(e, j) ==
    /\ edit[e].pc = "idle" /\ "add" \in Uses[j] /\ intent[j] = "absent"
    /\ edit' = [edit EXCEPT ![e] = NoEdit]
    /\ jobs' = jobs \union {j} /\ row' = [row EXCEPT ![j] = NewRow(j, now)]
    /\ intent' = [intent EXCEPT ![j] = "on"]
    /\ UNCHANGED <<now, runs, tracked, passes, manual, failed, wanted, back, others>>

DeleteJob(e, j) ==
    /\ edit[e].pc = "idle" /\ j \in jobs /\ "delete" \in Uses[j]
    /\ edit' = [edit EXCEPT ![e] = NoEdit]
    /\ jobs' = jobs \ {j}
    /\ intent' = [intent EXCEPT ![j] = "deleted"] /\ wanted' = [wanted EXCEPT ![j] = 0]
    /\ UNCHANGED <<now, row, runs, tracked, passes, manual, failed, back, others>>

-------------------------------------------------------------------------------
(* The end of the engine and of the process. *)

\* A task cancelled before its first step, and a reservation whose caller is
\* cancelled before it resumes, end without any cleanup.
Stop ==
    LET unstarted == {r \in Run : by[r] = Timer /\ phase[r] \in {"granted", "created"}}
        cancelled == {r \in Run : /\ IsLive(r) /\ r \notin unstarted
                                  /\ by[r] \in Manual \/ \E j \in Job : tracked[j] = r}
    IN  /\ engine \in {"idle", "ticking"} /\ restarts < MaxRestart
        /\ engine' = "stopped" /\ todo' = {} /\ at' = 0
        /\ phase' = [r \in Run |-> IF r \in unstarted THEN "free"
                                   ELSE IF r \in cancelled THEN "releasing" ELSE phase[r]]
        /\ of' = [r \in Run |-> IF r \in unstarted THEN None ELSE of[r]]
        /\ by' = [r \in Run |-> IF r \in unstarted THEN None ELSE by[r]]
        /\ outcome' = [r \in Run |-> IF r \in cancelled THEN "none" ELSE outcome[r]]
        /\ read' = [r \in Run |-> IF r \in cancelled THEN NoRow ELSE read[r]]
        /\ tracked' = [j \in Job |-> None]
        /\ manual' = [m \in Manual |-> IF manual[m] = "asked" THEN "done" ELSE manual[m]]
        /\ asked' = [m \in Manual |-> 0]
        /\ failed' = failed \union unstarted
        /\ UNCHANGED <<now, jobs, row, seen, aside, edit, intent, wanted, back, restarts,
                       faults>>

\* The process ends, in order or not, and another one opens the same database.
Restart ==
    /\ restarts < MaxRestart
    /\ restarts' = restarts + 1
    /\ phase' = [r \in Run |-> "free"] /\ of' = [r \in Run |-> None]
    /\ by' = [r \in Run |-> None] /\ outcome' = [r \in Run |-> "none"]
    /\ read' = [r \in Run |-> NoRow]
    /\ tracked' = [j \in Job |-> None]
    /\ engine' = "fresh" /\ todo' = {} /\ aside' = {} /\ at' = 0
    /\ seen' = [j \in Job |-> NoRow]
    /\ manual' = [m \in Manual |-> IF manual[m] = "idle" THEN "idle" ELSE "done"]
    /\ asked' = [m \in Manual |-> 0]
    /\ edit' = [e \in Editor |-> IF edit[e].pc = "idle" THEN Idle ELSE NoEdit]
    /\ failed' = {}
    /\ UNCHANGED <<now, jobs, row, intent, wanted, back, faults>>

-------------------------------------------------------------------------------

PassStep ==
    \/ Collect \/ TickLaunch \/ CollectMissed \/ CatchupLaunch \/ Started
    \/ \E j \in Job : Recover(j) \/ CatchupReserve(j) \/ FastForward(j) \/ TickReserve(j)

RunStep(r) ==
    \/ StartRun(r) \/ HandlerEnds(r) \/ Finalize(r) \/ Notify(r) \/ Release(r)

Next ==
    \/ Start \/ Stop \/ Restart \/ Tick
    \/ PassStep
    \/ \E r \in Run : RunStep(r) \/ WriteFails(r) \/ CallerLeaves(r)
    \/ \E m \in Manual : RunJobNow(m) \/ ManualGivesUp(m) \/ \E j \in Job : ManualReserve(m, j)
    \/ \E e \in Editor : EditWrite(e) \/ \E j \in Job :
         AddJob(e, j) \/ DeleteJob(e, j) \/ \E c \in Command : EditRead(e, j, c)

Spec == Init /\ [][Next]_vars

\* The event loop does not rest while a pass or a run can go on, and a handler is under
\* a timeout.
Fairness == WF_vars(PassStep \/ \E r \in Run : RunStep(r))

FairSpec == Spec /\ Fairness

-------------------------------------------------------------------------------

\* A job never runs twice at a time: neither a pause and a resume during its run, nor
\* a start of the timer beside a manual run, nor a stale write admits a second handler
\* (test_stale_engine_edit_does_not_admit_a_second_handler).
OneExecution ==
    \A r, q \in Run : phase[r] = "executing" /\ phase[q] = "executing" /\ of[r] = of[q]
                        => r = q

\* Once the start has recovered the table, a reserved row has a run that will give it
\* back, unless the very write that does so has failed (startup_catchup, _run_single).
ReservationOwned ==
    engine \in {"catching", "forwarding", "idle", "ticking"} =>
        \A j \in jobs : row[j].token # None =>
            \/ IsLive(row[j].token) /\ of[row[j].token] = j
            \/ row[j].token \in failed

\* What the user stopped stays stopped and what was deleted stays deleted, whatever
\* result, release, recovery or fast-forward was under way (finalize_reserved_job).
UserStops ==
    \A j \in Job : /\ intent[j] = "off" /\ j \in jobs => row[j].status = "paused"
                   /\ intent[j] = "deleted" => j \notin jobs

\* A one-shot that the user moved to a new time keeps that occurrence: the result of
\* the run of the old time neither consumes nor fails it, and no edit or fast-forward
\* computed from an earlier row undoes it (is_rescheduled_one_shot,
\* update_configuration).  Not so for a job whose updated_at was moved back.
ReplacementKept ==
    \A j \in Job \ back : wanted[j] # 0 =>
        /\ j \in jobs /\ row[j].kind = "at" /\ row[j].next = wanted[j]
        /\ intent[j] = "on" => row[j].status \in {"pending", "running"}

\* The columns an edit is computed from, the status apart.
Config(w) == <<w.kind, w.next, w.backoff, w.errs>>

\* When the fence of a pending edit or fast-forward matches, the row is configured as it
\* was read, whatever was edited, run or recovered meanwhile (update_configuration).  A
\* reservation writes the time it was asked at, which may move updated_at back: the next
\* edits use the same values again.
FenceTells ==
    \A j \in Job \ back :
        /\ \A e \in Editor : edit[e].pc = "editing" /\ edit[e].job = j /\ Unedited(j, edit[e].row)
                                => Config(row[j]) = Config(edit[e].row)
        /\ engine = "forwarding" /\ j \in todo /\ Unedited(j, seen[j])
             => Config(row[j]) = Config(seen[j])

\* Edits of one job never share the fence, also under a clock that stands still
\* (SchedulerOps._edit says so; it does not hold).
EditsDiffer ==
    \A e \in Editor : edit[e].pc = "editing" /\ Unedited(edit[e].job, edit[e].row)
                         => Config(row[edit[e].job]) = Config(edit[e].row)

\* No burst: the handlers started by the timer stay within the limit of the pass that
\* started them (_tick, startup_catchup).
RunnersBounded ==
    Cardinality({r \in Run : by[r] = Timer /\ phase[r] = "executing"})
      <= Later(MaxConcurrent, MaxCatchup)

\* A live run loses its reservation only by its own last write: no recovery, release of
\* an older run or edit takes it away (release_reservation, recover_reservation).
OwnerKeepsReservation ==
    [][\A j \in Job : LET r == row[j].token IN
         j \in jobs /\ r # None /\ IsLive(r) /\ of[r] = j /\ row'[j].token # r =>
             phase[r] \in {"writing", "releasing"} /\ phase'[r] # phase[r]]_vars

Up == engine \in {"idle", "ticking"}
Ready(j) == Due(j, now) /\ row[j].token = None /\ row[j].last # now

\* While the engine is up, a due job is run sooner or later: slots come free and no
\* pass forgets it (_tick, _running).
DueJobRuns == \A j \in Job : (Up /\ Ready(j)) ~> (~Up \/ ~Ready(j))
================================================================================
