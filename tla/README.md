# TLA+ models of the OpenSquilla gateway

OpenSquilla is an agent gateway: channels, web clients, the scheduler and other
agents submit *turns* to sessions, and the gateway runs each turn as an asyncio
task that calls models and tools. This directory holds TLA+ modules that model
the part of it that decides which turn runs when and what becomes of it, and two
of the places turns come from, the job scheduler and the chat channels; TLC
configurations that check them on small instances; and TLAPS proofs for every
value of the constants.

All paths below are relative to `src/opensquilla/` in the repository unless they
start with `docs/`; line numbers of single definitions are in `PROJECT.json`.

## The system

| Component | State | Operations | What must hold |
|---|---|---|---|
| Turn runtime, `gateway/task_runtime.py` | `_tasks`, `_pending_by_session`, `_running_by_session`, `_session_execution_locks`, reservations, `_resident_count`, `_terminal_pending_updates`, `_closing` | reserve, commit, activate, abort, `_execute`, cancel, evict, settle, retry, auxiliary work, shutdown | each turn is admitted within the limits, runs alone in its lane, ends once, and its outcome is durable |
| Compute slots, same file | `_global_in_flight`, `_agent_session_rr`, `_agent_slot_waiters`, two conditions | `_acquire_fair_slot`, `_wait_for_subagent_slot`, `_suspend_compute_slot`, `_release_slot` | at most `max_concurrency` turns compute, subagents leave a reserve, the last slot starves nobody, no wake-up is lost |
| Steering, same file, `application/turn_steering.py` | the provider of each task, the dispositions and receipts in storage, `steer_claim`, the admission gate | `admit_steer`, claim, apply, record, recall, promote, recover | an accepted message is answered once, or recalled by its user, or refused visibly |
| Session storage, `session/storage.py`, `session/manager.py` | SQLite rows | transactions | used by the three above; the transactions of tasks and steers are modelled with them |
| Approval queue, `application/approval_queue.py` | pending approvals, claims | request, wait, claim, finalize, expire, consume | an approval is used once and fails closed |
| Acceptance and pending inputs, `application/turn_acceptance.py`, `application/pending_input_queue.py`, `application/turn_cancellation.py` | receipts, queued inputs | accept, replay, reorder, promote, cancel | a repeated request is one turn |
| Goal service, `gateway/goal_service.py` | goals, permits, deferred continuations | create, edit, pause, continue | at most one continuation of a goal at a time |
| Transport, `gateway/websocket.py`, `transport_flow.py`, `session_streams.py` | send windows, replay rings | send, ack, resume | events arrive in order, with no silent gap |
| Channels, `gateway/channel_dispatch.py`, `channels/manager.py`, `channels/delivery_store.py`, `channels/storage_worker.py` | the journal of incoming events and the transport lease in SQLite; the adapter's queue, the markers of memory-only and recovered events, retained settlements | acquire, renew, lose and release the lease, recover, accept, claim, complete, fail | an accepted event reaches a turn, a completed one never does again, also across crashes, storage faults and a second gateway |
| Scheduler, `scheduler/` | the table of jobs with their reservations, `_running`, the progress of the start and of the timer's pass | reserve, run, finalize, release, recover, fast-forward; `run_job_now`; add, pause, resume, update, delete | a job runs once at a time, a reservation is given back by its owner only, the user's edits win, a due job is run |
| Agent loop, `engine/` | history, tool calls, compaction | the handler of a turn | a step of the turn runtime here |
| Providers, memory, skills, MCP, sandbox, runtime packs, recovery tooling, CLI, TUI, web UI, desktop | various | mostly I/O | not modelled |

The parts meet in `TaskRuntime`: everything that wants a turn goes through
`enqueue` or an accepted reservation; the handler of a turn is the agent loop; the
handler raises approvals and takes steers; a settlement writes storage, publishes
events, promotes steers into a new turn and wakes the lanes.

The gateway is one asyncio loop. A coroutine runs until an `await` that blocks,
and a block under `_state_lock` contains none, so such a block is one action of
the models and every blocking `await` separates two. What makes this code hard is
what happens between them: cancellations delivered in any `await` (also in the
handlers of an earlier exception), several coroutines that want to settle one
turn, values read before an `await` and used after it, locks of three kinds taken
in different orders, writes that fail, and a process that dies in between.

## Modules

`TaskRuntime` — the life of turns. One `Task` is one `_RuntimeTask`.

| Model | Code |
|---|---|
| `resv`, `victim` | `TaskReservation`: held, durable (row committed), activated, aborted; its `overflow_victim` |
| `registered`, `pending`, `running`, `order` | `_tasks`, `_pending_by_session`, `_running_by_session`, the order of the pending lists |
| `lane` | holder of the session's execution lock (a task or auxiliary work) |
| `status`, `row` | status in memory and in the durable row |
| `driver`, `interrupted` | the place of `_execute` among its awaits; an undelivered `asyncio` cancellation |
| `cancelled`, `source`, `intent` | `cancel_requested`, `cancel_source`, the canceller at work |
| `settle`, `owner`, `retry`, `holds` | progress of `_mark_terminal_claimed`, `was_running_owner`, `_terminal_pending_updates`, `_terminal_resident_holds` |
| `resident`, `aux`, `approvals` | `_resident_count`, auxiliary work per session, pending approvals |
| `drain`, `sweep`, `swept` | progress of `shutdown` |

Its actions follow the file: `Reserve`, `CommitRow`, `AbortReservation`,
`Activate`; `StartDriver` … `DriverExits` for `_execute`; `RequestCancel`, `Signal`
for `_cancel_runtime_tasks_impl`; `ClaimSettlement` … `FinishSettlement`,
`RetryPersists` for the settlement; `CloseAdmission` … `ShutdownReturns`;
`AdmitAuxiliary` … `EndAuxiliary`. `status` has no `timeout`: it is treated like
`failed` at every place the module models. A task whose status write or handler
may fail, or that may be stopped, is named by a constant (`Raising`, `Unsaved`,
`Stoppable`, …), which bounds the environment of the small instances; the proofs
hold for any such sets.

`FairSlots` — who gets a compute slot. A client is a session, since the lane lets
one of its turns ask at a time. `SlotPool` is what the gate promises and nothing
of how: `FairSlots` implements it (`ImplementsPool`, refinement `holders <-
acquired`). `TaskRuntime` grants slots at any time, so it covers every choice that
`FairSlots` makes.

`Steering` — input attached to a running turn of one session, with the dispositions
in storage, the `steer_claim` of each turn, the admission gate, stops by the user
(`cancel`, `cancel_exact`), interrupting messages, restart and startup recovery.
Turn 1 runs at first; higher turns are follow-ups made by promotion. A session stop marks a
batch of turns one by one, and signals all of them at the end, those included that an
interrupting message has taken over meanwhile; each write of its intent may fail and is
then only logged, so `StoppedInputsNotRun` is about the stops that became durable. A
follow-up whose activation fails keeps its queued row, and the next start resumes it.

`Scheduler` — jobs with their reservations. A `Run` is a reservation token with the
coroutine that holds it; a token is used again only when nothing refers to it, as a
new uuid would not.

| Model | Code |
|---|---|
| `jobs`, `row` | `scheduler_jobs`: the columns that decide; `token`, `owner`, `sched` are `reservation_token`, `reserved_by`, `scheduled_run_at` |
| `phase`, `of`, `by`, `outcome`, `read` | `_run_single` or the task of `run_job_now`: its place, its job, its owner, its result, the row the finalizer has read |
| `tracked`, `engine`, `todo`, `at`, `seen`, `aside` | `_running`; `startup_catchup` and `_tick`: what is left of the pass, its `now`, the rows it has read, the jobs set aside |
| `manual`, `asked`, `edit` | each call of `run_job_now` and the time it took when it was made, each call of `_edit` and of delete |
| `failed`, `intent`, `wanted`, `back` | history that the properties need: reservations ended by a failed write, the user's last word on a job, the new time of a one-shot, the jobs whose `updated_at` a reservation has moved back |

Its actions: `Start`, `Recover`, `CollectMissed`, `CatchupReserve`, `CatchupLaunch`,
`FastForward`, `Started` for `startup_catchup`; `Collect`, `TickReserve`, `TickLaunch`
for the timer loop; `StartRun` … `Release`, `WriteFails` for a run; `RunJobNow`,
`ManualReserve`, `ManualGivesUp`, `CallerLeaves`; `EditRead` and `EditWrite`, which is
`update_configuration` with its fence and the columns it has changed (`Edited`), `AddJob`, `DeleteJob`; `Stop` and `Restart`.
Time is a few instants, `updated_at` included: two writes in the same instant can carry
the same time, as they can with a coarse or a frozen clock.

`ChannelIngress` — one channel of one state directory, with several gateway processes.

| Model | Code |
|---|---|
| `state`, `claim`, `attempts` | `channel_ingress`; a claim token is the number of the attempt, 0 for NULL |
| `lease`, `phase`, `token` | `channel_transport_leases` and where `ChannelManager` stands with the channel |
| `todo`, `queue`, `seen` | recovered events to requeue, the adapter's queue, its own memory of ids (`Remembers`) |
| `permits`, `unjournaled`, `passed` | `_recovered_pending_visibility`, `_unjournaled_events`, `_claimed_unjournaled_events` |
| `disp`, `late` | the dispatcher of `run_channel_dispatch`; operations that `storage_worker` carries out although their caller was cancelled |
| `forwarded`, `orphaned` | history: memory-only events dealt with, events left by a failure to the next start |

A start that fails leaves the store accepting until the adapter has been stopped (phase
`failed`), so an event may still come in and is left to the next start. A retained
operation that raises is only logged.
A turn is accepted, refused, or raises: `Handle`, `RefuseTurn`, `Escapes`. Ids of events
are native; the adapter is stopped and the dispatcher cancelled by `Stop`.

`MCTaskRuntime`, `MCFairSlots`, `MCSteering`, `MCScheduler` and `MCChannelIngress`
instantiate them for TLC; `TaskRuntimeProofs`, `FairSlotsProofs`, `SteeringProofs`,
`SchedulerProofs` with `SchedulerLimitProofs` and `SchedulerFenceProofs`, and
`ChannelIngressProofs` hold the theorems.

Definitions whose comment begins with "Mutant" are plausible mistakes in the
definition that follows; nothing uses them. Substituted for it, each makes the
property it is listed with in `PROJECT.json` fail, which shows that the property
depends on that code.

## Runs

| Run | Instance | What it shows |
|---|---|---|
| `MCTaskRuntime.cfg` | three turns of one session, pending limit 1, `drop_oldest`, a stop, an exception, a failing write, steers to record | types, `ResidentExact`, `PendingBounded`, `TerminalOutcomeKept`, `NoneEndedWhileRunning`, `OutcomeStable` |
| `MCTaskRuntime_live.cfg` | two turns, one an interrupt, auxiliary work, an approval, a stop, an exception, a failing write | `RunningEntryExact`, `EveryTurnEnds` |
| `MCTaskRuntime_shutdown.cfg` | two turns, a failing write, shutdown at any time with its deadlines | `SweptTurnsDurable`, `EveryTurnEnds` |
| `MCTaskRuntime_unsettled.cfg` | a turn that raises with a steer to record, and a stop | violates `NoUnsettledTurn` |
| `MCFairSlots.cfg` | four sessions of two agents, one a subagent, two slots, one reserved; and another gate, of three sessions of one agent and one slot | types, `SlotsExact`, `NoLostWakeup`, `WaitersEnrolled`, `ImplementsPool`; `LastSlotServed` of the second gate |
| `MCSteering.cfg` | two steers, an exact stop, an interrupting message, failing writes, refusals, a deferred recovery, a restart | types and the six safety properties |
| `MCSteering_live.cfg` | one steer, a session stop, an interrupt, a restart | `NoInputStranded`, `StopFinishes` |
| `MCSteering_deadlock.cfg` | one steer and an exact stop | violates `StopFinishes` |
| `MCSteering_restart.cfg` | one steer, a stop, a restart | violates `StopSurvivesRestart` |
| `MCScheduler.cfg` | two jobs (one a one-shot that may be added later), three tokens, a manual run, two edits, a restart, a failing write, in five shares | types, `OneExecution`, `ReservationOwned`, `UserStops`, `ReplacementKept`, `FenceTells`, `RunnersBounded`, `OwnerKeepsReservation`, `DueJobRuns` |
| `MCScheduler_fence.cfg` | one job, two edits, a manual run | violates `EditsDiffer` |
| `MCChannelIngress.cfg` | two gateways, two events, up to three starts, an expiry, redeliveries, two storage faults, in five shares | types, `ForwardedOnce`, `NothingForgotten`, `CompletedIsFinal`, `LeaseKept`, `EventCompletes` |

Why these bounds: with a pending limit of one, three tasks are a victim, the turn that
evicts it and a third that arrives while the victim is still being settled (the admission
gate keeps it out, for `activate` returns only then; without that the limit is exceeded),
or a running turn, a victim and an arrival; two are a turn and the one that interrupts it;
what an interrupt may add beyond the limit is left to the proof. Sessions share only the resident counter,
and a second one adds no interaction that a lane, a reservation and auxiliary work
of the same session do not have. Four sessions in two agents give a rotation of
length two beside a subagent that must yield. Two steers can be in different places
of the provider at once; three turns are a turn, its follow-up, and the follow-up
of a recovery that competes with it (`Deferred`); the second restart meets nothing the first
did not. `MaxTurn`, `MaxInterrupt` and `MaxCrash` are bounds of the model, not of
the code.

The initial states of `Scheduler` and `ChannelIngress` hold any part of the bounds, so one
run covers several ways to spend them, listed in the MC modules, where all of them at once
would be out of reach. For the scheduler: two edits of one job (an edit that races with an
edit, a run and its finalizer), a manual run with an edit and a failing write, all of it
with a restart, and two jobs that compete for the one slot across a restart. Two instants
of the clock are before and after a due time; three tokens are two runs of a job and one
that a crash has left. For the channel: two faults of the journal with redelivery; a
restart after a fault; three starts, so that a retained settlement can meet two later
claims; a lease that expires under a live gateway while the other takes over.

The runs of `TaskRuntime` and `Steering` allow deadlock in TLC's sense
because there are finitely many tasks and inputs and the system may come to rest.

### Fairness

* Every ready coroutine is run (`asyncio` schedules FIFO): weak fairness of the
  steps a driver, a settlement, a signal or an activation takes on its own.
* The claims of a task, the admission gate and the lane are `asyncio.Lock`s, which
  serve waiters in order: strong fairness where a step waits for a lock that others
  take and release again and again.
* A handler ends, because a turn has a hard deadline; approvals are answered,
  because their wait has a timeout.
* The event loop does not rest while a pass or a run of the scheduler can go on (weak
  fairness of all of these steps together, the weakest that is enough), and a handler is
  under a timeout.
* The start, the dispatcher and the storage worker of a live gateway make progress; a
  crash, a loss of the lease or a refusal may come at any time, and `EventCompletes`
  names them.
* Nothing is assumed of storage, of callers, or of the end of a shutdown.

`LastSlotServed` is `WaiterServed` with one slot, for which `MCFairSlots` instantiates the
module twice and lets one gate move at a time. With two or more idle slots any waiter
may be granted, and the rotation moves past it, which moves the sessions that were
ahead of it to the back: the promise in the code is about the last slot.

### Where code and comments disagree

Four runs end in a violation, each of a statement in the source:

* `_complete_terminal_settlement` is to "finish accepted-input settlement even if
  the task is cancelled again" (`gateway/task_runtime.py:222`), but the exception
  handlers of `_execute` first record steers in awaits that are not shielded. A
  second cancellation there leaves the turn in `_tasks`, running for ever
  (`NoUnsettledTurn`). `EveryTurnEnds` is therefore checked in instances with no
  steer to record, `AcceptanceClosed` and `NoInputStranded` name the exception.
* An accepted stop is to finish (`:3779`), but `cancel_exact` holds the admission
  gate while it waits for a `steer_claim`, and a settlement that promotes steers
  holds that claim while it waits for the gate.
* The user's stop is persisted "for startup recovery" (`:3857`), but the recovery
  of follow-ups that never started does not look at it, and runs them.
* "Frozen or backwards clocks must not make distinct edits share that fence"
  (`scheduler/ops.py:317`), so an edit, a release and a recovery only move `updated_at`
  forward; but a reservation sets it to its own time (`scheduler/persistence.py:937`).
  An edit, a reservation and its release can leave the fence of another edit as it was
  read, and that one overwrites a configuration it was not computed from (`EditsDiffer`).
  `FenceTells` and `ReplacementKept` exempt the jobs this happened to, by `back`.

Smaller ones, seen while modelling and left to the comments of the modules: the
lane is free before a cancelled or failed turn is settled, although the final block
of the settlement speaks of keeping it occupied (`:7636`), so a settlement can expire
the approval of its successor; undrained steers are not promoted when the first
terminal write fails; a promoted input can be rewritten as rejected when a settlement
is refused after a deferred recovery promoted it; a turn activated after the shutdown
has frozen its list is cancelled but not waited for, and the quiescence that shutdown
waits for counts drivers, not a canceller that is still settling a task.

In the scheduler: a one-shot that failed for want of a handler has no `next_run_at`, and
resuming it clears every flag the due-job query filters on but that one (`ops.py:451`);
a manual run of it while it is rescheduled deletes the new occurrence, since
`is_rescheduled_one_shot` has no old time to compare with (`Owed` exempts it); a write of
a run that raises, or a cancellation before its first step, leaves the job reserved until
the next start, which `ReservationOwned` names as its exception; a job that is paused
between its reservation and its launch still runs once from the old snapshot; a catch-up
may start more handlers than `max_concurrent_runs`, hence the bound of `RunnersBounded`;
`reserve_due_job` writes the time of its pass as `updated_at`, or the time `run_job_now`
took before it waited for the store, which may be older than an edit it follows, whatever
the clock does.

In the channels: adapters that drop repeated ids in `enqueue` (`Remembers`) also drop the
events that recovery requeues when the channel is restarted in the same process, and the
row waits for the next process; an event taken in memory whose turn fails is lost, and its
redelivery is suppressed; an exception between claim and settlement leaves the row
`processing` until the next start; a gateway that is still recovering when it loses the
lease resets the other's claims, which the claim tokens fence.

## Proofs

`TaskRuntimeProofs` proves, for any finite sets of tasks and sessions, any limits
and any of the environment sets:

1. `Ledger` (which tasks are in `_tasks`, and how reservation, settlement and resident
   holds exclude each other), `ResidentExact` and `TypeOK` are inductive together:
   the counter is a natural number only because it is exact, and it stays exact
   because each step that moves a task between the four counted sets finds it where
   `Ledger` says. This gives `TypeCorrect` and `ResidentCounterExact`.
2. `Lanes` (a driver between lane and exit holds the lock) with `RunningEntryExact`
   gives `RunningEntryIsExact`: a predecessor that pops the entry finds another name.
3. `Outcomes` (a settlement excludes `_mark_running`; a terminal row is the decided
   status; an unwritten one is owed) with `TerminalOutcomeKept` gives `OutcomeIsKept`
   and, as a statement about steps, `OutcomeIsStable`. Steps outside a settlement are
   dealt with once, by `OutsideSteps`.
4. `Stand` (who is to settle a turn in the place of its driver has told it to stop before
   it was running, so its driver never gets past `_mark_running`) with
   `NoneEndedWhileRunning` gives `RunningTurnsAreNotEnded`. Each of the steps that could
   end a turn under its handler, an eviction decided in `reserve`, a canceller, a second
   claim, has a lemma; the sweep is the exception the code makes, and it too finds no turn
   between its permit and its RUNNING write.
5. `Sweep` (a claimed settlement has a terminal status; what the sweep has passed is
   settled) gives `SweptTurnsAreDurable`.
6. `Room` counts, per session, the queued turns that are neither a reserved victim nor
   evicted, and the reservations. With `Victims` (a victim is of its session; an evicted
   one has been told to stop) it is inductive: an arrival takes a free place, the place of
   its victim, or one beyond the limit, an abort gives the victim its place back, and the
   gate is free only when those evicted have left the queue. It gives `PendingIsBounded`.

`FairSlotsProofs` proves all five properties of `MCFairSlots.cfg` for any sessions,
agents, `MaxConcurrency > 0` and `Reserved < MaxConcurrency` (which `__init__`
clamps): `Counter` makes the slot counter exact, `Places` says in which set a
session at each place may be, and on them rest `NoWakeupIsLost`,
`WaitersAreEnrolled` and the step simulation behind `GateImplementsPool`. Its
lemmas say what rotation and removal do to a sequence.

`SchedulerProofs` proves, for any jobs, tokens, manual calls, editors and limits:

1. `TypeCorrect`: every edit, result, release and recovery leaves a row in the row's
   place. `Decided` (a run that writes has an outcome) is needed for the result.
2. `Safety` is inductive: `Tokens` (until a live run reads the row again, the row of its
   job names it, and once it has written, the row does not), `Single` (so each job has one
   run that may still start a handler), `EarlyRuns`, `Callers` and `Owners` (before the
   recovery is over only manual runs live, and a row, or a snapshot of it, that names one
   that is at work names its run as well; so the recovery does not take it for stale).
   Most steps are instances of `GoesOn`: no run begins or ends, and a row keeps its
   reservation or gives it up by the last write of its run. This gives `NeverTwice`
   and, as a statement about steps, `ReservationsKept`.
3. `Reservations` (the recovery has dealt with a job or still has its reservation in the
   snapshot) gives `NoneLeftReserved`.
4. `Snapshots` (the row a finalizer has read is the row, or an older one: every write of a
   row under a reservation comes with a later `updated_at`) gives `StoppedStays`: the
   fence on `updated_at` is what keeps a result from undoing a pause.

`SchedulerLimitProofs` proves `NoBurst`. The bound is on the handlers that execute, but
what `_tick` counts, once per pass, are the live entries of `_running`, so the invariant has
two parts: `Tracked` (a timer's run whose handler may still start is the entry of its job
once it has a task, and has none only during a pass) and `Crowd` (these runs and the jobs
the pass has still to reserve are together within the limit). A reservation moves a job
from the second set to the first, and what a pass admits fits into the slots it found.

`SchedulerFenceProofs` lists the seven kinds of writes a row can receive (`Writes`) and
draws from it:

1. `GoOnward`: each moves `updated_at` or `run_count` forward, or leaves the configuration
   alone, unless a reservation moves `updated_at` back. So `Copies` is inductive: the row
   an edit or a fast-forward has read is not newer than the row, and configured like it
   when both show the same `updated_at` and `run_count`. This gives `FenceHolds`.
2. `Promises`: the occurrence owed is the next one, and a run in progress is of another
   one. A result leaves it alone because `is_rescheduled_one_shot` sees that; a
   fast-forward because its copy, and so the row, would be of a recurring job; an edit
   because it writes its changes over what it has read. This gives `ReplacementStays`.

`SteeringProofs` proves, for any turns, inputs, stops and bounds, whatever step fails:

1. `Safe` is inductive. Its first parts are types; `GateHeld` (a turn that admits its
   follow-up holds the input gate, and at most one turn is reserved); `Life` (what a
   turn's place says of its exit, row and remembered inputs); `Claims` (an admission that
   writes has the claim of a turn no stop was written for, a settlement keeps its own
   claim to the end, a stop that writes its intent holds all of its fence); `Marked` (so
   no turn of that fence settles before it is signalled); `Places` (where an input is
   says what its disposition, owner and turn are). It gives `TypeCorrect` and
   `AcceptanceIsClosed`.
2. `Batches`, `Promotions` and `Followups`, with the facts about pairs of states
   `HandedForGood` and `EndedForGood`, give `NoEmptyFollowup`, `PromotionIsFinal` and
   `StoppedStaysStopped`.
3. `Answers` (only the target and the owner of an input see it, and what a turn took is
   recorded as applied, or remembered until its row proves it) gives `OneAnswer`.
4. `ExactStops` gives `ExactStopHolds`.

`ChannelIngressProofs` proves, for any number of gateways, any events and bounds:

1. `Claimed` (a row in progress has a claim), with one lemma on how a row may move,
   gives `CompletedStays`.
2. `TaskMoves` and `Memory` (what a gateway remembers of an event it has handed over)
   give `HandledOnce`.
3. `Accounted` (a journaled event that was not left behind is reached by a permit, by a
   copy besides the one that spends a marker, or is held under its claim) needs `Tokens`
   (a late settlement whose token is still the claim belongs to an event left behind) and
   gives `NoneForgotten`.
4. `Leases` (tokens only grow, and no late cleanup carries the token of a gateway that
   has started) gives `LeaseIsKept`.

The assumptions are the named `ASSUME`s of the modules, which TLC evaluates in every
run. Every invariant and action property of the passing runs is proved. Only
model-checked: liveness (`EveryTurnEnds`, `LastSlotServed`, `NoInputStranded`,
`StopFinishes`, `DueJobRuns`, `EventCompletes`), which is out of the prover's reach.

## Not modelled

In the turn runtime: merging a message into a queued turn (`try_collect_atomically`),
the desktop quit, `quiesce_sessions`, `bypass_pending_limit`, plan and Goal hooks, subagent notifications,
heartbeats, and a retry that retires a row which no longer exists. In steering:
goal-objective updates, a session replaced while a steer waits, more than one session.
In the scheduler: the delivery of results, the reaper, the heartbeat loop, idempotent
creation, pruning, patches that combine edits, and a second start in one process. In the
channels: the outbox and sends, pairing, the acceptance receipts of turns (with the
journal's key they are the same check twice), debouncing, worker lanes and their capacity,
the eviction of markers, events without a native id.
The other components are those of the first table, with the reasons in `PROJECT.json`.

## Plan

1. Done: the turn runtime, the slots, steering, the scheduler, the intake of a channel,
   and proofs about all five.
2. `ApprovalQueue`: claims, reopening and consumption of an approval with the
   settlement that expires it; an approval is consumed at most once.
3. The outbox of a channel, and its composition with `ChannelIngress`.
4. Merging into queued turns in `TaskRuntime` (`collect_claim` against
   `_mark_running`), then the transport's window and replay, goals and their permits.
