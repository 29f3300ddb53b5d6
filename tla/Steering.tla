------------------------------- MODULE Steering -------------------------------
(***************************************************************************)
(* Steering: user input attached to a turn that is already running, in one   *)
(* session (admit_steer, the _SteerPendingInputProvider, _cancel_runtime_    *)
(* tasks_impl, cancel_exact, _promote_undrained_steers and the startup       *)
(* recovery of gateway/task_runtime.py, with the transactions of             *)
(* session/storage.py they rely on).                                         *)
(*                                                                           *)
(* An accepted steer is durable at once, with the disposition "steering".    *)
(* The turn takes it into a provider call (applied); or the turn is stopped  *)
(* by its user (cancelled); or the turn ends first and hands it over to a    *)
(* follow-up turn (promoted), unless that is refused (rejected).  Three kinds *)
(* of lock are involved: the session's admission gate, each turn's           *)
(* steer_claim, and the session lane.                                        *)
(***************************************************************************)
EXTENDS Naturals, FiniteSets

CONSTANTS
    MaxTurn,       \* bound: turn 1 runs at first, the others are its follow-ups
    Input,         \* steers
    Stop,          \* calls of cancel() on behalf of the user
    Exact,         \* those of them that go through cancel_exact
    Flaky,         \* inputs whose disposition write may fail
    Fallible,      \* BOOLEAN: the write of a terminal row or of a stop's intent may fail
    Refusing,      \* BOOLEAN: a follow-up may be refused, or not be activated
    MaxInterrupt,  \* bound: interrupting messages that arrive
    MaxCrash,      \* bound: process restarts
    Deferred,      \* BOOLEAN: the recovery at start still retries inputs it deferred
    Nobody

Turn == 1 .. MaxTurn

ASSUME SteeringAssumption ==
    /\ MaxTurn \in Nat \ {0}
    /\ IsFiniteSet(Input)
    /\ Exact \subseteq Stop
    /\ Flaky \subseteq Input
    /\ Fallible \in BOOLEAN /\ Refusing \in BOOLEAN /\ Deferred \in BOOLEAN
    /\ MaxInterrupt \in Nat /\ MaxCrash \in Nat
    /\ Nobody \notin Turn \union Input \union Stop
    /\ Turn \intersect Input = {} /\ (Turn \union Input) \intersect Stop = {}

VARIABLES
    pc,          \* where each turn stands
    exit,        \* how its handler was left
    row,         \* durable: status of its AgentTask row
    started,     \* durable: turns with a started_at
    userIntent,  \* durable: turns whose row says the user stopped them
    evidence,    \* durable: applied_steer_evidence of a terminal row
    owed,        \* terminal writes that are still retried
    place,       \* where each input is in memory
    target,      \* the turn each input was steered into (target_turn_id)
    disp,        \* durable: disposition of its transcript row
    owner,       \* durable: task_id of its ingress receipt
    seen,        \* history: the turns that took it into a provider call
    cancelled,   \* turns with cancel_requested
    byUser,      \* those whose cancel_source is a user stop
    signalled,   \* turns with an undelivered asyncio cancellation
    gate,        \* holder of collect_admission(session)
    claim,       \* holder of each turn's steer_claim
    stop,        \* progress of each stop
    aim,         \* the task_id an exact stop names
    fence,       \* the turns a stop freezes, then its batch: those it cancels
    interrupts, crashes

turns  == <<pc, exit, owed>>
rows   == <<row, started, userIntent, evidence>>
inputs == <<place, target, disp, owner, seen>>
signals == <<cancelled, byUser, signalled>>
stops  == <<stop, aim, fence>>
counts == <<interrupts, crashes>>
vars == <<turns, rows, inputs, signals, gate, claim, stops, counts>>

EndedRow == {"succeeded", "failed", "cancelled", "abandoned"}
Final == {"applied", "promoted", "cancelled", "rejected"}

TypeOK ==
    /\ pc \in [Turn -> {"absent", "reserved", "durable", "queued", "running", "unwinding",
                        "settling", "closing", "promoting", "accepting", "activating",
                        "finishing", "settled", "lost", "gone"}]
    /\ exit \in [Turn -> {"none", "ok", "error", "user", "system"}]
    /\ owed \subseteq Turn
    /\ row \in [Turn -> {"absent", "queued", "running"} \union EndedRow]
    /\ started \subseteq Turn /\ userIntent \subseteq Turn
    /\ evidence \in [Turn -> SUBSET Input]
    /\ place \in [Input -> {"none", "admitting", "persisting", "pending", "claimed",
                            "applied", "batch", "gone"}]
    /\ target \in [Input -> Turn] /\ owner \in [Input -> Turn]
    /\ disp \in [Input -> {"none", "steering"} \union Final]
    /\ seen \in [Input -> SUBSET Turn]
    /\ cancelled \subseteq Turn /\ byUser \subseteq Turn /\ signalled \subseteq Turn
    /\ gate \in {Nobody} \union Turn \union Stop
    /\ claim \in [Turn -> {Nobody} \union Turn \union Input \union Stop]
    /\ stop \in [Stop -> {"idle", "gate", "fencing", "intent", "done", "lost"}]
    /\ aim \in [Stop -> Turn]
    /\ fence \in [Stop -> SUBSET Turn]
    /\ interrupts \in 0 .. MaxInterrupt /\ crashes \in 0 .. MaxCrash

Init ==
    /\ pc = [t \in Turn |-> IF t = 1 THEN "running" ELSE "absent"]
    /\ exit = [t \in Turn |-> "none"] /\ owed = {}
    /\ row = [t \in Turn |-> IF t = 1 THEN "running" ELSE "absent"]
    /\ started = {1} /\ userIntent = {} /\ evidence = [t \in Turn |-> {}]
    /\ place = [i \in Input |-> "none"] /\ target = [i \in Input |-> 1]
    /\ disp = [i \in Input |-> "none"] /\ owner = [i \in Input |-> 1]
    /\ seen = [i \in Input |-> {}]
    /\ cancelled = {} /\ byUser = {} /\ signalled = {}
    /\ gate = Nobody /\ claim = [t \in Turn |-> Nobody]
    /\ stop = [c \in Stop |-> "idle"] /\ aim = [c \in Stop |-> 1]
    /\ fence = [c \in Stop |-> {}]
    /\ interrupts = 0 /\ crashes = 0

--------------------------------------------------------------------------------

Settling(t) == pc[t] \in {"closing", "promoting", "accepting", "activating", "finishing"}

\* Membership in _tasks; a turn whose driver escaped is never removed.
Registered(t) == \/ pc[t] \in {"queued", "running", "unwinding", "settling", "lost"}
                 \/ Settling(t)

\* The status in memory is QUEUED or RUNNING: only a cancellation sets a terminal one
\* before the settlement does.
Unfinished(t) ==
    \/ pc[t] \in {"queued", "running"}
    \/ pc[t] \in {"unwinding", "settling", "lost"} /\ exit[t] \in {"ok", "error"}

Steerable(t) == Unfinished(t) /\ pc[t] # "queued" /\ t \notin cancelled

In(t, p) == {i \in Input : target[i] = t /\ place[i] = p}
\* Mutants: what a batch claimed is forgotten; what was applied is reclaimed too.
PendingOnly(t) == In(t, "pending")
UndrainedOrApplied(t) == In(t, "pending") \union In(t, "claimed") \union In(t, "applied")

Undrained(t) == In(t, "pending") \union In(t, "claimed")

Move(S, p) == [i \in Input |-> IF i \in S THEN p ELSE place[i]]
Mark(S, d) == [i \in Input |-> IF i \in S THEN d ELSE disp[i]]

\* _record_steer_dispositions: each write of a Flaky input may fail.
Written(S) == {W \in SUBSET S : S \ W \subseteq Flaky}

--------------------------------------------------------------------------------
(* Admission of a steer: admit_steer *)

\* The running turn is looked up before its steer_claim is awaited.
Steer(i) ==
    /\ place[i] = "none"
    /\ \E t \in Turn : Steerable(t) /\ target' = [target EXCEPT ![i] = t]
    /\ place' = [place EXCEPT ![i] = "admitting"]
    /\ UNCHANGED <<turns, rows, disp, owner, seen, signals, gate, claim, stops, counts>>

\* Mutant: it is not examined again.
AdmitUnchecked(i) ==
    LET t == target[i]
    IN  /\ place[i] = "admitting" /\ claim[t] = Nobody
        /\ claim' = [claim EXCEPT ![t] = i]
        /\ place' = [place EXCEPT ![i] = "persisting"]
        /\ UNCHANGED <<turns, rows, target, disp, owner, seen, signals, gate, stops, counts>>

\* With the claim, the turn is examined again.
Admit(i) ==
    LET t == target[i]
    IN  /\ place[i] = "admitting" /\ claim[t] = Nobody
        /\ IF Steerable(t)
           THEN /\ claim' = [claim EXCEPT ![t] = i]
                /\ place' = [place EXCEPT ![i] = "persisting"]
           ELSE /\ place' = [place EXCEPT ![i] = "gone"]
                /\ UNCHANGED claim
        /\ UNCHANGED <<turns, rows, target, disp, owner, seen, signals, gate, stops, counts>>

\* The durable acceptance commits and the input is appended; or it fails.
PersistSteer(i) ==
    /\ place[i] = "persisting"
    /\ claim' = [claim EXCEPT ![target[i]] = Nobody]
    /\ \/ /\ place' = [place EXCEPT ![i] = "pending"]
          /\ disp' = [disp EXCEPT ![i] = "steering"]
          /\ owner' = [owner EXCEPT ![i] = target[i]]
       \/ place' = [place EXCEPT ![i] = "gone"] /\ UNCHANGED <<disp, owner>>
    /\ UNCHANGED <<turns, rows, target, seen, signals, gate, stops, counts>>

--------------------------------------------------------------------------------
(* The running turn *)

Running(t) == pc[t] = "running" /\ t \notin signalled

\* drain_pending, at a safe boundary; one batch at a time.
Drain(t) ==
    /\ Running(t) /\ In(t, "claimed") = {} /\ In(t, "pending") # {}
    /\ In(t, "applied") \subseteq Flaky
    /\ place' = Move(In(t, "pending"), "claimed")
    /\ UNCHANGED <<turns, rows, target, disp, owner, seen, signals, gate, claim, stops, counts>>

\* mark_applied: the provider call that contains the batch has started.
MarkApplied(t) ==
    /\ Running(t) /\ In(t, "claimed") # {}
    /\ place' = Move(In(t, "claimed"), "applied")
    /\ seen' = [i \in Input |-> IF i \in In(t, "claimed") THEN seen[i] \union {t} ELSE seen[i]]
    /\ UNCHANGED <<turns, rows, target, disp, owner, signals, gate, claim, stops, counts>>

\* _record_and_acknowledge: what is written is forgotten, the rest is kept.
RecordApplied(t) ==
    /\ Running(t) /\ In(t, "applied") # {}
    /\ \E W \in Written(In(t, "applied")) :
        place' = Move(W, "gone") /\ disp' = Mark(W, "applied")
    /\ UNCHANGED <<turns, rows, target, owner, seen, signals, gate, claim, stops, counts>>

\* The handler returns (the lane is kept) or raises (the lane is released).
HandlerEnds(t) ==
    /\ Running(t)
    /\ \/ /\ In(t, "applied") \subseteq Flaky
          /\ exit' = [exit EXCEPT ![t] = "ok"]
       \/ exit' = [exit EXCEPT ![t] = "error"]
    /\ pc' = [pc EXCEPT ![t] = "unwinding"]
    /\ UNCHANGED <<owed, rows, inputs, signals, gate, claim, stops, counts>>

Stopped(t) == IF t \in byUser THEN "user" ELSE "system"

\* The exception handler awaits only when it has a disposition to write.
Recording(t) == In(t, "applied") # {} \/ (exit[t] = "user" /\ Undrained(t) # {})

\* The cancellation reaches a driver that waits or works; in the writes of an exception
\* handler it escapes _execute and nobody settles the turn.
DeliverCancellation(t) ==
    /\ t \in signalled
    /\ signalled' = signalled \ {t}
    /\ \/ /\ pc[t] = "queued"
          /\ pc' = [pc EXCEPT ![t] = "settling"]
          /\ exit' = [exit EXCEPT ![t] = Stopped(t)]
       \/ /\ \/ pc[t] = "running"
             \/ pc[t] = "unwinding" /\ exit[t] = "ok"
          /\ pc' = [pc EXCEPT ![t] = "unwinding"]
          /\ exit' = [exit EXCEPT ![t] = Stopped(t)]
       \/ /\ pc[t] = "unwinding" /\ exit[t] # "ok" /\ Recording(t)
          /\ pc' = [pc EXCEPT ![t] = "lost"]
          /\ UNCHANGED exit
    /\ UNCHANGED <<owed, rows, inputs, cancelled, byUser, gate, claim, stops, counts>>

\* _record_drained_steers, and _record_cancelled_steers after a user stop.
RecordAtExit(t) ==
    LET recalled == IF exit[t] = "user" THEN Undrained(t) ELSE {}
    IN  /\ pc[t] = "unwinding" /\ (Recording(t) => t \notin signalled)
        /\ \E W \in Written(In(t, "applied")), C \in Written(recalled) :
            /\ place' = Move(W \union recalled, "gone")
            /\ disp' = [i \in Input |-> IF i \in W THEN "applied"
                                        ELSE IF i \in C THEN "cancelled" ELSE disp[i]]
        /\ pc' = [pc EXCEPT ![t] = "settling"]
        /\ UNCHANGED <<exit, owed, rows, target, owner, seen, signals, gate, claim, stops,
                       counts>>

--------------------------------------------------------------------------------
(* Settlement, which holds the turn's steer_claim throughout *)

Outcome(t) == IF exit[t] = "ok" THEN "succeeded"
              ELSE IF exit[t] = "error" THEN "failed" ELSE "cancelled"

ClaimSettlement(t) ==
    /\ pc[t] = "settling" /\ claim[t] = Nobody
    /\ claim' = [claim EXCEPT ![t] = t]
    /\ pc' = [pc EXCEPT ![t] = "closing"]
    /\ signalled' = signalled \ {t}
    /\ UNCHANGED <<exit, owed, rows, inputs, cancelled, byUser, gate, stops, counts>>

\* Mutant: the way the handler was left, not the status it stands for.
SaveExit(t) ==
    /\ row' = [row EXCEPT ![t] = exit[t]]
    /\ userIntent' = IF exit[t] = "user" THEN userIntent \union {t} ELSE userIntent \ {t}
    /\ evidence' = [evidence EXCEPT ![t] = In(t, "applied")]
    /\ UNCHANGED started

\* The terminal row: its outcome, whether the user stopped it, and what was applied
\* without being recorded.
SaveTerminal(t) ==
    /\ row' = [row EXCEPT ![t] = Outcome(t)]
    /\ userIntent' = IF exit[t] = "user" THEN userIntent \union {t} ELSE userIntent \ {t}
    /\ evidence' = [evidence EXCEPT ![t] = In(t, "applied")]
    /\ UNCHANGED started

\* Only after a successful first write are undrained steers reclaimed for promotion.
PersistTerminal(t) ==
    LET batch == IF exit[t] = "user" THEN {} ELSE Undrained(t)
    IN  /\ pc[t] = "closing"
        /\ SaveTerminal(t)
        /\ place' = Move(batch, "batch")
        /\ pc' = [pc EXCEPT ![t] = IF batch = {} THEN "finishing" ELSE "promoting"]
        /\ UNCHANGED <<exit, owed, target, disp, owner, seen, signals, gate, claim, stops,
                       counts>>

TerminalWriteFails(t) ==
    /\ pc[t] = "closing" /\ Fallible
    /\ owed' = owed \union {t}
    /\ pc' = [pc EXCEPT ![t] = "finishing"]
    /\ UNCHANGED <<exit, rows, inputs, signals, gate, claim, stops, counts>>

\* The compensating write or _retry_terminal_updates; the details were built before.
RetryTerminal(t) ==
    /\ t \in owed
    /\ owed' = owed \ {t}
    /\ SaveTerminal(t)
    /\ UNCHANGED <<pc, exit, inputs, signals, gate, claim, stops, counts>>

\* Mutant: the steer_claim is not given back.
FinishSettlementClaiming(t) ==
    /\ pc[t] = "finishing"
    /\ pc' = [pc EXCEPT ![t] = "settled"]
    /\ place' = Move(Undrained(t), "gone")
    /\ UNCHANGED <<exit, owed, rows, target, disp, owner, seen, signals, gate, claim, stops,
                   counts>>

\* The provider is dropped with its task.
FinishSettlement(t) ==
    /\ pc[t] = "finishing"
    /\ pc' = [pc EXCEPT ![t] = "settled"]
    /\ claim' = [claim EXCEPT ![t] = Nobody]
    /\ place' = Move(Undrained(t), "gone")
    /\ UNCHANGED <<exit, owed, rows, target, disp, owner, seen, signals, gate, stops, counts>>

--------------------------------------------------------------------------------
(* Promotion of undrained steers, under the admission gate *)

Reserved == {u \in Turn : pc[u] \in {"reserved", "durable"}}
Fresh(u) == pc[u] = "absent" /\ \A v \in 1 .. (u - 1) : pc[v] # "absent"

\* reserve: the follow-up gets a task id.
ReserveFollowup(t) ==
    /\ pc[t] = "promoting" /\ gate = Nobody
    /\ gate' = t
    /\ \E u \in Turn : Fresh(u) /\ pc' = [pc EXCEPT ![t] = "accepting", ![u] = "reserved"]
    /\ UNCHANGED <<exit, owed, rows, inputs, signals, claim, stops, counts>>

\* The pending limit or the resident cap refuses it: the batch is written off.
RefuseFollowup(t) ==
    /\ pc[t] = "promoting" /\ gate = Nobody /\ Refusing
    /\ \E W \in Written(In(t, "batch")) : disp' = Mark(W, "rejected")
    /\ place' = Move(In(t, "batch"), "gone")
    /\ pc' = [pc EXCEPT ![t] = "finishing"]
    /\ UNCHANGED <<exit, owed, rows, target, owner, seen, signals, gate, claim, stops, counts>>

\* Mutant: the rows are not looked at.
PromotableAnyway(t, batch) == TRUE

\* promote_stranded_steer_inputs: all rows of the batch that are still steering into t
\* move to u in one transaction, or none does.
Promotable(t, batch) == \A i \in batch : disp[i] = "steering" /\ owner[i] = t

Promote(batch, u) ==
    /\ disp' = Mark(batch, "promoted")
    /\ owner' = [i \in Input |-> IF i \in batch THEN u ELSE owner[i]]
    /\ row' = [row EXCEPT ![u] = "queued"]
    /\ UNCHANGED <<started, userIntent, evidence>>

CommitFollowup(t) ==
    LET batch == In(t, "batch")
    IN  /\ pc[t] = "accepting"
        /\ \E u \in Reserved :
            \/ /\ Promotable(t, batch)
               /\ Promote(batch, u)
               /\ pc' = [pc EXCEPT ![t] = "activating", ![u] = "durable"]
               /\ UNCHANGED <<place, gate>>
            \/ /\ ~Promotable(t, batch)
               /\ pc' = [pc EXCEPT ![t] = "finishing", ![u] = "absent"]
               /\ place' = Move(batch, "gone")
               /\ gate' = Nobody
               /\ UNCHANGED <<disp, owner, rows>>
        /\ UNCHANGED <<exit, owed, target, seen, signals, claim, stops, counts>>

\* activate; when it fails, or the gateway is shutting down, the reservation is aborted
\* and the row stays queued for the next start.
ActivateFollowup(t) ==
    /\ pc[t] = "activating"
    /\ \E u \in Reserved, p \in {"queued", "gone"} :
        /\ p = "gone" => Refusing
        /\ pc' = [pc EXCEPT ![t] = "finishing", ![u] = p]
    /\ place' = Move(In(t, "batch"), "gone")
    /\ gate' = Nobody
    /\ UNCHANGED <<exit, owed, rows, target, disp, owner, seen, signals, claim, stops, counts>>

\* A successful turn keeps the lane through its settlement; every other exit has
\* released it.
HoldsLane(t) ==
    \/ pc[t] = "running"
    \/ exit[t] = "ok" /\ (pc[t] \in {"unwinding", "settling"} \/ Settling(t))

StartFollowup(u) ==
    /\ pc[u] = "queued" /\ u \notin signalled \union cancelled
    /\ \A t \in Turn : ~HoldsLane(t)
    /\ pc' = [pc EXCEPT ![u] = "running"]
    /\ row' = [row EXCEPT ![u] = "running"]
    /\ started' = started \union {u}
    /\ seen' = [i \in Input |-> IF disp[i] = "promoted" /\ owner[i] = u
                                THEN seen[i] \union {u} ELSE seen[i]]
    /\ UNCHANGED <<exit, owed, userIntent, evidence, place, target, disp, owner, signals,
                   gate, claim, stops, counts>>

--------------------------------------------------------------------------------
(* Stopping: cancel freezes the session's tasks; cancel_exact first takes the gate and
   then looks for the one task it names. *)

AskStop(c) ==
    /\ stop[c] = "idle"
    /\ IF c \in Exact
       THEN /\ \E t \in Turn : row[t] # "absent" /\ aim' = [aim EXCEPT ![c] = t]
            /\ stop' = [stop EXCEPT ![c] = "gate"]
            /\ UNCHANGED fence
       ELSE /\ fence' = [fence EXCEPT ![c] = {t \in Turn : Registered(t)}]
            /\ stop' = [stop EXCEPT ![c] = "fencing"]
            /\ UNCHANGED aim
    /\ UNCHANGED <<turns, rows, inputs, signals, gate, claim, counts>>

\* Mutant: the task is looked up without waiting for the gate.
EnterGateEarly(c) ==
    /\ stop[c] = "gate"
    /\ fence' = [fence EXCEPT ![c] = {t \in {aim[c]} : Registered(t)}]
    /\ stop' = [stop EXCEPT ![c] = "fencing"]
    /\ UNCHANGED <<turns, rows, inputs, signals, gate, claim, aim, counts>>

EnterGate(c) ==
    /\ stop[c] = "gate" /\ gate = Nobody
    /\ gate' = c
    /\ fence' = [fence EXCEPT ![c] = {t \in {aim[c]} : Registered(t)}]
    /\ stop' = [stop EXCEPT ![c] = "fencing"]
    /\ UNCHANGED <<turns, rows, inputs, signals, claim, aim, counts>>

Fenced(c) == {t \in fence[c] : claim[t] = c}

\* The steer_claims are entered in the order of the task ids.
FenceTurn(c) ==
    /\ stop[c] = "fencing"
    /\ \E t \in fence[c] \ Fenced(c) :
        /\ \A u \in fence[c] \ Fenced(c) : t <= u
        /\ claim[t] = Nobody
        /\ claim' = [claim EXCEPT ![t] = c]
    /\ UNCHANGED <<turns, rows, inputs, signals, gate, stops, counts>>

\* All are held: what is not finished is marked, and only that stays in the batch.
MarkStop(c) ==
    LET live == {t \in fence[c] : Registered(t) /\ Unfinished(t)}
    IN  /\ stop[c] = "fencing" /\ Fenced(c) = fence[c]
        /\ cancelled' = cancelled \union live
        /\ byUser' = byUser \union live
        /\ fence' = [fence EXCEPT ![c] = live]
        /\ stop' = [stop EXCEPT ![c] = "intent"]
        /\ UNCHANGED <<turns, rows, inputs, signalled, gate, claim, aim, counts>>

\* The source each turn of the batch has by now is written to its row; a write that fails
\* is only logged.  Then the drivers are signalled; one that waits for its settlement does
\* not notice.
SignalStop(c) ==
    LET batch == fence[c]
    IN  /\ stop[c] = "intent"
        /\ \E W \in SUBSET batch :
            /\ W = batch \/ Fallible
            /\ userIntent' = (userIntent \ W) \union (W \intersect byUser)
        /\ signalled' = signalled \union {t \in batch : pc[t] \in {"queued", "running", "unwinding"}}
        /\ claim' = [t \in Turn |-> IF claim[t] = c THEN Nobody ELSE claim[t]]
        /\ gate' = IF gate = c THEN Nobody ELSE gate
        /\ stop' = [stop EXCEPT ![c] = "done"]
        /\ UNCHANGED <<turns, row, started, evidence, inputs, cancelled, byUser, aim, fence,
                       counts>>

\* activate of a steer or interrupt message: no steer_claim, a system source.
Interrupt ==
    LET live == {t \in Turn : Registered(t) /\ Unfinished(t)}
    IN  /\ interrupts < MaxInterrupt /\ gate = Nobody
        /\ interrupts' = interrupts + 1
        /\ cancelled' = cancelled \union live
        /\ byUser' = byUser \ live
        /\ signalled' = signalled \union {t \in live : pc[t] \in {"queued", "running", "unwinding"}}
        /\ UNCHANGED <<turns, rows, inputs, gate, claim, stops, crashes>>

--------------------------------------------------------------------------------
(* Restart: the process dies, mark_abandoned_agent_tasks runs at the next start, and
   then recover_stranded_steers, once or, while something of any session is deferred,
   repeatedly; a repetition looks at the rows of the live process too. *)

Crash ==
    /\ crashes < MaxCrash
    /\ crashes' = crashes + 1
    /\ row' = [t \in Turn |-> IF row[t] \in {"queued", "running"} THEN "abandoned" ELSE row[t]]
    /\ pc' = [t \in Turn |-> IF row[t] = "absent" THEN "absent" ELSE "gone"]
    /\ exit' = [t \in Turn |-> "none"] /\ owed' = {}
    /\ place' = [i \in Input |-> IF place[i] = "none" THEN "none" ELSE "gone"]
    /\ cancelled' = {} /\ byUser' = {} /\ signalled' = {}
    /\ gate' = Nobody /\ claim' = [t \in Turn |-> Nobody]
    /\ stop' = [c \in Stop |-> IF stop[c] \in {"idle", "done"} THEN stop[c] ELSE "lost"]
    /\ UNCHANGED <<started, userIntent, evidence, target, disp, owner, seen, aim, fence,
                   interrupts>>

Recovering == crashes > 0 \/ Deferred

\* _resume_never_started_steer_recovery_tasks
ResumeFollowup(u) ==
    /\ Recovering /\ gate = Nobody
    /\ u # 1 /\ pc[u] = "gone" /\ row[u] = "abandoned" /\ u \notin started
    /\ row' = [row EXCEPT ![u] = "queued"]
    /\ pc' = [pc EXCEPT ![u] = "queued"]
    /\ UNCHANGED <<exit, owed, started, userIntent, evidence, inputs, signals, gate, claim,
                   stops, counts>>

\* Mutant: the disposition is not part of the query.
OwnedBy(t) == {i \in Input : owner[i] = t /\ row[t] \in EndedRow}

\* list_stranded_steer_inputs
Stranded(t) ==
    {i \in Input : disp[i] = "steering" /\ owner[i] = t /\ row[t] \in EndedRow}

\* _is_explicit_user_cancelled_task
UserCancelled(t) == t \in userIntent /\ row[t] \in {"cancelled", "abandoned"}

\* close_stranded_steer_inputs changes rows that are still steering, and those only.
CloseStranded(t) ==
    LET proved == Stranded(t) \intersect evidence[t]
    IN  /\ Recovering
        /\ \/ /\ proved # {}
              /\ disp' = Mark(proved, "applied")
           \/ /\ proved = {} /\ Stranded(t) # {} /\ UserCancelled(t)
              /\ disp' = Mark(Stranded(t), "cancelled")
        /\ UNCHANGED <<turns, rows, place, target, owner, seen, signals, gate, claim, stops,
                       counts>>

\* Mutant: the user's stop is not looked at.
PromoteStrandedAll(t) ==
    /\ Recovering /\ gate = Nobody
    /\ Stranded(t) # {} /\ Stranded(t) \intersect evidence[t] = {}
    /\ \E u \in Turn :
            /\ Fresh(u)
            /\ Promote(Stranded(t), u)
            /\ pc' = [pc EXCEPT ![u] = "queued"]
    /\ UNCHANGED <<exit, owed, place, target, seen, signals, gate, claim, stops, counts>>

PromoteStranded(t) ==
    /\ Recovering /\ gate = Nobody
    /\ Stranded(t) # {} /\ Stranded(t) \intersect evidence[t] = {} /\ ~UserCancelled(t)
    /\ \/ \E u \in Turn :
            /\ Fresh(u)
            /\ Promote(Stranded(t), u)
            /\ pc' = [pc EXCEPT ![u] = "queued"]
       \/ /\ Refusing
          /\ disp' = Mark(Stranded(t), "rejected")
          /\ UNCHANGED <<owner, rows, pc>>
    /\ UNCHANGED <<exit, owed, place, target, seen, signals, gate, claim, stops, counts>>

--------------------------------------------------------------------------------

AdmissionStep(i) == Admit(i) \/ PersistSteer(i)

DriverStep(t) ==
    \/ MarkApplied(t) \/ RecordApplied(t) \/ DeliverCancellation(t) \/ RecordAtExit(t)
    \/ StartFollowup(t)

SettlementStep(t) ==
    \/ ClaimSettlement(t) \/ PersistTerminal(t) \/ TerminalWriteFails(t)
    \/ ReserveFollowup(t) \/ RefuseFollowup(t) \/ CommitFollowup(t) \/ ActivateFollowup(t)
    \/ FinishSettlement(t)

StopStep(c) == EnterGate(c) \/ FenceTurn(c) \/ MarkStop(c) \/ SignalStop(c)

RecoveryStep(t) == ResumeFollowup(t) \/ CloseStranded(t) \/ PromoteStranded(t)

Next ==
    \/ \E i \in Input : Steer(i) \/ AdmissionStep(i)
    \/ \E t \in Turn : Drain(t) \/ HandlerEnds(t) \/ DriverStep(t) \/ SettlementStep(t)
                        \/ RetryTerminal(t) \/ RecoveryStep(t)
    \/ \E c \in Stop : AskStop(c) \/ StopStep(c)
    \/ Interrupt
    \/ Crash

Spec == Init /\ [][Next]_vars

\* Coroutines run; a handler ends; the locks are FIFO, so whoever waits for one that
\* is released again and again gets it.
Fairness ==
    /\ \A i \in Input : SF_vars(AdmissionStep(i))
    /\ \A t \in Turn : /\ WF_vars(DriverStep(t)) /\ WF_vars(RecoveryStep(t))
                       /\ SF_vars(SettlementStep(t)) /\ SF_vars(HandlerEnds(t))
    /\ \A c \in Stop : SF_vars(StopStep(c))
FairSpec == Spec /\ Fairness

--------------------------------------------------------------------------------
(* Properties *)

\* `Otherwise a steer can land after reclaim_all() and remain permanently steering'
\* (_execute): once a user-stopped turn has recalled its inputs, none is accepted, and no
\* input is accepted into a turn whose batch was reclaimed for promotion.  (A turn whose
\* driver escaped its exception handler is never settled: NoUnsettledTurn.)
AcceptanceClosed ==
    \A i \in Input :
        LET t == target[i]
        IN  place[i] \in {"persisting", "pending"} =>
                \/ pc[t] \in {"running", "unwinding", "lost"}
                \/ pc[t] = "settling" /\ exit[t] # "user"
                \/ pc[t] \in {"closing", "finishing"} /\ place[i] = "pending" /\ exit[t] # "user"

\* An accepted input enters the provider calls of one turn: it is not both applied by
\* the turn it was steered into and answered again by a follow-up, unless the process
\* died before the application was recorded.  The bound allows one more answer for every
\* restart, also for one that met no such input; without a restart it is exact.
AnsweredOnce == \A i \in Input : Cardinality(seen[i]) <= 1 + crashes

\* `It never creates a duplicate follow-up' (_recover_stranded_steers_once): every
\* follow-up that exists durably owns an input, whoever (settlement, recovery at start,
\* deferred recovery) tried to promote it first.
FollowupOwnsInput ==
    \A u \in Turn \ {1} : row[u] # "absent" => \E i \in Input : owner[i] = u

\* The ownership transfer is for good: a promoted input is never rewritten as cancelled
\* or applied to its old turn, nor moved to another follow-up.  (A settlement whose own
\* follow-up is refused after a deferred recovery promoted the batch does rewrite it as
\* rejected, but the follow-up keeps it.)
PromotedForGood ==
    [][\A i \in Input :
        disp[i] = "promoted" =>
            disp'[i] \in {"promoted", "rejected"} /\ owner'[i] = owner[i]]_vars

\* The inputs of a turn that ended as stopped by its user are not run as a follow-up,
\* not even when the process died between the stop and the settlement.  It is what the
\* durable row says that counts: of a stop whose intent write failed before the process
\* died, recovery knows nothing and this says nothing.
StoppedInputsNotRun ==
    \A i \in Input : disp[i] = "promoted" => ~UserCancelled(target[i])

\* cancel_exact: once it returns, the task it names is stopped or never became active:
\* the commit-to-activate window of a follow-up is closed by the gate.  (A follow-up that
\* a restart left behind is not registered until recovery resumes it, and is not reached.)
StoppedExactly ==
    [][\A c \in Exact :
        stop[c] = "done" /\ crashes = 0 /\ pc[aim[c]] # "running"
            => pc'[aim[c]] # "running"]_vars

\* `An accepted user message is never silently lost' (_SteerPendingInputProvider): its
\* disposition becomes final, as long as the terminal row of its turn is written at the
\* first attempt (Fallible is FALSE: after a failed write the batch waits for the next
\* start) and a second stop did not make the driver escape (NoUnsettledTurn).
NoInputStranded ==
    \A i \in Input : disp[i] = "steering" ~> disp[i] \in Final \/ pc[target[i]] = "lost"

\* `Finish an accepted cancellation' (_cancel_runtime_tasks).
StopFinishes == \A c \in Stop : stop[c] = "fencing" ~> stop[c] \in {"done", "lost"}

\* `Persist the user/system distinction for startup recovery'
\* (_cancel_runtime_tasks_impl): a turn whose row says that the user stopped it is not
\* started afterwards.
StopSurvivesRestart ==
    [][\A t \in userIntent : pc[t] # "running" => pc'[t] # "running"]_vars

================================================================================
