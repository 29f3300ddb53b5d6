---------------------------- MODULE ChannelIngress ----------------------------
(***************************************************************************)
(* Messages of a chat channel on their way to a turn (channels/manager.py,   *)
(* delivery_store.py, storage_worker.py and gateway/channel_dispatch.py).    *)
(*                                                                           *)
(* A provider delivers an event at least once.  A gateway journals it,       *)
(* queues it in memory, claims it, hands it to a turn and settles the claim. *)
(* The journal and the lease of the channel are shared by the gateways on    *)
(* one state directory; queues, markers and settlements under way are lost   *)
(* with their process.  When a gateway starts the channel it takes the lease *)
(* and requeues what the journal still holds.                                *)
(***************************************************************************)
EXTENDS Naturals, FiniteSets

CONSTANTS
    Gateway,    \* gateway processes on one state directory
    Event,      \* events of the channel, each with a native id
    Remembers,  \* gateways whose adapter drops repeated ids in enqueue
    Budget,     \* bound: starts, expiries of the lease, deliveries of each event
    MaxFault,   \* bound: transactions that fail
    None

Limited == {"start", "expiry"} \union Event

ASSUME IngressAssumption ==
    /\ IsFiniteSet(Gateway) /\ IsFiniteSet(Event)
    /\ Remembers \subseteq Gateway
    /\ Budget \in [Limited -> Nat] /\ MaxFault \in Nat
    /\ None \notin Gateway

VARIABLES
    state,      \* durable: channel_ingress.state, "absent" without a row
    claim,      \* durable: claim_token, 0 for NULL
    attempts,   \* durable: attempts
    lease,      \* durable: the transport lease
    phase,      \* where the channel stands in each gateway
    token,      \* the fencing token it holds
    todo,       \* recovered events it has still to enqueue
    queue,      \* copies of each event in the adapter's queue
    seen,       \* the ids its adapter remembers
    permits,    \* _recovered_pending_visibility
    unjournaled,\* _unjournaled_events
    passed,     \* _claimed_unjournaled_events
    disp,       \* the dispatcher: place, event, claim token
    late,       \* retained settlements and cleanups of cancelled callers
    forwarded,  \* history: memory-only events this process has dealt with
    orphaned,   \* history: events left behind by a failure since the last recovery
    left,       \* what is left of the budget
    faults      \* faults still to come

journal == <<state, claim, attempts>>
memory == <<queue, seen, permits, unjournaled, passed>>
channel == <<phase, token, todo>>
history == <<forwarded, orphaned>>
bounds == <<left, faults>>
vars == <<journal, lease, channel, memory, disp, late, history, bounds>>

Place == {"none", "idle", "claiming", "claimed", "completing", "failing", "dead"}
Holding == {"claimed", "completing", "failing"}
NoTask == [pc |-> "none", event |-> None, token |-> 0]
Waiting == [NoTask EXCEPT !.pc = "idle"]
Job == [op : {"complete", "fail"}, gateway : Gateway, event : Event, token : Nat]
         \union [op : {"release"}, gateway : Gateway, event : {None}, token : Nat]

TypeOK ==
    /\ state \in [Event -> {"absent", "accepted", "processing", "completed"}]
    /\ claim \in [Event -> Nat] /\ attempts \in [Event -> Nat]
    /\ lease \in [owner : Gateway \union {None}, token : Nat, valid : BOOLEAN]
    /\ phase \in [Gateway -> {"down", "recovering", "requeueing", "failed", "running", "lost",
                              "releasing"}]
    /\ token \in [Gateway -> Nat]
    /\ todo \in [Gateway -> SUBSET Event]
    /\ queue \in [Gateway -> [Event -> Nat]]
    /\ seen \in [Gateway -> SUBSET Event] /\ permits \in [Gateway -> SUBSET Event]
    /\ unjournaled \in [Gateway -> SUBSET Event]
    /\ passed \in [Gateway -> SUBSET Event]
    /\ disp \in [Gateway -> [pc : Place, event : Event \union {None}, token : Nat]]
    /\ late \subseteq Job
    /\ forwarded \in [Gateway -> SUBSET Event]
    /\ orphaned \subseteq Event
    /\ left \in [Limited -> Nat] /\ faults \in Nat

\* A new state directory; a behaviour may use any part of the budget.
Init ==
    /\ state = [e \in Event |-> "absent"] /\ claim = [e \in Event |-> 0]
    /\ attempts = [e \in Event |-> 0]
    /\ lease = [owner |-> None, token |-> 0, valid |-> FALSE]
    /\ phase = [g \in Gateway |-> "down"] /\ token = [g \in Gateway |-> 0]
    /\ todo = [g \in Gateway |-> {}]
    /\ queue = [g \in Gateway |-> [e \in Event |-> 0]]
    /\ seen = [g \in Gateway |-> {}] /\ permits = [g \in Gateway |-> {}]
    /\ unjournaled = [g \in Gateway |-> {}] /\ passed = [g \in Gateway |-> {}]
    /\ disp = [g \in Gateway |-> NoTask]
    /\ late = {}
    /\ forwarded = [g \in Gateway |-> {}] /\ orphaned = {}
    /\ left \in [Limited -> Nat] /\ \A k \in Limited : left[k] <= Budget[k]
    /\ faults \in 0 .. MaxFault

Spend(k) == left[k] > 0 /\ left' = [left EXCEPT ![k] = @ - 1]

Fault == faults > 0 /\ faults' = faults - 1

Put(g, e) == queue' = [queue EXCEPT ![g][e] = @ + 1]
Queued(g) == {e \in Event : queue[g][e] > 0}
With(f, g, e) == [f EXCEPT ![g] = @ \union {e}]
Without(f, g, e) == [f EXCEPT ![g] = @ \ {e}]

-------------------------------------------------------------------------------
(* Journal: accept_inbound with its hand-off to the queue, and the settlements. *)

KnownInMemory(g, e) == e \in passed[g] \union unjournaled[g]

\* The transaction succeeds; a row that exists admits only a copy made by recovery.
AcceptRow(g, e) ==
    \/ /\ ~KnownInMemory(g, e) /\ state[e] = "absent"
       /\ state' = [state EXCEPT ![e] = "accepted"]
       /\ Put(g, e)
       /\ UNCHANGED permits
    \/ /\ ~KnownInMemory(g, e) /\ state[e] = "accepted" /\ e \in permits[g]
       /\ permits' = Without(permits, g, e)
       /\ Put(g, e)
       /\ UNCHANGED state
    \/ /\ \/ KnownInMemory(g, e)
          \/ state[e] \in {"processing", "completed"}
          \/ state[e] = "accepted" /\ e \notin permits[g]
       /\ UNCHANGED <<state, permits, queue>>

\* A storage fault degrades to memory-only acceptance.
AcceptInMemory(g, e) ==
    /\ ~KnownInMemory(g, e)
    /\ Fault
    /\ unjournaled' = With(unjournaled, g, e)
    /\ Put(g, e)
    /\ UNCHANGED <<state, permits>>

Enqueue(g, e) ==
    \/ /\ g \in Remembers /\ e \in seen[g]
       /\ UNCHANGED <<state, queue, seen, permits, unjournaled, faults>>
    \/ /\ ~(g \in Remembers /\ e \in seen[g])
       /\ seen' = IF g \in Remembers THEN With(seen, g, e) ELSE seen
       /\ \/ AcceptRow(g, e) /\ UNCHANGED <<unjournaled, faults>>
          \/ AcceptInMemory(g, e)

\* Mutant: the row is found by its event alone.
OfEvent(e, t) == TRUE

Fenced(e, t) == claim[e] = t

Complete(e, t) ==
    IF t # 0 /\ Fenced(e, t)
      THEN state' = [state EXCEPT ![e] = "completed"] /\ claim' = [claim EXCEPT ![e] = 0]
      ELSE UNCHANGED <<state, claim>>

\* Mutant: the failed event is marked with a state of the outbox.
FailAsUnknown(e, t) ==
    IF t # 0 /\ Fenced(e, t)
      THEN state' = [state EXCEPT ![e] = "unknown"] /\ claim' = [claim EXCEPT ![e] = 0]
      ELSE UNCHANGED <<state, claim>>

Fail(e, t) ==
    IF t # 0 /\ Fenced(e, t)
      THEN state' = [state EXCEPT ![e] = "accepted"] /\ claim' = [claim EXCEPT ![e] = 0]
      ELSE UNCHANGED <<state, claim>>

-------------------------------------------------------------------------------
(* Start, lease and stop of the channel in one gateway. *)

Mine(g) == lease.owner = g /\ lease.token = token[g]

\* acquire_transport_lease: refused while another owner's lease is live.
Taken(g) == lease' = [owner |-> g, token |-> lease.token + 1, valid |-> TRUE]

Acquire(g) ==
    /\ phase[g] = "down"
    /\ Spend("start")
    /\ lease.owner = g \/ ~lease.valid
    /\ Taken(g)
    /\ \/ /\ phase' = [phase EXCEPT ![g] = "recovering"]
          /\ token' = [token EXCEPT ![g] = lease.token + 1]
          /\ UNCHANGED late
       \/ \* the start is cancelled while the transaction runs
          /\ late' = late \union
               {[op |-> "release", gateway |-> g, event |-> None, token |-> lease.token + 1]}
          /\ UNCHANGED <<phase, token>>
    /\ UNCHANGED <<journal, todo, memory, disp, history, faults>>

\* Mutant: the interrupted claims are released and not returned.
AcceptedRows == {e \in Event : state[e] = "accepted"}

Pending == {e \in Event : state[e] \in {"accepted", "processing"}}

Recover(g) ==
    /\ phase[g] = "recovering"
    /\ state' = [e \in Event |-> IF state[e] = "processing" THEN "accepted" ELSE state[e]]
    /\ claim' = [e \in Event |-> IF state[e] = "processing" THEN 0 ELSE claim[e]]
    /\ todo' = [todo EXCEPT ![g] = Pending]
    /\ permits' = [permits EXCEPT ![g] = @ \union Pending]
    /\ orphaned' = {}
    /\ phase' = [phase EXCEPT ![g] = "requeueing"]
    /\ UNCHANGED <<attempts, lease, token, queue, seen, unjournaled, passed, disp,
                   late, forwarded, bounds>>

Requeue(g, e) ==
    /\ phase[g] = "requeueing" /\ e \in todo[g]
    /\ todo' = [todo EXCEPT ![g] = @ \ {e}]
    /\ Enqueue(g, e)
    /\ UNCHANGED <<claim, attempts, lease, phase, token, passed, disp, late, history, left>>

\* adapter.start succeeds; the dispatcher and the renewal of the lease begin.
StartAdapter(g) ==
    /\ phase[g] = "requeueing" /\ todo[g] = {}
    /\ phase' = [phase EXCEPT ![g] = "running"]
    /\ disp' = [disp EXCEPT ![g] = Waiting]
    /\ UNCHANGED <<journal, lease, token, todo, memory, late, history, bounds>>

\* The adapter is stopped and the lease given back; the store goes on accepting.
StartFails(g) ==
    /\ phase[g] \in {"recovering", "requeueing"}
    /\ phase' = [phase EXCEPT ![g] = "failed"]
    /\ todo' = [todo EXCEPT ![g] = {}]
    /\ orphaned' = orphaned \union todo[g] \union Queued(g)
    /\ UNCHANGED <<journal, lease, token, memory, disp, late, forwarded, bounds>>

\* The lease runs out: its gateway did not renew it in time, or is gone.
Expire ==
    /\ lease.valid /\ Spend("expiry")
    /\ lease' = [lease EXCEPT !.valid = FALSE]
    /\ UNCHANGED <<journal, channel, memory, disp, late, history, faults>>

\* The row is found by owner and token; the expiry is not asked for.
Renew(g) ==
    /\ phase[g] = "running" /\ Mine(g)
    /\ lease' = [lease EXCEPT !.valid = TRUE]
    /\ UNCHANGED <<journal, channel, memory, disp, late, history, bounds>>

\* The lease ran out or went to another owner, or the renewal fails or is abandoned.
\* The adapter is stopped; the dispatcher goes on with what is queued.
LoseLease(g) ==
    /\ phase[g] = "running"
    /\ \/ (~Mine(g) \/ ~lease.valid) /\ UNCHANGED <<faults, late>>
       \/ /\ Fault
          /\ late' \in {late, late \union {[op |-> "release", gateway |-> g, event |-> None,
                                            token |-> token[g]]}}
    /\ phase' = [phase EXCEPT ![g] = "lost"]
    /\ UNCHANGED <<journal, lease, token, todo, memory, disp, history, left>>

\* What the cancelled dispatcher leaves in the worker: a claim that committed is failed,
\* a settlement that was asked for is carried out, in an earlier await there is neither.
Remains(g) ==
    LET t == disp[g]
        ops == CASE t.pc \in {"claimed", "failing"} -> {"fail"}
                 [] t.pc = "completing" -> {"complete"}
                 [] OTHER -> {}
    IN  {{}} \union {{[op |-> o, gateway |-> g, event |-> t.event, token |-> t.token]} : o \in ops}

InHand(g) == IF disp[g].pc \in Holding \union {"claiming"} THEN {disp[g].event} ELSE {}
ByMemory(g) == IF disp[g].pc \in Holding /\ disp[g].token = 0 THEN {disp[g].event} ELSE {}

Stop(g) ==
    /\ phase[g] \in {"running", "lost"}
    /\ phase' = [phase EXCEPT ![g] = "releasing"]
    /\ \E jobs \in Remains(g) : late' = late \union jobs
    /\ orphaned' = orphaned \union InHand(g) \union Queued(g)
    /\ forwarded' = [forwarded EXCEPT ![g] = @ \union ByMemory(g)]
    /\ disp' = [disp EXCEPT ![g] = NoTask]
    /\ UNCHANGED <<journal, lease, token, todo, memory, bounds>>

\* Mutant: the lease is found by its owner alone.
ReleasedByOwner(g, t) == IF lease.owner = g THEN [lease EXCEPT !.valid = FALSE] ELSE lease

Released(g, t) ==
    IF lease.owner = g /\ lease.token = t THEN [lease EXCEPT !.valid = FALSE] ELSE lease

\* release_transport_lease, which may fail.
Release(g) ==
    /\ phase[g] \in {"failed", "releasing"}
    /\ \/ lease' = Released(g, token[g]) /\ UNCHANGED faults
       \/ Fault /\ UNCHANGED lease
    /\ phase' = [phase EXCEPT ![g] = "down"] /\ token' = [token EXCEPT ![g] = 0]
    /\ UNCHANGED <<journal, todo, memory, disp, late, history, left>>

\* The process ends in any place; the next one has another owner id.
Crash(g) ==
    /\ phase' = [phase EXCEPT ![g] = "down"] /\ token' = [token EXCEPT ![g] = 0]
    /\ todo' = [todo EXCEPT ![g] = {}]
    /\ queue' = [queue EXCEPT ![g] = [e \in Event |-> 0]]
    /\ seen' = [seen EXCEPT ![g] = {}] /\ permits' = [permits EXCEPT ![g] = {}]
    /\ unjournaled' = [unjournaled EXCEPT ![g] = {}]
    /\ passed' = [passed EXCEPT ![g] = {}]
    /\ lease' = IF lease.owner = g THEN [lease EXCEPT !.owner = None] ELSE lease
    /\ late' = {j \in late : j.gateway # g}
    /\ orphaned' = orphaned \union InHand(g) \union Queued(g) \union todo[g] \union permits[g]
                     \union passed[g]
                     \union {j.event : j \in {k \in late : k.gateway = g /\ k.op # "release"}}
    /\ forwarded' = [forwarded EXCEPT ![g] = {}]
    /\ disp' = [disp EXCEPT ![g] = NoTask]
    /\ UNCHANGED <<journal, bounds>>

-------------------------------------------------------------------------------
(* The provider, and the dispatcher of one gateway. *)

\* The channel has a dispatcher, or will have one.
Serving(g) == phase[g] \in {"recovering", "requeueing"} \/ disp[g].pc \notin {"none", "dead"}

\* The store takes messages from resume_channel until stop_accepting, which a failed start
\* does not call, as long as the adapter is not stopped.
Deliver(g, e) ==
    /\ phase[g] \in {"recovering", "requeueing", "failed", "running", "lost"}
    /\ Spend(e)
    /\ Enqueue(g, e)
    /\ orphaned' = IF Serving(g) THEN orphaned ELSE orphaned \union {e}
    /\ UNCHANGED <<claim, attempts, lease, channel, passed, disp, late, forwarded>>

Receive(g, e) ==
    /\ disp[g].pc = "idle" /\ queue[g][e] > 0
    /\ queue' = [queue EXCEPT ![g][e] = @ - 1]
    /\ disp' = [disp EXCEPT ![g] = [pc |-> "claiming", event |-> e, token |-> 0]]
    /\ UNCHANGED <<journal, lease, channel, seen, permits, unjournaled, passed, late,
                   history, bounds>>

\* Mutant: a message that is not to be handled ends the loop.
SkipsForGood(g) ==
    /\ disp' = [disp EXCEPT ![g] = [NoTask EXCEPT !.pc = "dead"]]
    /\ UNCHANGED <<journal, unjournaled, passed, orphaned, faults>>

\* claim_inbound answers None: the copy is a duplicate.
Skips(g) ==
    /\ disp' = [disp EXCEPT ![g] = Waiting]
    /\ UNCHANGED <<journal, unjournaled, passed, orphaned, faults>>

Claims(g, e, t) ==
    /\ disp' = [disp EXCEPT ![g] = [pc |-> "claimed", event |-> e, token |-> t]]
    /\ state' = [state EXCEPT ![e] = "processing"]
    /\ claim' = [claim EXCEPT ![e] = t]
    /\ attempts' = [attempts EXCEPT ![e] = t]
    /\ UNCHANGED <<passed, orphaned, faults>>

\* Mutant: the marker goes with the claim.
PassThroughForgets(g, e) ==
    /\ Fault
    /\ unjournaled' = Without(unjournaled, g, e)
    /\ disp' = [disp EXCEPT ![g] = [pc |-> "claimed", event |-> e, token |-> 0]]
    /\ UNCHANGED <<journal, passed, orphaned>>

\* The journal is still out of order: one claim without a row, and a marker for good.
PassThrough(g, e) ==
    /\ Fault
    /\ unjournaled' = Without(unjournaled, g, e)
    /\ passed' = With(passed, g, e)
    /\ disp' = [disp EXCEPT ![g] = [pc |-> "claimed", event |-> e, token |-> 0]]
    /\ UNCHANGED <<journal, orphaned>>

\* Where an exception leaves the dispatcher: it is entered again, until the cycles of
\* retries are used up and only restart_channel brings it back.
Reenters(g) ==
    \E pc \in {"idle", "dead"} :
        /\ disp' = [disp EXCEPT ![g] = [NoTask EXCEPT !.pc = pc]]
        /\ orphaned' = orphaned \union InHand(g)
                         \union (IF pc = "dead" THEN Queued(g) ELSE {})
        /\ forwarded' = [forwarded EXCEPT ![g] = @ \union ByMemory(g)]

Claim(g) ==
    LET e == disp[g].event
    IN  /\ disp[g].pc = "claiming"
        /\ \/ e \in passed[g] /\ Skips(g) /\ UNCHANGED forwarded
           \/ /\ e \in unjournaled[g] \ passed[g]
              /\ \/ PassThrough(g, e)
                 \/ /\ state[e] = "absent" /\ Claims(g, e, 1)
                    /\ unjournaled' = Without(unjournaled, g, e)
                 \/ /\ state[e] # "absent"
                    /\ unjournaled' = Without(unjournaled, g, e)
                    /\ disp' = [disp EXCEPT ![g] = Waiting]
                    /\ UNCHANGED <<journal, passed, orphaned, faults>>
              /\ UNCHANGED forwarded
           \/ /\ e \notin unjournaled[g] \union passed[g]
              /\ \/ /\ state[e] = "accepted" /\ Claims(g, e, attempts[e] + 1)
                    /\ UNCHANGED <<unjournaled, forwarded>>
                 \/ state[e] # "accepted" /\ Skips(g) /\ UNCHANGED forwarded
                 \/ Fault /\ Reenters(g) /\ UNCHANGED <<journal, unjournaled, passed>>
        /\ UNCHANGED <<lease, channel, queue, seen, permits, late, left>>

Goto(g, p) == disp' = [disp EXCEPT ![g].pc = p]

\* A turn is accepted or replayed, or the message is denied, an approval, a command, at
\* capacity or conflicting; in each case it is dealt with.
Handle(g) ==
    /\ disp[g].pc = "claimed"
    /\ Goto(g, "completing")
    /\ UNCHANGED <<journal, lease, channel, memory, late, history, bounds>>

\* Storage busy, the session changed, a dependency is missing, shutting down.
RefuseTurn(g) ==
    /\ disp[g].pc = "claimed"
    /\ Goto(g, "failing")
    /\ UNCHANGED <<journal, lease, channel, memory, late, history, bounds>>

\* An exception that passes no settlement, as from the notice sent before it.
Escapes(g) ==
    /\ disp[g].pc \in Holding
    /\ Reenters(g)
    /\ UNCHANGED <<journal, lease, channel, memory, late, bounds>>

Settle(g) ==
    LET t == disp[g]
    IN  /\ \/ /\ t.pc = "completing" /\ Complete(t.event, t.token)
              /\ disp' = [disp EXCEPT ![g] = Waiting]
              /\ forwarded' = [forwarded EXCEPT ![g] = @ \union ByMemory(g)]
              /\ UNCHANGED orphaned
           \/ /\ t.pc = "failing" /\ Fail(t.event, t.token)
              /\ Reenters(g)
        /\ UNCHANGED <<attempts, lease, channel, memory, late, bounds>>

\* A retained settlement outlives its caller, and carries its claim or lease token.  One
\* that raises is only logged; its event was left to the next start with its caller.
RunLate(j) ==
    /\ j \in late
    /\ late' = late \ {j}
    /\ \/ j.op = "complete" /\ Complete(j.event, j.token) /\ UNCHANGED <<lease, faults>>
       \/ j.op = "fail" /\ Fail(j.event, j.token) /\ UNCHANGED <<lease, faults>>
       \/ /\ j.op = "release" /\ lease' = Released(j.gateway, j.token)
          /\ UNCHANGED <<state, claim, faults>>
       \/ Fault /\ UNCHANGED <<state, claim, lease>>
    /\ UNCHANGED <<attempts, channel, memory, disp, history, left>>

-------------------------------------------------------------------------------

StartStep(g) == Recover(g) \/ StartAdapter(g) \/ \E e \in Event : Requeue(g, e)

DispatchStep(g) ==
    \/ Claim(g) \/ Handle(g) \/ RefuseTurn(g) \/ Settle(g)
    \/ \E e \in Event : Receive(g, e)

Next ==
    \/ Expire
    \/ \E g \in Gateway :
         \/ Acquire(g) \/ StartFails(g) \/ Renew(g) \/ LoseLease(g)
         \/ Stop(g) \/ Release(g) \/ Crash(g) \/ Escapes(g)
         \/ StartStep(g) \/ DispatchStep(g)
         \/ \E e \in Event : Deliver(g, e)
    \/ \E j \in late : RunLate(j)

Spec == Init /\ [][Next]_vars

\* Tasks and the storage worker of a live process make progress.
Fairness ==
    /\ \A g \in Gateway : WF_vars(StartStep(g)) /\ WF_vars(DispatchStep(g))
    /\ WF_vars(\E j \in late : RunLate(j))

FairSpec == Spec /\ Fairness

-------------------------------------------------------------------------------

\* A terminal disposition is kept: no late failure of an older claim, recovery or
\* redelivery takes the event up again (claim_token in the WHERE clauses).
CompletedIsFinal == [][\A e \in Event : state[e] = "completed" => state'[e] = "completed"]_vars

\* A memory-only event is handled once by its process: redelivery after storage has
\* recovered does not admit it again (claim_inbound).
ForwardedOnce ==
    \A g \in Gateway : disp[g].pc \in Holding => disp[g].event \notin forwarded[g]

\* The tasks from which an event still comes to a dispatcher.
OnItsWay(e) ==
    \E g \in Gateway : \/ Serving(g) /\ (queue[g][e] > 0 \/ e \in todo[g])
                       \/ disp[g].pc = "claiming" /\ disp[g].event = e
                       \/ e \in permits[g] \union passed[g]
InProgress(e) ==
    \/ \E g \in Gateway : disp[g].pc \in Holding /\ disp[g].event = e /\ disp[g].token = claim[e]
    \/ \E j \in late : j.op # "release" /\ j.event = e /\ j.token = claim[e]

\* A journaled event is on its way to a dispatcher or in the hands of one, may be
\* readmitted, was passed on without its row, or was left behind by a failure after the
\* last recovery (recover_inbound, accept_inbound).
NothingForgotten ==
    \A e \in Event \ orphaned : /\ state[e] = "accepted" => OnItsWay(e)
                                /\ state[e] = "processing" => InProgress(e)

\* A gateway that runs the channel loses a live lease only by its own steps: no late
\* cleanup of an earlier start releases it and no other gateway takes it
\* (acquire_transport_lease, _abandoned_lease).
LeaseKept ==
    [][\A g \in Gateway :
         phase[g] \in {"recovering", "requeueing", "running"} /\ Mine(g) /\ lease.valid
           /\ phase'[g] = phase[g] =>
             lease' = lease \/ Expire]_vars

\* Under a lease that is kept, a journaled event is completed in the end, unless a
\* failure leaves it to the next start (run_channel_dispatch).
EventCompletes ==
    \A g \in Gateway, e \in Event :
        (phase[g] = "running" /\ Mine(g) /\ state[e] = "accepted" /\ e \notin orphaned) ~>
            \/ state[e] = "completed" \/ e \in orphaned
            \/ \E h \in Gateway : e \in permits[h] \union passed[h]
            \/ phase[g] # "running" \/ ~Mine(g)
===============================================================================
