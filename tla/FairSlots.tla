------------------------------- MODULE FairSlots -------------------------------
(***************************************************************************)
(* How session lanes share the compute slots of the turn runtime             *)
(* (_wait_for_subagent_slot, _acquire_fair_slot, _suspend_compute_slot and   *)
(* _release_slot of gateway/task_runtime.py).                                *)
(*                                                                           *)
(* The execution lock lets one turn of a session at a time reach the gate,   *)
(* so a client is a session, and its successive turns reuse its state.  The  *)
(* two condition variables are never held across an await other than their   *)
(* own wait(), so checking the predicate and taking the slot is one step; a  *)
(* waiter whose check fails sleeps until somebody calls notify_all.          *)
(***************************************************************************)
EXTENDS Naturals, Sequences, FiniteSets

CONSTANTS
    Session,         \* session keys
    Agent,           \* agent ids
    AgentOf,         \* the agent of each session
    Subagent,        \* sessions whose turns have run_kind subagent
    MaxConcurrency,  \* max_concurrency
    Reserved         \* subagent_reserved_slots, clamped by __init__

ASSUME FairSlotsAssumption ==
    /\ IsFiniteSet(Session)
    /\ AgentOf \in [Session -> Agent]
    /\ Subagent \subseteq Session
    /\ MaxConcurrency \in Nat \ {0}
    /\ Reserved \in 0 .. (MaxConcurrency - 1)

VARIABLES
    pc,        \* where the session's current turn stands
    rejoin,    \* sessions whose turn is coming back from _suspend_compute_slot
    rr,        \* _agent_session_rr: the rotation of each agent
    waiters,   \* union of the _agent_slot_waiters sets
    acquired,  \* sessions whose turn has acquired_slot
    inFlight,  \* _global_in_flight
    asleep,    \* sessions parked in _fair_cond.wait()
    gated      \* sessions parked in _slot_cond.wait()

vars == <<pc, rejoin, rr, waiters, acquired, inFlight, asleep, gated>>

PC == {"idle",       \* no pending or running turn: not enrolled
       "queued",     \* a turn waits for its lane or is about to ask for a slot
       "waiting",    \* in one of the two condition variables
       "granted",    \* holds a slot, _mark_running not yet decided
       "running",    \* the handler runs
       "suspended",  \* the slot is lent during an external wait
       "ended"}      \* settling

TypeOK ==
    /\ pc \in [Session -> PC]
    /\ rejoin \subseteq Session
    /\ rr \in [Agent -> Seq(Session)]
    /\ waiters \subseteq Session
    /\ acquired \subseteq Session
    /\ inFlight \in Nat
    /\ asleep \subseteq Session
    /\ gated \subseteq Session

Init ==
    /\ pc = [s \in Session |-> "idle"]
    /\ rejoin = {}
    /\ rr = [a \in Agent |-> <<>>]
    /\ waiters = {} /\ acquired = {} /\ inFlight = 0
    /\ asleep = {} /\ gated = {}

--------------------------------------------------------------------------------
(* The predicate of _acquire_fair_slot *)

Enrolled(s) == \E i \in DOMAIN rr[AgentOf[s]] : rr[AgentOf[s]][i] = s

\* s is the first session of its agent's rotation that waits for a slot in W.
FirstWaiter(s, W) ==
    LET q == rr[AgentOf[s]]
    IN  \E i \in DOMAIN q : q[i] = s /\ \A j \in 1 .. (i - 1) : q[j] \notin W

Idle == MaxConcurrency - inFlight

MayTake(s, W) ==
    /\ inFlight < MaxConcurrency
    /\ Idle = 1 => FirstWaiter(s, W)

\* Mutant: one slot short of the reserve.
GateShutLate(s) == s \in Subagent /\ Reserved > 0 /\ Idle < Reserved

\* The gate in front of it, for subagents only.
GateShut(s) == s \in Subagent /\ Reserved > 0 /\ Idle <= Reserved

\* Mutant: no rotation past the granted session.
RotateNot(q, s) == q

Position(q, s) == CHOOSE i \in DOMAIN q : q[i] = s /\ \A j \in 1 .. (i - 1) : q[j] # s

\* rr.rotate(-(index + 1)): the granted session becomes the last.
RotatePast(q, s) ==
    IF \E i \in DOMAIN q : q[i] = s
    THEN LET i == Position(q, s)
         IN  SubSeq(q, i + 1, Len(q)) \o SubSeq(q, 1, i)
    ELSE q

\* rr.remove: its first entry, if there is one.
Without(q, s) ==
    IF \E i \in DOMAIN q : q[i] = s
    THEN LET i == Position(q, s)
         IN  SubSeq(q, 1, i - 1) \o SubSeq(q, i + 1, Len(q))
    ELSE q

--------------------------------------------------------------------------------

\* activate: the first turn of a session enrols it at the end of the rotation.
Submit(s) ==
    /\ pc[s] = "idle"
    /\ pc' = [pc EXCEPT ![s] = "queued"]
    /\ rr' = [rr EXCEPT ![AgentOf[s]] = Append(@, s)]
    /\ UNCHANGED <<rejoin, waiters, acquired, inFlight, asleep, gated>>

\* A turn asks for a slot: it comes from its lane, from an external wait that ended
\* well, or wakes from one of the two conditions.
Asks(s) ==
    \/ pc[s] = "queued"
    \/ pc[s] = "suspended"
    \/ pc[s] = "waiting" /\ s \notin asleep \union gated

\* _wait_for_subagent_slot parks it; a turn that is past that gate does not return.
ParkAtGate(s) ==
    /\ Asks(s) /\ s \notin waiters /\ GateShut(s)
    /\ pc' = [pc EXCEPT ![s] = "waiting"]
    /\ rejoin' = IF pc[s] = "suspended" THEN rejoin \union {s} ELSE rejoin
    /\ gated' = gated \union {s}
    /\ UNCHANGED <<rr, waiters, acquired, inFlight, asleep>>

\* _acquire_fair_slot parks it among the genuine waiters.
ParkFair(s) ==
    /\ Asks(s) /\ (s \in waiters \/ ~GateShut(s))
    /\ ~MayTake(s, waiters \union {s})
    /\ pc' = [pc EXCEPT ![s] = "waiting"]
    /\ rejoin' = IF pc[s] = "suspended" THEN rejoin \union {s} ELSE rejoin
    /\ waiters' = waiters \union {s}
    /\ asleep' = asleep \union {s}
    /\ UNCHANGED <<rr, acquired, inFlight, gated>>

\* The finally block of _acquire_fair_slot: leave the waiters, wake the others.
LeaveFair(s) == waiters' = waiters \ {s} /\ asleep' = {}

\* _acquire_fair_slot grants the slot and rotates past its session.
TakeSlot(s) ==
    /\ Asks(s) /\ (s \in waiters \/ ~GateShut(s))
    /\ MayTake(s, waiters \union {s})
    /\ pc' = [pc EXCEPT ![s] = IF pc[s] = "suspended" \/ s \in rejoin
                               THEN "running" ELSE "granted"]
    /\ rejoin' = rejoin \ {s}
    /\ rr' = [rr EXCEPT ![AgentOf[s]] = RotatePast(@, s)]
    /\ LeaveFair(s)
    /\ acquired' = acquired \union {s}
    /\ inFlight' = inFlight + 1
    /\ UNCHANGED gated

\* _mark_running succeeded.
MarkRunning(s) ==
    /\ pc[s] = "granted"
    /\ pc' = [pc EXCEPT ![s] = "running"]
    /\ UNCHANGED <<rejoin, rr, waiters, acquired, inFlight, asleep, gated>>

\* Mutant: the counter without the acquired_slot test.
ReleaseSlotBlindly(s) ==
    /\ acquired' = acquired \ {s}
    /\ inFlight' = inFlight - 1
    /\ asleep' = {}
    /\ gated' = {}

\* Mutant: acquired_slot is not cleared.
ReleaseSlotKept(s) ==
    /\ UNCHANGED acquired
    /\ inFlight' = IF s \in acquired THEN inFlight - 1 ELSE inFlight
    /\ asleep' = {}
    /\ gated' = {}

\* _release_slot: the counter only if the turn holds a slot; then both conditions.
ReleaseSlot(s) ==
    /\ acquired' = acquired \ {s}
    /\ inFlight' = IF s \in acquired THEN inFlight - 1 ELSE inFlight
    /\ asleep' = {}
    /\ gated' = {}

\* The turn is over (the handler ended, _mark_running refused, or it was cancelled
\* while holding the slot or lending it): _execute releases without looking.
EndTurn(s) ==
    /\ pc[s] \in {"granted", "running", "suspended"}
    /\ pc' = [pc EXCEPT ![s] = "ended"]
    /\ ReleaseSlot(s)
    /\ UNCHANGED <<rejoin, rr, waiters>>

\* _suspend_compute_slot lends the slot; the lane and the rotation entry are kept.
Suspend(s) ==
    /\ pc[s] = "running"
    /\ pc' = [pc EXCEPT ![s] = "suspended"]
    /\ ReleaseSlot(s)
    /\ UNCHANGED <<rejoin, rr, waiters>>

\* Mutant: a waiter that is cancelled leaves without notify_all.
AbandonSilently(s) ==
    /\ pc[s] \in {"queued", "waiting"}
    /\ pc' = [pc EXCEPT ![s] = "ended"]
    /\ rejoin' = rejoin \ {s}
    /\ waiters' = waiters \ {s}
    /\ asleep' = IF s \in rejoin THEN {} ELSE asleep \ {s}
    /\ gated' = IF s \in rejoin THEN {} ELSE gated \ {s}
    /\ UNCHANGED <<rr, acquired, inFlight>>

\* A queued turn is cancelled before it asks; or a parked one: leaving _fair_cond it
\* discards its waiter entry and wakes its peers, leaving _slot_cond it wakes nobody.
\* A turn that was coming back from an external wait also passes _release_slot.
Abandon(s) ==
    /\ pc[s] \in {"queued", "waiting"}
    /\ pc' = [pc EXCEPT ![s] = "ended"]
    /\ rejoin' = rejoin \ {s}
    /\ waiters' = waiters \ {s}
    /\ asleep' = IF s \in waiters \union rejoin THEN {} ELSE asleep
    /\ gated' = IF s \in rejoin THEN {} ELSE gated \ {s}
    /\ UNCHANGED <<rr, acquired, inFlight>>

\* Mutant: the session leaves the rotation although another turn is pending.
SettleForgetful(s) ==
    /\ pc[s] = "ended"
    /\ \E p \in {"queued", "idle"} : pc' = [pc EXCEPT ![s] = p]
    /\ rr' = [rr EXCEPT ![AgentOf[s]] = Without(@, s)]
    /\ asleep' = {}
    /\ UNCHANGED <<rejoin, waiters, acquired, inFlight, gated>>

\* The settlement's final block: with another turn pending the session keeps its
\* place in the rotation, otherwise it leaves it and every waiter is woken.
Settle(s) ==
    /\ pc[s] = "ended"
    /\ \/ /\ pc' = [pc EXCEPT ![s] = "queued"]
          /\ UNCHANGED <<rr, asleep>>
       \/ /\ pc' = [pc EXCEPT ![s] = "idle"]
          /\ rr' = [rr EXCEPT ![AgentOf[s]] = Without(@, s)]
          /\ asleep' = {}
    /\ UNCHANGED <<rejoin, waiters, acquired, inFlight, gated>>

Ask(s) == ParkAtGate(s) \/ ParkFair(s) \/ TakeSlot(s)

Next ==
    \E s \in Session :
        \/ Submit(s) \/ Ask(s) \/ MarkRunning(s) \/ EndTurn(s)
        \/ Suspend(s) \/ Abandon(s) \/ Settle(s)

\* A woken waiter is scheduled and re-checks; a granted turn is marked; a handler
\* ends.  External waits and submissions are the environment's.
Fairness ==
    \A s \in Session :
        /\ WF_vars(pc[s] = "waiting" /\ Ask(s))
        /\ WF_vars(pc[s] \in {"granted", "running"} /\ EndTurn(s))

Spec == Init /\ [][Next]_vars
FairSpec == Spec /\ Fairness

--------------------------------------------------------------------------------
(* Properties *)

\* The counter every predicate reads is the number of turns that hold a slot, and
\* those are the turns that run or are about to: no path of grant, refusal, external
\* wait and cancellation leaks a slot or returns it twice.
SlotsExact ==
    /\ inFlight = Cardinality(acquired)
    /\ acquired = {s \in Session : pc[s] \in {"granted", "running"}}

\* No lost wake-up: a turn sleeps in _fair_cond only while its predicate is false,
\* and in _slot_cond only while the gate is shut.
NoLostWakeup ==
    /\ \A s \in asleep : ~MayTake(s, waiters)
    /\ \A s \in gated : GateShut(s)

\* A turn that waits is in its agent's rotation, once: a waiter missing from it could
\* never be its head, and would sleep for ever on the last idle slot.
WaitersEnrolled ==
    /\ \A s \in waiters : Enrolled(s)
    /\ \A a \in Agent : \A i, j \in DOMAIN rr[a] : rr[a][i] = rr[a][j] => i = j

\* The gate implements the slot pool.
Pool == INSTANCE SlotPool WITH holders <- acquired
ImplementsPool == Pool!Spec

\* `The last slot remains starvation-free': among the sessions of an agent, every
\* turn that waits for a slot gets one (or is cancelled), subagents excepted, which
\* yield to the others by design.
WaiterServed ==
    \A s \in Session \ Subagent : pc[s] = "waiting" ~> pc[s] # "waiting"

================================================================================
