----------------------------- MODULE MCFairSlots -----------------------------
(* Two gates for TLC, one at a time: one that keeps a slot from its subagents, and  *)
(* one of a single slot, so that every grant is of the last slot.                  *)
EXTENDS FairSlots, TLC

CONSTANTS s1, s2, s3, s4, a1, a2

VARIABLES pcL, rejoinL, rrL, waitersL, acquiredL, inFlightL, asleepL, gatedL

last == <<pcL, rejoinL, rrL, waitersL, acquiredL, inFlightL, asleepL, gatedL>>

TwoAgents == [s \in Session |-> IF s \in {s1, s2} THEN a1 ELSE a2]

\* Three sessions of one agent.
Last == INSTANCE FairSlots WITH
    Session <- {s1, s2, s3}, Agent <- {a1}, AgentOf <- [s \in {s1, s2, s3} |-> a1],
    Subagent <- {}, MaxConcurrency <- 1, Reserved <- 0,
    pc <- pcL, rejoin <- rejoinL, rr <- rrL, waiters <- waitersL, acquired <- acquiredL,
    inFlight <- inFlightL, asleep <- asleepL, gated <- gatedL

\* One gate moves while no session has a turn at the other.
MCNext ==
    \/ (\A s \in DOMAIN pcL : pcL[s] = "idle") /\ Next /\ UNCHANGED last
    \/ (\A s \in Session : pc[s] = "idle") /\ Last!Next /\ UNCHANGED vars

MCInit == Init /\ Last!Init
MCSpec == MCInit /\ [][MCNext]_<<vars, last>> /\ Last!Fairness

\* `The last slot remains starvation-free' (_acquire_fair_slot): at a gate of one slot
\* every turn that waits gets it, or is cancelled.
LastSlotServed == Last!WaiterServed
==============================================================================
