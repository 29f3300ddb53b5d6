------------------------------- MODULE SlotPool -------------------------------
(***************************************************************************)
(* What the compute-slot gate of the turn runtime promises its lanes, and    *)
(* nothing of how it chooses between them: at most MaxConcurrency lanes hold *)
(* a slot, and a subagent lane never takes one of the last Reserved.         *)
(***************************************************************************)
EXTENDS Naturals, FiniteSets

CONSTANTS Session, Subagent, MaxConcurrency, Reserved

VARIABLE holders

Init == holders = {}

Acquire(s) ==
    /\ s \notin holders
    /\ Cardinality(holders) < MaxConcurrency
    /\ s \in Subagent => Cardinality(holders) + Reserved < MaxConcurrency
    /\ holders' = holders \union {s}

Release(s) ==
    /\ s \in holders
    /\ holders' = holders \ {s}

Next == \E s \in Session : Acquire(s) \/ Release(s)

Spec == Init /\ [][Next]_holders

================================================================================
