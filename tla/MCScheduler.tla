------------------------------ MODULE MCScheduler ------------------------------
(* Instances of Scheduler for TLC: one run, several ways to spend the bounds. *)
EXTENDS Scheduler, TLC

CONSTANTS j1, j2, r1, r2, r3, m1, e1, e2

UsesOf == [j \in Job |-> IF j = j1 THEN {"pause", "resume", "at", "add", "delete"}
                                   ELSE Operation \ {"add"}]

\* The table, and how many edits, manual runs, restarts and failing writes there are.
Spends(table, edits, asks, crashes, faulty) ==
    /\ jobs = table
    /\ Cardinality({e \in Editor : edit[e] = Idle}) = edits
    /\ edit[e2] = Idle => edit[e1] = Idle
    /\ Cardinality({m \in Manual : manual[m] = "idle"}) = asks
    /\ MaxRestart - restarts = crashes /\ MaxFault - faults = faulty

MCInit ==
    /\ Init
    /\ \/ Spends({j1}, 2, 0, 0, 0)
       \/ Spends({j2}, 2, 0, 0, 0)
       \/ Spends({j2}, 1, 1, 0, 1)
       \/ Spends({j1}, 1, 1, 1, 1)
       \/ Spends({j1, j2}, 1, 0, 1, 0)

\* Two edits and a manual run of one job.
FenceSpec == Init /\ Spends({j1}, 2, 1, 0, 0) /\ [][Next]_vars

MCSpec == MCInit /\ [][Next]_vars /\ Fairness
================================================================================
