--------------------------- MODULE MCChannelIngress ---------------------------
(* Instances of ChannelIngress for TLC: one run, several ways to spend the bounds. *)
EXTENDS ChannelIngress, TLC

CONSTANTS g1, g2, a, b

Limits == [k \in Limited |-> CASE k = "start" -> 3 [] k = "expiry" -> 1 [] OTHER -> 2]

\* Starts, expiries, deliveries of each event, faults.
Spends(starts, expiries, da, db, failing) ==
    /\ left = [k \in Limited |-> CASE k = "start" -> starts [] k = "expiry" -> expiries
                                   [] k = a -> da [] k = b -> db]
    /\ faults = failing

MCInit ==
    /\ \/ Spends(1, 0, 2, 0, 2)
       \/ Spends(2, 0, 1, 0, 1)
       \/ Spends(3, 0, 1, 0, 0)
       \/ Spends(2, 1, 2, 0, 0)
       \/ Spends(1, 0, 2, 1, 0)
    /\ Init

MCSpec == MCInit /\ [][Next]_vars /\ Fairness
===============================================================================
