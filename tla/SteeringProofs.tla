---------------------------- MODULE SteeringProofs ----------------------------
(***************************************************************************)
(* Safety of steering for any turns, inputs and stops, whatever fails.       *)
(*                                                                           *)
(* GateHeld, Life, Claims and Places say who holds the locks, how a turn,    *)
(* its row and its handler's exit hang together, and where an input may be   *)
(* in each of its turn's places; the properties rest on them.                *)
(***************************************************************************)
EXTENDS Steering, FiniteSetTheorems, TLAPS

--------------------------------------------------------------------------------
(* Types *)

Disposition == {"none", "steering"} \union Final
Place == {"none", "admitting", "persisting", "pending", "claimed", "applied", "batch", "gone"}
Status == {"absent", "queued", "running"} \union EndedRow

\* Moving inputs changes those in the set.
LEMMA MoveType ==
    ASSUME TypeOK, NEW Q \in SUBSET Input, NEW p \in Place
    PROVE  /\ Move(Q, p) \in [Input -> Place]
           /\ \A i \in Input : Move(Q, p)[i] = IF i \in Q THEN p ELSE place[i]
  BY DEF TypeOK, Move, Place

\* Marking inputs changes those in the set.
LEMMA MarkType ==
    ASSUME TypeOK, NEW Q \in SUBSET Input, NEW d \in Disposition
    PROVE  /\ Mark(Q, d) \in [Input -> Disposition]
           /\ \A i \in Input : Mark(Q, d)[i] = IF i \in Q THEN d ELSE disp[i]
  BY DEF TypeOK, Mark, Disposition

\* The constants used as names are what they are.
LEMMA Names ==
    /\ \A p \in {"none", "admitting", "persisting", "pending", "claimed", "applied", "batch",
                 "gone"} : p \in Place
    /\ \A d \in {"none", "steering", "applied", "promoted", "cancelled", "rejected"} :
         d \in Disposition
    /\ \A s \in {"absent", "queued", "running", "succeeded", "failed", "cancelled",
                 "abandoned"} : s \in Status
    /\ 1 \in Turn
    /\ \A t \in Turn : t \notin Input \union Stop \union {Nobody}
    /\ \A i \in Input : i \notin Turn \union Stop \union {Nobody}
    /\ \A c \in Stop : c \notin Turn \union Input \union {Nobody}
PROOF
  <1>1. 1 \in Turn
    BY SteeringAssumption DEF Turn
  <1>2. /\ \A p \in {"none", "admitting", "persisting", "pending", "claimed", "applied",
                     "batch", "gone"} : p \in Place
        /\ \A d \in {"none", "steering", "applied", "promoted", "cancelled", "rejected"} :
             d \in Disposition
        /\ \A s \in {"absent", "queued", "running", "succeeded", "failed", "cancelled",
                     "abandoned"} : s \in Status
    BY DEF Place, Disposition, Status, Final, EndedRow
  <1>3. /\ \A t \in Turn : t \notin Input \union Stop \union {Nobody}
        /\ \A i \in Input : i \notin Turn \union Stop \union {Nobody}
        /\ \A c \in Stop : c \notin Turn \union Input \union {Nobody}
    BY SteeringAssumption
  <1> QED
    BY <1>1, <1>2, <1>3

\* The initial state is well typed.
LEMMA InitType == Init => TypeOK
PROOF
  <1> SUFFICES ASSUME Init PROVE TypeOK
    OBVIOUS
  <1>1. 1 \in Turn
    BY Names
  <1>2. 0 \in 0 .. MaxInterrupt /\ 0 \in 0 .. MaxCrash
    BY SteeringAssumption
  <1> QED
    BY <1>1, <1>2 DEF Init, TypeOK

\* Admission keeps the types.
LEMMA AdmissionTypes ==
    ASSUME TypeOK, NEW i \in Input, Steer(i) \/ AdmissionStep(i)
    PROVE  TypeOK'
PROOF
  <1>1. CASE Steer(i)
    BY <1>1 DEF Steer, TypeOK, turns, rows, signals, stops, counts
  <1>2. CASE Admit(i)
    BY <1>2 DEF Admit, TypeOK, turns, rows, signals, stops, counts
  <1>3. CASE PersistSteer(i)
    <2>1. "steering" \in Disposition /\ "pending" \in Place /\ "gone" \in Place
      BY Names
    <2>2. /\ disp \in [Input -> Disposition] /\ place \in [Input -> Place]
          /\ owner \in [Input -> Turn] /\ target[i] \in Turn
      BY DEF TypeOK, Disposition, Place
    <2>3. /\ [disp EXCEPT ![i] = "steering"] \in [Input -> Disposition]
          /\ [place EXCEPT ![i] = "pending"] \in [Input -> Place]
          /\ [place EXCEPT ![i] = "gone"] \in [Input -> Place]
          /\ [owner EXCEPT ![i] = target[i]] \in [Input -> Turn]
      BY <2>1, <2>2
    <2>4. disp' \in [Input -> Disposition] /\ owner' \in [Input -> Turn]
      BY <1>3, <2>2, <2>3 DEF PersistSteer
    <2>5. place' \in [Input -> Place]
      BY <1>3, <2>2, <2>3 DEF PersistSteer
    <2>6. claim' \in [Turn -> {Nobody} \union Turn \union Input \union Stop]
      BY <1>3 DEF PersistSteer, TypeOK
    <2> QED
      BY <1>3, <2>4, <2>5, <2>6
         DEF PersistSteer, TypeOK, Disposition, Place, turns, rows, signals, stops, counts
  <1> QED
    BY <1>1, <1>2, <1>3 DEF AdmissionStep

\* Sets of the inputs of a turn are sets of inputs, and so is what is written of them.
LEMMA InputSets ==
    /\ \A t, p : In(t, p) \in SUBSET Input
    /\ \A t : Undrained(t) \in SUBSET Input /\ Stranded(t) \in SUBSET Input
    /\ \A Q \in SUBSET Input : \A W \in Written(Q) : W \in SUBSET Input
  BY DEF In, Undrained, Stranded, Written

\* The terminal row of a turn is one of the statuses.
LEMMA TerminalType ==
    ASSUME TypeOK, NEW t \in Turn, SaveTerminal(t)
    PROVE  /\ row' \in [Turn -> {"absent", "queued", "running"} \union EndedRow]
           /\ userIntent' \subseteq Turn /\ evidence' \in [Turn -> SUBSET Input] /\ started' = started
           /\ row'[t] \in {"succeeded", "failed", "cancelled"}
PROOF
  <1>1. Outcome(t) \in {"succeeded", "failed", "cancelled"}
    BY DEF Outcome
  <1>2. In(t, "applied") \in SUBSET Input
    BY InputSets
  <1> QED
    BY <1>1, <1>2 DEF SaveTerminal, TypeOK, EndedRow

\* The steps of a running turn keep the types.
LEMMA DriverTypes ==
    ASSUME TypeOK, NEW t \in Turn, Drain(t) \/ HandlerEnds(t) \/ DriverStep(t)
    PROVE  TypeOK'
PROOF
  <1>1. CASE Drain(t)
    <2>1. place' \in [Input -> Place]
      BY <1>1, InputSets, MoveType, Names DEF Drain
    <2> QED
      BY <1>1, <2>1 DEF Drain, TypeOK, Place, turns, rows, signals, stops, counts
  <1>2. CASE HandlerEnds(t)
    BY <1>2 DEF HandlerEnds, TypeOK, rows, inputs, signals, stops, counts
  <1>3. CASE MarkApplied(t)
    <2>1. place' \in [Input -> Place]
      BY <1>3, InputSets, MoveType, Names DEF MarkApplied
    <2>2. seen' \in [Input -> SUBSET Turn]
      BY <1>3 DEF MarkApplied, TypeOK
    <2> QED
      BY <1>3, <2>1, <2>2 DEF MarkApplied, TypeOK, Place, turns, rows, signals, stops, counts
  <1>4. CASE RecordApplied(t)
    <2>1. PICK W \in Written(In(t, "applied")) : place' = Move(W, "gone") /\ disp' = Mark(W, "applied")
      BY <1>4 DEF RecordApplied
    <2>2. W \in SUBSET Input
      BY InputSets
    <2>3. place' \in [Input -> Place] /\ disp' \in [Input -> Disposition]
      BY <2>1, <2>2, MoveType, MarkType, Names
    <2> QED
      BY <1>4, <2>3 DEF RecordApplied, TypeOK, Place, Disposition, turns, rows, signals, stops, counts
  <1>5. CASE DeliverCancellation(t)
    <2>1. Stopped(t) \in {"user", "system"}
      BY DEF Stopped
    <2> QED
      BY <1>5, <2>1 DEF DeliverCancellation, TypeOK, rows, inputs, stops, counts
  <1>6. CASE RecordAtExit(t)
    <2> DEFINE recalled == IF exit[t] = "user" THEN Undrained(t) ELSE {}
    <2>1. PICK W \in Written(In(t, "applied")), C \in Written(recalled) :
             /\ place' = Move(W \union recalled, "gone")
             /\ disp' = [i \in Input |-> IF i \in W THEN "applied"
                                         ELSE IF i \in C THEN "cancelled" ELSE disp[i]]
      BY <1>6 DEF RecordAtExit
    <2>2. W \union recalled \in SUBSET Input
      BY InputSets
    <2>3. place' \in [Input -> Place]
      BY <2>1, <2>2, MoveType, Names
    <2>4. disp' \in [Input -> Disposition]
      BY <2>1, Names DEF TypeOK, Disposition
    <2> QED
      BY <1>6, <2>3, <2>4 DEF RecordAtExit, TypeOK, Place, Disposition, signals, stops, counts, rows
  <1>7. CASE StartFollowup(t)
    <2>1. seen' \in [Input -> SUBSET Turn]
      BY <1>7 DEF StartFollowup, TypeOK
    <2> QED
      BY <1>7, <2>1 DEF StartFollowup, TypeOK, signals, stops, counts
  <1> QED
    BY <1>1, <1>2, <1>3, <1>4, <1>5, <1>6, <1>7 DEF DriverStep

\* A promotion moves its batch.
LEMMA PromoteType ==
    ASSUME TypeOK, NEW Q \in SUBSET Input, NEW u \in Turn, Promote(Q, u)
    PROVE  /\ disp' \in [Input -> Disposition] /\ owner' \in [Input -> Turn]
           /\ row' \in [Turn -> {"absent", "queued", "running"} \union EndedRow]
           /\ UNCHANGED <<started, userIntent, evidence>>
           /\ \A i \in Input : /\ disp'[i] = IF i \in Q THEN "promoted" ELSE disp[i]
                               /\ owner'[i] = IF i \in Q THEN u ELSE owner[i]
           /\ row'[u] = "queued" /\ \A t \in Turn \ {u} : row'[t] = row[t]
PROOF
  <1>1. "promoted" \in Disposition /\ "gone" \in Place
    BY Names
  <1>2. /\ Mark(Q, "promoted") \in [Input -> Disposition]
        /\ \A i \in Input : Mark(Q, "promoted")[i] = IF i \in Q THEN "promoted" ELSE disp[i]
    BY <1>1, MarkType
  <1> QED
    BY <1>2 DEF Promote, TypeOK

\* The settlement keeps the types.
LEMMA SettlementTypes ==
    ASSUME TypeOK, NEW t \in Turn, SettlementStep(t) \/ RetryTerminal(t)
    PROVE  TypeOK'
PROOF
  <1>1. CASE ClaimSettlement(t)
    BY <1>1 DEF ClaimSettlement, TypeOK, rows, inputs, stops, counts
  <1>2. CASE PersistTerminal(t)
    <2> DEFINE batch == IF exit[t] = "user" THEN {} ELSE Undrained(t)
    <2>1. batch \in SUBSET Input
      BY InputSets
    <2>2. place' \in [Input -> Place]
      BY <1>2, <2>1, MoveType, Names DEF PersistTerminal
    <2>3. pc' = [pc EXCEPT ![t] = IF batch = {} THEN "finishing" ELSE "promoting"]
      BY <1>2 DEF PersistTerminal
    <2> QED
      BY <1>2, <2>2, <2>3, TerminalType DEF PersistTerminal, TypeOK, Place, signals, stops, counts
  <1>3. CASE TerminalWriteFails(t)
    BY <1>3 DEF TerminalWriteFails, TypeOK, rows, inputs, signals, stops, counts
  <1>4. CASE ReserveFollowup(t)
    BY <1>4 DEF ReserveFollowup, TypeOK, rows, inputs, signals, stops, counts
  <1>5. CASE RefuseFollowup(t)
    <2>1. PICK W \in Written(In(t, "batch")) : disp' = Mark(W, "rejected")
      BY <1>5 DEF RefuseFollowup
    <2>2. W \in SUBSET Input /\ In(t, "batch") \in SUBSET Input
      BY InputSets
    <2>3. place' \in [Input -> Place] /\ disp' \in [Input -> Disposition]
      BY <1>5, <2>1, <2>2, MoveType, MarkType, Names DEF RefuseFollowup
    <2> QED
      BY <1>5, <2>3 DEF RefuseFollowup, TypeOK, Place, Disposition, rows, signals, stops, counts
  <1>6. CASE CommitFollowup(t)
    <2>1. PICK u \in Reserved :
            \/ /\ Promote(In(t, "batch"), u)
               /\ pc' = [pc EXCEPT ![t] = "activating", ![u] = "durable"]
               /\ UNCHANGED <<place, gate>>
            \/ /\ pc' = [pc EXCEPT ![t] = "finishing", ![u] = "absent"]
               /\ place' = Move(In(t, "batch"), "gone")
               /\ gate' = Nobody
               /\ UNCHANGED <<disp, owner, rows>>
      BY <1>6 DEF CommitFollowup
    <2>2. u \in Turn /\ In(t, "batch") \in SUBSET Input
      BY InputSets DEF Reserved
    <2>3. CASE Promote(In(t, "batch"), u) /\ UNCHANGED <<place, gate>>
               /\ pc' = [pc EXCEPT ![t] = "activating", ![u] = "durable"]
      <3>1. /\ disp' \in [Input -> Disposition] /\ owner' \in [Input -> Turn]
            /\ row' \in [Turn -> {"absent", "queued", "running"} \union EndedRow]
            /\ UNCHANGED <<started, userIntent, evidence>>
        BY <2>2, <2>3, PromoteType
      <3>2. pc' \in [Turn -> {"absent", "reserved", "durable", "queued", "running", "unwinding",
                              "settling", "closing", "promoting", "accepting", "activating",
                              "finishing", "settled", "lost", "gone"}]
        BY <2>2, <2>3 DEF TypeOK
      <3> QED
        BY <1>6, <2>3, <3>1, <3>2 DEF CommitFollowup, TypeOK, Disposition, signals, stops, counts
    <2>4. CASE /\ pc' = [pc EXCEPT ![t] = "finishing", ![u] = "absent"]
               /\ place' = Move(In(t, "batch"), "gone") /\ gate' = Nobody
               /\ UNCHANGED <<disp, owner, rows>>
      <3>1. place' \in [Input -> Place]
        BY <2>2, <2>4, MoveType, Names
      <3> QED
        BY <1>6, <2>2, <2>4, <3>1 DEF CommitFollowup, TypeOK, Place, rows, signals, stops, counts
    <2> QED
      BY <2>1, <2>3, <2>4
  <1>7. CASE ActivateFollowup(t)
    <2>1. In(t, "batch") \in SUBSET Input /\ "gone" \in Place
      BY InputSets, Names
    <2>2. Move(In(t, "batch"), "gone") \in [Input -> Place]
      BY <2>1, MoveType
    <2>3. place' \in [Input -> Place]
      BY <1>7, <2>2 DEF ActivateFollowup
    <2> QED
      BY <1>7, <2>3 DEF ActivateFollowup, Reserved, TypeOK, Place, rows, signals, stops, counts
  <1>8. CASE FinishSettlement(t)
    <2>1. place' \in [Input -> Place]
      BY <1>8, InputSets, MoveType, Names DEF FinishSettlement
    <2> QED
      BY <1>8, <2>1 DEF FinishSettlement, TypeOK, Place, rows, signals, stops, counts
  <1>9. CASE RetryTerminal(t)
    BY <1>9, TerminalType DEF RetryTerminal, TypeOK, inputs, signals, stops, counts
  <1> QED
    BY <1>1, <1>2, <1>3, <1>4, <1>5, <1>6, <1>7, <1>8, <1>9 DEF SettlementStep

\* Stopping keeps the types.
LEMMA StopTypes ==
    ASSUME TypeOK, (\E c \in Stop : AskStop(c) \/ StopStep(c)) \/ Interrupt \/ Crash
    PROVE  TypeOK'
PROOF
  <1>1. ASSUME NEW c \in Stop, AskStop(c) PROVE TypeOK'
    <2>1. fence' \in [Stop -> SUBSET Turn] /\ aim' \in [Stop -> Turn]
      BY <1>1 DEF AskStop, TypeOK
    <2> QED
      BY <1>1, <2>1 DEF AskStop, TypeOK, turns, rows, inputs, signals, counts
  <1>2. ASSUME NEW c \in Stop, EnterGate(c) PROVE TypeOK'
    <2>1. fence' \in [Stop -> SUBSET Turn]
      BY <1>2 DEF EnterGate, TypeOK
    <2> QED
      BY <1>2, <2>1 DEF EnterGate, TypeOK, turns, rows, inputs, signals, counts
  <1>3. ASSUME NEW c \in Stop, FenceTurn(c) PROVE TypeOK'
    <2>1. claim' \in [Turn -> {Nobody} \union Turn \union Input \union Stop]
      BY <1>3 DEF FenceTurn, TypeOK
    <2> QED
      BY <1>3, <2>1 DEF FenceTurn, TypeOK, turns, rows, inputs, signals, stops, counts
  <1>4. ASSUME NEW c \in Stop, MarkStop(c) PROVE TypeOK'
    <2>1. cancelled' \subseteq Turn /\ byUser' \subseteq Turn
      BY <1>4 DEF MarkStop, TypeOK
    <2> QED
      BY <1>4, <2>1 DEF MarkStop, TypeOK, turns, rows, inputs, counts
  <1>5. ASSUME NEW c \in Stop, SignalStop(c) PROVE TypeOK'
    <2>1. /\ userIntent' \subseteq Turn /\ signalled' \subseteq Turn
          /\ claim' \in [Turn -> {Nobody} \union Turn \union Input \union Stop]
          /\ gate' \in {Nobody} \union Turn \union Stop
      BY <1>5 DEF SignalStop, TypeOK
    <2> QED
      BY <1>5, <2>1 DEF SignalStop, TypeOK, turns, inputs, counts
  <1>6. CASE Interrupt
    <2>1. interrupts' \in 0 .. MaxInterrupt
      BY <1>6, SteeringAssumption DEF Interrupt, TypeOK
    <2>2. cancelled' \subseteq Turn /\ byUser' \subseteq Turn /\ signalled' \subseteq Turn
      BY <1>6 DEF Interrupt, TypeOK
    <2> QED
      BY <1>6, <2>1, <2>2 DEF Interrupt, TypeOK, turns, rows, inputs, stops
  <1>7. CASE Crash
    <2>1. crashes' \in 0 .. MaxCrash
      BY <1>7, SteeringAssumption DEF Crash, TypeOK
    <2>2. row' \in [Turn -> {"absent", "queued", "running"} \union EndedRow]
      BY <1>7 DEF Crash, TypeOK, EndedRow
    <2>3. stop' \in [Stop -> {"idle", "gate", "fencing", "intent", "done", "lost"}]
      BY <1>7 DEF Crash, TypeOK
    <2>4. place' \in [Input -> Place]
      BY <1>7 DEF Crash, TypeOK, Place
    <2>5. pc' \in [Turn -> {"absent", "gone"}]
      BY <1>7 DEF Crash, TypeOK
    <2> QED
      BY <1>7, <2>1, <2>2, <2>3, <2>4, <2>5 DEF Crash, TypeOK, Place
  <1> QED
    BY <1>1, <1>2, <1>3, <1>4, <1>5, <1>6, <1>7 DEF StopStep

\* The recovery keeps the types.
LEMMA RecoveryTypes ==
    ASSUME TypeOK, NEW t \in Turn, RecoveryStep(t)
    PROVE  TypeOK'
PROOF
  <1>1. CASE ResumeFollowup(t)
    BY <1>1 DEF ResumeFollowup, TypeOK, inputs, signals, stops, counts
  <1>2. CASE CloseStranded(t)
    <2>1. disp' \in [Input -> Disposition]
      <3>1. Stranded(t) \in SUBSET Input /\ Stranded(t) \intersect evidence[t] \in SUBSET Input
        BY InputSets
      <3>2. "applied" \in Disposition /\ "cancelled" \in Disposition
        BY Names
      <3>3. /\ Mark(Stranded(t) \intersect evidence[t], "applied") \in [Input -> Disposition]
            /\ Mark(Stranded(t), "cancelled") \in [Input -> Disposition]
        BY <3>1, <3>2, MarkType
      <3> QED
        BY <1>2, <3>3 DEF CloseStranded
    <2> QED
      BY <1>2, <2>1 DEF CloseStranded, TypeOK, Disposition, turns, rows, signals, stops, counts
  <1>3. CASE PromoteStranded(t)
    <2>1. ASSUME NEW u \in Turn, Promote(Stranded(t), u), pc' = [pc EXCEPT ![u] = "queued"]
          PROVE  TypeOK'
      <3>1. /\ disp' \in [Input -> Disposition] /\ owner' \in [Input -> Turn]
            /\ row' \in [Turn -> {"absent", "queued", "running"} \union EndedRow]
            /\ UNCHANGED <<started, userIntent, evidence>>
        BY <2>1, InputSets, PromoteType
      <3> QED
        BY <1>3, <2>1, <3>1 DEF PromoteStranded, TypeOK, Disposition, signals, stops, counts
    <2>2. CASE disp' = Mark(Stranded(t), "rejected") /\ UNCHANGED <<owner, rows, pc>>
      <3>1. disp' \in [Input -> Disposition]
        BY <2>2, InputSets, MarkType, Names
      <3> QED
        BY <1>3, <2>2, <3>1 DEF PromoteStranded, TypeOK, Disposition, rows, signals, stops, counts
    <2> QED
      BY <1>3, <2>1, <2>2 DEF PromoteStranded
  <1> QED
    BY <1>1, <1>2, <1>3 DEF RecoveryStep

\* Every step keeps the types.
LEMMA TypeStep == ASSUME TypeOK, [Next]_vars PROVE TypeOK'
PROOF
  <1>1. CASE UNCHANGED vars
    BY <1>1 DEF TypeOK, vars, turns, rows, inputs, signals, stops, counts
  <1> QED
    BY <1>1, AdmissionTypes, DriverTypes, SettlementTypes, StopTypes, RecoveryTypes DEF Next

\* Type correctness of steering: turns, rows, inputs, locks and stops keep their shape
\* (task_runtime.py).
THEOREM TypeCorrect == Spec => []TypeOK
  BY InitType, TypeStep, PTL DEF Spec


--------------------------------------------------------------------------------
(* The admission gate *)

InGate == {"accepting", "activating", "reserved", "durable"}

\* A turn that admits its follow-up holds the gate, and there is a reserved turn only
\* then, one, as far as the admission has got.
GateHeld ==
    /\ \A t \in Turn : pc[t] \in {"accepting", "activating"} => gate = t
    /\ \A u \in Turn : pc[u] = "reserved" => gate \in Turn /\ pc[gate] = "accepting"
    /\ \A u \in Turn : pc[u] = "durable" => gate \in Turn /\ pc[gate] = "activating"
    /\ \A u \in Turn : \A v \in Turn : u \in Reserved /\ v \in Reserved => u = v

\* A turn that moves between places outside the gate leaves it as it is.
LEMMA GateUntouched ==
    ASSUME TypeOK, GateHeld, gate' = gate, NEW x \in Turn,
           pc[x] \notin InGate, pc'[x] \notin InGate,
           \A t \in Turn \ {x} : pc'[t] = pc[t]
    PROVE  GateHeld'
  BY DEF GateHeld, InGate, Reserved

\* The gate through the steps of a turn and of its driver.
LEMMA GateOfDriver ==
    ASSUME TypeOK, GateHeld, NEW t \in Turn,
           Drain(t) \/ HandlerEnds(t) \/ DriverStep(t)
    PROVE  GateHeld'
PROOF
  <1>1. CASE Drain(t) \/ MarkApplied(t) \/ RecordApplied(t)
    BY <1>1 DEF Drain, MarkApplied, RecordApplied, GateHeld, Reserved, turns
  <1>2. CASE HandlerEnds(t)
    BY <1>2, GateUntouched DEF HandlerEnds, Running, InGate, TypeOK
  <1>3. CASE DeliverCancellation(t)
    BY <1>3, GateUntouched DEF DeliverCancellation, InGate, TypeOK
  <1>4. CASE RecordAtExit(t)
    BY <1>4, GateUntouched DEF RecordAtExit, InGate, TypeOK
  <1>5. CASE StartFollowup(t)
    BY <1>5, GateUntouched DEF StartFollowup, InGate, TypeOK
  <1> QED
    BY <1>1, <1>2, <1>3, <1>4, <1>5 DEF DriverStep

\* The gate through the steps of a settlement.
LEMMA GateOfSettlement ==
    ASSUME TypeOK, GateHeld, NEW t \in Turn, SettlementStep(t) \/ RetryTerminal(t)
    PROVE  GateHeld'
PROOF
  <1>1. CASE ClaimSettlement(t)
    BY <1>1, GateUntouched DEF ClaimSettlement, InGate, TypeOK
  <1>2. CASE PersistTerminal(t)
    BY <1>2, GateUntouched DEF PersistTerminal, InGate, TypeOK
  <1>3. CASE TerminalWriteFails(t)
    BY <1>3, GateUntouched DEF TerminalWriteFails, InGate, TypeOK
  <1>4. CASE ReserveFollowup(t)
    <2>1. PICK u \in Turn : Fresh(u) /\ pc' = [pc EXCEPT ![t] = "accepting", ![u] = "reserved"]
      BY <1>4 DEF ReserveFollowup
    <2>2. Nobody \notin Turn
      BY SteeringAssumption
    <2>3. \A v \in Turn : pc[v] \notin InGate
      BY <1>4, <2>2 DEF ReserveFollowup, GateHeld, InGate
    <2>4. u # t /\ gate' = t
      BY <1>4, <2>1 DEF ReserveFollowup, Fresh
    <2>5. /\ pc'[t] = "accepting" /\ pc'[u] = "reserved"
          /\ \A v \in Turn \ {t, u} : pc'[v] \notin InGate
      BY <2>1, <2>3, <2>4 DEF TypeOK
    <2> QED
      BY <2>4, <2>5 DEF GateHeld, InGate, Reserved
  <1>5. CASE RefuseFollowup(t)
    BY <1>5, GateUntouched DEF RefuseFollowup, InGate, TypeOK
  <1>6. CASE CommitFollowup(t)
    <2>1. PICK u \in Reserved :
            \/ /\ pc' = [pc EXCEPT ![t] = "activating", ![u] = "durable"]
               /\ UNCHANGED gate
            \/ /\ pc' = [pc EXCEPT ![t] = "finishing", ![u] = "absent"]
               /\ gate' = Nobody
      BY <1>6 DEF CommitFollowup
    <2>2. u \in Turn /\ u # t /\ gate = t /\ pc[t] = "accepting"
      BY <1>6 DEF CommitFollowup, GateHeld, Reserved
    <2>3. \A v \in Turn \ {t, u} : pc[v] \notin InGate
      BY <2>1, <2>2 DEF GateHeld, InGate, Reserved
    <2>4. /\ \A v \in Turn \ {t, u} : pc'[v] \notin InGate
          /\ \/ pc'[t] = "activating" /\ pc'[u] = "durable" /\ gate' = t
             \/ pc'[t] = "finishing" /\ pc'[u] = "absent"
      BY <2>1, <2>2, <2>3 DEF TypeOK
    <2> QED
      BY <2>2, <2>4 DEF GateHeld, InGate, Reserved
  <1>7. CASE ActivateFollowup(t)
    <2>1. PICK u \in Reserved, p \in {"queued", "gone"} :
            pc' = [pc EXCEPT ![t] = "finishing", ![u] = p]
      BY <1>7 DEF ActivateFollowup
    <2>2. u \in Turn /\ u # t /\ gate = t /\ pc[t] = "activating"
      BY <1>7 DEF ActivateFollowup, GateHeld, Reserved
    <2>3. \A v \in Turn \ {t, u} : pc[v] \notin InGate
      BY <2>1, <2>2 DEF GateHeld, InGate, Reserved
    <2>4. \A v \in Turn : pc'[v] \notin InGate
      BY <2>1, <2>2, <2>3 DEF TypeOK, InGate
    <2> QED
      BY <2>4 DEF GateHeld, InGate, Reserved
  <1>8. CASE FinishSettlement(t)
    BY <1>8, GateUntouched DEF FinishSettlement, InGate, TypeOK
  <1>9. CASE RetryTerminal(t)
    BY <1>9 DEF RetryTerminal, GateHeld, Reserved
  <1> QED
    BY <1>1, <1>2, <1>3, <1>4, <1>5, <1>6, <1>7, <1>8, <1>9 DEF SettlementStep

\* The gate through the steps of a stop.
LEMMA GateOfStop ==
    ASSUME TypeOK, GateHeld, NEW c \in Stop, AskStop(c) \/ StopStep(c)
    PROVE  GateHeld'
PROOF
  <1>1. CASE AskStop(c) \/ FenceTurn(c) \/ MarkStop(c)
    BY <1>1 DEF AskStop, FenceTurn, MarkStop, GateHeld, Reserved, turns
  <1>2. CASE EnterGate(c)
    <2>1. \A v \in Turn : pc'[v] \notin InGate
      BY <1>2, SteeringAssumption DEF EnterGate, GateHeld, InGate, turns
    <2> QED
      BY <2>1 DEF GateHeld, InGate, Reserved
  <1>3. CASE SignalStop(c)
    <2>1. c \notin Turn /\ pc' = pc /\ gate' = IF gate = c THEN Nobody ELSE gate
      BY <1>3, Names DEF SignalStop, turns
    <2> QED
      BY <2>1 DEF GateHeld, InGate, Reserved
  <1> QED
    BY <1>1, <1>2, <1>3 DEF StopStep

\* The gate through a recovery.
LEMMA GateOfRecovery ==
    ASSUME TypeOK, GateHeld, NEW t \in Turn, RecoveryStep(t)
    PROVE  GateHeld'
PROOF
  <1>1. CASE ResumeFollowup(t)
    BY <1>1, GateUntouched DEF ResumeFollowup, InGate, TypeOK
  <1>2. CASE CloseStranded(t)
    BY <1>2 DEF CloseStranded, GateHeld, Reserved, turns
  <1>3. CASE PromoteStranded(t)
    <2>1. CASE UNCHANGED pc
      BY <1>3, <2>1 DEF PromoteStranded, GateHeld, Reserved
    <2>2. ASSUME NEW u \in Turn, Fresh(u), pc' = [pc EXCEPT ![u] = "queued"] PROVE GateHeld'
      BY <1>3, <2>2, GateUntouched DEF PromoteStranded, Fresh, InGate, TypeOK
    <2> QED
      BY <1>3, <2>1, <2>2 DEF PromoteStranded
  <1> QED
    BY <1>1, <1>2, <1>3 DEF RecoveryStep

\* The gate is held at first and at each step.
LEMMA GateInv ==
    /\ Init => GateHeld
    /\ TypeOK /\ GateHeld /\ [Next]_vars => GateHeld'
PROOF
  <1>1. Init => GateHeld
    BY DEF Init, GateHeld, Reserved
  <1>2. ASSUME TypeOK, GateHeld, [Next]_vars PROVE GateHeld'
    <2>1. CASE UNCHANGED vars
      BY <1>2, <2>1 DEF GateHeld, Reserved, vars, turns
    <2>2. ASSUME NEW i \in Input, Steer(i) \/ AdmissionStep(i) PROVE GateHeld'
      BY <1>2, <2>2 DEF AdmissionStep, Steer, Admit, PersistSteer, GateHeld, Reserved, turns
    <2>3. CASE Interrupt
      BY <1>2, <2>3 DEF Interrupt, GateHeld, Reserved, turns
    <2>4. CASE Crash
      BY <1>2, <2>4 DEF Crash, GateHeld, Reserved
    <2> QED
      BY <1>2, <2>1, <2>2, <2>3, <2>4, GateOfDriver, GateOfSettlement, GateOfStop,
         GateOfRecovery DEF Next
  <1> QED
    BY <1>1, <1>2


--------------------------------------------------------------------------------
(* The life of a turn *)

\* How the place of a turn, the exit of its handler, its row and its owed write hang
\* together.
LifeOf(t) ==
    /\ exit[t] = "none" <=> pc[t] \in {"absent", "reserved", "durable", "queued", "running", "gone"}
    /\ row[t] = "absent" <=> pc[t] \in {"absent", "reserved"}
    /\ row[t] \in EndedRow =>
         /\ pc[t] \in {"promoting", "accepting", "activating", "finishing", "settled", "gone"}
         /\ t \notin owed
    /\ pc[t] \in {"durable", "queued"} => row[t] = "queued"
    /\ t \in owed => pc[t] \in {"finishing", "settled"}
    /\ pc[t] = "gone" => row[t] \in {"queued"} \union EndedRow
    /\ \/ pc[t] \in {"running", "unwinding", "lost"}
       \/ pc[t] = "settling" /\ exit[t] \in {"ok", "error"}
       => t \in started

Life == \A t \in Turn : LifeOf(t)

\* A turn of which nothing changes keeps its life.
LEMMA LifeKept ==
    ASSUME TypeOK, NEW t \in Turn, LifeOf(t), exit'[t] = exit[t], pc'[t] = pc[t], row'[t] = row[t],
           t \in owed' <=> t \in owed, started \subseteq started'
    PROVE  LifeOf(t)'
  BY DEF LifeOf

\* The life of the turns through the steps of a driver.
LEMMA LifeOfDriver ==
    ASSUME TypeOK, Life, NEW t \in Turn, Drain(t) \/ HandlerEnds(t) \/ DriverStep(t)
    PROVE  Life'
PROOF
  <1>1. CASE Drain(t) \/ MarkApplied(t) \/ RecordApplied(t)
    BY <1>1 DEF Drain, MarkApplied, RecordApplied, Life, LifeOf, turns, rows
  <1>2. CASE HandlerEnds(t)
    <2>1. LifeOf(t)'
      BY <1>2 DEF HandlerEnds, Running, Life, LifeOf, TypeOK, rows
    <2>2. ASSUME NEW v \in Turn \ {t} PROVE LifeOf(v)'
      BY <1>2, LifeKept DEF HandlerEnds, Life, TypeOK, rows
    <2> QED
      BY <2>1, <2>2 DEF Life
  <1>3. CASE DeliverCancellation(t)
    <2>1. Stopped(t) \in {"user", "system"}
      BY DEF Stopped
    <2>2. LifeOf(t)'
      BY <1>3, <2>1 DEF DeliverCancellation, Life, LifeOf, TypeOK, EndedRow, rows
    <2>3. ASSUME NEW v \in Turn \ {t} PROVE LifeOf(v)'
      BY <1>3, LifeKept DEF DeliverCancellation, Life, TypeOK, rows
    <2> QED
      BY <2>2, <2>3 DEF Life
  <1>4. CASE RecordAtExit(t)
    <2>1. LifeOf(t)'
      BY <1>4 DEF RecordAtExit, Life, LifeOf, TypeOK, EndedRow, rows
    <2>2. ASSUME NEW v \in Turn \ {t} PROVE LifeOf(v)'
      BY <1>4, LifeKept DEF RecordAtExit, Life, TypeOK, rows
    <2> QED
      BY <2>1, <2>2 DEF Life
  <1>5. CASE StartFollowup(t)
    <2>1. LifeOf(t)'
      BY <1>5 DEF StartFollowup, Life, LifeOf, TypeOK, EndedRow
    <2>2. ASSUME NEW v \in Turn \ {t} PROVE LifeOf(v)'
      BY <1>5, LifeKept DEF StartFollowup, Life, TypeOK
    <2> QED
      BY <2>1, <2>2 DEF Life
  <1> QED
    BY <1>1, <1>2, <1>3, <1>4, <1>5 DEF DriverStep

\* A saved terminal row leaves the other turns alone.
LEMMA TerminalElsewhere ==
    ASSUME TypeOK, NEW t \in Turn, SaveTerminal(t), NEW v \in Turn \ {t}
    PROVE  /\ row'[v] = row[v] /\ evidence'[v] = evidence[v]
           /\ v \in userIntent' <=> v \in userIntent
  BY DEF SaveTerminal, TypeOK

\* The life of the turns through the steps of a settlement.
LEMMA LifeOfSettlement ==
    ASSUME TypeOK, GateHeld, Life, NEW t \in Turn, SettlementStep(t) \/ RetryTerminal(t)
    PROVE  Life'
PROOF
  <1>1. CASE ClaimSettlement(t)
    <2>1. LifeOf(t)'
      BY <1>1 DEF ClaimSettlement, Life, LifeOf, TypeOK, EndedRow, rows
    <2>2. ASSUME NEW v \in Turn \ {t} PROVE LifeOf(v)'
      BY <1>1, LifeKept DEF ClaimSettlement, Life, TypeOK, rows
    <2> QED
      BY <2>1, <2>2 DEF Life
  <1>2. CASE PersistTerminal(t)
    <2>1. /\ pc[t] = "closing" /\ SaveTerminal(t) /\ UNCHANGED <<exit, owed>>
          /\ pc'[t] \in {"finishing", "promoting"}
          /\ \A v \in Turn \ {t} : pc'[v] = pc[v]
      BY <1>2 DEF PersistTerminal, TypeOK
    <2>2. started' = started /\ row'[t] \in {"succeeded", "failed", "cancelled"}
      BY <2>1, TerminalType
    <2>3. LifeOf(t)'
      BY <2>1, <2>2 DEF Life, LifeOf, EndedRow
    <2>4. ASSUME NEW v \in Turn \ {t} PROVE LifeOf(v)'
      BY <2>1, <2>2, TerminalElsewhere, LifeKept DEF Life
    <2> QED
      BY <2>3, <2>4 DEF Life
  <1>3. CASE TerminalWriteFails(t)
    <2>1. LifeOf(t)'
      BY <1>3 DEF TerminalWriteFails, Life, LifeOf, TypeOK, EndedRow, rows
    <2>2. ASSUME NEW v \in Turn \ {t} PROVE LifeOf(v)'
      BY <1>3, LifeKept DEF TerminalWriteFails, Life, TypeOK, rows
    <2> QED
      BY <2>1, <2>2 DEF Life
  <1>4. CASE ReserveFollowup(t)
    <2>1. PICK u \in Turn : Fresh(u) /\ pc' = [pc EXCEPT ![t] = "accepting", ![u] = "reserved"]
      BY <1>4 DEF ReserveFollowup
    <2>2. u # t /\ pc'[t] = "accepting" /\ pc'[u] = "reserved" /\ pc[t] = "promoting" /\ pc[u] = "absent"
      BY <1>4, <2>1 DEF ReserveFollowup, Fresh, TypeOK
    <2>3. LifeOf(t)' /\ LifeOf(u)'
      BY <1>4, <2>2 DEF ReserveFollowup, Life, LifeOf, rows
    <2>4. ASSUME NEW v \in Turn \ {t, u} PROVE LifeOf(v)'
      BY <1>4, <2>1, LifeKept DEF ReserveFollowup, Life, TypeOK, rows
    <2> QED
      BY <2>3, <2>4 DEF Life
  <1>5. CASE RefuseFollowup(t)
    <2>1. LifeOf(t)'
      BY <1>5 DEF RefuseFollowup, Life, LifeOf, TypeOK, rows
    <2>2. ASSUME NEW v \in Turn \ {t} PROVE LifeOf(v)'
      BY <1>5, LifeKept DEF RefuseFollowup, Life, TypeOK, rows
    <2> QED
      BY <2>1, <2>2 DEF Life
  <1>6. CASE CommitFollowup(t)
    <2>1. PICK u \in Reserved :
            \/ /\ Promote(In(t, "batch"), u)
               /\ pc' = [pc EXCEPT ![t] = "activating", ![u] = "durable"]
            \/ /\ pc' = [pc EXCEPT ![t] = "finishing", ![u] = "absent"]
               /\ UNCHANGED <<owner, rows>>
      BY <1>6 DEF CommitFollowup
    <2>2. u \in Turn /\ u # t /\ pc[t] = "accepting" /\ pc[u] = "reserved"
      <3>1. pc[t] = "accepting" /\ gate = t /\ u \in Turn /\ pc[u] \in {"reserved", "durable"}
        BY <1>6 DEF CommitFollowup, GateHeld, Reserved
      <3> QED
        BY <3>1 DEF GateHeld
    <2>3. exit' = exit /\ owed' = owed
      BY <1>6 DEF CommitFollowup
    <2>4. CASE Promote(In(t, "batch"), u) /\ pc' = [pc EXCEPT ![t] = "activating", ![u] = "durable"]
      <3>1. row'[u] = "queued" /\ started' = started /\ \A v \in Turn \ {u} : row'[v] = row[v]
        <4>1. In(t, "batch") \in SUBSET Input
          BY InputSets
        <4> QED
          BY <2>2, <2>4, <4>1, PromoteType
      <3>2. /\ pc'[t] = "activating" /\ pc'[u] = "durable"
            /\ \A v \in Turn \ {t, u} : pc'[v] = pc[v]
        BY <2>2, <2>4 DEF TypeOK
      <3>3. LifeOf(t)' /\ LifeOf(u)'
        BY <2>2, <2>3, <3>1, <3>2 DEF Life, LifeOf, EndedRow
      <3>4. ASSUME NEW v \in Turn \ {t, u} PROVE LifeOf(v)'
        BY <2>3, <3>1, <3>2, LifeKept DEF Life
      <3> QED
        BY <3>3, <3>4 DEF Life
    <2>5. CASE pc' = [pc EXCEPT ![t] = "finishing", ![u] = "absent"] /\ UNCHANGED rows
      <3>1. /\ pc'[t] = "finishing" /\ pc'[u] = "absent"
            /\ \A v \in Turn \ {t, u} : pc'[v] = pc[v]
        BY <2>2, <2>5 DEF TypeOK
      <3>2. LifeOf(t)' /\ LifeOf(u)'
        BY <2>2, <2>3, <2>5, <3>1 DEF Life, LifeOf, rows
      <3>3. ASSUME NEW v \in Turn \ {t, u} PROVE LifeOf(v)'
        BY <2>3, <2>5, <3>1, LifeKept DEF Life, rows
      <3> QED
        BY <3>2, <3>3 DEF Life
    <2> QED
      BY <2>1, <2>4, <2>5
  <1>7. CASE ActivateFollowup(t)
    <2>1. PICK u \in Reserved, p \in {"queued", "gone"} :
            pc' = [pc EXCEPT ![t] = "finishing", ![u] = p]
      BY <1>7 DEF ActivateFollowup
    <2>2. u \in Turn /\ u # t /\ pc[t] = "activating" /\ pc[u] = "durable"
      BY <1>7 DEF ActivateFollowup, GateHeld, Reserved
    <2>3. /\ pc'[t] = "finishing" /\ pc'[u] \in {"queued", "gone"}
          /\ \A v \in Turn \ {t, u} : pc'[v] = pc[v]
      BY <2>1, <2>2 DEF TypeOK
    <2>4. exit' = exit /\ owed' = owed /\ UNCHANGED rows
      BY <1>7 DEF ActivateFollowup
    <2>5. LifeOf(t)' /\ LifeOf(u)'
      BY <2>2, <2>3, <2>4 DEF Life, LifeOf, rows, EndedRow
    <2>6. ASSUME NEW v \in Turn \ {t, u} PROVE LifeOf(v)'
      BY <2>3, <2>4, LifeKept DEF Life, rows
    <2> QED
      BY <2>5, <2>6 DEF Life
  <1>8. CASE FinishSettlement(t)
    <2>1. LifeOf(t)'
      BY <1>8 DEF FinishSettlement, Life, LifeOf, TypeOK, rows
    <2>2. ASSUME NEW v \in Turn \ {t} PROVE LifeOf(v)'
      BY <1>8, LifeKept DEF FinishSettlement, Life, TypeOK, rows
    <2> QED
      BY <2>1, <2>2 DEF Life
  <1>9. CASE RetryTerminal(t)
    <2>1. SaveTerminal(t) /\ t \in owed /\ owed' = owed \ {t} /\ UNCHANGED <<pc, exit>>
      BY <1>9 DEF RetryTerminal
    <2>2. started' = started /\ row'[t] \in {"succeeded", "failed", "cancelled"}
      BY <2>1, TerminalType
    <2>3. LifeOf(t)'
      BY <2>1, <2>2 DEF Life, LifeOf, EndedRow
    <2>4. ASSUME NEW v \in Turn \ {t} PROVE LifeOf(v)'
      BY <2>1, <2>2, TerminalElsewhere, LifeKept DEF Life
    <2> QED
      BY <2>3, <2>4 DEF Life
  <1> QED
    BY <1>1, <1>2, <1>3, <1>4, <1>5, <1>6, <1>7, <1>8, <1>9 DEF SettlementStep

\* The life of the turns through a recovery.
LEMMA LifeOfRecovery ==
    ASSUME TypeOK, Life, NEW t \in Turn, RecoveryStep(t)
    PROVE  Life'
PROOF
  <1>1. CASE ResumeFollowup(t)
    <2>1. LifeOf(t)'
      BY <1>1 DEF ResumeFollowup, Life, LifeOf, TypeOK, EndedRow
    <2>2. ASSUME NEW v \in Turn \ {t} PROVE LifeOf(v)'
      BY <1>1, LifeKept DEF ResumeFollowup, Life, TypeOK
    <2> QED
      BY <2>1, <2>2 DEF Life
  <1>2. CASE CloseStranded(t)
    BY <1>2 DEF CloseStranded, Life, LifeOf, turns, rows
  <1>3. CASE PromoteStranded(t)
    <2>1. CASE UNCHANGED <<rows, pc>>
      BY <1>3, <2>1 DEF PromoteStranded, Life, LifeOf, rows
    <2>2. ASSUME NEW u \in Turn, Fresh(u), Promote(Stranded(t), u), pc' = [pc EXCEPT ![u] = "queued"]
          PROVE  Life'
      <3>1. row'[u] = "queued" /\ started' = started /\ \A v \in Turn \ {u} : row'[v] = row[v]
        BY <2>2, InputSets, PromoteType
      <3>2. pc[u] = "absent" /\ pc'[u] = "queued" /\ \A v \in Turn \ {u} : pc'[v] = pc[v]
        BY <2>2 DEF TypeOK, Fresh
      <3>3. exit' = exit /\ owed' = owed
        BY <1>3 DEF PromoteStranded
      <3>4. LifeOf(u)'
        BY <3>1, <3>2, <3>3 DEF Life, LifeOf, EndedRow
      <3>5. ASSUME NEW v \in Turn \ {u} PROVE LifeOf(v)'
        BY <3>1, <3>2, <3>3, LifeKept DEF Life
      <3> QED
        BY <3>4, <3>5 DEF Life
    <2> QED
      BY <1>3, <2>1, <2>2 DEF PromoteStranded
  <1> QED
    BY <1>1, <1>2, <1>3 DEF RecoveryStep

\* The life of the turns at first and at each step.
LEMMA LifeInv ==
    /\ Init => Life
    /\ TypeOK /\ GateHeld /\ Life /\ [Next]_vars => Life'
PROOF
  <1>1. Init => Life
    BY DEF Init, Life, LifeOf, EndedRow
  <1>2. ASSUME TypeOK, GateHeld, Life, [Next]_vars PROVE Life'
    <2>1. CASE UNCHANGED vars
      BY <1>2, <2>1 DEF Life, LifeOf, vars, turns, rows
    <2>2. ASSUME NEW i \in Input, Steer(i) \/ AdmissionStep(i) PROVE Life'
      BY <1>2, <2>2 DEF AdmissionStep, Steer, Admit, PersistSteer, Life, LifeOf, turns, rows
    <2>3. ASSUME NEW c \in Stop, AskStop(c) \/ StopStep(c) PROVE Life'
      BY <1>2, <2>3 DEF StopStep, AskStop, EnterGate, FenceTurn, MarkStop, SignalStop,
                        Life, LifeOf, turns, rows
    <2>4. CASE Interrupt
      BY <1>2, <2>4 DEF Interrupt, Life, LifeOf, turns, rows
    <2>5. CASE Crash
      <3>1. ASSUME NEW t \in Turn PROVE LifeOf(t)'
        BY <1>2, <2>5 DEF Crash, Life, LifeOf, EndedRow, TypeOK
      <3> QED
        BY <3>1 DEF Life
    <2> QED
      BY <1>2, <2>1, <2>2, <2>3, <2>4, <2>5, LifeOfDriver, LifeOfSettlement,
         LifeOfRecovery DEF Next
  <1> QED
    BY <1>1, <1>2


--------------------------------------------------------------------------------
(* The claims of the turns *)

\* An admission that writes has the claim of a turn that its user has not stopped.
AdmissionClaims ==
    \A i \in Input : place[i] = "persisting" =>
        claim[target[i]] = i /\ target[i] \notin byUser /\ exit[target[i]] # "user"

\* A settlement has its own claim to the end.
SettlementClaims == \A t \in Turn : Settling(t) => claim[t] = t

\* A stop that writes its intent has the claims of all the turns it has frozen.
StopClaims == \A c \in Stop : stop[c] = "intent" => \A t \in fence[c] : claim[t] = c

Claims == AdmissionClaims /\ SettlementClaims /\ StopClaims /\ byUser \subseteq cancelled

\* The claims through the steps of an admission.
LEMMA ClaimsOfAdmission ==
    ASSUME TypeOK, Life, Claims, NEW i \in Input, Steer(i) \/ AdmissionStep(i)
    PROVE  Claims'
PROOF
  <1> USE DEF TypeOK
  <1>1. CASE Steer(i)
    BY <1>1 DEF Steer, Claims, AdmissionClaims, SettlementClaims, StopClaims, Settling,
                turns, signals, stops
  <1>2. CASE Admit(i)
    <2>1. CASE ~Steerable(target[i])
      BY <1>2, <2>1 DEF Admit, Claims, AdmissionClaims, SettlementClaims, StopClaims, Settling,
                        turns, signals, stops
    <2>2. CASE Steerable(target[i])
      <3> DEFINE t == target[i]
      <3>1. t \in Turn /\ t \notin byUser /\ exit[t] # "user" /\ claim[t] = Nobody
        BY <1>2, <2>2 DEF Admit, Steerable, Unfinished, Claims, Life, LifeOf
      <3>2. claim' = [claim EXCEPT ![t] = i] /\ place' = [place EXCEPT ![i] = "persisting"]
        BY <1>2, <2>2 DEF Admit
      <3>3. UNCHANGED <<pc, exit, byUser, cancelled, stop, fence, target>>
        BY <1>2 DEF Admit, turns, signals, stops
      <3>4. AdmissionClaims'
        <4> SUFFICES ASSUME NEW j \in Input, place'[j] = "persisting"
                     PROVE  claim'[target[j]] = j /\ target[j] \notin byUser /\ exit[target[j]] # "user"
          BY <3>3 DEF AdmissionClaims
        <4>1. CASE j = i
          BY <3>1, <3>2, <4>1
        <4>2. CASE j # i
          <5>1. place[j] = "persisting" /\ claim[target[j]] = j /\ target[j] \in Turn
            BY <3>2, <4>2 DEF Claims, AdmissionClaims
          <5>2. target[j] # t
            BY <3>1, <5>1, Names
          <5> QED
            BY <3>2, <5>1, <5>2 DEF Claims, AdmissionClaims
        <4> QED
          BY <4>1, <4>2
      <3>5. SettlementClaims'
        BY <3>1, <3>2, <3>3, Names DEF Claims, SettlementClaims, Settling
      <3>6. StopClaims'
        BY <3>1, <3>2, <3>3, Names DEF Claims, StopClaims
      <3> QED
        BY <3>3, <3>4, <3>5, <3>6 DEF Claims
    <2> QED
      BY <2>1, <2>2
  <1>3. CASE PersistSteer(i)
    <2> DEFINE t == target[i]
    <2>1. t \in Turn /\ claim[t] = i /\ claim' = [claim EXCEPT ![t] = Nobody]
      BY <1>3 DEF PersistSteer, Claims, AdmissionClaims
    <2>2. UNCHANGED <<pc, exit, byUser, cancelled, stop, fence, target>>
      BY <1>3 DEF PersistSteer, turns, signals, stops
    <2>3. place'[i] # "persisting" /\ \A j \in Input \ {i} : place'[j] = place[j]
      BY <1>3 DEF PersistSteer
    <2>4. AdmissionClaims'
      BY <2>1, <2>2, <2>3 DEF Claims, AdmissionClaims
    <2>5. SettlementClaims'
      BY <2>1, <2>2, Names DEF Claims, SettlementClaims, Settling
    <2>6. StopClaims'
      BY <2>1, <2>2, Names DEF Claims, StopClaims
    <2> QED
      BY <2>2, <2>4, <2>5, <2>6 DEF Claims
  <1> QED
    BY <1>1, <1>2, <1>3 DEF AdmissionStep

\* What leaves claims, stops and the stopped alone, makes no input persist and no turn
\* settle keeps the claims, unless a handler is left as stopped by its user.
LEMMA ClaimsKept ==
    ASSUME TypeOK, Claims, UNCHANGED <<claim, byUser, cancelled, stop, fence, target>>,
           \A i \in Input : place'[i] = "persisting" => place[i] = "persisting",
           \A t \in Turn : Settling(t)' => Settling(t),
           \A t \in Turn : exit'[t] = "user" => exit[t] = "user" \/ t \in byUser
    PROVE  Claims'
  BY DEF TypeOK, Claims, AdmissionClaims, SettlementClaims, StopClaims

\* Moving inputs makes none persist.
LEMMA MovePersists ==
    ASSUME TypeOK, NEW Q \in SUBSET Input, NEW p \in Place \ {"persisting"},
           place' = Move(Q, p)
    PROVE  \A i \in Input : place'[i] = "persisting" => place[i] = "persisting"
PROOF
  <1>1. \A i \in Input : Move(Q, p)[i] = IF i \in Q THEN p ELSE place[i]
    BY MoveType
  <1> QED
    BY <1>1

\* The claims through the steps of a driver.
LEMMA ClaimsOfDriver ==
    ASSUME TypeOK, Claims, NEW t \in Turn, Drain(t) \/ HandlerEnds(t) \/ DriverStep(t)
    PROVE  Claims'
PROOF
  <1>1. CASE Drain(t) \/ MarkApplied(t) \/ RecordApplied(t)
    <2>1. PICK Q \in SUBSET Input, p \in Place \ {"persisting"} : place' = Move(Q, p)
      <3>1. In(t, "pending") \in SUBSET Input /\ In(t, "claimed") \in SUBSET Input
        BY InputSets
      <3>2. \A W \in Written(In(t, "applied")) : W \in SUBSET Input
        BY InputSets
      <3>3. {"claimed", "applied", "gone"} \subseteq Place \ {"persisting"}
        BY DEF Place
      <3> QED
        BY <1>1, <3>1, <3>2, <3>3 DEF Drain, MarkApplied, RecordApplied
    <2>2. UNCHANGED <<pc, exit, claim, byUser, cancelled, stop, fence, target>>
      BY <1>1 DEF Drain, MarkApplied, RecordApplied, turns, signals, stops
    <2>3. \A v \in Turn : Settling(v)' => Settling(v)
      BY <2>2 DEF Settling
    <2> QED
      BY <2>1, <2>2, <2>3, MovePersists, ClaimsKept
  <1>2. CASE HandlerEnds(t)
    <2>1. \A v \in Turn : /\ Settling(v)' => Settling(v)
                          /\ exit'[v] = "user" => exit[v] = "user"
      BY <1>2 DEF HandlerEnds, Running, Settling, TypeOK
    <2> QED
      BY <1>2, <2>1, ClaimsKept DEF HandlerEnds, inputs, signals, stops
  <1>3. CASE DeliverCancellation(t)
    <2>1. \A v \in Turn : /\ Settling(v)' => Settling(v)
                          /\ exit'[v] = "user" => exit[v] = "user" \/ v \in byUser
      BY <1>3 DEF DeliverCancellation, Stopped, Settling, TypeOK
    <2> QED
      BY <1>3, <2>1, ClaimsKept DEF DeliverCancellation, inputs, stops
  <1>4. CASE RecordAtExit(t)
    <2> DEFINE recalled == IF exit[t] = "user" THEN Undrained(t) ELSE {}
    <2>1. PICK W \in Written(In(t, "applied")) : place' = Move(W \union recalled, "gone")
      BY <1>4 DEF RecordAtExit
    <2>2. W \union recalled \in SUBSET Input
      BY InputSets
    <2>3. \A i \in Input : place'[i] = "persisting" => place[i] = "persisting"
      BY <2>1, <2>2, MovePersists DEF Place
    <2>4. UNCHANGED <<exit, claim, byUser, cancelled, stop, fence, target>>
      BY <1>4 DEF RecordAtExit, signals, stops
    <2>5. \A v \in Turn : Settling(v)' => Settling(v)
      BY <1>4 DEF RecordAtExit, Settling, TypeOK
    <2> QED
      BY <2>3, <2>4, <2>5, ClaimsKept
  <1>5. CASE StartFollowup(t)
    <2>1. \A v \in Turn : Settling(v)' => Settling(v)
      BY <1>5 DEF StartFollowup, Settling, TypeOK
    <2> QED
      BY <1>5, <2>1, ClaimsKept DEF StartFollowup, signals, stops
  <1> QED
    BY <1>1, <1>2, <1>3, <1>4, <1>5 DEF DriverStep

\* The claims through the steps of a settlement.
LEMMA ClaimsOfSettlement ==
    ASSUME TypeOK, Claims, NEW t \in Turn, SettlementStep(t) \/ RetryTerminal(t)
    PROVE  Claims'
PROOF
  <1>1. CASE ClaimSettlement(t)
    <2>1. /\ claim[t] = Nobody /\ claim' = [claim EXCEPT ![t] = t]
          /\ pc' = [pc EXCEPT ![t] = "closing"]
          /\ UNCHANGED <<exit, byUser, cancelled, stop, fence, target, place>>
      BY <1>1 DEF ClaimSettlement, inputs, stops
    <2>2. AdmissionClaims'
      BY <2>1, Names DEF Claims, AdmissionClaims, TypeOK
    <2>3. SettlementClaims'
      BY <2>1 DEF Claims, SettlementClaims, Settling, TypeOK
    <2>4. StopClaims'
      BY <2>1, Names DEF Claims, StopClaims, TypeOK
    <2> QED
      BY <2>1, <2>2, <2>3, <2>4 DEF Claims
  <1>2. CASE PersistTerminal(t)
    <2>1. (IF exit[t] = "user" THEN {} ELSE Undrained(t)) \in SUBSET Input
      BY InputSets
    <2>2. \A i \in Input : place'[i] = "persisting" => place[i] = "persisting"
      BY <1>2, <2>1, MovePersists DEF PersistTerminal, Place
    <2>3. \A v \in Turn : Settling(v)' => Settling(v)
      BY <1>2 DEF PersistTerminal, Settling, TypeOK
    <2> QED
      BY <1>2, <2>2, <2>3, ClaimsKept DEF PersistTerminal, signals, stops
  <1>3. CASE TerminalWriteFails(t)
    <2>1. \A v \in Turn : Settling(v)' => Settling(v)
      BY <1>3 DEF TerminalWriteFails, Settling, TypeOK
    <2> QED
      BY <1>3, <2>1, ClaimsKept DEF TerminalWriteFails, inputs, signals, stops
  <1>4. CASE ReserveFollowup(t)
    <2>1. \A v \in Turn : Settling(v)' => Settling(v)
      BY <1>4 DEF ReserveFollowup, Settling, Fresh, TypeOK
    <2> QED
      BY <1>4, <2>1, ClaimsKept DEF ReserveFollowup, inputs, signals, stops
  <1>5. CASE RefuseFollowup(t)
    <2>1. In(t, "batch") \in SUBSET Input
      BY InputSets
    <2>2. \A i \in Input : place'[i] = "persisting" => place[i] = "persisting"
      BY <1>5, <2>1, MovePersists DEF RefuseFollowup, Place
    <2>3. \A v \in Turn : Settling(v)' => Settling(v)
      BY <1>5 DEF RefuseFollowup, Settling, TypeOK
    <2> QED
      BY <1>5, <2>2, <2>3, ClaimsKept DEF RefuseFollowup, signals, stops
  <1>6. CASE CommitFollowup(t)
    <2>1. In(t, "batch") \in SUBSET Input
      BY InputSets
    <2>2. \A i \in Input : place'[i] = "persisting" => place[i] = "persisting"
      <3>1. place' = place \/ place' = Move(In(t, "batch"), "gone")
        BY <1>6 DEF CommitFollowup
      <3> QED
        BY <2>1, <3>1, MovePersists DEF Place
    <2>3. \A v \in Turn : Settling(v)' => Settling(v)
      BY <1>6 DEF CommitFollowup, Settling, Reserved, TypeOK
    <2> QED
      BY <1>6, <2>2, <2>3, ClaimsKept DEF CommitFollowup, signals, stops
  <1>7. CASE ActivateFollowup(t)
    <2>1. In(t, "batch") \in SUBSET Input
      BY InputSets
    <2>2. \A i \in Input : place'[i] = "persisting" => place[i] = "persisting"
      BY <1>7, <2>1, MovePersists DEF ActivateFollowup, Place
    <2>3. \A v \in Turn : Settling(v)' => Settling(v)
      BY <1>7 DEF ActivateFollowup, Settling, Reserved, TypeOK
    <2> QED
      BY <1>7, <2>2, <2>3, ClaimsKept DEF ActivateFollowup, signals, stops
  <1>8. CASE FinishSettlement(t)
    <2>1. /\ pc[t] = "finishing" /\ claim' = [claim EXCEPT ![t] = Nobody]
          /\ pc' = [pc EXCEPT ![t] = "settled"] /\ place' = Move(Undrained(t), "gone")
          /\ UNCHANGED <<exit, byUser, cancelled, stop, fence, target>>
      BY <1>8 DEF FinishSettlement, signals, stops
    <2>2. claim[t] = t
      BY <2>1 DEF Claims, SettlementClaims, Settling
    <2>3. \A i \in Input : place'[i] = "persisting" => place[i] = "persisting"
      BY <2>1, InputSets, MovePersists DEF Place
    <2>4. AdmissionClaims'
      BY <2>1, <2>2, <2>3, Names DEF Claims, AdmissionClaims, TypeOK
    <2>5. SettlementClaims'
      BY <2>1 DEF Claims, SettlementClaims, Settling, TypeOK
    <2>6. StopClaims'
      BY <2>1, <2>2, Names DEF Claims, StopClaims, TypeOK
    <2> QED
      BY <2>1, <2>4, <2>5, <2>6 DEF Claims
  <1>9. CASE RetryTerminal(t)
    <2>1. \A v \in Turn : Settling(v)' => Settling(v)
      BY <1>9 DEF RetryTerminal, Settling
    <2> QED
      BY <1>9, <2>1, ClaimsKept DEF RetryTerminal, inputs, signals, stops
  <1> QED
    BY <1>1, <1>2, <1>3, <1>4, <1>5, <1>6, <1>7, <1>8, <1>9 DEF SettlementStep

\* The claims through the steps of a stop.
LEMMA ClaimsOfStop ==
    ASSUME TypeOK, Claims, NEW c \in Stop, AskStop(c) \/ StopStep(c)
    PROVE  Claims'
PROOF
  <1>1. CASE AskStop(c)
    BY <1>1 DEF AskStop, Claims, AdmissionClaims, SettlementClaims, StopClaims, Settling, TypeOK,
                turns, inputs, signals
  <1>2. CASE EnterGate(c)
    BY <1>2 DEF EnterGate, Claims, AdmissionClaims, SettlementClaims, StopClaims, Settling, TypeOK,
                turns, inputs, signals
  <1>3. CASE FenceTurn(c)
    <2>1. PICK t \in Turn : claim[t] = Nobody /\ claim' = [claim EXCEPT ![t] = c]
      BY <1>3 DEF FenceTurn, TypeOK
    <2>2. UNCHANGED <<pc, exit, place, target, byUser, cancelled, stop, fence>>
      BY <1>3 DEF FenceTurn, turns, inputs, signals, stops
    <2>3. AdmissionClaims'
      BY <2>1, <2>2, Names DEF Claims, AdmissionClaims, TypeOK
    <2>4. SettlementClaims'
      BY <2>1, <2>2, Names DEF Claims, SettlementClaims, Settling, TypeOK
    <2>5. StopClaims'
      BY <2>1, <2>2, Names DEF Claims, StopClaims, TypeOK
    <2> QED
      BY <2>2, <2>3, <2>4, <2>5 DEF Claims
  <1>4. CASE MarkStop(c)
    <2> DEFINE live == {t \in fence[c] : Registered(t) /\ Unfinished(t)}
    <2>1. /\ cancelled' = cancelled \union live /\ byUser' = byUser \union live
          /\ stop' = [stop EXCEPT ![c] = "intent"]
          /\ fence' = [fence EXCEPT ![c] = live]
          /\ UNCHANGED <<pc, exit, place, target, claim>>
      BY <1>4 DEF MarkStop, turns, inputs
    <2>2. \A t \in fence[c] : claim[t] = c
      BY <1>4 DEF MarkStop, Fenced
    <2>3. AdmissionClaims'
      BY <2>1, <2>2, Names DEF Claims, AdmissionClaims, TypeOK
    <2>4. SettlementClaims'
      BY <2>1 DEF Claims, SettlementClaims, Settling
    <2>5. StopClaims'
      BY <2>1, <2>2 DEF Claims, StopClaims, TypeOK
    <2> QED
      BY <2>1, <2>3, <2>4, <2>5 DEF Claims
  <1>5. CASE SignalStop(c)
    <2>1. /\ claim' = [t \in Turn |-> IF claim[t] = c THEN Nobody ELSE claim[t]]
          /\ stop' = [stop EXCEPT ![c] = "done"]
          /\ UNCHANGED <<pc, exit, place, target, cancelled, byUser, fence>>
      BY <1>5 DEF SignalStop, turns, inputs
    <2>2. AdmissionClaims'
      BY <2>1, Names DEF Claims, AdmissionClaims, TypeOK
    <2>3. SettlementClaims'
      BY <2>1, Names DEF Claims, SettlementClaims, Settling, TypeOK
    <2>4. StopClaims'
      BY <2>1, Names DEF Claims, StopClaims, TypeOK
    <2> QED
      BY <2>1, <2>2, <2>3, <2>4 DEF Claims
  <1> QED
    BY <1>1, <1>2, <1>3, <1>4, <1>5 DEF StopStep

\* The claims through a recovery.
LEMMA ClaimsOfRecovery ==
    ASSUME TypeOK, Claims, NEW t \in Turn, RecoveryStep(t)
    PROVE  Claims'
PROOF
  <1>1. CASE ResumeFollowup(t)
    <2>1. \A v \in Turn : Settling(v)' => Settling(v)
      BY <1>1 DEF ResumeFollowup, Settling, TypeOK
    <2> QED
      BY <1>1, <2>1, ClaimsKept DEF ResumeFollowup, inputs, signals, stops
  <1>2. CASE CloseStranded(t)
    <2>1. \A v \in Turn : Settling(v)' => Settling(v)
      BY <1>2 DEF CloseStranded, Settling, turns
    <2> QED
      BY <1>2, <2>1, ClaimsKept DEF CloseStranded, turns, signals, stops
  <1>3. CASE PromoteStranded(t)
    <2>1. \A v \in Turn : Settling(v)' => Settling(v)
      BY <1>3 DEF PromoteStranded, Settling, TypeOK
    <2> QED
      BY <1>3, <2>1, ClaimsKept DEF PromoteStranded, signals, stops
  <1> QED
    BY <1>1, <1>2, <1>3 DEF RecoveryStep

\* The claims at first and at each step.
LEMMA ClaimsInv ==
    /\ Init => Claims
    /\ TypeOK /\ Life /\ Claims /\ [Next]_vars => Claims'
PROOF
  <1>1. Init => Claims
    BY DEF Init, Claims, AdmissionClaims, SettlementClaims, StopClaims, Settling
  <1>2. ASSUME TypeOK, Life, Claims, [Next]_vars PROVE Claims'
    <2>1. CASE UNCHANGED vars
      BY <1>2, <2>1 DEF Claims, AdmissionClaims, SettlementClaims, StopClaims, Settling,
                        vars, turns, inputs, signals, stops
    <2>2. CASE Interrupt
      BY <1>2, <2>2 DEF Interrupt, Claims, AdmissionClaims, SettlementClaims, StopClaims, Settling,
                        turns, inputs, stops
    <2>3. CASE Crash
      BY <1>2, <2>3 DEF Crash, Claims, AdmissionClaims, SettlementClaims, StopClaims, Settling, TypeOK
    <2> QED
      BY <1>2, <2>1, <2>2, <2>3, ClaimsOfAdmission, ClaimsOfDriver, ClaimsOfSettlement,
         ClaimsOfStop, ClaimsOfRecovery DEF Next
  <1> QED
    BY <1>1, <1>2


--------------------------------------------------------------------------------
(* The batch of a stop *)

Alive == {"queued", "running", "unwinding", "settling", "lost"}

\* What a stop has marked does not settle before the stop has signalled it.
Marked == \A c \in Stop : stop[c] = "intent" => \A t \in fence[c] : pc[t] \in Alive

\* A turn whose claim is taken does not begin its settlement.
LEMMA StayingAlive ==
    ASSUME TypeOK, [Next]_vars, ~Crash, NEW t \in Turn, pc[t] \in Alive, claim[t] # Nobody
    PROVE  pc'[t] \in Alive
PROOF
  <1>1. CASE pc' = pc
    BY <1>1
  <1>2. ASSUME NEW v \in Turn, \/ HandlerEnds(v) \/ DeliverCancellation(v) \/ RecordAtExit(v)
                               \/ StartFollowup(v)
        PROVE  pc'[t] \in Alive
    <2>1. \E p \in Alive : pc' = [pc EXCEPT ![v] = p]
      BY <1>2 DEF HandlerEnds, DeliverCancellation, RecordAtExit, StartFollowup, Alive
    <2> QED
      BY <2>1 DEF TypeOK
  <1>3. ASSUME NEW v \in Turn, \/ ClaimSettlement(v) \/ PersistTerminal(v) \/ TerminalWriteFails(v)
                               \/ FinishSettlement(v) \/ RefuseFollowup(v)
        PROVE  pc'[t] \in Alive
    <2>1. v # t /\ \E p : pc' = [pc EXCEPT ![v] = p]
      BY <1>3 DEF ClaimSettlement, PersistTerminal, TerminalWriteFails, FinishSettlement,
                  RefuseFollowup, Alive
    <2> QED
      BY <2>1 DEF TypeOK
  <1>4. ASSUME NEW v \in Turn, ReserveFollowup(v) \/ CommitFollowup(v) \/ ActivateFollowup(v)
        PROVE  pc'[t] \in Alive
    <2>1. v # t /\ \E u \in Turn \ {t} : \E p, q : pc' = [pc EXCEPT ![v] = p, ![u] = q]
      BY <1>4 DEF ReserveFollowup, CommitFollowup, ActivateFollowup, Fresh, Reserved, Alive
    <2> QED
      BY <2>1 DEF TypeOK
  <1>5. ASSUME NEW v \in Turn, ResumeFollowup(v) \/ PromoteStranded(v) PROVE pc'[t] \in Alive
    <2>1. pc' = pc \/ \E u \in Turn : pc' = [pc EXCEPT ![u] = "queued"]
      BY <1>5 DEF ResumeFollowup, PromoteStranded
    <2> QED
      BY <2>1 DEF TypeOK, Alive
  <1>6. \/ pc' = pc
        \/ \E v \in Turn : \/ HandlerEnds(v) \/ DeliverCancellation(v) \/ RecordAtExit(v)
                           \/ StartFollowup(v) \/ ClaimSettlement(v) \/ TerminalWriteFails(v)
                           \/ FinishSettlement(v) \/ RefuseFollowup(v) \/ ResumeFollowup(v)
                           \/ ReserveFollowup(v) \/ CommitFollowup(v) \/ ActivateFollowup(v)
                           \/ PromoteStranded(v) \/ PersistTerminal(v)
    BY DEF Next, vars, turns, AdmissionStep, DriverStep, SettlementStep, StopStep, RecoveryStep,
           Steer, Admit, PersistSteer, Drain, MarkApplied, RecordApplied, RetryTerminal, AskStop,
           EnterGate, FenceTurn, MarkStop, SignalStop, Interrupt, CloseStranded
  <1> QED
    BY <1>1, <1>2, <1>3, <1>4, <1>5, <1>6

\* A stop that writes its intent has just marked its batch, or had marked it before.
LEMMA BatchFixed ==
    ASSUME TypeOK, [Next]_vars, ~Crash, NEW c \in Stop, stop'[c] = "intent"
    PROVE  \/ stop[c] = "intent" /\ fence'[c] = fence[c]
           \/ MarkStop(c) /\ fence'[c] = {t \in fence[c] : Registered(t) /\ Unfinished(t)}
PROOF
  <1>1. CASE UNCHANGED stops
    BY <1>1 DEF stops
  <1>2. ASSUME NEW d \in Stop, AskStop(d) \/ EnterGate(d) \/ FenceTurn(d) \/ SignalStop(d)
        PROVE  stop[c] = "intent" /\ fence'[c] = fence[c]
    BY <1>2 DEF AskStop, EnterGate, FenceTurn, SignalStop, stops, TypeOK
  <1>3. ASSUME NEW d \in Stop, MarkStop(d)
        PROVE  \/ stop[c] = "intent" /\ fence'[c] = fence[c]
               \/ MarkStop(c) /\ fence'[c] = {t \in fence[c] : Registered(t) /\ Unfinished(t)}
    BY <1>3 DEF MarkStop, TypeOK
  <1>4. UNCHANGED stops \/ \E d \in Stop : AskStop(d) \/ StopStep(d)
    BY DEF Next, vars, AdmissionStep, DriverStep, SettlementStep, RecoveryStep,
           Steer, Admit, PersistSteer, Drain, HandlerEnds, MarkApplied, RecordApplied,
           DeliverCancellation, RecordAtExit, StartFollowup, ClaimSettlement,
           PersistTerminal, TerminalWriteFails, ReserveFollowup, RefuseFollowup,
           CommitFollowup, ActivateFollowup, FinishSettlement, RetryTerminal, Interrupt,
           ResumeFollowup, CloseStranded, PromoteStranded
  <1> QED
    BY <1>1, <1>2, <1>3, <1>4 DEF StopStep

\* The batches of the stops at first and at each step.
LEMMA MarkedInv ==
    /\ Init => Marked
    /\ TypeOK /\ Claims /\ Marked /\ [Next]_vars => Marked'
PROOF
  <1>1. Init => Marked
    BY DEF Init, Marked
  <1>2. ASSUME TypeOK, Claims, Marked, [Next]_vars, NEW c \in Stop, stop'[c] = "intent",
               NEW t \in fence'[c]
        PROVE  pc'[t] \in Alive
    <2>1. ~Crash
      BY <1>2 DEF Crash, TypeOK
    <2>2. CASE stop[c] = "intent" /\ fence'[c] = fence[c]
      <3>1. t \in Turn /\ pc[t] \in Alive /\ claim[t] = c
        BY <1>2, <2>2 DEF Marked, Claims, StopClaims, TypeOK
      <3> QED
        BY <1>2, <2>1, <3>1, Names, StayingAlive
    <2>3. CASE MarkStop(c) /\ fence'[c] = {v \in fence[c] : Registered(v) /\ Unfinished(v)}
      BY <1>2, <2>3 DEF MarkStop, Unfinished, Alive, turns
    <2> QED
      BY <1>2, <2>1, <2>2, <2>3, BatchFixed
  <1> QED
    BY <1>1, <1>2 DEF Marked

--------------------------------------------------------------------------------
(* The places of the inputs *)

\* Places of a turn that holds no inputs.
Empty == {"absent", "reserved", "durable", "queued", "gone"}

Held == {"persisting", "pending", "claimed", "applied", "batch"}

\* What a step without a restart does to turns: none becomes empty again, none that has
\* ended is revived unless it never started, and none forgets that it did.
TurnsAdvance ==
    /\ \A t \in Turn : pc'[t] \in Empty => pc[t] \in Empty
    /\ \A t \in Turn : row[t] \in EndedRow /\ row'[t] \notin EndedRow =>
                           pc[t] = "gone" /\ t \notin started
    /\ started \subseteq started'

\* Turns advance in the steps of a driver.
LEMMA DriverAdvances ==
    ASSUME TypeOK, Life, NEW t \in Turn, Drain(t) \/ HandlerEnds(t) \/ DriverStep(t)
    PROVE  TurnsAdvance
PROOF
  <1>1. CASE Drain(t) \/ MarkApplied(t) \/ RecordApplied(t)
    BY <1>1 DEF Drain, MarkApplied, RecordApplied, TurnsAdvance, turns, rows
  <1>2. CASE HandlerEnds(t)
    BY <1>2 DEF HandlerEnds, TurnsAdvance, Empty, TypeOK, rows
  <1>3. CASE DeliverCancellation(t)
    BY <1>3 DEF DeliverCancellation, TurnsAdvance, Empty, TypeOK, rows
  <1>4. CASE RecordAtExit(t)
    BY <1>4 DEF RecordAtExit, TurnsAdvance, Empty, TypeOK, rows
  <1>5. CASE StartFollowup(t)
    BY <1>5 DEF StartFollowup, TurnsAdvance, Empty, EndedRow, TypeOK, Life, LifeOf
  <1> QED
    BY <1>1, <1>2, <1>3, <1>4, <1>5 DEF DriverStep

\* Turns advance in the steps of a settlement.
LEMMA SettlementAdvances ==
    ASSUME TypeOK, GateHeld, Life, NEW t \in Turn, SettlementStep(t) \/ RetryTerminal(t)
    PROVE  TurnsAdvance
PROOF
  <1>1. CASE ClaimSettlement(t) \/ TerminalWriteFails(t)
    BY <1>1 DEF ClaimSettlement, TerminalWriteFails, TurnsAdvance, Empty, TypeOK, rows
  <1>2. CASE PersistTerminal(t)
    <2>1. \A v \in Turn : pc'[v] \in Empty => pc[v] \in Empty
      BY <1>2 DEF PersistTerminal, Empty, TypeOK
    <2>2. SaveTerminal(t)
      BY <1>2 DEF PersistTerminal
    <2> QED
      BY <2>1, <2>2, TerminalType, TerminalElsewhere DEF TurnsAdvance, EndedRow
  <1>3. CASE ReserveFollowup(t)
    BY <1>3 DEF ReserveFollowup, Fresh, TurnsAdvance, Empty, TypeOK, rows
  <1>4. CASE RefuseFollowup(t) \/ FinishSettlement(t)
    BY <1>4 DEF RefuseFollowup, FinishSettlement, TurnsAdvance, Empty, TypeOK, rows
  <1>5. CASE CommitFollowup(t)
    <2>1. PICK u \in Reserved :
            \/ /\ Promote(In(t, "batch"), u)
               /\ pc' = [pc EXCEPT ![t] = "activating", ![u] = "durable"]
            \/ /\ pc' = [pc EXCEPT ![t] = "finishing", ![u] = "absent"]
               /\ UNCHANGED <<owner, rows>>
      BY <1>5 DEF CommitFollowup
    <2>2. u \in Turn /\ pc[u] \in {"reserved", "durable"}
      BY DEF Reserved
    <2>3. \A v \in Turn : pc'[v] \in Empty => pc[v] \in Empty
      BY <2>1, <2>2 DEF Empty, TypeOK
    <2>4. \/ UNCHANGED rows
          \/ started' = started /\ \A v \in Turn \ {u} : row'[v] = row[v]
      <3>1. In(t, "batch") \in SUBSET Input
        BY InputSets
      <3>2. CASE Promote(In(t, "batch"), u)
        BY <2>2, <3>1, <3>2, PromoteType
      <3> QED
        BY <2>1, <3>2
    <2>5. row[u] \notin EndedRow
      BY <2>2 DEF Life, LifeOf
    <2> QED
      BY <2>3, <2>4, <2>5 DEF TurnsAdvance, rows
  <1>6. CASE ActivateFollowup(t)
    BY <1>6 DEF ActivateFollowup, Reserved, TurnsAdvance, Empty, TypeOK, rows
  <1>7. CASE RetryTerminal(t)
    <2>1. SaveTerminal(t) /\ pc' = pc
      BY <1>7 DEF RetryTerminal
    <2> QED
      BY <2>1, TerminalType, TerminalElsewhere DEF TurnsAdvance, EndedRow
  <1> QED
    BY <1>1, <1>2, <1>3, <1>4, <1>5, <1>6, <1>7 DEF SettlementStep

\* Turns advance in a recovery.
LEMMA RecoveryAdvances ==
    ASSUME TypeOK, Life, NEW t \in Turn, RecoveryStep(t)
    PROVE  TurnsAdvance
PROOF
  <1>1. CASE ResumeFollowup(t)
    BY <1>1 DEF ResumeFollowup, TurnsAdvance, Empty, TypeOK
  <1>2. CASE CloseStranded(t)
    BY <1>2 DEF CloseStranded, TurnsAdvance, turns, rows
  <1>3. CASE PromoteStranded(t)
    <2>1. CASE UNCHANGED <<owner, rows, pc>>
      BY <2>1 DEF TurnsAdvance, rows
    <2>2. ASSUME NEW u \in Turn, Fresh(u), Promote(Stranded(t), u), pc' = [pc EXCEPT ![u] = "queued"]
          PROVE  TurnsAdvance
      <3>1. started' = started /\ \A v \in Turn \ {u} : row'[v] = row[v]
        BY <2>2, InputSets, PromoteType
      <3>2. pc[u] = "absent" /\ row[u] \notin EndedRow
        BY <2>2 DEF Fresh, Life, LifeOf
      <3> QED
        BY <2>2, <3>1, <3>2 DEF TurnsAdvance, Empty, TypeOK
    <2> QED
      BY <1>3, <2>1, <2>2 DEF PromoteStranded
  <1> QED
    BY <1>1, <1>2, <1>3 DEF RecoveryStep

\* Turns advance in every step but a restart.
LEMMA StepAdvances ==
    ASSUME TypeOK, GateHeld, Life, [Next]_vars PROVE TurnsAdvance \/ Crash
PROOF
  <1>1. CASE UNCHANGED vars
    BY <1>1 DEF TurnsAdvance, vars, turns, rows
  <1>2. ASSUME NEW i \in Input, Steer(i) \/ AdmissionStep(i) PROVE TurnsAdvance
    BY <1>2 DEF AdmissionStep, Steer, Admit, PersistSteer, TurnsAdvance, turns, rows
  <1>3. ASSUME NEW c \in Stop, AskStop(c) \/ StopStep(c) PROVE TurnsAdvance
    BY <1>3 DEF StopStep, AskStop, EnterGate, FenceTurn, MarkStop, SignalStop, TurnsAdvance,
                turns, rows
  <1>4. CASE Interrupt
    BY <1>4 DEF Interrupt, TurnsAdvance, turns, rows
  <1> QED
    BY <1>1, <1>2, <1>3, <1>4, DriverAdvances, SettlementAdvances, RecoveryAdvances DEF Next

\* What the place of an input says of its disposition, its owner and its turn.
PlaceOf(i) ==
    /\ place[i] \in {"none", "admitting", "persisting"} =>
         disp[i] = "none" /\ owner[i] = 1 /\ seen[i] = {}
    /\ disp[i] \in {"steering", "applied", "cancelled"} => owner[i] = target[i]
    /\ place[i] \in Held => pc[target[i]] \notin Empty
    /\ place[i] \in {"pending", "claimed", "applied"} /\ row[target[i]] \notin EndedRow =>
         disp[i] = "steering"
    /\ place[i] = "batch" => row[target[i]] \in EndedRow
    /\ place[i] # "none" => target[i] \in started

Places == \A i \in Input : PlaceOf(i)

\* An input that stays where it is, or is dropped, keeps its place while turns advance.
LEMMA PlaceKept ==
    ASSUME TypeOK, TurnsAdvance, NEW i \in Input, PlaceOf(i),
           place'[i] = place[i] \/ (place'[i] = "gone" /\ place[i] # "none"),
           disp'[i] = disp[i], target'[i] = target[i], owner'[i] = owner[i], seen'[i] = seen[i]
    PROVE  PlaceOf(i)'
  BY DEF TypeOK, TurnsAdvance, PlaceOf, Empty, Held

\* The places through the steps of an admission.
LEMMA PlacesOfAdmission ==
    ASSUME TypeOK, Life, Places, NEW i \in Input, Steer(i) \/ AdmissionStep(i)
    PROVE  Places'
PROOF
  <1>1. TurnsAdvance /\ UNCHANGED <<turns, rows>>
    BY DEF AdmissionStep, Steer, Admit, PersistSteer, TurnsAdvance, turns, rows
  <1>2. ASSUME NEW j \in Input \ {i} PROVE PlaceOf(j)'
    <2>1. /\ place'[j] = place[j] /\ disp'[j] = disp[j] /\ target'[j] = target[j]
          /\ owner'[j] = owner[j] /\ seen'[j] = seen[j]
      <3>1. CASE Steer(i)
        BY <3>1 DEF Steer, TypeOK
      <3>2. CASE Admit(i)
        BY <3>2 DEF Admit, TypeOK
      <3>3. CASE PersistSteer(i)
        BY <3>3 DEF PersistSteer, TypeOK
      <3> QED
        BY <3>1, <3>2, <3>3 DEF AdmissionStep
    <2>2. TurnsAdvance /\ j \in Input /\ PlaceOf(j)
      BY <1>1 DEF Places
    <2> QED
      BY <2>1, <2>2, PlaceKept
  <1>3. PlaceOf(i)'
    <2>1. CASE Steer(i)
      <3>1. PICK t \in Turn : Steerable(t) /\ target' = [target EXCEPT ![i] = t]
        BY <2>1 DEF Steer
      <3>2. t \in started
        BY <3>1 DEF Steerable, Unfinished, Life, LifeOf
      <3> QED
        BY <1>1, <2>1, <3>1, <3>2 DEF Steer, Places, PlaceOf, Held, TypeOK, rows, turns
    <2>2. CASE Admit(i)
      <3>1. CASE ~Steerable(target[i])
        BY <1>1, <2>2, <3>1 DEF Admit, Places, PlaceOf, Held, TypeOK, rows, turns
      <3>2. CASE Steerable(target[i])
        <4>1. target[i] \in Turn /\ pc[target[i]] \notin Empty
          BY <3>2 DEF Steerable, Unfinished, Empty, TypeOK
        <4> QED
          BY <1>1, <2>2, <3>2, <4>1 DEF Admit, Places, PlaceOf, Held, TypeOK, rows, turns
      <3> QED
        BY <3>1, <3>2
    <2>3. CASE PersistSteer(i)
      <3>1. CASE place' = [place EXCEPT ![i] = "gone"] /\ UNCHANGED <<disp, owner>>
        BY <1>1, <2>3, <3>1, PlaceKept DEF PersistSteer, Places, TypeOK
      <3>2. CASE /\ place' = [place EXCEPT ![i] = "pending"]
                 /\ disp' = [disp EXCEPT ![i] = "steering"]
                 /\ owner' = [owner EXCEPT ![i] = target[i]]
        BY <1>1, <2>3, <3>2 DEF PersistSteer, Places, PlaceOf, Held, TypeOK, rows, turns
      <3> QED
        BY <2>3, <3>1, <3>2 DEF PersistSteer
    <2> QED
      BY <2>1, <2>2, <2>3 DEF AdmissionStep
  <1> QED
    BY <1>2, <1>3 DEF Places

\* Inputs that are dropped, and nothing else of them, keep their places.
LEMMA PlacesDropped ==
    ASSUME TypeOK, TurnsAdvance, Places, NEW Q \in SUBSET Input,
           \A i \in Q : place[i] # "none",
           place' = Move(Q, "gone") \/ place' = place,
           UNCHANGED <<disp, target, owner, seen>>
    PROVE  Places'
PROOF
  <1>1. ASSUME NEW i \in Input PROVE place'[i] = place[i] \/ (place'[i] = "gone" /\ place[i] # "none")
    BY DEF Move
  <1> QED
    BY <1>1, PlaceKept DEF Places

\* What leaves the inputs alone keeps their places.
LEMMA PlacesKept ==
    ASSUME TypeOK, TurnsAdvance, Places, UNCHANGED <<place, disp, target, owner, seen>>
    PROVE  Places'
  BY PlaceKept DEF Places

\* Where the inputs of a turn are.
LEMMA InPlace ==
    ASSUME NEW t, NEW p, NEW i \in Input
    PROVE  i \in In(t, p) <=> target[i] = t /\ place[i] = p
  BY DEF In

\* The places through the steps of a driver.
LEMMA PlacesOfDriver ==
    ASSUME TypeOK, Life, Places, NEW t \in Turn,
           Drain(t) \/ HandlerEnds(t) \/ DriverStep(t)
    PROVE  Places'
PROOF
  <1> USE DriverAdvances
  <1>0. TurnsAdvance /\ target' = target /\ owner' = owner
    BY DEF Drain, HandlerEnds, DriverStep, MarkApplied, RecordApplied, DeliverCancellation,
           RecordAtExit, StartFollowup, inputs
  <1>1. CASE Drain(t) \/ MarkApplied(t)
    <2>1. PICK p \in {"pending", "claimed"}, q \in {"claimed", "applied"} : place' = Move(In(t, p), q)
      BY <1>1 DEF Drain, MarkApplied
    <2>2. In(t, p) \in SUBSET Input /\ q \in Place
      BY InputSets DEF Place
    <2>3. \A i \in Input : place'[i] = IF i \in In(t, p) THEN q ELSE place[i]
      BY <2>1, <2>2, MoveType
    <2>4. UNCHANGED <<pc, row, disp>> /\ row[t] \notin EndedRow
      BY <1>1 DEF Drain, MarkApplied, Running, turns, rows, Life, LifeOf
    <2>5. \A i \in Input \ In(t, p) : seen'[i] = seen[i]
      <3>1. CASE Drain(t)
        BY <3>1 DEF Drain
      <3>2. CASE MarkApplied(t)
        <4>1. place'= Move(In(t, "claimed"), "applied") /\ \A i \in Input \ In(t, "claimed") : seen'[i] = seen[i]
          BY <3>2 DEF MarkApplied, TypeOK
        <4>2. ASSUME NEW i \in In(t, "claimed") PROVE i \in In(t, p)
          <5>1. In(t, "claimed") \in SUBSET Input /\ "applied" \in Place
            BY InputSets, Names
          <5>2. place'[i] = "applied" /\ place[i] = "claimed"
            BY <4>1, <5>1, InPlace DEF Move
          <5> QED
            BY <2>3, <5>1, <5>2
        <4> QED
          BY <4>1, <4>2
      <3> QED
        BY <1>1, <3>1, <3>2
    <2>6. ASSUME NEW i \in Input PROVE PlaceOf(i)'
      <3>1. CASE i \in In(t, p)
        <4>1. target[i] = t /\ place[i] = p /\ place'[i] = q /\ PlaceOf(i)
          BY <2>3, <3>1, InPlace DEF Places
        <4> QED
          BY <1>0, <2>4, <4>1 DEF PlaceOf, Held, TurnsAdvance
      <3>2. CASE i \notin In(t, p)
        <4>1. /\ place'[i] = place[i] /\ disp'[i] = disp[i] /\ target'[i] = target[i]
              /\ owner'[i] = owner[i] /\ seen'[i] = seen[i] /\ PlaceOf(i)
          BY <1>0, <2>3, <2>4, <2>5, <3>2 DEF Places
        <4> QED
          BY <1>0, <4>1, PlaceKept
      <3> QED
        BY <3>1, <3>2
    <2> QED
      BY <2>6 DEF Places
  <1>2. CASE HandlerEnds(t) \/ DeliverCancellation(t)
    <2>1. UNCHANGED <<place, disp, target, owner, seen>>
      BY <1>2 DEF HandlerEnds, DeliverCancellation, inputs
    <2> QED
      BY <1>0, <2>1, PlacesKept
  <1>3. CASE RecordApplied(t)
    <2>1. PICK W \in Written(In(t, "applied")) : place' = Move(W, "gone") /\ disp' = Mark(W, "applied")
      BY <1>3 DEF RecordApplied
    <2>2. W \in SUBSET Input /\ \A i \in W : target[i] = t /\ place[i] = "applied"
      BY InputSets, InPlace DEF Written
    <2>3. /\ \A i \in Input : place'[i] = IF i \in W THEN "gone" ELSE place[i]
          /\ \A i \in Input : disp'[i] = IF i \in W THEN "applied" ELSE disp[i]
      BY <2>1 DEF Move, Mark
    <2>4. row[t] \notin EndedRow /\ seen' = seen
      BY <1>3 DEF RecordApplied, Running, Life, LifeOf
    <2>5. ASSUME NEW i \in W PROVE PlaceOf(i)'
      <3>1. i \in Input /\ PlaceOf(i) /\ place'[i] = "gone" /\ disp'[i] = "applied"
        BY <2>2, <2>3 DEF Places
      <3> QED
        BY <1>0, <2>2, <2>4, <3>1 DEF PlaceOf, Held, TurnsAdvance
    <2>6. ASSUME NEW i \in Input, i \notin W PROVE PlaceOf(i)'
      BY <1>0, <2>3, <2>4, <2>6, PlaceKept DEF Places
    <2> QED
      BY <2>5, <2>6 DEF Places
  <1>4. CASE RecordAtExit(t)
    <2> DEFINE recalled == IF exit[t] = "user" THEN Undrained(t) ELSE {}
    <2>1. PICK W \in Written(In(t, "applied")), C \in Written(recalled) :
             /\ place' = Move(W \union recalled, "gone")
             /\ disp' = [i \in Input |-> IF i \in W THEN "applied"
                                         ELSE IF i \in C THEN "cancelled" ELSE disp[i]]
      BY <1>4 DEF RecordAtExit
    <2>2. /\ W \union recalled \in SUBSET Input /\ C \subseteq recalled
          /\ \A i \in W \union recalled : target[i] = t /\ place[i] \in {"applied", "pending", "claimed"}
      <3>1. \A i \in Undrained(t) : target[i] = t /\ place[i] \in {"pending", "claimed"}
        BY DEF Undrained, In
      <3>2. \A i \in In(t, "applied") : target[i] = t /\ place[i] = "applied"
        BY DEF In
      <3> QED
        BY <3>1, <3>2, InputSets DEF Written
    <2>3. /\ \A i \in Input : place'[i] = IF i \in W \union recalled THEN "gone" ELSE place[i]
          /\ \A i \in Input : i \notin W \union recalled => disp'[i] = disp[i]
          /\ \A i \in Input : disp'[i] \in {"applied", "cancelled", disp[i]}
      BY <2>1, <2>2 DEF Move
    <2>4. row[t] \notin EndedRow /\ seen' = seen
      BY <1>4 DEF RecordAtExit, Life, LifeOf
    <2>5. ASSUME NEW i \in W \union recalled PROVE PlaceOf(i)'
      <3>1. i \in Input /\ PlaceOf(i) /\ place'[i] = "gone" /\ disp'[i] \in {"applied", "cancelled", disp[i]}
        BY <2>2, <2>3 DEF Places
      <3> QED
        BY <1>0, <2>2, <2>4, <3>1 DEF PlaceOf, Held, TurnsAdvance
    <2>6. ASSUME NEW i \in Input, i \notin W \union recalled PROVE PlaceOf(i)'
      BY <1>0, <2>3, <2>4, <2>6, PlaceKept DEF Places
    <2> QED
      BY <2>5, <2>6 DEF Places
  <1>5. CASE StartFollowup(t)
    <2>1. ASSUME NEW i \in Input PROVE PlaceOf(i)'
      <3>1. place' = place /\ disp' = disp /\ (seen'[i] = seen[i] \/ disp[i] = "promoted")
        BY <1>5 DEF StartFollowup, TypeOK
      <3>2. PlaceOf(i)
        BY DEF Places
      <3>3. CASE seen'[i] = seen[i]
        BY <1>0, <3>1, <3>2, <3>3, PlaceKept
      <3>4. CASE disp[i] = "promoted"
        BY <1>0, <3>1, <3>2, <3>4 DEF PlaceOf, Held, Empty, TurnsAdvance, TypeOK
      <3> QED
        BY <3>1, <3>3, <3>4
    <2> QED
      BY <2>1 DEF Places
  <1> QED
    BY <1>1, <1>2, <1>3, <1>4, <1>5 DEF DriverStep

\* The places through the steps of a settlement.
LEMMA PlacesOfSettlement ==
    ASSUME TypeOK, GateHeld, Life, Places, NEW t \in Turn, SettlementStep(t) \/ RetryTerminal(t)
    PROVE  Places'
PROOF
  <1>0. TurnsAdvance /\ target' = target /\ seen' = seen
    BY SettlementAdvances
       DEF SettlementStep, ClaimSettlement, PersistTerminal, TerminalWriteFails, ReserveFollowup,
           RefuseFollowup, CommitFollowup, ActivateFollowup, FinishSettlement, RetryTerminal, inputs
  <1>1. CASE ClaimSettlement(t) \/ TerminalWriteFails(t) \/ ReserveFollowup(t) \/ RetryTerminal(t)
    <2>1. UNCHANGED <<place, disp, target, owner, seen>>
      BY <1>1 DEF ClaimSettlement, TerminalWriteFails, ReserveFollowup, RetryTerminal, inputs
    <2> QED
      BY <1>0, <2>1, PlacesKept
  <1>2. CASE PersistTerminal(t)
    <2> DEFINE batch == IF exit[t] = "user" THEN {} ELSE Undrained(t)
    <2>1. batch \in SUBSET Input /\ \A i \in batch : target[i] = t /\ place[i] \in {"pending", "claimed"}
      BY InputSets DEF Undrained, In
    <2>2. \A i \in Input : place'[i] = IF i \in batch THEN "batch" ELSE place[i]
      BY <1>2 DEF PersistTerminal, Move
    <2>3. UNCHANGED <<disp, owner>> /\ SaveTerminal(t)
      BY <1>2 DEF PersistTerminal
    <2>4. row'[t] \in EndedRow
      BY <2>3, TerminalType DEF EndedRow
    <2>5. ASSUME NEW i \in batch PROVE PlaceOf(i)'
      <3>1. i \in Input /\ PlaceOf(i) /\ place'[i] = "batch"
        BY <2>1, <2>2 DEF Places
      <3> QED
        BY <1>0, <2>1, <2>3, <2>4, <3>1 DEF PlaceOf, Held, TurnsAdvance
    <2>6. ASSUME NEW i \in Input, i \notin batch PROVE PlaceOf(i)'
      BY <1>0, <2>2, <2>3, <2>6, PlaceKept DEF Places
    <2> QED
      BY <2>5, <2>6 DEF Places
  <1>3. CASE RefuseFollowup(t)
    <2>1. PICK W \in Written(In(t, "batch")) : disp' = Mark(W, "rejected")
      BY <1>3 DEF RefuseFollowup
    <2>2. /\ W \in SUBSET Input /\ In(t, "batch") \in SUBSET Input
          /\ \A i \in In(t, "batch") : place[i] = "batch"
          /\ W \subseteq In(t, "batch")
      BY InputSets DEF Written, In
    <2>3. /\ \A i \in Input : place'[i] = IF i \in In(t, "batch") THEN "gone" ELSE place[i]
          /\ \A i \in Input : disp'[i] = IF i \in W THEN "rejected" ELSE disp[i]
          /\ owner' = owner
      BY <1>3, <2>1 DEF RefuseFollowup, Move, Mark
    <2>4. ASSUME NEW i \in W PROVE PlaceOf(i)'
      <3>1. i \in Input /\ PlaceOf(i) /\ place'[i] = "gone" /\ place[i] = "batch" /\ disp'[i] = "rejected"
        BY <2>2, <2>3 DEF Places
      <3> QED
        BY <1>0, <3>1 DEF PlaceOf, Held, TurnsAdvance
    <2>5. ASSUME NEW i \in Input, i \notin W PROVE PlaceOf(i)'
      <3>1. disp'[i] = disp[i] /\ PlaceOf(i) /\ (place'[i] = place[i] \/ (place'[i] = "gone" /\ place[i] # "none"))
        BY <2>2, <2>3, <2>5 DEF Places
      <3> QED
        BY <1>0, <2>3, <3>1, PlaceKept
    <2> QED
      BY <2>4, <2>5 DEF Places
  <1>4. CASE CommitFollowup(t)
    <2>1. /\ In(t, "batch") \in SUBSET Input
          /\ \A i \in In(t, "batch") : place[i] = "batch"
      BY InputSets DEF In
    <2>2. PICK u \in Reserved :
            \/ Promote(In(t, "batch"), u) /\ place' = place
            \/ place' = Move(In(t, "batch"), "gone") /\ UNCHANGED <<disp, owner, rows>>
      BY <1>4 DEF CommitFollowup
    <2>3. CASE Promote(In(t, "batch"), u) /\ place' = place
      <3>1. u \in Turn
        BY DEF Reserved
      <3>2. \A i \in Input : /\ disp'[i] = IF i \in In(t, "batch") THEN "promoted" ELSE disp[i]
                             /\ owner'[i] = IF i \in In(t, "batch") THEN u ELSE owner[i]
        BY <2>1, <2>3, <3>1, PromoteType
      <3>3. ASSUME NEW i \in In(t, "batch") PROVE PlaceOf(i)'
        <4>1. i \in Input /\ PlaceOf(i) /\ place[i] = "batch" /\ place' = place /\ disp'[i] = "promoted"
          BY <2>1, <2>3, <3>2 DEF Places
        <4> QED
          BY <1>0, <4>1 DEF PlaceOf, Held, TurnsAdvance, TypeOK, Empty
      <3>4. ASSUME NEW i \in Input, i \notin In(t, "batch") PROVE PlaceOf(i)'
        BY <1>0, <2>3, <3>2, <3>4, PlaceKept DEF Places
      <3> QED
        BY <3>3, <3>4 DEF Places
    <2>4. CASE place' = Move(In(t, "batch"), "gone") /\ UNCHANGED <<disp, owner, rows>>
      <3>1. \A i \in In(t, "batch") : place[i] # "none"
        BY <2>1
      <3> QED
        BY <1>0, <2>1, <2>4, <3>1, PlacesDropped
    <2> QED
      BY <2>2, <2>3, <2>4
  <1>5. CASE ActivateFollowup(t) \/ FinishSettlement(t)
    <2>1. PICK Q \in {In(t, "batch"), Undrained(t)} : place' = Move(Q, "gone")
      BY <1>5 DEF ActivateFollowup, FinishSettlement
    <2>2. Q \in SUBSET Input /\ \A i \in Q : place[i] # "none"
      BY DEF Undrained, In
    <2>3. UNCHANGED <<disp, target, owner, seen>>
      BY <1>5 DEF ActivateFollowup, FinishSettlement
    <2> QED
      BY <1>0, <2>1, <2>2, <2>3, PlacesDropped
  <1> QED
    BY <1>1, <1>2, <1>3, <1>4, <1>5 DEF SettlementStep

\* What is stranded is still steering into an ended turn, and remembered by no turn.
LEMMA StrandedPlace ==
    ASSUME TypeOK, Life, Places, NEW t \in Turn, NEW i \in Stranded(t)
    PROVE  /\ i \in Input /\ disp[i] = "steering" /\ owner[i] = t /\ target[i] = t
           /\ row[t] \in EndedRow /\ place[i] \notin {"none", "admitting", "persisting"}
  BY DEF Stranded, Places, PlaceOf, TypeOK

\* The places through a recovery.
LEMMA PlacesOfRecovery ==
    ASSUME TypeOK, Life, Places, NEW t \in Turn, RecoveryStep(t)
    PROVE  Places'
PROOF
  <1>0. TurnsAdvance /\ target' = target /\ seen' = seen /\ place' = place
    BY RecoveryAdvances DEF RecoveryStep, ResumeFollowup, CloseStranded, PromoteStranded, inputs
  <1>1. CASE ResumeFollowup(t)
    BY <1>0, <1>1, PlaceKept DEF ResumeFollowup, inputs, Places
  <1>2. ASSUME NEW Q \in SUBSET Stranded(t), UNCHANGED row,
               \A i \in Input : /\ i \in Q => disp'[i] \in {"applied", "cancelled", "rejected"}
                                /\ i \notin Q => disp'[i] = disp[i],
               owner' = owner
        PROVE  Places'
    <2>1. ASSUME NEW i \in Q PROVE PlaceOf(i)'
      <3>1. /\ i \in Input /\ disp[i] = "steering" /\ target[i] = t /\ owner[i] = t
            /\ row[t] \in EndedRow /\ place[i] \notin {"none", "admitting", "persisting"}
        BY <2>1, StrandedPlace
      <3>2. PlaceOf(i)
        BY <3>1 DEF Places
      <3> QED
        BY <1>0, <1>2, <3>1, <3>2 DEF PlaceOf, TurnsAdvance, TypeOK
    <2>2. ASSUME NEW i \in Input, i \notin Q PROVE PlaceOf(i)'
      BY <1>0, <1>2, <2>2, PlaceKept DEF Places
    <2> QED
      BY <2>1, <2>2 DEF Places
  <1>3. Stranded(t) \in SUBSET Input /\ Stranded(t) \intersect evidence[t] \in SUBSET Stranded(t)
    BY InputSets
  <1>4. CASE CloseStranded(t)
    <2>1. PICK Q \in SUBSET Stranded(t), d \in {"applied", "cancelled"} : disp' = Mark(Q, d)
      BY <1>4, <1>3 DEF CloseStranded
    <2>2. \A i \in Input : disp'[i] = IF i \in Q THEN d ELSE disp[i]
      BY <1>3, <2>1, MarkType DEF Disposition, Final
    <2> QED
      BY <1>2, <1>4, <2>2 DEF CloseStranded, rows
  <1>5. CASE PromoteStranded(t)
    <2>1. ASSUME NEW u \in Turn, Promote(Stranded(t), u) PROVE Places'
      <3>1. \A i \in Input : /\ disp'[i] = IF i \in Stranded(t) THEN "promoted" ELSE disp[i]
                             /\ owner'[i] = IF i \in Stranded(t) THEN u ELSE owner[i]
        BY <2>1 DEF Promote, Mark
      <3>2. ASSUME NEW i \in Stranded(t) PROVE PlaceOf(i)'
        <4>1. i \in Input /\ PlaceOf(i) /\ disp'[i] = "promoted"
              /\ row[target[i]] \in EndedRow /\ place[i] \notin {"none", "admitting", "persisting"}
          BY <3>1, <3>2, StrandedPlace DEF Places
        <4> QED
          BY <1>0, <4>1 DEF PlaceOf, TurnsAdvance, TypeOK, Held, Empty
      <3>3. ASSUME NEW i \in Input, i \notin Stranded(t) PROVE PlaceOf(i)'
        BY <1>0, <3>1, <3>3, PlaceKept DEF Places
      <3> QED
        BY <3>2, <3>3 DEF Places
    <2>2. CASE disp' = Mark(Stranded(t), "rejected") /\ UNCHANGED <<owner, rows, pc>>
      <3>1. \A i \in Input : disp'[i] = IF i \in Stranded(t) THEN "rejected" ELSE disp[i]
        BY <1>3, <2>2, MarkType, Names
      <3> QED
        BY <1>2, <2>2, <3>1 DEF rows
    <2> QED
      BY <1>5, <2>1, <2>2 DEF PromoteStranded
  <1> QED
    BY <1>1, <1>4, <1>5 DEF RecoveryStep

\* The places at first and at each step.
LEMMA PlacesInv ==
    /\ Init => Places
    /\ TypeOK /\ GateHeld /\ Life /\ Places /\ [Next]_vars => Places'
PROOF
  <1>1. Init => Places
    BY DEF Init, Places, PlaceOf, Held
  <1>2. ASSUME TypeOK, GateHeld, Life, Places, [Next]_vars PROVE Places'
    <2>1. CASE UNCHANGED vars
      <3>1. TurnsAdvance /\ UNCHANGED <<place, disp, target, owner, seen>>
        BY <2>1 DEF TurnsAdvance, vars, turns, rows, inputs
      <3> QED
        BY <1>2, <3>1, PlacesKept
    <2>2. CASE Interrupt \/ \E c \in Stop : AskStop(c) \/ StopStep(c)
      <3>1. UNCHANGED <<pc, row, place, disp, target, owner, seen, started>>
        BY <2>2 DEF Interrupt, StopStep, AskStop, EnterGate, FenceTurn, MarkStop, SignalStop,
                    turns, rows, inputs
      <3> QED
        BY <1>2, <3>1 DEF Places, PlaceOf
    <2>3. CASE Crash
      <3>1. ASSUME NEW i \in Input PROVE PlaceOf(i)'
        BY <1>2, <2>3 DEF Crash, Places, PlaceOf, Held, TypeOK
      <3> QED
        BY <3>1 DEF Places
    <2> QED
      BY <1>2, <2>1, <2>2, <2>3, PlacesOfAdmission, PlacesOfDriver, PlacesOfSettlement,
         PlacesOfRecovery DEF Next
  <1> QED
    BY <1>1, <1>2


--------------------------------------------------------------------------------
(* Acceptance is closed *)

\* Where the turn of an input may be that is accepted, or about to be.
Accepts(i) ==
    place[i] \in {"persisting", "pending"} =>
        \/ pc[target[i]] \in {"running", "unwinding", "lost"}
        \/ pc[target[i]] = "settling" /\ exit[target[i]] # "user"
        \/ /\ pc[target[i]] \in {"closing", "finishing"}
           /\ place[i] = "pending" /\ exit[target[i]] # "user"

\* AcceptanceClosed speaks of each input.
LEMMA AcceptsAll ==
    /\ AcceptanceClosed <=> \A i \in Input : Accepts(i)
    /\ AcceptanceClosed' <=> \A i \in Input : Accepts(i)'
  BY DEF AcceptanceClosed, Accepts

\* An input that is where it was, or no longer waits, in a turn that is where it was.
LEMMA AcceptsKept ==
    ASSUME NEW i \in Input, Accepts(i),
           place'[i] \in {"persisting", "pending"} => place'[i] = place[i],
           target'[i] = target[i], pc'[target[i]] = pc[target[i]], exit'[target[i]] = exit[target[i]]
    PROVE  Accepts(i)'
  BY DEF Accepts

\* Acceptance through the steps of an admission.
LEMMA AcceptanceOfAdmission ==
    ASSUME TypeOK, Life, Claims, AcceptanceClosed, NEW i \in Input, Steer(i) \/ AdmissionStep(i)
    PROVE  AcceptanceClosed'
PROOF
  <1>1. UNCHANGED <<pc, exit>>
    BY DEF AdmissionStep, Steer, Admit, PersistSteer, turns
  <1>2. ASSUME NEW j \in Input \ {i} PROVE Accepts(j)'
    <2>1. place'[j] = place[j] /\ target'[j] = target[j]
      <3>1. CASE Steer(i)
        BY <3>1 DEF Steer, TypeOK
      <3>2. CASE Admit(i)
        BY <3>2 DEF Admit, TypeOK
      <3>3. CASE PersistSteer(i)
        BY <3>3 DEF PersistSteer, TypeOK
      <3> QED
        BY <3>1, <3>2, <3>3 DEF AdmissionStep
    <2> QED
      BY <1>1, <2>1, AcceptsAll, AcceptsKept
  <1>3. Accepts(i)'
    <2>1. CASE Steer(i)
      BY <2>1 DEF Steer, Accepts, TypeOK
    <2>2. CASE Admit(i)
      BY <1>1, <2>2 DEF Admit, Accepts, Steerable, Unfinished, TypeOK
    <2>3. CASE PersistSteer(i)
      <3>1. place[i] = "persisting" /\ target' = target /\ Accepts(i) /\ target[i] \in Turn
        BY <2>3, AcceptsAll DEF PersistSteer, TypeOK
      <3>2. claim[target[i]] = i /\ exit[target[i]] # "user"
        BY <3>1 DEF Claims, AdmissionClaims
      <3>3. pc[target[i]] \in {"running", "unwinding", "lost", "settling"}
        BY <3>1 DEF Accepts
      <3> QED
        BY <1>1, <3>1, <3>2, <3>3 DEF Accepts
    <2> QED
      BY <2>1, <2>2, <2>3 DEF AdmissionStep
  <1> QED
    BY <1>2, <1>3, AcceptsAll

\* A step of one turn t closes or keeps acceptance when no input comes to wait, the other
\* turns stay or held no input, and t accepts what still waits for it.
LEMMA AcceptanceOfTurn ==
    ASSUME TypeOK, Places, AcceptanceClosed, NEW t \in Turn, target' = target,
           \A i \in Input : place'[i] \in {"persisting", "pending"} => place'[i] = place[i],
           \A v \in Turn \ {t} : (pc'[v] = pc[v] /\ exit'[v] = exit[v]) \/ pc[v] \in Empty,
           \A i \in Input : target[i] = t => Accepts(i)'
    PROVE  AcceptanceClosed'
PROOF
  <1>1. ASSUME NEW i \in Input PROVE Accepts(i)'
    <2>1. CASE target[i] = t
      BY <2>1
    <2>2. CASE target[i] # t /\ pc[target[i]] \in Empty
      BY <2>2 DEF Places, PlaceOf, Held, Accepts
    <2>3. CASE target[i] # t /\ pc[target[i]] \notin Empty
      <3>1. target[i] \in Turn \ {t}
        BY <2>3 DEF TypeOK
      <3>2. pc'[target[i]] = pc[target[i]] /\ exit'[target[i]] = exit[target[i]]
        BY <2>3, <3>1
      <3> QED
        BY <3>2, AcceptsAll, AcceptsKept
    <2> QED
      BY <2>1, <2>2, <2>3
  <1> QED
    BY <1>1, AcceptsAll

\* A moved input waits only if it stayed.
LEMMA MoveWaits ==
    ASSUME NEW Q, NEW p \in Place \ {"persisting", "pending"}, place' = Move(Q, p)
    PROVE  \A i \in Input : place'[i] \in {"persisting", "pending"} => place'[i] = place[i] /\ i \notin Q
  BY DEF Move

\* Acceptance through the steps of a driver.
LEMMA AcceptanceOfDriver ==
    ASSUME TypeOK, Life, Claims, Places, AcceptanceClosed, NEW t \in Turn,
           Drain(t) \/ HandlerEnds(t) \/ DriverStep(t)
    PROVE  AcceptanceClosed'
PROOF
  <1>0. target' = target
    BY DEF Drain, HandlerEnds, DriverStep, MarkApplied, RecordApplied, DeliverCancellation,
           RecordAtExit, StartFollowup, inputs
  <1>1. CASE Drain(t) \/ MarkApplied(t) \/ RecordApplied(t)
    <2>1. \A i \in Input : place'[i] \in {"claimed", "applied", "gone", place[i]}
      BY <1>1 DEF Drain, MarkApplied, RecordApplied, Move
    <2>2. \A i \in Input : place'[i] \in {"persisting", "pending"} => place'[i] = place[i]
      BY <2>1
    <2>3. UNCHANGED <<pc, exit>>
      BY <1>1 DEF Drain, MarkApplied, RecordApplied, turns
    <2> QED
      BY <1>0, <2>2, <2>3, AcceptsAll, AcceptsKept
  <1>2. CASE HandlerEnds(t)
    <2>1. place' = place /\ pc'[t] = "unwinding"
          /\ \A v \in Turn \ {t} : pc'[v] = pc[v] /\ exit'[v] = exit[v]
      BY <1>2 DEF HandlerEnds, inputs, TypeOK
    <2>2. \A i \in Input : target[i] = t => Accepts(i)'
      BY <1>0, <2>1 DEF Accepts
    <2> QED
      BY <1>0, <2>1, <2>2, AcceptanceOfTurn
  <1>3. CASE DeliverCancellation(t)
    <2>1. place' = place /\ \A v \in Turn \ {t} : pc'[v] = pc[v] /\ exit'[v] = exit[v]
      BY <1>3 DEF DeliverCancellation, inputs, TypeOK
    <2>2. pc[t] \in Empty \/ pc'[t] \in {"unwinding", "lost"}
      BY <1>3 DEF DeliverCancellation, Empty, TypeOK
    <2>3. \A i \in Input : target[i] = t => Accepts(i)'
      BY <1>0, <2>1, <2>2 DEF Accepts, Places, PlaceOf, Held
    <2> QED
      BY <1>0, <2>1, <2>3, AcceptanceOfTurn
  <1>4. CASE RecordAtExit(t)
    <2> DEFINE recalled == IF exit[t] = "user" THEN Undrained(t) ELSE {}
    <2>1. PICK W \in Written(In(t, "applied")) : place' = Move(W \union recalled, "gone")
      BY <1>4 DEF RecordAtExit
    <2>2. pc'[t] = "settling" /\ exit' = exit /\ \A v \in Turn \ {t} : pc'[v] = pc[v]
      BY <1>4 DEF RecordAtExit, TypeOK
    <2>3. \A i \in Input : place'[i] \in {"persisting", "pending"} =>
                             place'[i] = place[i] /\ i \notin W \union recalled
      BY <2>1, MoveWaits DEF Place
    <2>4. ASSUME NEW i \in Input, target[i] = t, place'[i] \in {"persisting", "pending"}
          PROVE  exit[t] # "user"
      <3>1. CASE place[i] = "persisting"
        BY <2>4, <3>1 DEF Claims, AdmissionClaims
      <3>2. CASE place[i] = "pending"
        BY <2>3, <2>4, <3>2 DEF Undrained, In
      <3> QED
        BY <2>3, <2>4, <3>1, <3>2
    <2>5. \A i \in Input : target[i] = t => Accepts(i)'
      BY <1>0, <2>2, <2>4 DEF Accepts
    <2> QED
      BY <1>0, <2>2, <2>3, <2>5, AcceptanceOfTurn
  <1>5. CASE StartFollowup(t)
    <2>1. place' = place /\ pc'[t] = "running" /\ exit' = exit /\ \A v \in Turn \ {t} : pc'[v] = pc[v]
      BY <1>5 DEF StartFollowup, TypeOK
    <2>2. \A i \in Input : target[i] = t => Accepts(i)'
      BY <1>0, <2>1 DEF Accepts
    <2> QED
      BY <1>0, <2>1, <2>2, AcceptanceOfTurn
  <1> QED
    BY <1>1, <1>2, <1>3, <1>4, <1>5 DEF DriverStep

\* Acceptance through the steps of a settlement.
LEMMA AcceptanceOfSettlement ==
    ASSUME TypeOK, GateHeld, Life, Claims, Places, AcceptanceClosed, NEW t \in Turn,
           SettlementStep(t) \/ RetryTerminal(t)
    PROVE  AcceptanceClosed'
PROOF
  <1>0. target' = target /\ exit' = exit
    BY DEF SettlementStep, ClaimSettlement, PersistTerminal, TerminalWriteFails, ReserveFollowup,
           RefuseFollowup, CommitFollowup, ActivateFollowup, FinishSettlement, RetryTerminal, inputs
  <1>1. CASE ClaimSettlement(t)
    <2>1. /\ place' = place /\ pc[t] = "settling" /\ pc'[t] = "closing" /\ claim[t] = Nobody
          /\ \A v \in Turn \ {t} : pc'[v] = pc[v]
      BY <1>1 DEF ClaimSettlement, inputs, TypeOK
    <2>2. ASSUME NEW i \in Input, target[i] = t, place[i] \in {"persisting", "pending"}
          PROVE  place[i] = "pending" /\ exit[t] # "user"
      <3>1. Nobody # i
        BY Names
      <3>2. Accepts(i)
        BY AcceptsAll
      <3> QED
        BY <2>1, <2>2, <3>1, <3>2 DEF Claims, AdmissionClaims, Accepts
    <2>3. \A i \in Input : target[i] = t => Accepts(i)'
      BY <1>0, <2>1, <2>2 DEF Accepts
    <2> QED
      BY <1>0, <2>1, <2>3, AcceptanceOfTurn
  <1>2. CASE PersistTerminal(t)
    <2> DEFINE batch == IF exit[t] = "user" THEN {} ELSE Undrained(t)
    <2>1. /\ place' = Move(batch, "batch") /\ pc[t] = "closing"
          /\ \A v \in Turn \ {t} : pc'[v] = pc[v]
      BY <1>2 DEF PersistTerminal, TypeOK
    <2>2. \A i \in Input : place'[i] \in {"persisting", "pending"} =>
                             place'[i] = place[i] /\ i \notin batch
      BY <2>1, MoveWaits DEF Place
    <2>3. ASSUME NEW i \in Input, target[i] = t, place'[i] \in {"persisting", "pending"}
          PROVE  FALSE
      <3>1. place[i] = "pending" /\ exit[t] # "user"
        BY <2>1, <2>2, <2>3, AcceptsAll DEF Accepts
      <3> QED
        BY <2>2, <2>3, <3>1 DEF Undrained, In
    <2>4. \A i \in Input : target[i] = t => Accepts(i)'
      BY <2>3 DEF Accepts
    <2> QED
      BY <1>0, <2>1, <2>2, <2>4, AcceptanceOfTurn
  <1>3. CASE TerminalWriteFails(t)
    <2>1. /\ place' = place /\ pc[t] = "closing" /\ pc'[t] = "finishing"
          /\ \A v \in Turn \ {t} : pc'[v] = pc[v]
      BY <1>3 DEF TerminalWriteFails, inputs, TypeOK
    <2>2. \A i \in Input : target[i] = t => Accepts(i)'
      BY <1>0, <2>1, AcceptsAll DEF Accepts
    <2> QED
      BY <1>0, <2>1, <2>2, AcceptanceOfTurn
  <1>4. CASE ReserveFollowup(t) \/ RefuseFollowup(t) \/ CommitFollowup(t) \/ ActivateFollowup(t)
    <2>1. /\ pc[t] \in {"promoting", "accepting", "activating"}
          /\ \A v \in Turn \ {t} : pc'[v] = pc[v] \/ pc[v] \in Empty
      BY <1>4 DEF ReserveFollowup, RefuseFollowup, CommitFollowup, ActivateFollowup, Fresh, Reserved,
                  Empty, TypeOK
    <2>2. place' = place \/ place' = Move(In(t, "batch"), "gone")
      BY <1>4 DEF ReserveFollowup, RefuseFollowup, CommitFollowup, ActivateFollowup, inputs
    <2>3. \A i \in Input : place'[i] \in {"persisting", "pending"} => place'[i] = place[i]
      BY <2>2, MoveWaits DEF Place
    <2>4. \A i \in Input : target[i] = t => Accepts(i)'
      BY <1>0, <2>1, <2>3, AcceptsAll DEF Accepts
    <2> QED
      BY <1>0, <2>1, <2>3, <2>4, AcceptanceOfTurn
  <1>5. CASE FinishSettlement(t)
    <2>1. /\ place' = Move(Undrained(t), "gone") /\ pc[t] = "finishing"
          /\ \A v \in Turn \ {t} : pc'[v] = pc[v]
      BY <1>5 DEF FinishSettlement, TypeOK
    <2>2. \A i \in Input : place'[i] \in {"persisting", "pending"} =>
                             place'[i] = place[i] /\ i \notin Undrained(t)
      BY <2>1, MoveWaits DEF Place
    <2>3. \A i \in Input : target[i] = t => Accepts(i)'
      <3>1. ASSUME NEW i \in Input, target[i] = t, place'[i] \in {"persisting", "pending"}
            PROVE  FALSE
        BY <2>1, <2>2, <3>1, AcceptsAll DEF Accepts, Undrained, In
      <3> QED
        BY <3>1 DEF Accepts
    <2> QED
      BY <1>0, <2>1, <2>2, <2>3, AcceptanceOfTurn
  <1>6. CASE RetryTerminal(t)
    <2>1. place' = place /\ pc' = pc
      BY <1>6 DEF RetryTerminal, inputs
    <2> QED
      BY <1>0, <2>1, AcceptsAll, AcceptsKept
  <1> QED
    BY <1>1, <1>2, <1>3, <1>4, <1>5, <1>6 DEF SettlementStep

\* Acceptance at first and at each step.
LEMMA AcceptanceInv ==
    /\ Init => AcceptanceClosed
    /\ TypeOK /\ GateHeld /\ Life /\ Claims /\ Places /\ AcceptanceClosed /\ [Next]_vars
         => AcceptanceClosed'
PROOF
  <1>1. Init => AcceptanceClosed
    BY DEF Init, AcceptanceClosed
  <1>2. ASSUME TypeOK, GateHeld, Life, Claims, Places, AcceptanceClosed, [Next]_vars
        PROVE  AcceptanceClosed'
    <2>1. CASE UNCHANGED vars
      BY <1>2, <2>1 DEF AcceptanceClosed, vars, turns, inputs
    <2>2. CASE Interrupt \/ \E c \in Stop : AskStop(c) \/ StopStep(c)
      <3>1. UNCHANGED <<pc, exit, place, target>>
        BY <2>2 DEF Interrupt, StopStep, AskStop, EnterGate, FenceTurn, MarkStop, SignalStop,
                    turns, inputs
      <3> QED
        BY <1>2, <3>1 DEF AcceptanceClosed
    <2>3. CASE Crash
      BY <1>2, <2>3 DEF Crash, AcceptanceClosed, TypeOK
    <2>4. ASSUME NEW t \in Turn, RecoveryStep(t) PROVE AcceptanceClosed'
      <3>1. target' = target /\ place' = place /\ exit' = exit
        BY <2>4 DEF RecoveryStep, ResumeFollowup, CloseStranded, PromoteStranded, turns, inputs
      <3>2. \A v \in Turn : pc'[v] = pc[v] \/ pc[v] \in Empty
        BY <1>2, <2>4 DEF RecoveryStep, ResumeFollowup, CloseStranded, PromoteStranded, Fresh, Empty,
                          turns, TypeOK
      <3>3. ASSUME NEW i \in Input PROVE Accepts(i)'
        <4>1. CASE place[i] \notin Held
          BY <3>1, <4>1 DEF Accepts, Held
        <4>2. CASE place[i] \in Held
          <5>1. pc'[target[i]] = pc[target[i]] /\ Accepts(i)
            BY <1>2, <3>2, <4>2, AcceptsAll DEF Places, PlaceOf, TypeOK
          <5> QED
            BY <3>1, <5>1, AcceptsKept
        <4> QED
          BY <4>1, <4>2
      <3> QED
        BY <3>3, AcceptsAll
    <2> QED
      BY <1>2, <2>1, <2>2, <2>3, <2>4, AcceptanceOfAdmission, AcceptanceOfDriver,
         AcceptanceOfSettlement DEF Next
  <1> QED
    BY <1>1, <1>2


--------------------------------------------------------------------------------
(* What was handed over, and what has ended, stays so *)

Handed == {"promoted", "rejected"}

\* An input that waits in the memory of a turn that has not ended is still steering.
LEMMA AliveSteering ==
    ASSUME TypeOK, Places, NEW i \in Input, place[i] \in {"pending", "claimed", "applied"},
           row[target[i]] \notin EndedRow
    PROVE  disp[i] = "steering"
  BY DEF Places, PlaceOf

\* What a settlement or a recovery hands over is handed over for good.
LEMMA HandedForGood ==
    ASSUME TypeOK, Life, Places, [Next]_vars, NEW i \in Input, disp[i] \in Handed
    PROVE  disp'[i] \in Handed /\ owner'[i] = owner[i]
PROOF
  <1> DEFINE Kept == disp'[i] \in Handed /\ owner'[i] = owner[i]
  <1>1. CASE UNCHANGED <<disp, owner>>
    BY <1>1
  <1>2. ASSUME NEW j \in Input, PersistSteer(j) PROVE Kept
    <2>1. disp[j] = "none" \/ UNCHANGED <<disp, owner>>
      BY <1>2 DEF PersistSteer, Places, PlaceOf
    <2> QED
      BY <1>2, <2>1 DEF PersistSteer, Handed, TypeOK
  <1>3. ASSUME NEW t \in Turn, RecordApplied(t) \/ RecordAtExit(t) PROVE Kept
    <2>1. row[t] \notin EndedRow /\ owner' = owner
      BY <1>3 DEF RecordApplied, RecordAtExit, Running, Life, LifeOf
    <2>2. i \notin In(t, "applied") \union Undrained(t)
      BY <2>1, AliveSteering DEF Undrained, In, Handed
    <2>3. disp'[i] = disp[i]
      BY <1>3, <2>2 DEF RecordApplied, RecordAtExit, Written, Mark
    <2> QED
      BY <2>1, <2>3
  <1>4. ASSUME NEW t \in Turn, RefuseFollowup(t) PROVE Kept
    BY <1>4 DEF RefuseFollowup, Mark, Handed
  <1>5. ASSUME NEW t \in Turn, CommitFollowup(t) PROVE Kept
    <2>1. PICK u \in Reserved :
            \/ Promotable(t, In(t, "batch")) /\ Promote(In(t, "batch"), u)
            \/ UNCHANGED <<disp, owner, rows>>
      BY <1>5 DEF CommitFollowup
    <2>2. CASE Promotable(t, In(t, "batch")) /\ Promote(In(t, "batch"), u)
      <3>1. i \notin In(t, "batch")
        BY <2>2 DEF Promotable, Handed
      <3> QED
        BY <2>2, <3>1 DEF Promote, Mark
    <2> QED
      BY <2>1, <2>2
  <1>6. ASSUME NEW t \in Turn, CloseStranded(t) \/ PromoteStranded(t) PROVE Kept
    <2>1. i \notin Stranded(t)
      BY DEF Stranded, Handed
    <2>2. disp'[i] = disp[i] /\ owner'[i] = owner[i]
      BY <1>6, <2>1 DEF CloseStranded, PromoteStranded, Promote, Mark
    <2> QED
      BY <2>2
  <1>7. \/ UNCHANGED <<disp, owner>>
        \/ \E j \in Input : PersistSteer(j)
        \/ \E t \in Turn : \/ RecordApplied(t) \/ RecordAtExit(t) \/ RefuseFollowup(t)
                           \/ CommitFollowup(t) \/ CloseStranded(t) \/ PromoteStranded(t)
    BY DEF Next, vars, inputs, AdmissionStep, DriverStep, SettlementStep, StopStep, RecoveryStep,
           Steer, Admit, Drain, HandlerEnds, MarkApplied, DeliverCancellation, StartFollowup,
           ClaimSettlement, PersistTerminal, TerminalWriteFails, ReserveFollowup, ActivateFollowup,
           FinishSettlement, RetryTerminal, AskStop, EnterGate, FenceTurn, MarkStop, SignalStop,
           Interrupt, Crash, ResumeFollowup
  <1> QED
    BY <1>1, <1>2, <1>3, <1>4, <1>5, <1>6, <1>7

\* The row of a turn that ran and ended, and whether its user stopped it, are final.
LEMMA EndedForGood ==
    ASSUME TypeOK, GateHeld, Life, Claims, Marked, [Next]_vars, NEW t \in Turn,
           t \in started, row[t] \in EndedRow
    PROVE  row'[t] = row[t] /\ (t \in userIntent' <=> t \in userIntent)
PROOF
  <1> DEFINE Kept == row'[t] = row[t] /\ (t \in userIntent' <=> t \in userIntent)
  <1>0. /\ pc[t] \in {"promoting", "accepting", "activating", "finishing", "settled", "gone"}
        /\ t \notin owed
    BY DEF Life, LifeOf
  <1>1. CASE UNCHANGED rows
    BY <1>1 DEF rows
  <1>2. ASSUME NEW v \in Turn, StartFollowup(v) \/ ResumeFollowup(v) PROVE Kept
    <2>1. v # t
      BY <1>0, <1>2 DEF StartFollowup, ResumeFollowup
    <2> QED
      BY <1>2, <2>1 DEF StartFollowup, ResumeFollowup, TypeOK
  <1>3. ASSUME NEW v \in Turn, PersistTerminal(v) \/ RetryTerminal(v) PROVE Kept
    <2>1. v # t /\ SaveTerminal(v)
      BY <1>0, <1>3 DEF PersistTerminal, RetryTerminal
    <2> QED
      BY <2>1, TerminalElsewhere
  <1>4. ASSUME NEW v \in Turn, CommitFollowup(v) PROVE Kept
    <2>1. PICK u \in Reserved : Promote(In(v, "batch"), u) \/ UNCHANGED rows
      BY <1>4 DEF CommitFollowup
    <2>2. u # t
      BY <1>0 DEF Reserved
    <2> QED
      BY <2>1, <2>2 DEF Promote, rows, TypeOK
  <1>5. ASSUME NEW v \in Turn, PromoteStranded(v) PROVE Kept
    <2>1. UNCHANGED rows \/ \E u \in Turn : Fresh(u) /\ Promote(Stranded(v), u)
      BY <1>5 DEF PromoteStranded
    <2> QED
      BY <1>0, <2>1 DEF Fresh, Promote, rows, TypeOK
  <1>6. ASSUME NEW c \in Stop, SignalStop(c) PROVE Kept
    <2>1. t \notin fence[c]
      BY <1>0, <1>6 DEF SignalStop, Marked, Alive
    <2> QED
      BY <1>6, <2>1 DEF SignalStop
  <1>7. CASE Crash
    BY <1>7 DEF Crash, EndedRow
  <1>8. \/ UNCHANGED rows \/ Crash
        \/ \E c \in Stop : SignalStop(c)
        \/ \E v \in Turn : \/ StartFollowup(v) \/ ResumeFollowup(v) \/ PersistTerminal(v)
                           \/ RetryTerminal(v) \/ CommitFollowup(v) \/ PromoteStranded(v)
    BY DEF Next, vars, AdmissionStep, DriverStep, SettlementStep, StopStep, RecoveryStep,
           Steer, Admit, PersistSteer, Drain, HandlerEnds, MarkApplied, RecordApplied,
           DeliverCancellation, RecordAtExit, ClaimSettlement, TerminalWriteFails, ReserveFollowup,
           RefuseFollowup, ActivateFollowup, FinishSettlement, AskStop, EnterGate, FenceTurn,
           MarkStop, Interrupt, CloseStranded
  <1> QED
    BY <1>1, <1>2, <1>3, <1>4, <1>5, <1>6, <1>7, <1>8

--------------------------------------------------------------------------------
(* Promotion *)

HandingOver == {"promoting", "accepting", "activating"}

\* A turn that hands its batch over has one, has ended, and not by its user's stop.
Batches ==
    \A t \in Turn : pc[t] \in HandingOver =>
        In(t, "batch") # {} /\ t \notin userIntent /\ row[t] \in EndedRow

\* The batch of a turn stays in its memory while the turn hands it over.
LEMMA BatchStays ==
    ASSUME TypeOK, GateHeld, Life, Places, [Next]_vars, NEW i \in Input, place[i] = "batch",
           pc'[target[i]] \in HandingOver
    PROVE  place'[i] = "batch" /\ target'[i] = target[i]
PROOF
  <1> DEFINE Kept == place'[i] = "batch" /\ target'[i] = target[i]
  <1>1. CASE UNCHANGED <<place, target>>
    BY <1>1
  <1>2. ASSUME NEW j \in Input, Steer(j) \/ AdmissionStep(j) PROVE Kept
    <2>1. j # i
      BY <1>2 DEF AdmissionStep, Steer, Admit, PersistSteer
    <2>2. CASE Steer(j)
      BY <2>1, <2>2 DEF Steer, TypeOK
    <2>3. CASE Admit(j)
      BY <2>1, <2>3 DEF Admit, TypeOK
    <2>4. CASE PersistSteer(j)
      BY <2>1, <2>4 DEF PersistSteer, TypeOK
    <2> QED
      BY <1>2, <2>2, <2>3, <2>4 DEF AdmissionStep
  <1>3. ASSUME NEW t \in Turn, Drain(t) \/ MarkApplied(t) \/ RecordApplied(t) \/ RecordAtExit(t)
                               \/ PersistTerminal(t) \/ FinishSettlement(t)
        PROVE  Kept
    <2>1. i \notin In(t, "pending") \union In(t, "claimed") \union In(t, "applied")
      BY DEF In
    <2>2. target' = target
      BY <1>3 DEF Drain, MarkApplied, RecordApplied, RecordAtExit, PersistTerminal, FinishSettlement
    <2>3. place'[i] = place[i]
      BY <1>3, <2>1 DEF Drain, MarkApplied, RecordApplied, RecordAtExit, PersistTerminal,
                        FinishSettlement, Written, Undrained, Move
    <2> QED
      BY <2>2, <2>3
  <1>4. ASSUME NEW t \in Turn, RefuseFollowup(t) \/ CommitFollowup(t) \/ ActivateFollowup(t)
        PROVE  Kept
    <2>1. UNCHANGED <<place, target>> \/ (pc'[t] = "finishing" /\ place' = Move(In(t, "batch"), "gone"))
      <3>1. CASE RefuseFollowup(t)
        BY <3>1 DEF RefuseFollowup, TypeOK
      <3>2. CASE CommitFollowup(t)
        <4>1. PICK u \in Reserved :
                \/ UNCHANGED place
                \/ /\ pc' = [pc EXCEPT ![t] = "finishing", ![u] = "absent"]
                   /\ place' = Move(In(t, "batch"), "gone")
          BY <3>2 DEF CommitFollowup
        <4>2. u \in Turn /\ u # t /\ target' = target
          BY <3>2 DEF CommitFollowup, Reserved
        <4> QED
          BY <4>1, <4>2 DEF TypeOK
      <3>3. CASE ActivateFollowup(t)
        <4>1. PICK u \in Reserved, p \in {"queued", "gone"} :
                pc' = [pc EXCEPT ![t] = "finishing", ![u] = p]
          BY <3>3 DEF ActivateFollowup
        <4>2. u \in Turn /\ u # t /\ place' = Move(In(t, "batch"), "gone")
          BY <3>3 DEF ActivateFollowup, Reserved
        <4> QED
          BY <4>1, <4>2 DEF TypeOK
      <3> QED
        BY <1>4, <3>1, <3>2, <3>3
    <2>2. target' = target
      BY <1>4 DEF RefuseFollowup, CommitFollowup, ActivateFollowup
    <2>3. CASE pc'[t] = "finishing" /\ place' = Move(In(t, "batch"), "gone")
      <3>1. target[i] # t
        BY <2>3 DEF HandingOver
      <3> QED
        BY <2>2, <2>3, <3>1 DEF Move, In
    <2> QED
      BY <2>1, <2>2, <2>3
  <1>5. CASE Crash
    BY <1>5 DEF Crash, HandingOver, TypeOK
  <1>6. \/ UNCHANGED <<place, target>> \/ Crash
        \/ \E j \in Input : Steer(j) \/ AdmissionStep(j)
        \/ \E t \in Turn : \/ Drain(t) \/ MarkApplied(t) \/ RecordApplied(t) \/ RecordAtExit(t)
                           \/ PersistTerminal(t) \/ FinishSettlement(t) \/ RefuseFollowup(t)
                           \/ CommitFollowup(t) \/ ActivateFollowup(t)
    BY DEF Next, vars, inputs, DriverStep, SettlementStep, StopStep, RecoveryStep, HandlerEnds,
           DeliverCancellation, StartFollowup, ClaimSettlement, TerminalWriteFails, ReserveFollowup,
           RetryTerminal, AskStop, EnterGate, FenceTurn, MarkStop, SignalStop, Interrupt,
           ResumeFollowup, CloseStranded, PromoteStranded
  <1> QED
    BY <1>1, <1>2, <1>3, <1>4, <1>5, <1>6

\* Only the terminal write begins a handover.
LEMMA HandoverBegins ==
    ASSUME TypeOK, GateHeld, [Next]_vars, NEW t \in Turn, pc'[t] \in HandingOver,
           pc[t] \notin HandingOver
    PROVE  PersistTerminal(t)
PROOF
  <1>1. pc' # pc
    OBVIOUS
  <1>2. \A v \in Turn : HandlerEnds(v) \/ DeliverCancellation(v) \/ RecordAtExit(v) \/ StartFollowup(v)
                        \/ ClaimSettlement(v) \/ TerminalWriteFails(v) \/ FinishSettlement(v)
                        \/ RefuseFollowup(v) \/ ResumeFollowup(v)
                        => pc'[t] \notin HandingOver \/ pc'[t] = pc[t]
    BY DEF HandlerEnds, DeliverCancellation, RecordAtExit, StartFollowup, ClaimSettlement,
           TerminalWriteFails, FinishSettlement, RefuseFollowup, ResumeFollowup, HandingOver, TypeOK
  <1>3. \A v \in Turn : ReserveFollowup(v) => pc'[t] \in {pc[t], "reserved"} \/ pc[t] \in HandingOver
    BY DEF ReserveFollowup, HandingOver, TypeOK
  <1>4. \A v \in Turn : CommitFollowup(v) \/ ActivateFollowup(v) =>
                          pc'[t] \in {pc[t], "durable", "absent", "queued"} \/ pc[t] \in HandingOver
    BY DEF CommitFollowup, ActivateFollowup, Reserved, HandingOver, TypeOK
  <1>5. \A v \in Turn : PromoteStranded(v) => pc'[t] \in {pc[t], "queued"}
    BY DEF PromoteStranded, TypeOK
  <1>6. \A v \in Turn : PersistTerminal(v) => v = t \/ pc'[t] = pc[t]
    BY DEF PersistTerminal, TypeOK
  <1>7. Crash => pc'[t] \notin HandingOver
    BY DEF Crash, HandingOver, TypeOK
  <1>8. \/ Crash
        \/ \E v \in Turn : \/ HandlerEnds(v) \/ DeliverCancellation(v) \/ RecordAtExit(v)
                           \/ StartFollowup(v) \/ ClaimSettlement(v) \/ TerminalWriteFails(v)
                           \/ FinishSettlement(v) \/ RefuseFollowup(v) \/ ResumeFollowup(v)
                           \/ ReserveFollowup(v) \/ CommitFollowup(v) \/ ActivateFollowup(v)
                           \/ PromoteStranded(v) \/ PersistTerminal(v)
    BY <1>1 DEF Next, vars, turns, AdmissionStep, DriverStep, SettlementStep, StopStep, RecoveryStep,
           Steer, Admit, PersistSteer, Drain, MarkApplied, RecordApplied, RetryTerminal, AskStop,
           EnterGate, FenceTurn, MarkStop, SignalStop, Interrupt, CloseStranded
  <1> QED
    BY <1>2, <1>3, <1>4, <1>5, <1>6, <1>7, <1>8 DEF HandingOver

\* The batches at first and at each step.
LEMMA BatchesInv ==
    /\ Init => Batches
    /\ TypeOK /\ GateHeld /\ Life /\ Claims /\ Marked /\ Places /\ Batches /\ [Next]_vars
         => Batches'
PROOF
  <1>1. Init => Batches
    BY DEF Init, Batches, HandingOver
  <1>2. ASSUME TypeOK, GateHeld, Life, Claims, Marked, Places, Batches, [Next]_vars,
               NEW t \in Turn, pc'[t] \in HandingOver
        PROVE  In(t, "batch")' # {} /\ t \notin userIntent' /\ row'[t] \in EndedRow
    <2>1. CASE pc[t] \in HandingOver
      <3>1. PICK i \in Input : target[i] = t /\ place[i] = "batch"
        BY <1>2, <2>1 DEF Batches, In
      <3>2. t \in started /\ row[t] \in EndedRow /\ t \notin userIntent
        BY <1>2, <2>1, <3>1 DEF Batches, Places, PlaceOf
      <3>3. place'[i] = "batch" /\ target'[i] = t
        BY <1>2, <3>1, BatchStays
      <3>4. row'[t] = row[t] /\ t \notin userIntent'
        BY <1>2, <3>2, EndedForGood
      <3> QED
        BY <3>2, <3>3, <3>4 DEF In
    <2>2. CASE pc[t] \notin HandingOver
      <3> DEFINE batch == IF exit[t] = "user" THEN {} ELSE Undrained(t)
      <3>1. PersistTerminal(t)
        BY <1>2, <2>2, HandoverBegins
      <3>2. /\ SaveTerminal(t) /\ place' = Move(batch, "batch") /\ target' = target
            /\ pc'[t] = IF batch = {} THEN "finishing" ELSE "promoting"
        BY <1>2, <3>1 DEF PersistTerminal, TypeOK
      <3>3. batch # {} /\ exit[t] # "user"
        BY <1>2, <3>2 DEF HandingOver
      <3>4. PICK i \in batch : TRUE
        BY <3>3
      <3>5. i \in Input /\ target[i] = t
        BY <3>4 DEF Undrained, In
      <3>6. place'[i] = "batch"
        BY <3>2, <3>4, <3>5 DEF Move
      <3>7. row'[t] \in EndedRow /\ t \notin userIntent'
        BY <1>2, <3>2, <3>3, TerminalType DEF SaveTerminal, EndedRow
      <3> QED
        BY <3>2, <3>5, <3>6, <3>7 DEF In
    <2> QED
      BY <2>1, <2>2
  <1> QED
    BY <1>1, <1>2 DEF Batches


\* What is promoted was steered into a turn that ended and was not stopped by its user.
Promotions ==
    \A i \in Input : disp[i] = "promoted" =>
        row[target[i]] \in EndedRow /\ ~UserCancelled(target[i])

\* Inputs of a turn that was not stopped by its user are promoted, and no others.
LEMMA PromotedAtEnd ==
    ASSUME TypeOK, GateHeld, Life, Places, Batches, [Next]_vars, NEW i \in Input,
           disp'[i] = "promoted", disp[i] # "promoted"
    PROVE  /\ row[target[i]] \in EndedRow /\ ~UserCancelled(target[i])
           /\ place[i] # "none" /\ target'[i] = target[i]
PROOF
  <1> DEFINE Ended == /\ row[target[i]] \in EndedRow /\ ~UserCancelled(target[i])
                      /\ place[i] # "none" /\ target'[i] = target[i]
  <1>1. ASSUME NEW t \in Turn, CommitFollowup(t) PROVE Ended
    <2>1. PICK u \in Reserved : Promote(In(t, "batch"), u) \/ UNCHANGED <<disp, owner, rows>>
      BY <1>1 DEF CommitFollowup
    <2>2. i \in In(t, "batch")
      BY <2>1 DEF Promote, Mark
    <2>3. target[i] = t /\ place[i] = "batch" /\ target' = target /\ pc[t] = "accepting"
      BY <1>1, <2>2 DEF In, CommitFollowup
    <2>4. row[t] \in EndedRow /\ t \notin userIntent
      BY <2>3 DEF Batches, HandingOver
    <2> QED
      BY <2>3, <2>4 DEF UserCancelled
  <1>2. ASSUME NEW t \in Turn, PromoteStranded(t) PROVE Ended
    <2>1. i \in Stranded(t)
      BY <1>2 DEF PromoteStranded, Promote, Mark
    <2>2. target[i] = t /\ row[t] \in EndedRow /\ place[i] # "none"
      BY <2>1, StrandedPlace
    <2>3. ~UserCancelled(t) /\ target' = target
      BY <1>2 DEF PromoteStranded
    <2> QED
      BY <2>2, <2>3
  <1>3. ASSUME NEW t \in Turn, \/ RecordApplied(t) \/ RecordAtExit(t) \/ RefuseFollowup(t)
                               \/ CloseStranded(t)
        PROVE  FALSE
    BY <1>3 DEF RecordApplied, RecordAtExit, RefuseFollowup, CloseStranded, Mark
  <1>4. ASSUME NEW j \in Input, PersistSteer(j) PROVE FALSE
    BY <1>4 DEF PersistSteer, TypeOK
  <1>5. \/ \E j \in Input : PersistSteer(j)
        \/ \E t \in Turn : \/ RecordApplied(t) \/ RecordAtExit(t) \/ RefuseFollowup(t)
                           \/ CommitFollowup(t) \/ CloseStranded(t) \/ PromoteStranded(t)
    BY DEF Next, vars, inputs, AdmissionStep, DriverStep, SettlementStep, StopStep, RecoveryStep,
           Steer, Admit, Drain, HandlerEnds, MarkApplied, DeliverCancellation, StartFollowup,
           ClaimSettlement, PersistTerminal, TerminalWriteFails, ReserveFollowup, ActivateFollowup,
           FinishSettlement, RetryTerminal, AskStop, EnterGate, FenceTurn, MarkStop, SignalStop,
           Interrupt, Crash, ResumeFollowup
  <1> QED
    BY <1>1, <1>2, <1>3, <1>4, <1>5

\* Once steered, an input stays with its turn.
LEMMA TargetStays ==
    ASSUME TypeOK, [Next]_vars, NEW i \in Input, place[i] # "none"
    PROVE  target'[i] = target[i]
PROOF
  <1>1. ASSUME NEW j \in Input, Steer(j) PROVE target'[i] = target[i]
    BY <1>1 DEF Steer, TypeOK
  <1>2. UNCHANGED target \/ \E j \in Input : Steer(j)
    BY DEF Next, vars, inputs, AdmissionStep, DriverStep, SettlementStep, StopStep, RecoveryStep,
           Admit, PersistSteer, Drain, HandlerEnds, MarkApplied, RecordApplied, DeliverCancellation,
           RecordAtExit, StartFollowup, ClaimSettlement, PersistTerminal, TerminalWriteFails,
           ReserveFollowup, RefuseFollowup, CommitFollowup, ActivateFollowup, FinishSettlement,
           RetryTerminal, AskStop, EnterGate, FenceTurn, MarkStop, SignalStop, Interrupt, Crash,
           ResumeFollowup, CloseStranded, PromoteStranded
  <1> QED
    BY <1>1, <1>2

\* The promotions at first and at each step.
LEMMA PromotionsInv ==
    /\ Init => Promotions
    /\ TypeOK /\ GateHeld /\ Life /\ Claims /\ Marked /\ Places /\ Batches /\ Promotions
       /\ [Next]_vars
         => Promotions'
PROOF
  <1>1. Init => Promotions
    BY DEF Init, Promotions
  <1>2. ASSUME TypeOK, GateHeld, Life, Claims, Marked, Places, Batches, Promotions, [Next]_vars,
               NEW i \in Input, disp'[i] = "promoted"
        PROVE  row'[target'[i]] \in EndedRow /\ ~UserCancelled(target[i])'
    <2>1. /\ row[target[i]] \in EndedRow /\ ~UserCancelled(target[i])
          /\ place[i] # "none" /\ target'[i] = target[i]
      <3>1. CASE disp[i] = "promoted"
        <4>1. place[i] # "none"
          BY <1>2, <3>1 DEF Places, PlaceOf
        <4> QED
          BY <1>2, <3>1, <4>1, TargetStays DEF Promotions
      <3>2. CASE disp[i] # "promoted"
        BY <1>2, <3>2, PromotedAtEnd
      <3> QED
        BY <3>1, <3>2
    <2>2. target[i] \in Turn /\ target[i] \in started
      BY <1>2, <2>1 DEF TypeOK, Places, PlaceOf
    <2>3. row'[target[i]] = row[target[i]] /\ (target[i] \in userIntent' <=> target[i] \in userIntent)
      BY <1>2, <2>1, <2>2, EndedForGood
    <2> QED
      BY <2>1, <2>3 DEF UserCancelled
  <1> QED
    BY <1>1, <1>2 DEF Promotions

\* A follow-up that exists durably has an input that was handed over to it.
Followups ==
    \A u \in Turn \ {1} : row[u] # "absent" =>
        \E i \in Input : owner[i] = u /\ disp[i] \in Handed

\* A turn becomes durable as the owner of what is promoted.
LEMMA RowAppears ==
    ASSUME TypeOK, GateHeld, Life, Places, Batches, [Next]_vars, NEW u \in Turn,
           row[u] = "absent", row'[u] # "absent"
    PROVE  \E i \in Input : owner'[i] = u /\ disp'[i] \in Handed
PROOF
  <1> DEFINE Owns == \E i \in Input : owner'[i] = u /\ disp'[i] \in Handed
  <1>0. pc[u] \in {"absent", "reserved"} /\ u \notin owed
    BY DEF Life, LifeOf
  <1>2. ASSUME NEW Q \in SUBSET Input, Q # {}, NEW w \in Turn, Promote(Q, w) PROVE Owns
    <2>1. w = u
      BY <1>2 DEF Promote, TypeOK
    <2>2. PICK i \in Q : TRUE
      BY <1>2
    <2>3. owner'[i] = u /\ disp'[i] = "promoted"
      BY <1>2, <2>1, <2>2 DEF Promote, Mark
    <2> QED
      BY <2>2, <2>3 DEF Handed
  <1>3. ASSUME NEW t \in Turn, CommitFollowup(t) PROVE Owns
    <2>1. PICK w \in Reserved : Promote(In(t, "batch"), w) \/ UNCHANGED rows
      BY <1>3 DEF CommitFollowup
    <2>2. w \in Turn /\ In(t, "batch") \in SUBSET Input /\ In(t, "batch") # {}
      BY <1>3, InputSets DEF Reserved, CommitFollowup, Batches, HandingOver
    <2> QED
      BY <1>2, <2>1, <2>2 DEF rows
  <1>4. ASSUME NEW t \in Turn, PromoteStranded(t) PROVE Owns
    <2>1. Stranded(t) \in SUBSET Input /\ Stranded(t) # {}
      BY <1>4, InputSets DEF PromoteStranded
    <2>2. UNCHANGED rows \/ \E w \in Turn : Promote(Stranded(t), w)
      BY <1>4 DEF PromoteStranded
    <2> QED
      BY <1>2, <2>1, <2>2 DEF rows
  <1>5. ASSUME NEW t \in Turn, PersistTerminal(t) \/ RetryTerminal(t) PROVE FALSE
    <2>1. SaveTerminal(t) /\ t # u
      BY <1>0, <1>5 DEF PersistTerminal, RetryTerminal
    <2> QED
      BY <2>1, TerminalElsewhere
  <1>6. ASSUME NEW t \in Turn, StartFollowup(t) \/ ResumeFollowup(t) PROVE FALSE
    <2>1. t # u
      BY <1>0, <1>6 DEF StartFollowup, ResumeFollowup
    <2> QED
      BY <1>6, <2>1 DEF StartFollowup, ResumeFollowup, TypeOK
  <1>7. Crash => FALSE
    BY DEF Crash
  <1>8. \/ Crash
        \/ \E v \in Turn : \/ StartFollowup(v) \/ ResumeFollowup(v) \/ PersistTerminal(v)
                           \/ RetryTerminal(v) \/ CommitFollowup(v) \/ PromoteStranded(v)
    BY DEF Next, vars, rows, AdmissionStep, DriverStep, SettlementStep, StopStep, RecoveryStep,
           Steer, Admit, PersistSteer, Drain, HandlerEnds, MarkApplied, RecordApplied,
           DeliverCancellation, RecordAtExit, ClaimSettlement, TerminalWriteFails, ReserveFollowup,
           RefuseFollowup, ActivateFollowup, FinishSettlement, AskStop, EnterGate, FenceTurn,
           MarkStop, SignalStop, Interrupt, CloseStranded
  <1> QED
    BY <1>3, <1>4, <1>5, <1>6, <1>7, <1>8

\* The follow-ups at first and at each step.
LEMMA FollowupsInv ==
    /\ Init => Followups
    /\ TypeOK /\ GateHeld /\ Life /\ Places /\ Batches /\ Followups /\ [Next]_vars => Followups'
PROOF
  <1>1. Init => Followups
    BY DEF Init, Followups
  <1>2. ASSUME TypeOK, GateHeld, Life, Places, Batches, Followups, [Next]_vars,
               NEW u \in Turn \ {1}, row'[u] # "absent"
        PROVE  \E i \in Input : owner'[i] = u /\ disp'[i] \in Handed
    <2>1. CASE row[u] = "absent"
      BY <1>2, <2>1, RowAppears
    <2>2. CASE row[u] # "absent"
      <3>1. PICK i \in Input : owner[i] = u /\ disp[i] \in Handed
        BY <1>2, <2>2 DEF Followups
      <3>2. disp'[i] \in Handed /\ owner'[i] = owner[i]
        BY <1>2, <3>1, HandedForGood
      <3> QED
        BY <3>1, <3>2
    <2> QED
      BY <2>1, <2>2
  <1> QED
    BY <1>1, <1>2 DEF Followups


--------------------------------------------------------------------------------
(* Answers *)

\* Only its own turn and the follow-up that owns it take an input into a provider call;
\* not while it waits; and unless the process died, what its turn took is recorded as
\* applied, or remembered until the row of the turn proves it.
AnswerOf(i) ==
    /\ seen[i] \subseteq {target[i], owner[i]}
    /\ place[i] \in {"pending", "claimed", "batch"} => target[i] \notin seen[i]
    /\ crashes = 0 /\ target[i] \in seen[i] =>
         \/ disp[i] = "applied"
         \/ /\ disp[i] = "steering" /\ place[i] = "applied"
            /\ row[target[i]] \in EndedRow => i \in evidence[target[i]]

Answers == \A i \in Input : AnswerOf(i)

\* A turn takes what it claimed into a call; a follow-up what was promoted to it.
LEMMA SeenSteps ==
    ASSUME TypeOK, Life, Places, Promotions, [Next]_vars, NEW i \in Input
    PROVE  \/ seen'[i] = seen[i]
           \/ /\ MarkApplied(target[i]) /\ place[i] = "claimed" /\ place'[i] = "applied"
              /\ seen'[i] = seen[i] \union {target[i]} /\ owner'[i] = owner[i]
              /\ disp'[i] = disp[i] /\ UNCHANGED <<row, evidence>>
           \/ /\ owner[i] # target[i] /\ owner'[i] = owner[i] /\ disp'[i] = disp[i]
              /\ place' = place /\ seen'[i] = seen[i] \union {owner[i]}
              /\ disp[i] = "promoted"
PROOF
  <1>1. ASSUME NEW t \in Turn, MarkApplied(t), i \in In(t, "claimed")
        PROVE  /\ t = target[i] /\ place[i] = "claimed" /\ place'[i] = "applied"
               /\ seen'[i] = seen[i] \union {target[i]} /\ owner'[i] = owner[i]
               /\ disp'[i] = disp[i] /\ UNCHANGED <<row, evidence>>
    BY <1>1 DEF MarkApplied, In, Move, rows
  <1>2. ASSUME NEW t \in Turn, MarkApplied(t), i \notin In(t, "claimed")
        PROVE  seen'[i] = seen[i]
    BY <1>2 DEF MarkApplied
  <1>3. ASSUME NEW t \in Turn, StartFollowup(t), seen'[i] # seen[i]
        PROVE  /\ owner[i] # target[i] /\ owner'[i] = owner[i] /\ disp'[i] = disp[i]
               /\ place' = place /\ seen'[i] = seen[i] \union {owner[i]}
               /\ disp[i] = "promoted"
    <2>1. /\ disp[i] = "promoted" /\ owner[i] = t /\ seen'[i] = seen[i] \union {owner[i]}
          /\ UNCHANGED <<owner, disp, place>>
      BY <1>3 DEF StartFollowup
    <2>2. row[t] = "queued" /\ row[target[i]] \in EndedRow
      BY <1>3, <2>1 DEF StartFollowup, Life, LifeOf, Promotions
    <2> QED
      BY <2>1, <2>2 DEF EndedRow
  <1>4. seen' = seen \/ \E t \in Turn : MarkApplied(t) \/ StartFollowup(t)
    BY DEF Next, vars, inputs, AdmissionStep, DriverStep, SettlementStep, StopStep, RecoveryStep,
           Steer, Admit, PersistSteer, Drain, HandlerEnds, RecordApplied, DeliverCancellation,
           RecordAtExit, ClaimSettlement, PersistTerminal, TerminalWriteFails, ReserveFollowup,
           RefuseFollowup, CommitFollowup, ActivateFollowup, FinishSettlement, RetryTerminal,
           AskStop, EnterGate, FenceTurn, MarkStop, SignalStop, Interrupt, Crash, ResumeFollowup,
           CloseStranded, PromoteStranded
  <1> QED
    BY <1>1, <1>2, <1>3, <1>4

\* An input changes hands when it is accepted, or from the turn it was steered into.
LEMMA OwnerSteps ==
    ASSUME TypeOK, Places, [Next]_vars, NEW i \in Input, owner'[i] # owner[i]
    PROVE  seen'[i] = seen[i] /\ (seen[i] = {} \/ owner[i] = target[i])
PROOF
  <1> DEFINE Hands == seen'[i] = seen[i] /\ (seen[i] = {} \/ owner[i] = target[i])
  <1>1. ASSUME NEW j \in Input, PersistSteer(j) PROVE Hands
    <2>1. j = i /\ seen' = seen
      BY <1>1 DEF PersistSteer, TypeOK
    <2> QED
      BY <1>1, <2>1 DEF PersistSteer, Places, PlaceOf
  <1>2. ASSUME NEW t \in Turn, CommitFollowup(t) PROVE Hands
    <2>1. disp[i] = "steering" /\ seen' = seen
      BY <1>2 DEF CommitFollowup, Promotable, Promote
    <2> QED
      BY <2>1 DEF Places, PlaceOf
  <1>3. ASSUME NEW t \in Turn, PromoteStranded(t) PROVE Hands
    <2>1. disp[i] = "steering" /\ seen' = seen
      BY <1>3 DEF PromoteStranded, Promote, Stranded
    <2> QED
      BY <2>1 DEF Places, PlaceOf
  <1>4. \/ \E j \in Input : PersistSteer(j)
        \/ \E t \in Turn : CommitFollowup(t) \/ PromoteStranded(t)
    BY DEF Next, vars, inputs, AdmissionStep, DriverStep, SettlementStep, StopStep, RecoveryStep,
           Steer, Admit, Drain, HandlerEnds, MarkApplied, RecordApplied, DeliverCancellation,
           RecordAtExit, StartFollowup, ClaimSettlement, PersistTerminal, TerminalWriteFails,
           ReserveFollowup, RefuseFollowup, ActivateFollowup, FinishSettlement, RetryTerminal,
           AskStop, EnterGate, FenceTurn, MarkStop, SignalStop, Interrupt, Crash, ResumeFollowup,
           CloseStranded
  <1> QED
    BY <1>1, <1>2, <1>3, <1>4

\* What waits was accepted, or waited before.
LEMMA WaitingBegins ==
    ASSUME TypeOK, [Next]_vars, NEW i \in Input, place'[i] \in {"pending", "claimed", "batch"}
    PROVE  place[i] \in {"persisting", "pending", "claimed", "batch"}
PROOF
  <1> DEFINE Waited == place[i] \in {"persisting", "pending", "claimed", "batch"}
  <1>1. ASSUME NEW j \in Input, Steer(j) \/ AdmissionStep(j) PROVE Waited
    <2>1. CASE Steer(j)
      BY <2>1 DEF Steer, TypeOK
    <2>2. CASE Admit(j)
      BY <2>2 DEF Admit, TypeOK
    <2>3. CASE PersistSteer(j)
      BY <2>3 DEF PersistSteer, TypeOK
    <2> QED
      BY <1>1, <2>1, <2>2, <2>3 DEF AdmissionStep
  <1>2. ASSUME NEW t \in Turn, Drain(t) PROVE Waited
    BY <1>2 DEF Drain, Move, In
  <1>3. ASSUME NEW t \in Turn, PersistTerminal(t) PROVE Waited
    BY <1>3 DEF PersistTerminal, Move, Undrained, In
  <1>4. ASSUME NEW t \in Turn, \/ MarkApplied(t) \/ RecordApplied(t) \/ RecordAtExit(t)
                               \/ RefuseFollowup(t) \/ CommitFollowup(t) \/ ActivateFollowup(t)
                               \/ FinishSettlement(t)
        PROVE  Waited
    BY <1>4 DEF MarkApplied, RecordApplied, RecordAtExit, RefuseFollowup, CommitFollowup,
                ActivateFollowup, FinishSettlement, Move
  <1>5. CASE Crash
    BY <1>5 DEF Crash
  <1>6. \/ place' = place \/ Crash
        \/ \E j \in Input : Steer(j) \/ AdmissionStep(j)
        \/ \E t \in Turn : \/ Drain(t) \/ PersistTerminal(t) \/ MarkApplied(t) \/ RecordApplied(t)
                           \/ RecordAtExit(t) \/ RefuseFollowup(t) \/ CommitFollowup(t)
                           \/ ActivateFollowup(t) \/ FinishSettlement(t)
    BY DEF Next, vars, inputs, DriverStep, SettlementStep, StopStep, RecoveryStep, HandlerEnds,
           DeliverCancellation, StartFollowup, ClaimSettlement, TerminalWriteFails, ReserveFollowup,
           RetryTerminal, AskStop, EnterGate, FenceTurn, MarkStop, SignalStop, Interrupt,
           ResumeFollowup, CloseStranded, PromoteStranded
  <1> QED
    BY <1>1, <1>2, <1>3, <1>4, <1>5, <1>6

\* Restarts are counted, and nothing else is.
LEMMA OnlyCrashes == ASSUME [Next]_vars PROVE crashes' = crashes \/ Crash
  BY DEF Next, vars, counts, AdmissionStep, DriverStep, SettlementStep, StopStep, RecoveryStep,
         Steer, Admit, PersistSteer, Drain, HandlerEnds, MarkApplied, RecordApplied,
         DeliverCancellation, RecordAtExit, StartFollowup, ClaimSettlement, PersistTerminal,
         TerminalWriteFails, ReserveFollowup, RefuseFollowup, CommitFollowup, ActivateFollowup,
         FinishSettlement, RetryTerminal, AskStop, EnterGate, FenceTurn, MarkStop, SignalStop,
         Interrupt, ResumeFollowup, CloseStranded, PromoteStranded

\* What its turn took stays applied, or remembered and proved, while the process lives.
LEMMA TakenStays ==
    ASSUME TypeOK, GateHeld, Life, Places, Answers, [Next]_vars, NEW i \in Input,
           crashes' = 0, crashes = 0, target[i] \in seen[i]
    PROVE  \/ disp'[i] = "applied"
           \/ /\ disp'[i] = "steering" /\ place'[i] = "applied"
              /\ row'[target[i]] \in EndedRow => i \in evidence'[target[i]]
PROOF
  <1> DEFINE Taken == \/ disp[i] = "applied"
                      \/ /\ disp[i] = "steering" /\ place[i] = "applied"
                         /\ row[target[i]] \in EndedRow => i \in evidence[target[i]]
             Stays == \/ disp'[i] = "applied"
                      \/ /\ disp'[i] = "steering" /\ place'[i] = "applied"
                         /\ row'[target[i]] \in EndedRow => i \in evidence'[target[i]]
  <1>0. /\ Taken /\ target[i] \in Turn
        /\ place[i] \notin {"none", "admitting", "persisting", "pending", "claimed", "batch"}
    BY DEF Answers, AnswerOf, Places, PlaceOf, TypeOK
  <1> HIDE DEF Taken
  <1>1. CASE UNCHANGED <<disp, place, row, evidence>>
    BY <1>0, <1>1 DEF Taken
  <1>2. ASSUME NEW j \in Input, Steer(j) \/ AdmissionStep(j) PROVE Stays
    <2>1. j # i
      BY <1>0, <1>2 DEF AdmissionStep, Steer, Admit, PersistSteer
    <2>2. disp'[i] = disp[i] /\ place'[i] = place[i]
      <3>1. CASE Steer(j)
        BY <2>1, <3>1 DEF Steer, TypeOK
      <3>2. CASE Admit(j)
        BY <2>1, <3>2 DEF Admit, TypeOK
      <3>3. CASE PersistSteer(j)
        BY <2>1, <3>3 DEF PersistSteer, TypeOK
      <3> QED
        BY <1>2, <3>1, <3>2, <3>3 DEF AdmissionStep
    <2>3. UNCHANGED <<row, evidence>>
      BY <1>2 DEF AdmissionStep, Steer, Admit, PersistSteer, rows
    <2> QED
      BY <1>0, <2>2, <2>3 DEF Taken
  <1>3. ASSUME NEW t \in Turn, \/ Drain(t) \/ MarkApplied(t) \/ RecordApplied(t) \/ RecordAtExit(t)
                               \/ RefuseFollowup(t) \/ ActivateFollowup(t) \/ FinishSettlement(t)
        PROVE  Stays
    <2>1. /\ i \notin Undrained(t) \union In(t, "pending") \union In(t, "claimed") \union In(t, "batch")
          /\ disp[i] = "applied" \/ place[i] = "applied"
      BY <1>0 DEF Undrained, In, Taken
    <2>2. UNCHANGED <<row, evidence>>
      BY <1>3 DEF Drain, MarkApplied, RecordApplied, RecordAtExit, RefuseFollowup, ActivateFollowup,
                  FinishSettlement, rows
    <2>3. CASE RecordApplied(t)
      BY <1>0, <2>2, <2>3 DEF RecordApplied, Move, Mark, Taken
    <2>4. CASE RecordAtExit(t)
      BY <1>0, <2>1, <2>2, <2>4 DEF RecordAtExit, Written, Move, Taken
    <2>5. CASE RefuseFollowup(t)
      BY <1>0, <2>1, <2>2, <2>5 DEF RefuseFollowup, Written, Move, Mark, Taken
    <2>6. CASE Drain(t) \/ MarkApplied(t) \/ ActivateFollowup(t) \/ FinishSettlement(t)
      BY <1>0, <2>1, <2>2, <2>6 DEF Drain, MarkApplied, ActivateFollowup, FinishSettlement, Move, Taken
    <2> QED
      BY <1>3, <2>3, <2>4, <2>5, <2>6
  <1>4. ASSUME NEW t \in Turn, PersistTerminal(t) \/ RetryTerminal(t) PROVE Stays
    <2>1. SaveTerminal(t) /\ disp' = disp
      BY <1>4 DEF PersistTerminal, RetryTerminal, inputs
    <2>2. place'[i] = place[i]
      BY <1>0, <1>4 DEF PersistTerminal, RetryTerminal, inputs, Move, Undrained, In
    <2>3. CASE target[i] = t
      <3>1. evidence'[t] = In(t, "applied")
        BY <2>1 DEF SaveTerminal, TypeOK
      <3> QED
        BY <1>0, <2>1, <2>2, <2>3, <3>1 DEF Taken, In
    <2>4. CASE target[i] # t
      BY <1>0, <2>1, <2>2, <2>4, TerminalElsewhere DEF Taken
    <2> QED
      BY <2>3, <2>4
  <1>5. ASSUME NEW t \in Turn, CommitFollowup(t) PROVE Stays
    <2>1. PICK u \in Reserved : Promote(In(t, "batch"), u) \/ UNCHANGED <<disp, owner, rows>>
      BY <1>5 DEF CommitFollowup
    <2>2. place' = place \/ place' = Move(In(t, "batch"), "gone")
      BY <1>5 DEF CommitFollowup
    <2>3. i \notin In(t, "batch")
      BY <1>0 DEF In
    <2>4. disp'[i] = disp[i] /\ place'[i] = place[i] /\ evidence' = evidence
      BY <2>1, <2>2, <2>3 DEF Promote, Mark, Move, rows
    <2>5. row'[target[i]] \in EndedRow => row[target[i]] \in EndedRow
      BY <1>0, <2>1 DEF Promote, rows, TypeOK, EndedRow
    <2> QED
      BY <1>0, <2>4, <2>5 DEF Taken
  <1>6. ASSUME NEW t \in Turn, StartFollowup(t) \/ ResumeFollowup(t) PROVE Stays
    <2>1. UNCHANGED <<disp, place, evidence>>
      BY <1>6 DEF StartFollowup, ResumeFollowup, inputs
    <2>2. row'[target[i]] \in EndedRow => row[target[i]] \in EndedRow
      BY <1>0, <1>6 DEF StartFollowup, ResumeFollowup, TypeOK, EndedRow
    <2> QED
      BY <1>0, <2>1, <2>2 DEF Taken
  <1>7. ASSUME NEW t \in Turn, CloseStranded(t) PROVE Stays
    <2>1. UNCHANGED <<row, evidence, place>>
      BY <1>7 DEF CloseStranded, rows
    <2>2. CASE i \notin Stranded(t)
      <3>1. disp'[i] = disp[i]
        BY <1>7, <2>2 DEF CloseStranded, Mark
      <3> QED
        BY <1>0, <2>1, <3>1 DEF Taken
    <2>3. CASE i \in Stranded(t)
      <3>1. disp[i] = "steering" /\ target[i] = t /\ row[t] \in EndedRow
        BY <2>3, StrandedPlace
      <3>2. i \in Stranded(t) \intersect evidence[t]
        BY <1>0, <2>3, <3>1 DEF Taken
      <3> QED
        BY <1>7, <3>2 DEF CloseStranded, Mark
    <2> QED
      BY <2>2, <2>3
  <1>8. ASSUME NEW t \in Turn, PromoteStranded(t) PROVE Stays
    <2>1. i \notin Stranded(t)
      <3> SUFFICES ASSUME i \in Stranded(t) PROVE FALSE
        OBVIOUS
      <3>1. disp[i] = "steering" /\ target[i] = t /\ row[t] \in EndedRow
        BY StrandedPlace
      <3> QED
        BY <1>0, <1>8, <3>1 DEF Taken, PromoteStranded
    <2>2. UNCHANGED place /\ disp'[i] = disp[i] /\ evidence' = evidence
      BY <1>8, <2>1 DEF PromoteStranded, Promote, Mark, rows
    <2>3. row'[target[i]] \in EndedRow => row[target[i]] \in EndedRow
      BY <1>0, <1>8 DEF PromoteStranded, Promote, rows, TypeOK, EndedRow
    <2> QED
      BY <1>0, <2>2, <2>3 DEF Taken
  <1>9. ~Crash
    BY SteeringAssumption DEF Crash, TypeOK
  <1>10. \/ UNCHANGED <<disp, place, row, evidence>> \/ Crash
         \/ \E j \in Input : Steer(j) \/ AdmissionStep(j)
         \/ \E t \in Turn : \/ Drain(t) \/ MarkApplied(t) \/ RecordApplied(t) \/ RecordAtExit(t)
                            \/ RefuseFollowup(t) \/ ActivateFollowup(t) \/ FinishSettlement(t)
                            \/ PersistTerminal(t) \/ RetryTerminal(t) \/ CommitFollowup(t)
                            \/ StartFollowup(t) \/ ResumeFollowup(t) \/ CloseStranded(t)
                            \/ PromoteStranded(t)
    BY DEF Next, vars, inputs, rows, DriverStep, SettlementStep, StopStep, RecoveryStep, HandlerEnds,
           DeliverCancellation, ClaimSettlement, TerminalWriteFails, ReserveFollowup,
           AskStop, EnterGate, FenceTurn, MarkStop, SignalStop, Interrupt
  <1> QED
    BY <1>1, <1>2, <1>3, <1>4, <1>5, <1>6, <1>7, <1>8, <1>9, <1>10

\* The answers at first and at each step.
LEMMA AnswersInv ==
    /\ Init => Answers
    /\ TypeOK /\ GateHeld /\ Life /\ Places /\ Promotions /\ Answers /\ [Next]_vars => Answers'
PROOF
  <1>1. Init => Answers
    BY DEF Init, Answers, AnswerOf
  <1>2. ASSUME TypeOK, GateHeld, Life, Places, Promotions, Answers, [Next]_vars, NEW i \in Input
        PROVE  AnswerOf(i)'
    <2>1. CASE place[i] = "none"
      <3>1. seen[i] = {} /\ disp[i] = "none"
        BY <1>2, <2>1 DEF Places, PlaceOf
      <3>2. seen'[i] = {}
        BY <1>2, <2>1, <3>1, SeenSteps
      <3> QED
        BY <3>2 DEF AnswerOf
    <2>2. CASE place[i] # "none"
      <3>1. target'[i] = target[i] /\ AnswerOf(i)
        BY <1>2, <2>2, TargetStays DEF Answers
      <3>2. seen'[i] \subseteq {target[i], owner'[i]}
        BY <1>2, <3>1, SeenSteps, OwnerSteps DEF AnswerOf
      <3>3. place'[i] \in {"pending", "claimed", "batch"} => target[i] \notin seen'[i]
        <4> SUFFICES ASSUME place'[i] \in {"pending", "claimed", "batch"}
                     PROVE  target[i] \notin seen'[i]
          OBVIOUS
        <4>1. place[i] \in {"persisting", "pending", "claimed", "batch"}
          BY <1>2, WaitingBegins
        <4>2. target[i] \notin seen[i]
          BY <1>2, <3>1, <4>1 DEF AnswerOf, Places, PlaceOf
        <4> QED
          BY <1>2, <4>2, SeenSteps
      <3>4. ASSUME crashes' = 0, target[i] \in seen'[i]
            PROVE  \/ disp'[i] = "applied"
                   \/ /\ disp'[i] = "steering" /\ place'[i] = "applied"
                      /\ row'[target[i]] \in EndedRow => i \in evidence'[target[i]]
        <4>1. crashes = 0
          BY <1>2, <3>4, SteeringAssumption, OnlyCrashes DEF Crash, TypeOK
        <4>2. CASE target[i] \in seen[i]
          BY <1>2, <3>4, <4>1, <4>2, TakenStays
        <4>3. CASE target[i] \notin seen[i]
          <5>1. /\ MarkApplied(target[i]) /\ place[i] = "claimed" /\ place'[i] = "applied"
                /\ disp'[i] = disp[i] /\ UNCHANGED <<row, evidence>>
            BY <1>2, <3>4, <4>3, SeenSteps
          <5>2. row[target[i]] \notin EndedRow
            BY <1>2, <5>1 DEF MarkApplied, Running, Life, LifeOf, TypeOK
          <5>3. disp[i] = "steering"
            BY <1>2, <5>1, <5>2, AliveSteering
          <5> QED
            BY <5>1, <5>2, <5>3
        <4> QED
          BY <4>2, <4>3
      <3> QED
        BY <3>1, <3>2, <3>3, <3>4 DEF AnswerOf
    <2> QED
      BY <2>1, <2>2
  <1> QED
    BY <1>1, <1>2 DEF Answers

\* The answers are counted.
LEMMA AnswersCounted == ASSUME TypeOK, Places, Answers PROVE AnsweredOnce
PROOF
  <1> SUFFICES ASSUME NEW i \in Input PROVE Cardinality(seen[i]) <= 1 + crashes
    BY DEF AnsweredOnce
  <1>1. crashes \in Nat
    BY SteeringAssumption DEF TypeOK
  <1>2. /\ IsFiniteSet({target[i]}) /\ Cardinality({target[i]}) = 1
        /\ IsFiniteSet({owner[i]}) /\ Cardinality({owner[i]}) = 1
    BY FS_Singleton
  <1>3. CASE seen[i] \subseteq {target[i]} \/ seen[i] \subseteq {owner[i]}
    <2>1. Cardinality(seen[i]) <= 1 /\ Cardinality(seen[i]) \in Nat
      BY <1>2, <1>3, FS_Subset, FS_CardinalityType
    <2> QED
      BY <1>1, <2>1
  <1>4. CASE crashes # 0
    <2>0. /\ IsFiniteSet({target[i]} \union {owner[i]})
          /\ Cardinality({target[i]} \union {owner[i]})
               = IF owner[i] \in {target[i]} THEN Cardinality({target[i]})
                 ELSE Cardinality({target[i]}) + 1
      <3>1. IsFiniteSet({target[i]})
        BY <1>2
      <3> QED
        BY <3>1, FS_AddElement
    <2>1. /\ IsFiniteSet({target[i]} \union {owner[i]})
          /\ Cardinality({target[i]} \union {owner[i]}) \in {1, 2}
      BY <1>2, <2>0
    <2>2. seen[i] \subseteq {target[i]} \union {owner[i]}
      BY DEF Answers, AnswerOf
    <2>3. Cardinality(seen[i]) <= 2 /\ Cardinality(seen[i]) \in Nat
      BY <2>1, <2>2, FS_Subset, FS_CardinalityType
    <2> QED
      BY <1>1, <1>4, <2>3
  <1>5. CASE crashes = 0
    <2>1. seen[i] \subseteq {target[i], owner[i]} /\ AnswerOf(i) /\ PlaceOf(i)
      BY DEF Answers, AnswerOf, Places
    <2>2. CASE target[i] \in seen[i]
      <3>1. owner[i] = target[i]
        BY <1>5, <2>1, <2>2 DEF AnswerOf, PlaceOf
      <3> QED
        BY <1>3, <2>1, <3>1
    <2>3. CASE target[i] \notin seen[i]
      BY <1>3, <2>1, <2>3
    <2> QED
      BY <2>2, <2>3
  <1> QED
    BY <1>4, <1>5


--------------------------------------------------------------------------------
(* Exact stops *)

Unborn == {"absent", "reserved", "durable"}

\* What a stop knows of the one turn it names, as long as the process lives (only a restart
\* abandons rows, and only abandoned turns are resumed): it exists;
\* once the gate was taken it is out of the commit-to-activate window; if it waits for
\* the lane it is frozen, and then marked.
StopOf(c) ==
    /\ stop[c] # "idle" => row[aim[c]] # "absent"
    /\ stop[c] \in {"fencing", "intent", "done"} => pc[aim[c]] \notin Unborn
    /\ stop[c] = "fencing" /\ pc[aim[c]] = "queued" => fence[c] = {aim[c]}
    /\ stop[c] \in {"intent", "done"} /\ pc[aim[c]] = "queued" => aim[c] \in cancelled

ExactStops ==
    crashes = 0 =>
        /\ \A c \in Exact : StopOf(c)
        /\ \A t \in Turn : row[t] # "abandoned"

\* No turn becomes unborn; the lane is waited for by what was unborn or left behind; only
\* its start makes a turn run; rows and cancellations stay.
LEMMA TurnSteps ==
    ASSUME TypeOK, Life, [Next]_vars, ~Crash, NEW t \in Turn
    PROVE  /\ pc'[t] \in Unborn => pc[t] \in Unborn
           /\ pc'[t] = "queued" => \/ pc[t] \in Unborn \union {"queued"}
                                   \/ pc[t] = "gone" /\ row[t] = "abandoned"
           /\ pc'[t] = "running" => pc[t] = "running" \/ StartFollowup(t)
           /\ row'[t] = "absent" => row[t] = "absent"
           /\ row'[t] = "abandoned" => row[t] = "abandoned"
           /\ cancelled \subseteq cancelled'
PROOF
  <1> DEFINE Moves == /\ pc'[t] \in Unborn => pc[t] \in Unborn
                      /\ pc'[t] = "queued" => \/ pc[t] \in Unborn \union {"queued"}
                                              \/ pc[t] = "gone" /\ row[t] = "abandoned"
                      /\ pc'[t] = "running" => pc[t] = "running" \/ StartFollowup(t)
  <1>1. Moves
    <2>1. CASE pc' = pc
      BY <2>1
    <2>2. ASSUME NEW v \in Turn,
                 \/ HandlerEnds(v) \/ DeliverCancellation(v) \/ RecordAtExit(v) \/ ClaimSettlement(v)
                 \/ PersistTerminal(v) \/ TerminalWriteFails(v) \/ FinishSettlement(v)
                 \/ RefuseFollowup(v)
          PROVE  Moves
      <3>1. pc'[t] \in {pc[t], "unwinding", "settling", "lost", "closing", "finishing", "promoting",
                        "settled"}
        BY <2>2 DEF HandlerEnds, DeliverCancellation, RecordAtExit, ClaimSettlement, PersistTerminal,
                    TerminalWriteFails, FinishSettlement, RefuseFollowup, TypeOK
      <3> QED
        BY <3>1 DEF Unborn
    <2>3. ASSUME NEW v \in Turn, StartFollowup(v) PROVE Moves
      BY <2>3 DEF StartFollowup, Unborn, TypeOK
    <2>4. ASSUME NEW v \in Turn, ReserveFollowup(v) \/ CommitFollowup(v) \/ ActivateFollowup(v)
          PROVE  Moves
      <3>1. PICK u \in Turn, p \in {"accepting", "activating", "finishing"},
                 q \in Unborn \union {"queued", "gone"} :
              pc[u] \in Unborn /\ pc' = [pc EXCEPT ![v] = p, ![u] = q]
        BY <2>4 DEF ReserveFollowup, CommitFollowup, ActivateFollowup, Fresh, Reserved, Unborn
      <3> QED
        BY <3>1 DEF Unborn, TypeOK
    <2>5. ASSUME NEW v \in Turn, ResumeFollowup(v) \/ PromoteStranded(v) PROVE Moves
      <3>1. \/ pc' = pc
            \/ \E u \in Turn : /\ pc[u] = "absent" \/ (pc[u] = "gone" /\ row[u] = "abandoned")
                              /\ pc' = [pc EXCEPT ![u] = "queued"]
        BY <2>5 DEF ResumeFollowup, PromoteStranded, Fresh
      <3> QED
        BY <3>1 DEF Unborn, TypeOK
    <2>6. \/ pc' = pc
          \/ \E v \in Turn : \/ HandlerEnds(v) \/ DeliverCancellation(v) \/ RecordAtExit(v)
                             \/ StartFollowup(v) \/ ClaimSettlement(v) \/ TerminalWriteFails(v)
                             \/ FinishSettlement(v) \/ RefuseFollowup(v) \/ ResumeFollowup(v)
                             \/ ReserveFollowup(v) \/ CommitFollowup(v) \/ ActivateFollowup(v)
                             \/ PromoteStranded(v) \/ PersistTerminal(v)
      BY DEF Next, vars, turns, AdmissionStep, DriverStep, SettlementStep, StopStep, RecoveryStep,
             Steer, Admit, PersistSteer, Drain, MarkApplied, RecordApplied, RetryTerminal, AskStop,
             EnterGate, FenceTurn, MarkStop, SignalStop, Interrupt, CloseStranded
    <2> QED
      BY <2>1, <2>2, <2>3, <2>4, <2>5, <2>6
  <1>2. row'[t] \in {"absent", "abandoned"} => row'[t] = row[t]
    <2>1. CASE UNCHANGED rows
      BY <2>1 DEF rows
    <2>2. ASSUME NEW v \in Turn, PersistTerminal(v) \/ RetryTerminal(v)
          PROVE  row'[t] \notin {"absent", "abandoned"} \/ row'[t] = row[t]
      <3>1. SaveTerminal(v)
        BY <2>2 DEF PersistTerminal, RetryTerminal
      <3> QED
        BY <3>1, TerminalType, TerminalElsewhere
    <2>3. ASSUME NEW v \in Turn, StartFollowup(v) \/ ResumeFollowup(v) \/ CommitFollowup(v)
                                 \/ PromoteStranded(v)
          PROVE  row'[t] \notin {"absent", "abandoned"} \/ row'[t] = row[t]
      BY <2>3 DEF StartFollowup, ResumeFollowup, CommitFollowup, PromoteStranded, Promote, rows, TypeOK
    <2>4. CASE \E c \in Stop : SignalStop(c)
      BY <2>4 DEF SignalStop
    <2>5. \/ UNCHANGED rows \/ \E c \in Stop : SignalStop(c)
          \/ \E v \in Turn : \/ StartFollowup(v) \/ ResumeFollowup(v) \/ PersistTerminal(v)
                             \/ RetryTerminal(v) \/ CommitFollowup(v) \/ PromoteStranded(v)
      BY DEF Next, vars, AdmissionStep, DriverStep, SettlementStep, StopStep, RecoveryStep,
             Steer, Admit, PersistSteer, Drain, HandlerEnds, MarkApplied, RecordApplied,
             DeliverCancellation, RecordAtExit, ClaimSettlement, TerminalWriteFails, ReserveFollowup,
             RefuseFollowup, ActivateFollowup, FinishSettlement, AskStop, EnterGate, FenceTurn,
             MarkStop, Interrupt, CloseStranded
    <2> QED
      BY <2>1, <2>2, <2>3, <2>4, <2>5
  <1>3. cancelled \subseteq cancelled'
    BY DEF Next, vars, signals, AdmissionStep, DriverStep, SettlementStep, StopStep, RecoveryStep,
           Steer, Admit, PersistSteer, Drain, HandlerEnds, MarkApplied, RecordApplied,
           DeliverCancellation, RecordAtExit, StartFollowup, ClaimSettlement, PersistTerminal,
           TerminalWriteFails, ReserveFollowup, RefuseFollowup, CommitFollowup, ActivateFollowup,
           FinishSettlement, RetryTerminal, AskStop, EnterGate, FenceTurn, MarkStop, SignalStop,
           Interrupt, ResumeFollowup, CloseStranded, PromoteStranded
  <1> QED
    BY <1>1, <1>2, <1>3

\* A stop that neither moves nor changes its fence keeps what it knows.
LEMMA StopOfKept ==
    ASSUME TypeOK, Life, [Next]_vars, ~Crash, NEW c \in Stop, StopOf(c), row[aim[c]] # "abandoned",
           stop'[c] = stop[c], aim'[c] = aim[c], fence'[c] = fence[c]
    PROVE  StopOf(c)'
PROOF
  <1>1. aim[c] \in Turn
    BY DEF TypeOK
  <1>2. /\ pc'[aim[c]] \in Unborn => pc[aim[c]] \in Unborn
        /\ pc'[aim[c]] = "queued" => \/ pc[aim[c]] \in Unborn \union {"queued"}
                                     \/ pc[aim[c]] = "gone" /\ row[aim[c]] = "abandoned"
        /\ row'[aim[c]] = "absent" => row[aim[c]] = "absent"
        /\ cancelled \subseteq cancelled'
    BY <1>1, TurnSteps
  <1> QED
    BY <1>2 DEF StopOf

\* What an exact stop knows after a step of its own.
LEMMA StopOfOwn ==
    ASSUME TypeOK, GateHeld, Life, NEW c \in Exact, StopOf(c), AskStop(c) \/ StopStep(c)
    PROVE  StopOf(c)'
PROOF
  <1>0. c \in Stop /\ aim[c] \in Turn /\ UNCHANGED <<pc, row>>
    BY SteeringAssumption DEF AskStop, StopStep, EnterGate, FenceTurn, MarkStop, SignalStop,
                              turns, rows, TypeOK
  <1>1. CASE AskStop(c)
    <2>1. stop'[c] = "gate" /\ row[aim'[c]] # "absent"
      BY <1>0, <1>1 DEF AskStop, TypeOK
    <2> QED
      BY <1>0, <2>1 DEF StopOf
  <1>2. CASE EnterGate(c)
    <2>1. /\ stop[c] = "gate" /\ stop'[c] = "fencing" /\ aim' = aim
          /\ fence'[c] = {t \in {aim[c]} : Registered(t)}
      BY <1>0, <1>2 DEF EnterGate, TypeOK
    <2>2. pc[aim[c]] \notin Unborn
      <3>1. gate \notin Turn
        BY <1>2, SteeringAssumption DEF EnterGate
      <3>2. pc[aim[c]] \notin {"reserved", "durable"}
        BY <1>0, <3>1 DEF GateHeld
      <3>3. pc[aim[c]] # "absent"
        BY <1>0, <2>1 DEF StopOf, Life, LifeOf
      <3> QED
        BY <3>2, <3>3 DEF Unborn
    <2>3. pc[aim[c]] = "queued" => fence'[c] = {aim[c]}
      BY <2>1 DEF Registered
    <2> QED
      BY <1>0, <2>1, <2>2, <2>3 DEF StopOf
  <1>3. CASE FenceTurn(c)
    BY <1>0, <1>3 DEF FenceTurn, StopOf, signals, stops
  <1>4. CASE MarkStop(c)
    <2>1. /\ stop[c] = "fencing" /\ stop'[c] = "intent" /\ aim' = aim
          /\ cancelled' = cancelled \union {t \in fence[c] : Registered(t) /\ Unfinished(t)}
      BY <1>0, <1>4 DEF MarkStop, TypeOK
    <2>2. pc[aim[c]] = "queued" => aim[c] \in cancelled'
      BY <2>1 DEF StopOf, Registered, Unfinished
    <2> QED
      BY <1>0, <2>1, <2>2 DEF StopOf
  <1>5. CASE SignalStop(c)
    <2>1. stop[c] = "intent" /\ stop'[c] = "done" /\ UNCHANGED <<aim, cancelled>>
      BY <1>0, <1>5 DEF SignalStop, TypeOK
    <2> QED
      BY <1>0, <2>1 DEF StopOf
  <1> QED
    BY <1>1, <1>2, <1>3, <1>4, <1>5 DEF StopStep

\* The exact stops at first and at each step.
LEMMA ExactStopsInv ==
    /\ Init => ExactStops
    /\ TypeOK /\ GateHeld /\ Life /\ ExactStops /\ [Next]_vars => ExactStops'
PROOF
  <1>1. Init => ExactStops
    BY SteeringAssumption DEF Init, ExactStops, StopOf
  <1>2. ASSUME TypeOK, GateHeld, Life, ExactStops, [Next]_vars, crashes' = 0
        PROVE  (\A c \in Exact : StopOf(c)') /\ (\A t \in Turn : row'[t] # "abandoned")
    <2>1. crashes = 0 /\ ~Crash
      BY <1>2, SteeringAssumption, OnlyCrashes DEF Crash, TypeOK
    <2>2. (\A c \in Exact : StopOf(c)) /\ (\A t \in Turn : row[t] # "abandoned")
      BY <1>2, <2>1 DEF ExactStops
    <2>3. \A t \in Turn : row'[t] # "abandoned"
      BY <1>2, <2>1, <2>2, TurnSteps
    <2>4. ASSUME NEW c \in Exact PROVE StopOf(c)'
      <3>1. CASE AskStop(c) \/ StopStep(c)
        BY <1>2, <2>2, <3>1, StopOfOwn
      <3>2. CASE ~(AskStop(c) \/ StopStep(c))
        <4>1. stop'[c] = stop[c] /\ aim'[c] = aim[c] /\ fence'[c] = fence[c]
          <5>1. ASSUME NEW d \in Stop, d # c, AskStop(d) \/ StopStep(d)
                PROVE  stop'[c] = stop[c] /\ aim'[c] = aim[c] /\ fence'[c] = fence[c]
            BY <1>2, <5>1, SteeringAssumption
               DEF AskStop, StopStep, EnterGate, FenceTurn, MarkStop, SignalStop, stops, TypeOK
          <5>2. UNCHANGED stops \/ \E d \in Stop : AskStop(d) \/ StopStep(d)
            BY <1>2, <2>1
               DEF Next, vars, AdmissionStep, DriverStep, SettlementStep, RecoveryStep,
                   Steer, Admit, PersistSteer, Drain, HandlerEnds, MarkApplied, RecordApplied,
                   DeliverCancellation, RecordAtExit, StartFollowup, ClaimSettlement,
                   PersistTerminal, TerminalWriteFails, ReserveFollowup, RefuseFollowup,
                   CommitFollowup, ActivateFollowup, FinishSettlement, RetryTerminal, Interrupt,
                   ResumeFollowup, CloseStranded, PromoteStranded
          <5> QED
            BY <3>2, <5>1, <5>2 DEF stops
        <4>2. c \in Stop /\ aim[c] \in Turn
          BY <1>2, SteeringAssumption DEF TypeOK
        <4>3. row[aim[c]] # "abandoned"
          BY <2>2, <4>2
        <4> QED
          BY <1>2, <2>1, <2>2, <4>1, <4>2, <4>3, StopOfKept
      <3> QED
        BY <3>1, <3>2
    <2> QED
      BY <2>3, <2>4
  <1> QED
    BY <1>1, <1>2 DEF ExactStops

\* A stop that is done keeps its turn from running.
LEMMA DoneStops ==
    ASSUME TypeOK, Life, ExactStops, [Next]_vars, NEW c \in Exact,
           stop[c] = "done", crashes = 0, pc[aim[c]] # "running"
    PROVE  pc'[aim[c]] # "running"
PROOF
  <1>1. aim[c] \in Turn
    BY SteeringAssumption DEF TypeOK
  <1>2. CASE Crash
    BY <1>1, <1>2 DEF Crash
  <1>3. CASE StartFollowup(aim[c])
    BY <1>3 DEF StartFollowup, ExactStops, StopOf
  <1> QED
    BY <1>1, <1>2, <1>3, TurnSteps

--------------------------------------------------------------------------------
(* Safety *)

Safe ==
    /\ TypeOK /\ GateHeld /\ Life /\ Claims /\ Marked /\ Places /\ AcceptanceClosed
    /\ Batches /\ Promotions /\ Followups /\ Answers /\ ExactStops

\* The invariant holds at first and at each step.
LEMMA SafeInv == Spec => []Safe
PROOF
  <1>1. Init => Safe
    BY InitType, GateInv, LifeInv, ClaimsInv, MarkedInv, PlacesInv, AcceptanceInv, BatchesInv,
       PromotionsInv, FollowupsInv, AnswersInv, ExactStopsInv DEF Safe
  <1>2. Safe /\ [Next]_vars => Safe'
    BY TypeStep, GateInv, LifeInv, ClaimsInv, MarkedInv, PlacesInv, AcceptanceInv, BatchesInv,
       PromotionsInv, FollowupsInv, AnswersInv, ExactStopsInv DEF Safe
  <1> QED
    BY <1>1, <1>2, PTL DEF Spec

\* `Otherwise a steer can land after reclaim_all() and remain permanently steering'
\* (_execute): acceptance into a turn is closed before its inputs are recalled or
\* reclaimed, for any turns, inputs and stops, whatever fails.
THEOREM AcceptanceIsClosed == Spec => []AcceptanceClosed
PROOF
  <1>1. Safe => AcceptanceClosed
    BY DEF Safe
  <1> QED
    BY <1>1, SafeInv, PTL

\* An input is answered by one turn, but for a restart before the answer was recorded
\* (mark_applied, promote_stranded_steer_inputs).
THEOREM OneAnswer == Spec => []AnsweredOnce
PROOF
  <1>1. Safe => AnsweredOnce
    BY AnswersCounted DEF Safe
  <1> QED
    BY <1>1, SafeInv, PTL

\* `It never creates a duplicate follow-up' (_recover_stranded_steers_once): whoever
\* promotes first, no follow-up is left without an input.
THEOREM NoEmptyFollowup == Spec => []FollowupOwnsInput
PROOF
  <1>1. Safe => FollowupOwnsInput
    BY DEF Safe, Followups, FollowupOwnsInput
  <1> QED
    BY <1>1, SafeInv, PTL

\* What was promoted stays with its follow-up (close_stranded_steer_inputs,
\* _record_steer_dispositions).
THEOREM PromotionIsFinal == Spec => PromotedForGood
PROOF
  <1>1. Safe /\ [Next]_vars => [\A i \in Input : disp[i] = "promoted" =>
                                   disp'[i] \in {"promoted", "rejected"} /\ owner'[i] = owner[i]]_vars
    BY HandedForGood DEF Safe, Handed
  <1> QED
    BY <1>1, SafeInv, PTL DEF Spec, PromotedForGood

\* The inputs of a turn that its user stopped are not promoted, before or after a restart
\* (_is_explicit_user_cancelled_task).
THEOREM StoppedStaysStopped == Spec => []StoppedInputsNotRun
PROOF
  <1>1. Safe => StoppedInputsNotRun
    BY DEF Safe, Promotions, StoppedInputsNotRun
  <1> QED
    BY <1>1, SafeInv, PTL

\* cancel_exact stops the one turn it names, also in the window between the commit and
\* the activation of a follow-up.
THEOREM ExactStopHolds == Spec => StoppedExactly
PROOF
  <1>1. Safe /\ [Next]_vars => [\A c \in Exact :
                                   stop[c] = "done" /\ crashes = 0 /\ pc[aim[c]] # "running"
                                       => pc'[aim[c]] # "running"]_vars
    BY DoneStops DEF Safe
  <1> QED
    BY <1>1, SafeInv, PTL DEF Spec, StoppedExactly

================================================================================
