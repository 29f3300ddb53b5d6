--------------------------- MODULE TaskRuntimeProofs ---------------------------
(***************************************************************************)
(* Safety of the turn runtime for any tasks, sessions and limits.            *)
(*                                                                           *)
(* Ledger relates the life of a reservation, membership in _tasks and the    *)
(* progress of the settlement; it is what makes the resident counter exact   *)
(* (ResidentExact) and TypeOK inductive, since the counter must not go       *)
(* below zero.  Outcomes adds where the outcome of a turn is while it is     *)
(* being settled.  Lanes says who owns an execution lock.                    *)
(***************************************************************************)
EXTENDS TaskRuntime, FiniteSetTheorems, TLAPS

--------------------------------------------------------------------------------
(* Types *)

\* An empty runtime is well typed (__init__).
LEMMA TypeInit == Init => TypeOK
PROOF
  <1> SUFFICES ASSUME Init PROVE TypeOK
    OBVIOUS
  <1>1. order \in Seq(Task)
    BY SMT DEF Init
  <1>2. drain = "open" /\ sweep \subseteq Task /\ swept \subseteq Task
    BY DEF Init
  <1> QED
    BY <1>1, <1>2 DEF Init, TypeOK, Status, Terminal, Source, DriverState, Auxiliary

\* Shutdown works on the turns through cancellations and settlements only.
LEMMA ShutdownSteps ==
    ASSUME ShutdownStep
    PROVE  UNCHANGED <<resv, victim, order, registered, pending, running, resident, holds,
                       lane, driver, settle, owner, retry, status, row, aux, approvals>>
PROOF
  <1> USE DEF admission, shutdown, ledger, execution, cancel, settlement
  <1>1. CASE CloseAdmission \/ Quiesce \/ BeginSweep \/ EndSweep
    BY <1>1 DEF CloseAdmission, Quiesce, BeginSweep, EndSweep
  <1>2. CASE ShutdownCancels
    BY <1>2 DEF ShutdownCancels, RequestCancel
  <1>3. CASE \E t \in Task : SweepAdvances(t)
    BY <1>3 DEF SweepAdvances
  <1>4. CASE ShutdownReturns
    BY <1>4 DEF ShutdownReturns
  <1> QED
    BY <1>1, <1>2, <1>3, <1>4 DEF ShutdownStep

\* resident is the only variable whose type depends on the ledger.
LEMMA TypeNext == TypeOK /\ [Next]_vars /\ resident' \in Nat => TypeOK'
PROOF
  <1> SUFFICES ASSUME TypeOK, [Next]_vars, resident' \in Nat PROVE TypeOK'
    OBVIOUS
  <1> USE TaskRuntimeAssumption
      DEF TypeOK, Status, Terminal, Source, DriverState, Auxiliary,
          admission, shutdown, ledger, execution, cancel, settlement
  <1>1. ASSUME NEW t \in Task, AdmissionStep(t) PROVE TypeOK'
    <2>1. CASE CommitRow(t)
      BY <2>1 DEF CommitRow
    <2>2. CASE Activate(t)
      <3>1. order' \in Seq(Task)
        BY <2>2 DEF Activate
      <3>2. interrupted' \subseteq Task /\ cancelled' \subseteq Task
        BY <2>2 DEF Activate, WaitingVictim, Waiting, InSession
      <3>3. source' \in [Task -> Source] /\ intent' \in [Task -> {"none", "signal", "signalSettle", "settle"}]
        BY <2>2 DEF Activate
      <3> QED
        BY <2>2, <3>1, <3>2, <3>3 DEF Activate
    <2> QED
      BY <1>1, <2>1, <2>2 DEF AdmissionStep
  <1>2. ASSUME NEW t \in Task, DriverStep(t) PROVE TypeOK'
    <2>1. CASE StartDriver(t)
      BY <2>1 DEF StartDriver
    <2>2. CASE EnterLane(t)
      BY <2>2 DEF EnterLane
    <2>3. CASE GrantSlot(t)
      BY <2>3 DEF GrantSlot
    <2>4. CASE MarkRunning(t)
      BY <2>4 DEF MarkRunning
    <2>5. CASE AnnounceRunning(t)
      BY <2>5 DEF AnnounceRunning
    <2>6. CASE HandlerReturns(t)
      BY <2>6 DEF HandlerReturns
    <2>7. CASE RefuseToRun(t)
      BY <2>7 DEF RefuseToRun, UnwindCancelled, Unwind
    <2>8. CASE DeliverCancellation(t)
      <3>1. CASE lane' = lane /\ driver' = [driver EXCEPT ![t] = "gone"]
                  /\ status' = status /\ row' = row
        BY <2>8, <3>1 DEF DeliverCancellation
      <3>2. CASE UnwindCancelled(t) /\ row' \in {row, [row EXCEPT ![t] = "running"]}
        <4>1. driver' \in [Task -> DriverState]
          BY <3>2 DEF UnwindCancelled, Unwind
        <4>2. lane' \in [Session -> Task \union {NoTask, Auxiliary}]
          BY <3>2 DEF UnwindCancelled, Unwind
        <4>3. status' \in [Task -> Status]
          BY <3>2 DEF UnwindCancelled
        <4>4. row' \in [Task -> Status \union {"absent"}]
          BY <3>2
        <4> QED
          BY <2>8, <4>1, <4>2, <4>3, <4>4 DEF DeliverCancellation
      <3> QED
        BY <2>8, <3>1, <3>2 DEF DeliverCancellation
    <2>9. CASE RecordSteers(t)
      BY <2>9 DEF RecordSteers
    <2>10. CASE DriverExits(t)
      BY <2>10 DEF DriverExits
    <2> QED
      BY <1>2, <2>1, <2>2, <2>3, <2>4, <2>5, <2>6, <2>7, <2>8, <2>9, <2>10 DEF DriverStep
  <1>3. ASSUME NEW t \in Task, ResolveApproval(t) \/ Signal(t) PROVE TypeOK'
    BY <1>3 DEF ResolveApproval, Signal
  <1>4. ASSUME NEW t \in Task, ClaimStep(t) PROVE TypeOK'
    <2>1. PICK verdict \in Status : ClaimSettlement(t, verdict)
      <3>1. DriverVerdict(t) \in Status
        BY DEF DriverVerdict
      <3> QED
        BY <1>4, <3>1 DEF ClaimStep, DriverSettles, CancellerSettles, SweepSettles
    <2> QED
      BY <2>1 DEF ClaimSettlement
  <1>5. ASSUME NEW t \in Task, SettlementStep(t) PROVE TypeOK'
    <2>1. CASE ExpireApprovals(t)
      BY <2>1 DEF ExpireApprovals
    <2>2. CASE PersistTerminal(t)
      BY <2>2 DEF PersistTerminal
    <2>3. CASE EmitTerminal(t)
      BY <2>3 DEF EmitTerminal
    <2>4. CASE Compensate(t)
      BY <2>4 DEF Compensate
    <2>5. CASE FinishSettlement(t)
      BY <2>5 DEF FinishSettlement, FreeResidentSlot, PopRunning
    <2> QED
      BY <1>5, <2>1, <2>2, <2>3, <2>4, <2>5 DEF SettlementStep
  <1>6. ASSUME NEW t \in Task, RetryPersists(t) PROVE TypeOK'
    BY <1>6 DEF RetryPersists
  <1>7. ASSUME NEW t \in Task, EnvironmentStep(t) PROVE TypeOK'
    <2>1. CASE Reserve(t)
      <3>1. victim' \in [Task -> Task \union {NoTask}]
        BY <2>1 DEF Reserve, Unclaimed, Waiting, InSession
      <3> QED
        BY <2>1, <3>1 DEF Reserve
    <2>2. CASE AbortReservation(t)
      BY <2>2 DEF AbortReservation
    <2>3. CASE HandlerFails(t)
      BY <2>3 DEF HandlerFails, Unwind
    <2>4. CASE RaiseApproval(t)
      BY <2>4 DEF RaiseApproval
    <2> QED
      BY <1>7, <2>1, <2>2, <2>3, <2>4 DEF EnvironmentStep
  <1>8. ASSUME NEW s \in Session, Cancel(s) PROVE TypeOK'
    <2>1. PICK batch \in SUBSET Task : RequestCancel(batch, "user")
      BY <1>8 DEF Cancel
    <2> QED
      BY <2>1 DEF RequestCancel
  <1>9. ASSUME NEW s \in Session, AdmitAuxiliary(s) \/ AuxiliaryStep(s) PROVE TypeOK'
    <2>1. CASE AdmitAuxiliary(s)
      BY <2>1 DEF AdmitAuxiliary
    <2>2. CASE StartAuxiliary(s)
      BY <2>2 DEF StartAuxiliary
    <2>3. CASE EndAuxiliary(s)
      BY <2>3 DEF EndAuxiliary
    <2> QED
      BY <1>9, <2>1, <2>2, <2>3 DEF AuxiliaryStep
  <1>10. CASE ShutdownStep
    <2>1. CASE ShutdownCancels
      <3>1. PICK batch \in SUBSET Task, src \in {"shutdown", "timeout"} :
                RequestCancel(batch, src)
        BY <2>1 DEF ShutdownCancels
      <3> QED
        BY <3>1 DEF RequestCancel
    <2>2. CASE CloseAdmission \/ Quiesce \/ BeginSweep \/ EndSweep
      BY <2>2 DEF CloseAdmission, Quiesce, BeginSweep, EndSweep
    <2>3. CASE \E t \in Task : SweepAdvances(t)
      BY <2>3 DEF SweepAdvances
    <2>4. CASE ShutdownReturns
      BY <2>4 DEF ShutdownReturns
    <2> QED
      BY <1>10, <2>1, <2>2, <2>3, <2>4 DEF ShutdownStep
  <1>11. CASE UNCHANGED vars
    BY <1>11 DEF vars
  <1> QED
    BY <1>1, <1>2, <1>3, <1>4, <1>5, <1>6, <1>7, <1>8, <1>9, <1>10, <1>11 DEF Next

--------------------------------------------------------------------------------
(* The ledger *)

\* Only activated tasks are in _tasks; a settlement works on a task that is, and takes it
\* out as its last step; a resident hold belongs to a settled task.
Ledger ==
    \A t \in Task :
        /\ t \in registered => resv[t] = "activated"
        /\ settle[t] # "open" => resv[t] = "activated"
        /\ settle[t] \notin {"open", "settled"} => t \in registered
        /\ settle[t] = "settled" => t \notin registered
        /\ t \in holds => settle[t] = "settled"

\* Most steps do not touch what Ledger and ResidentExact speak of.
Quiet == UNCHANGED <<resv, registered, settle, holds, resident, aux>>

\* A driver's steps, approvals, signals and a failing handler neither admit, settle nor
\* release a turn.
LEMMA QuietSteps ==
    ASSUME NEW t \in Task,
           \/ DriverStep(t) \/ ResolveApproval(t) \/ Signal(t) \/ HandlerFails(t)
           \/ RaiseApproval(t)
    PROVE  Quiet
PROOF
  <1> USE DEF Quiet, admission, shutdown, ledger, settlement
  <1>1. CASE DriverStep(t)
    BY <1>1 DEF DriverStep, StartDriver, EnterLane, GrantSlot, MarkRunning, AnnounceRunning,
                HandlerReturns, RefuseToRun, DeliverCancellation, RecordSteers, DriverExits
  <1>2. CASE ResolveApproval(t) \/ RaiseApproval(t)
    BY <1>2 DEF ResolveApproval, RaiseApproval
  <1>3. CASE Signal(t)
    BY <1>3 DEF Signal
  <1>4. CASE HandlerFails(t)
    BY <1>4 DEF HandlerFails
  <1> QED
    BY <1>1, <1>2, <1>3, <1>4

\* The steps of a settlement before its last one.
LEMMA SettlingSteps ==
    ASSUME NEW t \in Task,
           \/ ExpireApprovals(t) \/ PersistTerminal(t) \/ EmitTerminal(t) \/ Compensate(t)
    PROVE  /\ UNCHANGED <<resv, registered, holds, resident, aux>>
           /\ settle[t] \notin {"open", "settled"}
           /\ \E v \in {"persisting", "emitting", "compensating", "finishing"} :
                    settle' = [settle EXCEPT ![t] = v]
PROOF
  BY DEF ExpireApprovals, PersistTerminal, EmitTerminal, Compensate, admission, shutdown, ledger

\* No step takes a task through reservation, registration, settlement and detached hold
\* in another order than _reserve_persist_and_activate and _mark_terminal_claimed do.
LEMMA LedgerNext == TypeOK /\ Ledger /\ [Next]_vars => Ledger'
PROOF
  <1> SUFFICES ASSUME TypeOK, Ledger, [Next]_vars PROVE Ledger'
    OBVIOUS
  <1> USE TaskRuntimeAssumption DEF TypeOK, admission, shutdown, ledger, settlement
  <1>0. ASSUME Quiet PROVE Ledger'
    BY <1>0 DEF Quiet, Ledger
  <1>1. ASSUME NEW t \in Task, CommitRow(t) PROVE Ledger'
    BY <1>1 DEF CommitRow, Ledger
  <1>2. ASSUME NEW t \in Task, Activate(t) PROVE Ledger'
    BY <1>2 DEF Activate, Ledger
  <1>3. ASSUME NEW t \in Task, ClaimStep(t) PROVE Ledger'
    <2>1. /\ UNCHANGED <<resv, registered, holds>> /\ t \in registered /\ settle[t] = "open"
          /\ settle' = [settle EXCEPT ![t] = "claimed"]
      BY <1>3 DEF ClaimStep, DriverSettles, CancellerSettles, SweepSettles, ClaimSettlement, TerminalClosing
    <2> QED
      BY <2>1 DEF Ledger
  <1>4. ASSUME NEW t \in Task,
               ExpireApprovals(t) \/ PersistTerminal(t) \/ EmitTerminal(t) \/ Compensate(t)
        PROVE  Ledger'
    <2>1. PICK v \in {"persisting", "emitting", "compensating", "finishing"} :
            /\ UNCHANGED <<resv, registered, holds>>
            /\ settle[t] \notin {"open", "settled"}
            /\ settle' = [settle EXCEPT ![t] = v]
      BY <1>4, SettlingSteps
    <2> QED
      BY <2>1 DEF Ledger
  <1>5. ASSUME NEW t \in Task, FinishSettlement(t) PROVE Ledger'
    BY <1>5 DEF FinishSettlement, FreeResidentSlot, Ledger
  <1>6. ASSUME NEW t \in Task, RetryPersists(t) PROVE Ledger'
    BY <1>6 DEF RetryPersists, Ledger
  <1>7. ASSUME NEW t \in Task, Reserve(t) PROVE Ledger'
    <2>1. resv[t] = "none" /\ resv' = [resv EXCEPT ![t] = "held"]
          /\ UNCHANGED <<registered, settle, holds>>
      BY <1>7 DEF Reserve
    <2> QED
      BY <2>1 DEF Ledger
  <1>8. ASSUME NEW t \in Task, AbortReservation(t) PROVE Ledger'
    BY <1>8 DEF AbortReservation, OpenReservations, Ledger
  <1>9. ASSUME NEW s \in Session, Cancel(s) \/ AdmitAuxiliary(s) \/ AuxiliaryStep(s)
        PROVE  Ledger'
    <2>1. UNCHANGED <<resv, registered, settle, holds>>
      BY <1>9 DEF Cancel, RequestCancel, AdmitAuxiliary, AuxiliaryStep, StartAuxiliary,
                  EndAuxiliary
    <2> QED
      BY <2>1 DEF Ledger
  <1>10. CASE ShutdownStep
    BY <1>0, <1>10, ShutdownSteps DEF Quiet
  <1>11. CASE UNCHANGED vars
    BY <1>0, <1>11 DEF vars, Quiet
  <1> QED
    BY <1>0, <1>1, <1>2, <1>3, <1>4, <1>5, <1>6, <1>7, <1>8, <1>9, <1>10, <1>11, QuietSteps
       DEF Next, AdmissionStep, SettlementStep, EnvironmentStep

--------------------------------------------------------------------------------
(* The resident counter *)

\* The sets it counts are finite.
LEMMA FiniteTasks ==
    ASSUME NEW A, A \subseteq Task, NEW t \in Task
    PROVE  /\ IsFiniteSet(A) /\ Cardinality(A) \in Nat
           /\ t \notin A => Cardinality(A \union {t}) = Cardinality(A) + 1
           /\ t \in A => Cardinality(A \ {t}) = Cardinality(A) - 1
           /\ Cardinality(A \ {t}) \in Nat
PROOF
  <1>1. IsFiniteSet(A) /\ IsFiniteSet(A \ {t})
    BY TaskRuntimeAssumption, FS_Subset
  <1> QED
    BY <1>1, FS_CardinalityType, FS_AddElement, FS_RemoveElement

\* The sessions with auxiliary work are finitely many, and one more or one less is counted
\* as such.
LEMMA FiniteSessions ==
    ASSUME NEW A, A \subseteq Session, NEW s \in Session
    PROVE  /\ IsFiniteSet(A) /\ Cardinality(A) \in Nat
           /\ s \notin A => Cardinality(A \union {s}) = Cardinality(A) + 1
           /\ s \in A => Cardinality(A \ {s}) = Cardinality(A) - 1
           /\ Cardinality(A \ {s}) \in Nat
PROOF
  <1>1. IsFiniteSet(A) /\ IsFiniteSet(A \ {s})
    BY TaskRuntimeAssumption, FS_Subset
  <1> QED
    BY <1>1, FS_CardinalityType, FS_AddElement, FS_RemoveElement

ActiveAuxiliary == {s \in Session : aux[s] # "none"}

\* Its four terms are natural numbers.
LEMMA SlotsType ==
    ASSUME TypeOK
    PROVE  /\ Cardinality(OpenReservations) \in Nat /\ Cardinality(registered) \in Nat
           /\ Cardinality(holds) \in Nat /\ Cardinality(ActiveAuxiliary) \in Nat
PROOF
  <1>1. OpenReservations \subseteq Task /\ registered \subseteq Task /\ holds \subseteq Task
        /\ ActiveAuxiliary \subseteq Session
    BY DEF TypeOK, OpenReservations, ActiveAuxiliary
  <1>2. \A A : A \subseteq Task => Cardinality(A) \in Nat
    BY TaskRuntimeAssumption, FS_Subset, FS_CardinalityType
  <1>3. \A A : A \subseteq Session => Cardinality(A) \in Nat
    BY TaskRuntimeAssumption, FS_Subset, FS_CardinalityType
  <1> QED
    BY <1>1, <1>2, <1>3

\* Every step that moves a task or a session between the four sets adjusts the counter.
LEMMA ResidentNext ==
    TypeOK /\ Ledger /\ ResidentExact /\ [Next]_vars => ResidentExact' /\ resident' \in Nat
PROOF
  <1> SUFFICES ASSUME TypeOK, Ledger, ResidentExact, [Next]_vars
               PROVE  ResidentExact' /\ resident' \in Nat
    OBVIOUS
  <1> DEFINE O == Cardinality(OpenReservations)
             G == Cardinality(registered)
             H == Cardinality(holds)
             X == Cardinality(ActiveAuxiliary)
  <1> USE TaskRuntimeAssumption DEF admission, shutdown, ledger, settlement
  <1>a. /\ O \in Nat /\ G \in Nat /\ H \in Nat /\ X \in Nat
        /\ resident = O + G + H + X /\ resident <= MaxResident
    BY SlotsType DEF ResidentExact, ActiveAuxiliary
  <1>b. OpenReservations \subseteq Task /\ registered \subseteq Task /\ holds \subseteq Task
        /\ ActiveAuxiliary \subseteq Session
    BY DEF TypeOK, OpenReservations, ActiveAuxiliary
  <1>c. ASSUME resident' = O' + G' + H' + X', resident' <= MaxResident, resident' \in Nat
        PROVE  ResidentExact' /\ resident' \in Nat
    BY <1>c DEF ResidentExact, ActiveAuxiliary
  <1>d. ASSUME UNCHANGED resv PROVE O' = O
    BY <1>d DEF OpenReservations
  <1>e. ASSUME UNCHANGED aux PROVE X' = X
    BY <1>e DEF ActiveAuxiliary
  <1>f. ASSUME UNCHANGED registered PROVE G' = G
    BY <1>f
  <1>g. ASSUME UNCHANGED holds PROVE H' = H
    BY <1>g
  <1> HIDE DEF O, G, H, X
  <1>0. ASSUME UNCHANGED <<resv, registered, holds, resident, aux>>
        PROVE  ResidentExact' /\ resident' \in Nat
    BY <1>0, <1>a, <1>c, <1>d, <1>e, <1>f, <1>g
  <1>1. ASSUME NEW t \in Task, CommitRow(t) PROVE ResidentExact' /\ resident' \in Nat
    <2>1. OpenReservations' = OpenReservations
      BY <1>1 DEF CommitRow, OpenReservations, TypeOK
    <2>2. O' = O
      BY <2>1 DEF O
    <2> QED
      BY <1>1, <2>2, <1>a, <1>c, <1>e, <1>f, <1>g DEF CommitRow
  <1>2. ASSUME NEW t \in Task, Activate(t) PROVE ResidentExact' /\ resident' \in Nat
    <2>1. t \in OpenReservations /\ OpenReservations' = OpenReservations \ {t}
      BY <1>2 DEF Activate, OpenReservations, TypeOK
    <2>2. t \notin registered /\ registered' = registered \union {t}
      BY <1>2 DEF Activate, Ledger
    <2>3. O' = O - 1 /\ O' \in Nat
      BY <1>b, <2>1, FiniteTasks DEF O
    <2>4. G' = G + 1
      BY <1>b, <2>2, FiniteTasks DEF G
    <2> QED
      BY <1>2, <2>3, <2>4, <1>a, <1>c, <1>e, <1>g DEF Activate
  <1>3. ASSUME NEW t \in Task, ClaimStep(t) PROVE ResidentExact' /\ resident' \in Nat
    BY <1>0, <1>3 DEF ClaimStep, DriverSettles, CancellerSettles, SweepSettles, ClaimSettlement
  <1>4. ASSUME NEW t \in Task,
               ExpireApprovals(t) \/ PersistTerminal(t) \/ EmitTerminal(t) \/ Compensate(t)
        PROVE  ResidentExact' /\ resident' \in Nat
    BY <1>0, <1>4, SettlingSteps
  <1>5. ASSUME NEW t \in Task, FinishSettlement(t) PROVE ResidentExact' /\ resident' \in Nat
    <2>1. t \in registered /\ t \notin holds /\ registered' = registered \ {t}
      BY <1>5 DEF FinishSettlement, Ledger
    <2>2. G' = G - 1 /\ G' \in Nat
      BY <1>b, <2>1, FiniteTasks DEF G
    <2>3. CASE t \in retry
      <3>1. holds' = holds \union {t}
        BY <1>5, <2>3 DEF FinishSettlement, FreeResidentSlot
      <3>2. H' = H + 1
        BY <1>b, <2>1, <3>1, FiniteTasks DEF H
      <3> QED
        BY <1>5, <2>2, <2>3, <3>2, <1>a, <1>c, <1>d, <1>e
           DEF FinishSettlement, FreeResidentSlot
    <2>4. CASE t \notin retry
      BY <1>5, <2>2, <2>4, <1>a, <1>c, <1>d, <1>e, <1>g DEF FinishSettlement, FreeResidentSlot
    <2> QED
      BY <2>3, <2>4
  <1>6. ASSUME NEW t \in Task, RetryPersists(t) PROVE ResidentExact' /\ resident' \in Nat
    <2>1. CASE t \in holds
      <3>1. H' = H - 1 /\ H' \in Nat
        BY <1>b, <1>6, <2>1, FiniteTasks DEF RetryPersists, H
      <3> QED
        BY <1>6, <2>1, <3>1, <1>a, <1>c, <1>d, <1>e, <1>f DEF RetryPersists
    <2>2. CASE t \notin holds
      <3>1. holds' = holds
        BY <1>6, <2>2 DEF RetryPersists
      <3> QED
        BY <1>0, <1>6, <2>2, <3>1 DEF RetryPersists
    <2> QED
      BY <2>1, <2>2
  <1>7. ASSUME NEW t \in Task, Reserve(t) PROVE ResidentExact' /\ resident' \in Nat
    <2>1. /\ resv[t] = "none" /\ resv' = [resv EXCEPT ![t] = "held"]
          /\ resident < MaxResident /\ resident' = resident + 1
          /\ UNCHANGED <<registered, holds, aux>>
      BY <1>7 DEF Reserve
    <2>2. t \notin OpenReservations /\ OpenReservations' = OpenReservations \union {t}
      BY <2>1 DEF OpenReservations, TypeOK
    <2>3. O' = O + 1
      BY <1>b, <2>2, FiniteTasks DEF O
    <2> QED
      BY <2>1, <2>3, <1>a, <1>c, <1>e, <1>f, <1>g
  <1>8. ASSUME NEW t \in Task, AbortReservation(t) PROVE ResidentExact' /\ resident' \in Nat
    <2>1. t \in OpenReservations /\ OpenReservations' = OpenReservations \ {t}
      BY <1>8 DEF AbortReservation, OpenReservations, TypeOK
    <2>2. O' = O - 1 /\ O' \in Nat
      BY <1>b, <2>1, FiniteTasks DEF O
    <2> QED
      BY <1>8, <2>2, <1>a, <1>c, <1>e, <1>f, <1>g DEF AbortReservation
  <1>9. ASSUME NEW s \in Session, Cancel(s) PROVE ResidentExact' /\ resident' \in Nat
    BY <1>0, <1>9 DEF Cancel, RequestCancel
  <1>10. ASSUME NEW s \in Session, AdmitAuxiliary(s)
         PROVE  ResidentExact' /\ resident' \in Nat
    <2>1. s \notin ActiveAuxiliary /\ ActiveAuxiliary' = ActiveAuxiliary \union {s}
      BY <1>10 DEF AdmitAuxiliary, ActiveAuxiliary, TypeOK
    <2>2. X' = X + 1
      BY <1>b, <2>1, FiniteSessions DEF X
    <2> QED
      BY <1>10, <2>2, <1>a, <1>c, <1>d, <1>f, <1>g DEF AdmitAuxiliary
  <1>11. ASSUME NEW s \in Session, StartAuxiliary(s)
         PROVE  ResidentExact' /\ resident' \in Nat
    <2>1. ActiveAuxiliary' = ActiveAuxiliary
      BY <1>11 DEF StartAuxiliary, ActiveAuxiliary, TypeOK
    <2>2. X' = X
      BY <2>1 DEF X
    <2> QED
      BY <1>11, <2>2, <1>a, <1>c, <1>d, <1>f, <1>g DEF StartAuxiliary
  <1>12. ASSUME NEW s \in Session, EndAuxiliary(s) PROVE ResidentExact' /\ resident' \in Nat
    <2>1. s \in ActiveAuxiliary /\ ActiveAuxiliary' = ActiveAuxiliary \ {s}
      BY <1>12 DEF EndAuxiliary, ActiveAuxiliary, TypeOK
    <2>2. X' = X - 1 /\ X' \in Nat
      BY <1>b, <2>1, FiniteSessions DEF X
    <2> QED
      BY <1>12, <2>2, <1>a, <1>c, <1>d, <1>f, <1>g DEF EndAuxiliary
  <1>13. ASSUME Quiet PROVE ResidentExact' /\ resident' \in Nat
    BY <1>0, <1>13 DEF Quiet
  <1>14. CASE ShutdownStep
    BY <1>13, <1>14, ShutdownSteps DEF Quiet
  <1>15. CASE UNCHANGED vars
    BY <1>13, <1>15 DEF vars, Quiet
  <1> QED
    BY <1>1, <1>2, <1>3, <1>4, <1>5, <1>6, <1>7, <1>8, <1>9, <1>10, <1>11, <1>12, <1>13, <1>14,
       <1>15, QuietSteps DEF Next, AdmissionStep, SettlementStep, EnvironmentStep, AuxiliaryStep

\* Nothing is resident in an empty runtime and the counter is zero (__init__).
LEMMA ResidentInit == Init => Ledger /\ ResidentExact
PROOF
  <1> SUFFICES ASSUME Init PROVE Ledger /\ ResidentExact
    OBVIOUS
  <1>1. OpenReservations = {} /\ registered = {} /\ holds = {}
        /\ {s \in Session : aux[s] # "none"} = {} /\ resident = 0
    BY DEF Init, OpenReservations
  <1>2. ResidentExact
    BY <1>1, FS_EmptySet, TaskRuntimeAssumption DEF ResidentExact
  <1> QED
    BY <1>2 DEF Init, Ledger

IInv == TypeOK /\ Ledger /\ ResidentExact

\* The inductive invariant of the resident ledger (_tasks, _terminal_resident_holds and
\* _resident_count) holds in every reachable state.
THEOREM LedgerInvariant == Spec => []IInv
PROOF
  <1>1. Init => IInv
    BY TypeInit, ResidentInit DEF IInv
  <1>2. IInv /\ [Next]_vars => IInv'
    BY TypeNext, LedgerNext, ResidentNext DEF IInv
  <1> QED
    BY <1>1, <1>2, PTL DEF Spec

\* Type correctness; that resident is a natural number is not obvious, for every ending
\* of a turn subtracts from it.
THEOREM TypeCorrect == Spec => []TypeOK
PROOF
  BY LedgerInvariant, PTL DEF IInv

\* reserve, abort_reservation, activate, the settlement, a terminal retry and auxiliary
\* work keep _resident_count exact and within max_resident_tasks.
THEOREM ResidentCounterExact == Spec => []ResidentExact
PROOF
  BY LedgerInvariant, PTL DEF IInv

--------------------------------------------------------------------------------
(* The lane and the running entry *)

\* From the moment it owns its lane until it leaves the block, a driver holds the lock.
Lanes ==
    \A t \in Task :
        driver[t] \in {"gate", "marking", "announcing", "handler", "returning"}
            => lane[SessionOf[t]] = t

\* No step gives a lane away while its driver is inside the lock, or leaves
\* _running_by_session pointing at another task than the one that runs.
LEMMA LanesNext ==
    TypeOK /\ Lanes /\ RunningEntryExact /\ [Next]_vars => Lanes' /\ RunningEntryExact'
PROOF
  <1> SUFFICES ASSUME TypeOK, Lanes, RunningEntryExact, [Next]_vars
               PROVE  Lanes' /\ RunningEntryExact'
    OBVIOUS
  <1> USE TaskRuntimeAssumption
      DEF TypeOK, admission, shutdown, ledger, execution, cancel, settlement, TerminalClosing
  <1>0. ASSUME UNCHANGED <<driver, lane, running>>,
               \A t \in Task : settle[t] # "open" => settle'[t] # "open"
        PROVE  Lanes' /\ RunningEntryExact'
    BY <1>0 DEF Lanes, RunningEntryExact
  <1>1. ASSUME NEW t \in Task, CommitRow(t) PROVE Lanes' /\ RunningEntryExact'
    BY <1>0, <1>1 DEF CommitRow
  <1>2. ASSUME NEW t \in Task, Activate(t) PROVE Lanes' /\ RunningEntryExact'
    <2>1. UNCHANGED <<lane, running, settle>> /\ driver' = [driver EXCEPT ![t] = "created"]
      BY <1>2 DEF Activate
    <2> QED
      BY <2>1 DEF Lanes, RunningEntryExact
  \* A driver moves on inside its lane, or to a place outside it.
  <1>3. ASSUME NEW t \in Task, UNCHANGED <<running, settle>>, NEW d \in DriverState,
               driver' = [driver EXCEPT ![t] = d],
               \/ UNCHANGED lane
               \/ lane' = [lane EXCEPT ![SessionOf[t]] = IF @ = t THEN NoTask ELSE @],
               d \in {"gate", "marking", "returning"} => UNCHANGED lane /\ lane[SessionOf[t]] = t,
               d = "announcing" => FALSE,
               d = "handler" => UNCHANGED lane /\ driver[t] = "announcing"
        PROVE  Lanes' /\ RunningEntryExact'
    BY <1>3 DEF Lanes, RunningEntryExact
  <1>4. ASSUME NEW t \in Task, DriverStep(t) PROVE Lanes' /\ RunningEntryExact'
    <2> USE DEF DriverState
    <2>1. CASE StartDriver(t)
      BY <1>3, <2>1 DEF StartDriver
    <2>2. CASE EnterLane(t)
      <3>1. PICK d \in {"returning", "gate"} : driver' = [driver EXCEPT ![t] = d]
        BY <2>2 DEF EnterLane
      <3>2. lane[SessionOf[t]] = NoTask /\ lane' = [lane EXCEPT ![SessionOf[t]] = t]
            /\ UNCHANGED <<running, settle>>
        BY <2>2 DEF EnterLane
      <3> QED
        BY <3>1, <3>2 DEF Lanes, RunningEntryExact
    <2>3. CASE GrantSlot(t)
      BY <1>3, <2>3 DEF GrantSlot, Lanes
    <2>4. CASE MarkRunning(t)
      <3>1. lane[SessionOf[t]] = t
        BY <2>4 DEF MarkRunning, Lanes
      <3>2. UNCHANGED <<lane, settle>> /\ driver' = [driver EXCEPT ![t] = "announcing"]
            /\ running' = [running EXCEPT ![SessionOf[t]] = t]
        BY <2>4 DEF MarkRunning
      <3> QED
        BY <3>1, <3>2 DEF Lanes, RunningEntryExact
    <2>5. CASE AnnounceRunning(t)
      BY <1>3, <2>5 DEF AnnounceRunning
    <2>6. CASE HandlerReturns(t)
      BY <1>3, <2>6 DEF HandlerReturns, Lanes
    <2>7. CASE RefuseToRun(t)
      BY <1>3, <2>7 DEF RefuseToRun, UnwindCancelled, Unwind
    <2>8. CASE DeliverCancellation(t)
      BY <1>3, <2>8 DEF DeliverCancellation, UnwindCancelled, Unwind
    <2>9. CASE RecordSteers(t)
      BY <1>3, <2>9 DEF RecordSteers
    <2>10. CASE DriverExits(t)
      BY <1>3, <2>10 DEF DriverExits
    <2> QED
      BY <1>4, <2>1, <2>2, <2>3, <2>4, <2>5, <2>6, <2>7, <2>8, <2>9, <2>10 DEF DriverStep
  <1>5. ASSUME NEW t \in Task, ResolveApproval(t) \/ Signal(t) \/ RaiseApproval(t)
        PROVE  Lanes' /\ RunningEntryExact'
    BY <1>0, <1>5 DEF ResolveApproval, Signal, RaiseApproval
  <1>6. ASSUME NEW t \in Task, ClaimStep(t) PROVE Lanes' /\ RunningEntryExact'
    BY <1>0, <1>6 DEF ClaimStep, DriverSettles, CancellerSettles, SweepSettles, ClaimSettlement
  <1>7. ASSUME NEW t \in Task,
               ExpireApprovals(t) \/ PersistTerminal(t) \/ EmitTerminal(t) \/ Compensate(t)
        PROVE  Lanes' /\ RunningEntryExact'
    BY <1>0, <1>7 DEF ExpireApprovals, PersistTerminal, EmitTerminal, Compensate
  <1>8. ASSUME NEW t \in Task, FinishSettlement(t) PROVE Lanes' /\ RunningEntryExact'
    <2>1. /\ UNCHANGED <<driver, lane>> /\ settle[t] = "finishing"
          /\ settle' = [settle EXCEPT ![t] = "settled"]
          /\ running' = [running EXCEPT ![SessionOf[t]] = IF @ = t THEN NoTask ELSE @]
      BY <1>8 DEF FinishSettlement, PopRunning
    <2> QED
      BY <2>1 DEF Lanes, RunningEntryExact
  <1>9. ASSUME NEW t \in Task, RetryPersists(t) \/ Reserve(t) \/ AbortReservation(t)
        PROVE  Lanes' /\ RunningEntryExact'
    BY <1>0, <1>9 DEF RetryPersists, Reserve, AbortReservation
  <1>10. ASSUME NEW t \in Task, HandlerFails(t) PROVE Lanes' /\ RunningEntryExact'
    BY <1>3, <1>10 DEF HandlerFails, Unwind, DriverState
  <1>11. ASSUME NEW s \in Session, Cancel(s) \/ AdmitAuxiliary(s)
         PROVE  Lanes' /\ RunningEntryExact'
    BY <1>0, <1>11 DEF Cancel, RequestCancel, AdmitAuxiliary
  <1>12. ASSUME NEW s \in Session, AuxiliaryStep(s) PROVE Lanes' /\ RunningEntryExact'
    <2>1. UNCHANGED <<driver, running, settle>>
      BY <1>12 DEF AuxiliaryStep, StartAuxiliary, EndAuxiliary
    <2>2. \A u \in Task : lane[SessionOf[u]] = u => lane'[SessionOf[u]] = u
      <3>1. CASE StartAuxiliary(s)
        BY <3>1 DEF StartAuxiliary
      <3>2. CASE EndAuxiliary(s)
        BY <3>2 DEF EndAuxiliary, Auxiliary
      <3> QED
        BY <1>12, <3>1, <3>2 DEF AuxiliaryStep
    <2> QED
      BY <2>1, <2>2 DEF Lanes, RunningEntryExact
  <1>13. CASE ShutdownStep
    BY <1>0, <1>13, ShutdownSteps
  <1>14. CASE UNCHANGED vars
    BY <1>0, <1>14 DEF vars
  <1> QED
    BY <1>1, <1>2, <1>4, <1>5, <1>6, <1>7, <1>8, <1>9, <1>10, <1>11, <1>12, <1>13, <1>14
       DEF Next, AdmissionStep, SettlementStep, EnvironmentStep

\* A turn that executes is the one _running_by_session names, however the settlements of
\* its predecessors overlap with it.
THEOREM RunningEntryIsExact == Spec => []RunningEntryExact
PROOF
  <1>1. Init => Lanes /\ RunningEntryExact
    BY DEF Init, Lanes, RunningEntryExact
  <1> QED
    BY <1>1, LanesNext, TypeCorrect, PTL DEF Spec

--------------------------------------------------------------------------------
(* Outcomes *)

\* A settlement never overlaps _mark_running (both take collect_claim); a terminal row is
\* written by the settlement or its retry, with the outcome the settlement decided; and
\* an outcome whose row is not written is owed.
Outcomes ==
    \A t \in Task :
        /\ TerminalClosing(t) => driver[t] \notin {"marking", "announcing"}
        /\ row[t] \in Terminal => TerminalClosing(t) /\ row[t] = status[t]
        /\ t \in retry => TerminalClosing(t)
        /\ settle[t] = "finishing" => row[t] = status[t] \/ t \in retry

\* What a step may do to outcomes.
Stable ==
    \A t \in Task :
        /\ TerminalClosing(t) => TerminalClosing(t)' /\ status'[t] = status[t]
        /\ row[t] \in Terminal => row'[t] = row[t]

\* A step that is not part of a settlement leaves the settlement's record alone, writes no
\* terminal row, and touches neither the outcome nor the row of a turn that is settling.
Outside ==
    /\ UNCHANGED <<settle, retry, holds>>
    /\ \A t \in Task :
        /\ TerminalClosing(t) => status'[t] = status[t] /\ row'[t] = row[t]
                                   /\ driver'[t] \notin {"marking", "announcing"}
        /\ row'[t] = row[t] \/ row'[t] \notin Terminal

\* A step that is not part of a settlement changes no outcome and loses no owed row.
LEMMA OutsideSteps == TypeOK /\ Ledger /\ Outcomes /\ TerminalOutcomeKept /\ Outside
                        => Outcomes' /\ TerminalOutcomeKept' /\ Stable
PROOF
  BY DEF TypeOK, Ledger, Outcomes, TerminalOutcomeKept, Outside, Stable, TerminalClosing

\* Whatever a driver does, up to the failure of its handler, is not part of a settlement.
LEMMA DriverStaysOutside ==
    ASSUME TypeOK, Outcomes, NEW t \in Task, DriverStep(t) \/ HandlerFails(t)
    PROVE  Outside
PROOF
  <1> USE DEF TypeOK, admission, shutdown, ledger, execution, cancel, settlement, TerminalClosing,
              Terminal, Status, DriverState
  <1>a. TerminalClosing(t) => driver[t] \notin {"marking", "announcing"}
    BY DEF Outcomes
  <1>0. ASSUME UNCHANGED <<settle, retry, holds, status, row>>,
               \E d \in DriverState \ {"marking", "announcing"} :
                    driver' = [driver EXCEPT ![t] = d]
        PROVE  Outside
    BY <1>0 DEF Outside, Outcomes
  <1>1. CASE StartDriver(t)
    BY <1>0, <1>1 DEF StartDriver
  <1>2. CASE EnterLane(t)
    BY <1>0, <1>2 DEF EnterLane
  <1>3. CASE GrantSlot(t)
    BY <1>3 DEF GrantSlot, Outside, Outcomes
  <1>4. CASE MarkRunning(t)
    BY <1>4 DEF MarkRunning, Outside, Outcomes
  <1>5. CASE AnnounceRunning(t)
    BY <1>5, <1>a DEF AnnounceRunning, Outside, Outcomes
  <1>6. CASE HandlerReturns(t)
    BY <1>0, <1>6 DEF HandlerReturns
  <1>7. ASSUME UnwindCancelled(t), UNCHANGED <<settle, retry, holds>>,
               \/ UNCHANGED row
               \/ driver[t] = "announcing" /\ row' = [row EXCEPT ![t] = "running"]
        PROVE  Outside
    <2>1. \E d \in {"unwinding", "settling"} : driver' = [driver EXCEPT ![t] = d]
      BY <1>7 DEF UnwindCancelled, Unwind
    <2>2. \A u \in Task : TerminalClosing(u) => status'[u] = status[u]
      BY <1>7 DEF UnwindCancelled
    <2>3. \A u \in Task : TerminalClosing(u) => row'[u] = row[u]
      BY <1>7, <1>a
    <2>4. \A u \in Task : row'[u] = row[u] \/ row'[u] \notin Terminal
      BY <1>7
    <2> QED
      BY <1>7, <2>1, <2>2, <2>3, <2>4 DEF Outside, Outcomes
  <1>8. CASE RefuseToRun(t)
    BY <1>7, <1>8 DEF RefuseToRun
  <1>9. CASE DeliverCancellation(t)
    <2>1. CASE driver[t] \in {"created", "unwinding"}
      BY <1>0, <1>9, <2>1 DEF DeliverCancellation
    <2>2. CASE driver[t] \notin {"created", "unwinding"}
      BY <1>7, <1>9, <2>2 DEF DeliverCancellation
    <2> QED
      BY <2>1, <2>2
  <1>10. CASE RecordSteers(t)
    BY <1>0, <1>10 DEF RecordSteers
  <1>11. CASE DriverExits(t)
    BY <1>0, <1>11 DEF DriverExits
  <1>12. CASE HandlerFails(t)
    BY <1>0, <1>12 DEF HandlerFails, Unwind
  <1> QED
    BY <1>1, <1>2, <1>3, <1>4, <1>5, <1>6, <1>8, <1>9, <1>10, <1>11, <1>12 DEF DriverStep

\* Claim, write, compensation, retry and every other step keep a decided outcome, the row
\* that records it and the debt of one that is not yet written.
LEMMA OutcomesNext ==
    TypeOK /\ Ledger /\ Outcomes /\ TerminalOutcomeKept /\ [Next]_vars
        => Outcomes' /\ TerminalOutcomeKept' /\ Stable
PROOF
  <1> SUFFICES ASSUME TypeOK, Ledger, Outcomes, TerminalOutcomeKept, [Next]_vars
               PROVE  Outcomes' /\ TerminalOutcomeKept' /\ Stable
    OBVIOUS
  <1> DEFINE Goal == Outcomes' /\ TerminalOutcomeKept' /\ Stable
  <1> USE DEF admission, shutdown, ledger, execution, cancel, settlement
  <1>0. ASSUME Outside PROVE Goal
    BY <1>0, OutsideSteps
  <1>a. ASSUME UNCHANGED <<settle, retry, holds, status, row, driver>> PROVE Goal
    BY <1>0, <1>a DEF Outside, Outcomes
  <1>1. ASSUME NEW t \in Task, CommitRow(t) PROVE Goal
    <2>1. ~TerminalClosing(t)
      BY <1>1 DEF CommitRow, Ledger, TerminalClosing
    <2>2. UNCHANGED <<settle, retry, holds, status, driver>>
          /\ row' = [row EXCEPT ![t] = "queued"]
      BY <1>1 DEF CommitRow
    <2>3. Outside
      BY <2>1, <2>2 DEF Outside, Outcomes, TypeOK, Terminal
    <2> QED
      BY <1>0, <2>3
  <1>2. ASSUME NEW t \in Task, Activate(t) PROVE Goal
    <2>1. UNCHANGED <<settle, retry, holds, status, row>>
          /\ driver' = [driver EXCEPT ![t] = "created"]
      BY <1>2 DEF Activate
    <2>2. Outside
      BY <2>1 DEF Outside, Outcomes, TypeOK
    <2> QED
      BY <1>0, <2>2
  <1>3. ASSUME NEW t \in Task, DriverStep(t) \/ HandlerFails(t) PROVE Goal
    BY <1>0, <1>3, DriverStaysOutside
  <1>4. ASSUME NEW t \in Task, ResolveApproval(t) \/ Signal(t) \/ RaiseApproval(t)
                               \/ Reserve(t) \/ AbortReservation(t)
        PROVE  Goal
    BY <1>a, <1>4 DEF ResolveApproval, Signal, RaiseApproval, Reserve, AbortReservation
  <1>5. ASSUME NEW t \in Task, ClaimStep(t) PROVE Goal
    <2>1. PICK verdict : ClaimSettlement(t, verdict)
      BY <1>5 DEF ClaimStep, DriverSettles, CancellerSettles, SweepSettles
    <2>2. settle[t] = "open" /\ settle' = [settle EXCEPT ![t] = "claimed"]
          /\ status' = [status EXCEPT ![t] = verdict] /\ UNCHANGED <<retry, holds, row, driver>>
          /\ driver[t] \notin {"marking", "announcing"}
      BY <2>1 DEF ClaimSettlement, ClaimsFree, TerminalClosing
    <2> QED
      BY <2>2 DEF Outcomes, TerminalOutcomeKept, Stable, TerminalClosing, TypeOK
  <1>6. ASSUME NEW t \in Task, ExpireApprovals(t) PROVE Goal
    <2>1. settle[t] = "claimed" /\ settle' = [settle EXCEPT ![t] = "persisting"]
          /\ UNCHANGED <<retry, holds, row, driver, status>>
      BY <1>6 DEF ExpireApprovals
    <2> QED
      BY <2>1 DEF Outcomes, TerminalOutcomeKept, Stable, TerminalClosing, TypeOK
  <1>7. ASSUME NEW t \in Task, PersistTerminal(t) PROVE Goal
    <2>1. settle[t] = "persisting" /\ settle' = [settle EXCEPT ![t] = "emitting"]
          /\ row' \in {row, [row EXCEPT ![t] = status[t]]}
          /\ UNCHANGED <<retry, holds, driver, status>>
      BY <1>7 DEF PersistTerminal
    <2> QED
      BY <2>1 DEF Outcomes, TerminalOutcomeKept, Stable, TerminalClosing, TypeOK
  <1>8. ASSUME NEW t \in Task, EmitTerminal(t) PROVE Goal
    <2>1. settle[t] = "emitting" /\ UNCHANGED <<retry, holds, driver, status, row>>
          /\ settle' = [settle EXCEPT ![t] = IF row[t] = status[t] THEN "finishing"
                                             ELSE "compensating"]
      BY <1>8 DEF EmitTerminal
    <2> QED
      BY <2>1 DEF Outcomes, TerminalOutcomeKept, Stable, TerminalClosing, TypeOK
  <1>9. ASSUME NEW t \in Task, Compensate(t) PROVE Goal
    <2>1. settle[t] = "compensating" /\ settle' = [settle EXCEPT ![t] = "finishing"]
          /\ UNCHANGED <<holds, driver, status>>
          /\ \/ row' = [row EXCEPT ![t] = status[t]] /\ UNCHANGED retry
             \/ retry' = retry \union {t} /\ UNCHANGED row
      BY <1>9 DEF Compensate
    <2> QED
      BY <2>1 DEF Outcomes, TerminalOutcomeKept, Stable, TerminalClosing, TypeOK
  <1>10. ASSUME NEW t \in Task, FinishSettlement(t) PROVE Goal
    <2>1. settle[t] = "finishing" /\ settle' = [settle EXCEPT ![t] = "settled"]
          /\ UNCHANGED <<retry, row, driver, status>>
          /\ holds \subseteq holds' /\ (t \in retry => t \in holds')
      BY <1>10 DEF FinishSettlement, FreeResidentSlot
    <2> QED
      BY <2>1 DEF Outcomes, TerminalOutcomeKept, Stable, TerminalClosing, TypeOK
  <1>11. ASSUME NEW t \in Task, RetryPersists(t) PROVE Goal
    <2>1. t \in retry /\ row' = [row EXCEPT ![t] = status[t]] /\ retry' = retry \ {t}
          /\ holds' = holds \ {t} /\ UNCHANGED <<settle, driver, status>>
      BY <1>11 DEF RetryPersists
    <2> QED
      BY <2>1 DEF Outcomes, TerminalOutcomeKept, Stable, TerminalClosing, TypeOK
  <1>12. ASSUME NEW s \in Session, Cancel(s) \/ AdmitAuxiliary(s) \/ AuxiliaryStep(s)
         PROVE  Goal
    BY <1>a, <1>12 DEF Cancel, RequestCancel, AdmitAuxiliary, AuxiliaryStep, StartAuxiliary,
                       EndAuxiliary
  <1>13. ASSUME ShutdownStep PROVE Goal
    BY <1>a, <1>13, ShutdownSteps
  <1>14. ASSUME UNCHANGED vars PROVE Goal
    BY <1>a, <1>14 DEF vars
  <1> HIDE DEF Goal
  <1>15. Goal
    BY <1>1, <1>2, <1>3, <1>4, <1>5, <1>6, <1>7, <1>8, <1>9, <1>10, <1>11, <1>12, <1>13, <1>14
       DEF Next, AdmissionStep, SettlementStep, EnvironmentStep
  <1> QED
    BY <1>15 DEF Goal

\* The inductive invariant of the settlement (_mark_terminal, _persist_terminal_update and
\* the terminal retry) holds in every reachable state.
THEOREM OutcomesInvariant == Spec => [](Outcomes /\ TerminalOutcomeKept)
PROOF
  <1>1. Init => Outcomes /\ TerminalOutcomeKept
    BY DEF Init, Outcomes, TerminalOutcomeKept, TerminalClosing, Terminal
  <1>2. IInv /\ Outcomes /\ TerminalOutcomeKept /\ [Next]_vars
            => Outcomes' /\ TerminalOutcomeKept'
    BY OutcomesNext DEF IInv
  <1> QED
    BY <1>1, <1>2, LedgerInvariant, PTL DEF Spec

\* A settled turn's outcome is in its durable row, or a retry owes the write and keeps the
\* resident slot (_mark_terminal_claimed, _compensate_terminal_persistence).
THEOREM OutcomeIsKept == Spec => []TerminalOutcomeKept
PROOF
  BY OutcomesInvariant, PTL

\* The first caller of _mark_terminal decides the outcome; no later driver, canceller or
\* retry replaces it, in memory or in the durable row.
THEOREM OutcomeIsStable == Spec => OutcomeStable
PROOF
  <1>1. IInv /\ Outcomes /\ TerminalOutcomeKept /\ [Next]_vars
            => [\A t \in Task :
                    /\ TerminalClosing(t) => status'[t] = status[t]
                    /\ row[t] \in Terminal => row'[t] = row[t]]_vars
    BY OutcomesNext DEF IInv, Stable
  <1> QED
    BY <1>1, LedgerInvariant, OutcomesInvariant, PTL DEF Spec, OutcomeStable

--------------------------------------------------------------------------------
(* Who may end a turn that runs *)

\* Whoever is to settle a turn in the place of its driver has cancelled it before it
\* started: it then never starts.
Stand ==
    \A t \in Task :
        /\ intent[t] \in {"signalSettle", "settle"} =>
             t \in cancelled /\ driver[t] \notin {"announcing", "handler"}
        /\ driver[t] \in {"announcing", "handler"} => status[t] # "queued"

Standing == Stand /\ NoneEndedWhileRunning

\* A step that ends nothing, asks for no settlement and starts nothing.
LEMMA StandingKept ==
    ASSUME Standing, settle' = settle, status' = status, cancelled \subseteq cancelled',
           \A t \in Task : \/ intent'[t] \in {intent[t], "none", "signal"}
                           \/ intent[t] = "signalSettle" /\ intent'[t] = "settle",
           \A t \in Task :
             driver'[t] \in {"marking", "announcing", "handler"} => driver'[t] = driver[t]
    PROVE  Standing'
  BY DEF Standing, Stand, NoneEndedWhileRunning, TerminalClosing

\* A driver that unwinds ends nothing: it writes the status of a turn nobody settles.
LEMMA StandingUnwind ==
    ASSUME TypeOK, Standing, NEW t \in Task, UnwindCancelled(t), UNCHANGED <<cancel, settle>>
    PROVE  Standing'
PROOF
  <1>1. /\ UNCHANGED <<cancelled, intent, settle>>
        /\ \A u \in Task \ {t} : driver'[u] = driver[u] /\ status'[u] = status[u]
    BY DEF UnwindCancelled, Unwind, cancel, TypeOK
  <1>2. driver'[t] \in {"unwinding", "settling"}
    BY DEF UnwindCancelled, Unwind, TypeOK
  <1> QED
    BY <1>1, <1>2 DEF Standing, Stand, NoneEndedWhileRunning, TerminalClosing

\* A settlement is begun by the driver after its handler, by a canceller of a turn that
\* never started, or by the sweep.
LEMMA StandingClaim ==
    ASSUME TypeOK, Standing, NEW t \in Task, ClaimStep(t)
    PROVE  Standing'
PROOF
  <1> USE DEF admission, shutdown, ledger, execution, cancel
  <1>1. PICK verdict \in Terminal : ClaimSettlement(t, verdict) /\
          \/ driver[t] \in {"returning", "settling"}
          \/ intent[t] = "settle"
          \/ verdict = "abandoned"
    <2>1. DriverVerdict(t) \in Terminal
      BY DEF DriverVerdict, Terminal
    <2> QED
      BY <2>1 DEF ClaimStep, DriverSettles, CancellerSettles, SweepSettles, Terminal
  <1>2. /\ UNCHANGED <<driver, cancelled, intent>>
        /\ settle' = [settle EXCEPT ![t] = "claimed"]
        /\ status' = [status EXCEPT ![t] = verdict]
        /\ driver[t] \notin {"marking", "announcing"}
    BY <1>1 DEF ClaimSettlement, ClaimsFree
  <1>3. driver[t] = "handler" => verdict = "abandoned"
    BY <1>1 DEF Standing, Stand
  <1> QED
    BY <1>2, <1>3 DEF Standing, Stand, NoneEndedWhileRunning, TerminalClosing, Terminal, TypeOK

\* An activation evicts what has not started, and signals what has.
LEMMA StandingActivate ==
    ASSUME TypeOK, Standing, NEW t \in Task, Activate(t)
    PROVE  Standing'
PROOF
  <1>1. /\ UNCHANGED <<settle, status>> /\ cancelled \subseteq cancelled'
        /\ driver' = [driver EXCEPT ![t] = "created"]
    BY DEF Activate, settlement
  <1>2. ASSUME NEW u \in Task, u \in WaitingVictim(t)
        PROVE  u \in cancelled' /\ driver[u] \notin {"announcing", "handler"}
    BY <1>2 DEF Activate, WaitingVictim, Standing, Stand
  <1>3. \A u \in Task \ WaitingVictim(t) : intent'[u] = intent[u]
    BY DEF Activate
  <1> QED
    BY <1>1, <1>2, <1>3 DEF Standing, Stand, NoneEndedWhileRunning, TerminalClosing, TypeOK

\* No other step of a driver ends a turn; the decision to run is taken with the claim held.
LEMMA StandingDriver ==
    ASSUME TypeOK, Standing, NEW t \in Task, DriverStep(t) \/ HandlerFails(t)
    PROVE  Standing'
PROOF
  <1> USE DEF admission, shutdown, ledger, execution, cancel, settlement
  <1>1. CASE GrantSlot(t)
    BY <1>1 DEF GrantSlot, Standing, Stand, NoneEndedWhileRunning, TerminalClosing, TypeOK
  <1>2. CASE MarkRunning(t)
    BY <1>2 DEF MarkRunning, Standing, Stand, NoneEndedWhileRunning, TerminalClosing, TypeOK
  <1>3. CASE AnnounceRunning(t)
    BY <1>3 DEF AnnounceRunning, Standing, Stand, NoneEndedWhileRunning, TerminalClosing, TypeOK
  <1>4. CASE RefuseToRun(t)
    BY <1>4, StandingUnwind DEF RefuseToRun
  <1>5. CASE DeliverCancellation(t)
    <2>1. UNCHANGED <<cancel, settle>>
      BY <1>5 DEF DeliverCancellation
    <2>2. CASE UnwindCancelled(t)
      BY <2>1, <2>2, StandingUnwind
    <2>3. CASE driver' = [driver EXCEPT ![t] = "gone"] /\ UNCHANGED status
      BY <2>1, <2>3, StandingKept DEF TypeOK
    <2> QED
      BY <1>5, <2>2, <2>3 DEF DeliverCancellation
  <1>6. ASSUME UNCHANGED <<settle, status, cancelled, intent>>,
               NEW d \in {"lane", "returning", "gate", "unwinding", "settling", "gone"},
               driver' = [driver EXCEPT ![t] = d]
        PROVE  Standing'
    BY <1>6, StandingKept DEF TypeOK
  <1>7. CASE StartDriver(t) \/ EnterLane(t) \/ HandlerReturns(t) \/ RecordSteers(t)
               \/ DriverExits(t) \/ HandlerFails(t)
    <2>1. UNCHANGED <<settle, status, cancelled, intent>>
      BY <1>7 DEF StartDriver, EnterLane, HandlerReturns, RecordSteers, DriverExits, HandlerFails
    <2>2. \E d \in {"lane", "returning", "gate", "unwinding", "settling", "gone"} :
            driver' = [driver EXCEPT ![t] = d]
      BY <1>7 DEF StartDriver, EnterLane, HandlerReturns, RecordSteers, DriverExits,
           HandlerFails, Unwind
    <2> QED
      BY <1>6, <2>1, <2>2
  <1> QED
    BY <1>1, <1>2, <1>3, <1>4, <1>5, <1>7 DEF DriverStep

\* A batch of cancellations asks for the settlement of drivers that have not started.
LEMMA StandingRequest ==
    ASSUME TypeOK, Standing, NEW batch, NEW src, RequestCancel(batch, src)
    PROVE  Standing'
PROOF
  <1>1. /\ UNCHANGED <<settle, status, driver>> /\ cancelled' = cancelled \union batch
        /\ intent' = [u \in Task |->
                        IF u \notin batch THEN intent[u]
                        ELSE IF status[u] = "queued" /\ driver[u] = "created"
                             THEN "signalSettle" ELSE "signal"]
    BY DEF RequestCancel, execution, settlement
  <1> QED
    BY <1>1 DEF Standing, Stand, NoneEndedWhileRunning, TerminalClosing

LEMMA StandingNext == TypeOK /\ Standing /\ [Next]_vars => Standing'
PROOF
  <1> SUFFICES ASSUME TypeOK, Standing, [Next]_vars PROVE Standing'
    OBVIOUS
  <1> USE DEF admission, shutdown, ledger, execution, cancel, settlement
  <1>1. ASSUME UNCHANGED <<settle, status, driver, cancelled, intent>> PROVE Standing'
    BY <1>1, StandingKept
  \* The progress of a settlement.
  <1>2. ASSUME NEW t \in Task, NEW p, p # "open", settle[t] # "open",
               settle' = [settle EXCEPT ![t] = p], UNCHANGED <<status, driver, cancelled>>,
               UNCHANGED intent \/ intent' = [intent EXCEPT ![t] = "none"]
        PROVE  Standing'
    BY <1>2 DEF Standing, Stand, NoneEndedWhileRunning, TerminalClosing, TypeOK
  <1>3. ASSUME NEW t \in Task, SettlementStep(t) PROVE Standing'
    BY <1>2, <1>3 DEF SettlementStep, ExpireApprovals, PersistTerminal, EmitTerminal, Compensate,
         FinishSettlement
  <1>4. ASSUME NEW t \in Task, Signal(t) PROVE Standing'
    <2>1. /\ UNCHANGED <<settle, status, driver, cancelled>>
          /\ intent' = [intent EXCEPT ![t] = IF @ = "signalSettle" THEN "settle" ELSE "none"]
      BY <1>4 DEF Signal
    <2> QED
      BY <2>1, StandingKept DEF TypeOK
  <1>5. ASSUME NEW t \in Task,
               \/ CommitRow(t) \/ ResolveApproval(t) \/ RetryPersists(t)
               \/ Reserve(t) \/ AbortReservation(t) \/ RaiseApproval(t)
        PROVE  Standing'
    BY <1>1, <1>5 DEF CommitRow, ResolveApproval, RetryPersists, Reserve, AbortReservation,
         RaiseApproval
  <1>6. ASSUME NEW s \in Session, Cancel(s) \/ AdmitAuxiliary(s) \/ AuxiliaryStep(s)
        PROVE  Standing'
    <2>1. CASE Cancel(s)
      BY <2>1, StandingRequest DEF Cancel
    <2>2. CASE AdmitAuxiliary(s) \/ AuxiliaryStep(s)
      BY <1>1, <2>2 DEF AdmitAuxiliary, AuxiliaryStep, StartAuxiliary, EndAuxiliary
    <2> QED
      BY <1>6, <2>1, <2>2
  <1>7. CASE ShutdownStep
    <2>1. CASE ShutdownCancels
      BY <2>1, StandingRequest DEF ShutdownCancels
    <2>2. CASE ~ShutdownCancels
      BY <1>1, <1>7, <2>2 DEF ShutdownStep, CloseAdmission, Quiesce, BeginSweep, SweepAdvances,
           EndSweep, ShutdownReturns
    <2> QED
      BY <2>1, <2>2
  <1>8. CASE UNCHANGED vars
    BY <1>1, <1>8 DEF vars
  <1> QED
    BY <1>3, <1>4, <1>5, <1>6, <1>7, <1>8, StandingActivate, StandingDriver, StandingClaim
       DEF Next, AdmissionStep, EnvironmentStep

\* Only the sweep ends a turn whose handler runs, and nobody ends one that is starting.
THEOREM RunningTurnsAreNotEnded == Spec => []NoneEndedWhileRunning
PROOF
  <1>1. Init => Standing
    BY DEF Init, Standing, Stand, NoneEndedWhileRunning, TerminalClosing
  <1>2. Standing => NoneEndedWhileRunning
    BY DEF Standing
  <1> QED
    BY <1>1, <1>2, StandingNext, TypeCorrect, PTL DEF Spec

--------------------------------------------------------------------------------
(* The pending limit *)

\* The turns an activation told to make room, and the waiting turns that still take a place.
Evicted == {victim[t] : t \in {u \in Task : resv[u] = "activated"}} \ {NoTask}
Contending(s) == {t \in Waiting(s) : /\ t \notin ReservedVictims /\ t \notin Evicted
                                     /\ status[t] = "queued"}
Arriving(s) == OpenReservations \intersect InSession(s)
Bypassing(s) == {t \in InSession(s) \intersect Interrupting : resv[t] # "none"}

\* A waiting turn is in _tasks, a victim is a turn of the same session, and one that was
\* evicted has been told to stop.
Victims ==
    /\ pending \subseteq registered
    /\ \A t \in Task : victim[t] # NoTask =>
         /\ SessionOf[victim[t]] = SessionOf[t]
         /\ resv[t] = "activated" => victim[t] \in cancelled

\* Each arrival has a place, one that a victim gave up, or one beyond the limit.
Room == \A s \in Session :
          Cardinality(Contending(s)) + Cardinality(Arriving(s))
              <= MaxPending + Cardinality(Bypassing(s))

\* Of the sets that are counted, the one that shrinks has fewer, and one more is one more.
LEMMA FewerTasks ==
    ASSUME NEW A, NEW B, A \subseteq B, B \subseteq Task
    PROVE  /\ Cardinality(A) \in Nat /\ Cardinality(B) \in Nat
           /\ Cardinality(A) <= Cardinality(B)
PROOF
  <1>1. IsFiniteSet(B)
    BY TaskRuntimeAssumption, FS_Subset
  <1>2. IsFiniteSet(A) /\ Cardinality(A) <= Cardinality(B)
    BY <1>1, FS_Subset
  <1> QED
    BY <1>1, <1>2, FS_CardinalityType

\* No other step picks or frees a victim, and no step puts a turn back into the queue.
LEMMA StayingOut ==
    ASSUME TypeOK, [Next]_vars,
           \A t \in Task : ~Reserve(t) /\ ~CommitRow(t) /\ ~AbortReservation(t) /\ ~Activate(t)
    PROVE  /\ UNCHANGED <<resv, victim>>
           /\ pending' \subseteq pending /\ cancelled \subseteq cancelled'
           /\ pending \subseteq registered => pending' \subseteq registered'
           /\ \A t \in Task : status'[t] = "queued" => status[t] = "queued"
PROOF
  <1> DEFINE Goal == /\ UNCHANGED <<resv, victim>>
                     /\ pending' \subseteq pending /\ cancelled \subseteq cancelled'
                     /\ pending \subseteq registered => pending' \subseteq registered'
                     /\ \A t \in Task : status'[t] = "queued" => status[t] = "queued"
  <1> SUFFICES Goal
    OBVIOUS
  <1> USE DEF admission, shutdown, ledger, execution, cancel, settlement
  <1>1. ASSUME NEW t \in Task, DriverStep(t) PROVE Goal
    <2>1. CASE MarkRunning(t)
      BY <2>1 DEF MarkRunning, TypeOK
    <2>2. CASE RefuseToRun(t) \/ DeliverCancellation(t)
      <3>1. \/ status' = status
            \/ \E v \in Status \ {"queued"} : status' = [status EXCEPT ![t] = v]
            \/ status' = [status EXCEPT ![t] = @]
        BY <2>2 DEF RefuseToRun, DeliverCancellation, UnwindCancelled, Status, Terminal
      <3>2. UNCHANGED <<resv, victim, pending, registered, cancelled>>
        BY <2>2 DEF RefuseToRun, DeliverCancellation
      <3> QED
        BY <3>1, <3>2 DEF TypeOK
    <2>3. CASE UNCHANGED <<resv, victim, pending, registered, cancelled, status>>
      BY <2>3
    <2> QED
      BY <1>1, <2>1, <2>2, <2>3 DEF DriverStep, StartDriver, EnterLane, GrantSlot,
           AnnounceRunning, HandlerReturns, RecordSteers, DriverExits
  <1>2. ASSUME NEW t \in Task, ClaimStep(t) PROVE Goal
    <2>1. PICK verdict \in Terminal : ClaimSettlement(t, verdict)
      <3>1. DriverVerdict(t) \in Terminal
        BY DEF DriverVerdict, Terminal
      <3> QED
        BY <1>2, <3>1 DEF ClaimStep, DriverSettles, CancellerSettles, SweepSettles, Terminal
    <2> QED
      BY <2>1 DEF ClaimSettlement, TypeOK, Terminal
  <1>3. ASSUME NEW t \in Task,
               \/ ResolveApproval(t) \/ Signal(t) \/ RetryPersists(t)
               \/ SettlementStep(t) \/ HandlerFails(t) \/ RaiseApproval(t)
        PROVE  Goal
    BY <1>3 DEF ResolveApproval, Signal, SettlementStep, ExpireApprovals, PersistTerminal,
         EmitTerminal, Compensate, FinishSettlement, RetryPersists, HandlerFails, RaiseApproval
  <1>4. ASSUME NEW s \in Session, Cancel(s) \/ AdmitAuxiliary(s) \/ AuxiliaryStep(s)
        PROVE  Goal
    BY <1>4 DEF Cancel, RequestCancel, AdmitAuxiliary, AuxiliaryStep, StartAuxiliary,
         EndAuxiliary
  <1>5. CASE ShutdownStep
    <2>1. cancelled \subseteq cancelled'
      BY <1>5 DEF ShutdownStep, CloseAdmission, ShutdownCancels, RequestCancel, Quiesce,
           BeginSweep, SweepAdvances, EndSweep, ShutdownReturns
    <2> QED
      BY <1>5, <2>1, ShutdownSteps
  <1>6. CASE UNCHANGED vars
    BY <1>6 DEF vars
  <1> QED
    BY <1>1, <1>2, <1>3, <1>4, <1>5, <1>6 DEF Next, AdmissionStep, EnvironmentStep

\* A victim is picked from the session's queue, and evicted by its activation only.
LEMMA VictimsNext == TypeOK /\ Ledger /\ Victims /\ [Next]_vars => Victims'
PROOF
  <1> SUFFICES ASSUME TypeOK, Ledger, Victims, [Next]_vars PROVE Victims'
    OBVIOUS
  <1> USE TaskRuntimeAssumption DEF Victims, TypeOK
  <1>1. ASSUME NEW t \in Task, Reserve(t) PROVE Victims'
    <2>1. /\ UNCHANGED <<pending, registered, cancelled>>
          /\ resv' = [resv EXCEPT ![t] = "held"]
          /\ \/ victim' = victim
             \/ \E v \in Waiting(SessionOf[t]) : victim' = [victim EXCEPT ![t] = v]
      BY <1>1 DEF Reserve, Unclaimed, ledger, cancel
    <2> QED
      BY <2>1 DEF Waiting, InSession
  <1>2. ASSUME NEW t \in Task, CommitRow(t) \/ AbortReservation(t) PROVE Victims'
    <2>1. /\ UNCHANGED <<victim, pending, registered, cancelled>>
          /\ \E v \in {"durable", "aborted"} : resv' = [resv EXCEPT ![t] = v]
      BY <1>2 DEF CommitRow, AbortReservation, ledger, cancel
    <2> QED
      BY <2>1
  <1>3. ASSUME NEW t \in Task, Activate(t) PROVE Victims'
    <2> DEFINE evicted == {v \in Waiting(SessionOf[t]) : v = victim[t] /\ status[v] = "queued"}
    <2>1. /\ pending' = pending \union {t} /\ registered' = registered \union {t}
          /\ cancelled \subseteq cancelled' /\ evicted \subseteq cancelled'
          /\ resv' = [resv EXCEPT ![t] = "activated"]
          /\ victim' = [victim EXCEPT ![t] = IF evicted = {} THEN NoTask ELSE @]
      BY <1>3 DEF Activate, WaitingVictim
    <2>2. evicted # {} => victim[t] \in cancelled'
      BY <2>1
    <2> QED
      BY <2>1, <2>2
  <1>4. CASE \A t \in Task :
               ~Reserve(t) /\ ~CommitRow(t) /\ ~AbortReservation(t) /\ ~Activate(t)
    BY <1>4, StayingOut
  <1> QED
    BY <1>1, <1>2, <1>3, <1>4

\* At most one more is at most one more.
LEMMA OneMoreTask ==
    ASSUME NEW A, NEW B, A \subseteq Task, B \subseteq Task, NEW x, B \subseteq A \union {x}
    PROVE  Cardinality(B) <= Cardinality(A) + 1
PROOF
  <1>1. IsFiniteSet(A) /\ Cardinality(A) \in Nat
    BY TaskRuntimeAssumption, FS_Subset, FS_CardinalityType
  <1>2. /\ IsFiniteSet(A \union {x})
        /\ Cardinality(A \union {x}) = IF x \in A THEN Cardinality(A) ELSE Cardinality(A) + 1
    BY <1>1, FS_AddElement
  <1>3. IsFiniteSet(B) /\ Cardinality(B) <= Cardinality(A \union {x})
    BY <1>2, FS_Subset
  <1> QED
    BY <1>1, <1>2, <1>3, FS_CardinalityType

RoomIn(s) == Cardinality(Contending(s)) + Cardinality(Arriving(s))
                 <= MaxPending + Cardinality(Bypassing(s))

\* The counts are numbers, before and after a step.
LEMMA RoomType ==
    ASSUME NEW s \in Session
    PROVE  /\ Contending(s) \subseteq Task /\ Contending(s)' \subseteq Task
           /\ Arriving(s) \subseteq Task /\ Arriving(s)' \subseteq Task
           /\ Bypassing(s) \subseteq Task /\ Bypassing(s)' \subseteq Task
           /\ Cardinality(Contending(s)) \in Nat /\ Cardinality(Contending(s)') \in Nat
           /\ Cardinality(Arriving(s)) \in Nat /\ Cardinality(Arriving(s)') \in Nat
           /\ Cardinality(Bypassing(s)) \in Nat /\ Cardinality(Bypassing(s)') \in Nat
PROOF
  <1>1. /\ Contending(s) \subseteq Task /\ Contending(s)' \subseteq Task
        /\ Arriving(s) \subseteq Task /\ Arriving(s)' \subseteq Task
        /\ Bypassing(s) \subseteq Task /\ Bypassing(s)' \subseteq Task
    BY DEF Contending, Waiting, InSession, Arriving, OpenReservations, Bypassing
  <1> QED
    BY <1>1, FewerTasks

\* A step that adds nobody to the queue or the admissions of a session keeps its room.
LEMMA RoomKept ==
    ASSUME NEW s \in Session, RoomIn(s),
           Contending(s)' \subseteq Contending(s), Arriving(s)' \subseteq Arriving(s),
           Bypassing(s) \subseteq Bypassing(s)'
    PROVE  RoomIn(s)'
PROOF
  <1>1. /\ Cardinality(Contending(s)') <= Cardinality(Contending(s))
        /\ Cardinality(Arriving(s)') <= Cardinality(Arriving(s))
        /\ Cardinality(Bypassing(s)) <= Cardinality(Bypassing(s)')
    BY RoomType, FewerTasks
  <1> QED
    BY <1>1, RoomType, TaskRuntimeAssumption DEF RoomIn

\* When the gate is free the session admits nobody, and its victims have left the queue.
LEMMA GateIsFree ==
    ASSUME TypeOK, Ledger, Victims, NEW s \in Session, GateFree(s)
    PROVE  Arriving(s) = {} /\ Waiting(s) \intersect Evicted = {}
PROOF
  <1>1. Arriving(s) = {}
    BY DEF GateFree, Arriving
  <1>2. ASSUME NEW v \in Waiting(s), v \in Evicted PROVE FALSE
    <2>1. PICK u \in Task : resv[u] = "activated" /\ victim[u] = v
      BY <1>2 DEF Evicted
    <2>2. v \in Task /\ v \in registered /\ SessionOf[v] = s /\ v # NoTask
      BY <1>2, TaskRuntimeAssumption DEF Waiting, InSession, Victims
    <2>3. u \in InSession(s)
      BY <2>1, <2>2 DEF Victims, InSession
    <2>4. settle[v] = "settled"
      BY <2>1, <2>2, <2>3 DEF GateFree, Evicting
    <2> QED
      BY <2>2, <2>4 DEF Ledger
  <1> QED
    BY <1>1, <1>2

\* reserve looks at the queue and at the admissions; a full queue gives a victim up.
LEMMA RoomReserve ==
    ASSUME TypeOK, Ledger, Victims, Room, NEW t \in Task, Reserve(t) PROVE Room'
PROOF
  <1> USE TaskRuntimeAssumption
  <1>1. /\ resv[t] = "none" /\ resv' = [resv EXCEPT ![t] = "held"]
        /\ UNCHANGED <<pending, status>> /\ GateFree(SessionOf[t])
        /\ SessionOf[t] \in Session
    BY DEF Reserve, ledger
  <1>2. \/ victim' = victim
        \/ \E v \in Task : victim' = [victim EXCEPT ![t] = v]
    BY DEF Reserve, Unclaimed, Waiting, InSession
  <1>3. OpenReservations' = OpenReservations \union {t} /\ t \notin OpenReservations
    BY <1>1 DEF OpenReservations, TypeOK
  <1>4. ReservedVictims \subseteq ReservedVictims' /\ Evicted' = Evicted
    <2>1. \A u \in Task \ {t} : victim'[u] = victim[u] /\ resv'[u] = resv[u]
      BY <1>1, <1>2 DEF TypeOK
    <2>2. ReservedVictims \subseteq ReservedVictims'
      BY <1>3, <2>1 DEF ReservedVictims, OpenReservations
    <2>3. resv[t] # "activated" /\ resv'[t] # "activated"
      BY <1>1 DEF TypeOK
    <2>4. {u \in Task : resv'[u] = "activated"} = {u \in Task : resv[u] = "activated"}
      BY <2>1, <2>3
    <2>5. \A u \in {w \in Task : resv[w] = "activated"} : victim'[u] = victim[u]
      BY <2>1, <2>3
    <2> QED
      BY <2>2, <2>4, <2>5 DEF Evicted
  <1> SUFFICES ASSUME NEW s \in Session PROVE RoomIn(s)'
    BY DEF Room, RoomIn
  <1>5. RoomIn(s)
    BY DEF Room, RoomIn
  <1>6. Contending(s)' \subseteq Contending(s)
    BY <1>1, <1>4 DEF Contending, Waiting
  <1>7. Bypassing(s) \subseteq Bypassing(s)'
    BY <1>1 DEF Bypassing, TypeOK
  <1>8. CASE s # SessionOf[t]
    <2>1. Arriving(s)' \subseteq Arriving(s)
      BY <1>3, <1>8 DEF Arriving, InSession
    <2> QED
      BY <1>5, <1>6, <1>7, <2>1, RoomKept
  <1>9. CASE s = SessionOf[t]
    <2>1. Arriving(s) = {} /\ Waiting(s) \intersect Evicted = {}
      BY <1>1, <1>9, GateIsFree
    <2>2. Arriving(s)' = {t}
      BY <1>3, <1>9, <2>1 DEF Arriving, InSession
    <2>3. Cardinality(Arriving(s)) = 0 /\ Cardinality(Arriving(s)') = 1
      BY <2>1, <2>2, FS_EmptySet, FS_Singleton
    <2>4. /\ Cardinality(Contending(s)') <= Cardinality(Contending(s))
          /\ Cardinality(Bypassing(s)) <= Cardinality(Bypassing(s)')
      BY <1>6, <1>7, RoomType, FewerTasks
    <2>5. CASE t \in Interrupting
      <3>1. t \notin Bypassing(s) /\ Bypassing(s)' = Bypassing(s) \union {t}
        BY <1>1, <1>9, <2>5 DEF Bypassing, InSession, TypeOK
      <3>2. Cardinality(Bypassing(s)') = Cardinality(Bypassing(s)) + 1
        BY <3>1, RoomType, FiniteTasks
      <3> QED
        BY <1>5, <2>3, <2>4, <3>2, RoomType DEF RoomIn
    <2>6. CASE t \notin Interrupting /\ ~PendingFull(s)
      <3>1. Contending(s)' \subseteq Unclaimed(s) /\ Unclaimed(s) \subseteq Task
        BY <1>6 DEF Contending, Unclaimed, Waiting, InSession
      <3>2. /\ Cardinality(Contending(s)') <= Cardinality(Unclaimed(s))
            /\ Cardinality(Unclaimed(s)) \in Nat
        BY <3>1, FewerTasks
      <3>3. Cardinality(Unclaimed(s)) + 0 < MaxPending
        BY <2>3, <2>6, <3>2 DEF PendingFull, PendingCount, Arriving
      <3> QED
        BY <2>3, <3>2, <3>3, RoomType DEF RoomIn
    <2>7. CASE t \notin Interrupting /\ PendingFull(s)
      <3>1. PICK v \in Unclaimed(s) : status[v] = "queued" /\ victim' = [victim EXCEPT ![t] = v]
        BY <1>9, <2>7 DEF Reserve
      <3>2. v \in Contending(s)
        BY <2>1, <3>1 DEF Unclaimed, Contending
      <3>3. v \in ReservedVictims'
        <4>1. v \in Task /\ v # NoTask
          BY <3>1 DEF Unclaimed, Waiting, InSession
        <4>2. t \in OpenReservations' /\ victim'[t] = v
          BY <1>3, <3>1 DEF TypeOK
        <4> QED
          BY <4>1, <4>2 DEF ReservedVictims
      <3>4. Contending(s)' \subseteq Contending(s) \ {v}
        BY <1>6, <3>3 DEF Contending
      <3>5. /\ Cardinality(Contending(s)') <= Cardinality(Contending(s) \ {v})
            /\ Cardinality(Contending(s) \ {v}) = Cardinality(Contending(s)) - 1
        <4>1. Contending(s) \ {v} \subseteq Task /\ v \in Task
          BY <3>2, RoomType
        <4>2. Cardinality(Contending(s)') <= Cardinality(Contending(s) \ {v})
          BY <3>4, <4>1, FewerTasks
        <4>3. Cardinality(Contending(s) \ {v}) = Cardinality(Contending(s)) - 1
          BY <3>2, <4>1, RoomType, FiniteTasks
        <4> QED
          BY <4>2, <4>3
      <3> QED
        BY <1>5, <2>3, <2>4, <3>5, RoomType DEF RoomIn
    <2> QED
      BY <2>5, <2>6, <2>7
  <1> QED
    BY <1>8, <1>9

\* The victim of an aborted reservation takes the place of its arrival.
LEMMA RoomAbort ==
    ASSUME TypeOK, Victims, Room, NEW t \in Task, AbortReservation(t) PROVE Room'
PROOF
  <1> USE TaskRuntimeAssumption
  <1>1. /\ t \in OpenReservations /\ resv' = [resv EXCEPT ![t] = "aborted"]
        /\ UNCHANGED <<pending, status, victim>>
    BY DEF AbortReservation, ledger
  <1>2. OpenReservations' = OpenReservations \ {t} /\ resv[t] # "activated"
    BY <1>1 DEF OpenReservations, TypeOK
  <1>3. Evicted' = Evicted /\ ReservedVictims \subseteq ReservedVictims' \union {victim[t]}
    BY <1>1, <1>2 DEF Evicted, ReservedVictims, OpenReservations, TypeOK
  <1> SUFFICES ASSUME NEW s \in Session PROVE RoomIn(s)'
    BY DEF Room, RoomIn
  <1>4. RoomIn(s)
    BY DEF Room, RoomIn
  <1>5. Contending(s)' \subseteq Contending(s) \union {victim[t]}
    BY <1>1, <1>3 DEF Contending, Waiting
  <1>6. Bypassing(s) \subseteq Bypassing(s)'
    BY <1>1 DEF Bypassing, TypeOK
  <1>7. CASE s # SessionOf[t]
    <2>1. victim[t] \notin Contending(s)'
      <3>1. ASSUME victim[t] \in Task, SessionOf[victim[t]] = s PROVE FALSE
        BY <1>7, <3>1 DEF Victims
      <3> QED
        BY <3>1 DEF Contending, Waiting, InSession
    <2>2. Arriving(s)' \subseteq Arriving(s)
      BY <1>2 DEF Arriving
    <2> QED
      BY <1>4, <1>5, <1>6, <2>1, <2>2, RoomKept
  <1>8. CASE s = SessionOf[t]
    <2>1. t \in Arriving(s) /\ Arriving(s)' = Arriving(s) \ {t}
      BY <1>1, <1>2, <1>8 DEF Arriving, InSession
    <2>2. Cardinality(Arriving(s)') = Cardinality(Arriving(s)) - 1
      BY <2>1, RoomType, FiniteTasks
    <2>3. Cardinality(Contending(s)') <= Cardinality(Contending(s)) + 1
      BY <1>5, RoomType, OneMoreTask
    <2>4. Cardinality(Bypassing(s)) <= Cardinality(Bypassing(s)')
      BY <1>6, RoomType, FewerTasks
    <2> QED
      BY <1>4, <2>2, <2>3, <2>4, RoomType DEF RoomIn
  <1> QED
    BY <1>7, <1>8

\* activate turns the arrival into a waiting turn; its victim has left the queue or is told
\* to stop.
LEMMA RoomActivate ==
    ASSUME TypeOK, Victims, Room, NEW t \in Task, Activate(t) PROVE Room'
PROOF
  <1> USE TaskRuntimeAssumption
  <1> DEFINE evicted == {v \in Waiting(SessionOf[t]) : v = victim[t] /\ status[v] = "queued"}
  <1>1. /\ resv[t] = "durable" /\ resv' = [resv EXCEPT ![t] = "activated"]
        /\ pending' = pending \union {t} /\ status' = status
        /\ victim' = [victim EXCEPT ![t] = IF evicted = {} THEN NoTask ELSE @]
    BY DEF Activate, WaitingVictim
  <1>2. OpenReservations' = OpenReservations \ {t} /\ t \in OpenReservations
    BY <1>1 DEF OpenReservations, TypeOK
  <1>3. \A u \in Task \ {t} : victim'[u] = victim[u] /\ resv'[u] = resv[u]
    BY <1>1 DEF TypeOK
  <1>4. ReservedVictims \subseteq ReservedVictims' \union {victim[t]}
    BY <1>2, <1>3 DEF ReservedVictims, OpenReservations
  <1>5. Evicted \subseteq Evicted'
    <2>1. ASSUME NEW u \in Task, resv[u] = "activated"
          PROVE  resv'[u] = "activated" /\ victim'[u] = victim[u]
      BY <1>1, <1>3, <2>1
    <2> QED
      BY <2>1 DEF Evicted
  <1>6. evicted # {} => victim[t] \in Evicted'
    <2>1. ASSUME evicted # {} PROVE victim[t] \in Task /\ victim'[t] = victim[t]
      BY <1>1, <2>1 DEF Waiting, InSession, TypeOK
    <2>2. resv'[t] = "activated"
      BY <1>1 DEF TypeOK
    <2> QED
      BY <2>1, <2>2 DEF Evicted
  <1> SUFFICES ASSUME NEW s \in Session PROVE RoomIn(s)'
    BY DEF Room, RoomIn
  <1>7. RoomIn(s)
    BY DEF Room, RoomIn
  <1>8. Contending(s)' \subseteq Contending(s) \union {t}
    <2> SUFFICES ASSUME NEW u \in Contending(s)', u # t PROVE u \in Contending(s)
      OBVIOUS
    <2>1. /\ u \in Waiting(s) /\ status[u] = "queued"
          /\ u \notin ReservedVictims' /\ u \notin Evicted'
      BY <1>1 DEF Contending, Waiting
    <2>2. u # victim[t]
      <3> SUFFICES ASSUME u = victim[t] PROVE FALSE
        OBVIOUS
      <3>1. u \in Task /\ SessionOf[u] = s
        BY <2>1 DEF Waiting, InSession
      <3>2. s = SessionOf[t]
        BY <3>1 DEF Victims
      <3>3. u \in evicted
        BY <2>1, <3>2
      <3> QED
        BY <1>6, <2>1, <3>3
    <2> QED
      BY <1>4, <1>5, <2>1, <2>2 DEF Contending
  <1>9. Bypassing(s) \subseteq Bypassing(s)'
    BY <1>1 DEF Bypassing, TypeOK
  <1>10. CASE s # SessionOf[t]
    <2>1. t \notin Contending(s)'
      BY <1>10 DEF Contending, Waiting, InSession
    <2>2. Arriving(s)' \subseteq Arriving(s)
      BY <1>2 DEF Arriving
    <2> QED
      BY <1>7, <1>8, <1>9, <2>1, <2>2, RoomKept
  <1>11. CASE s = SessionOf[t]
    <2>1. t \in Arriving(s) /\ Arriving(s)' = Arriving(s) \ {t}
      BY <1>2, <1>11 DEF Arriving, InSession
    <2>2. Cardinality(Arriving(s)') = Cardinality(Arriving(s)) - 1
      BY <2>1, RoomType, FiniteTasks
    <2>3. Cardinality(Contending(s)') <= Cardinality(Contending(s)) + 1
      BY <1>8, RoomType, OneMoreTask
    <2>4. Cardinality(Bypassing(s)) <= Cardinality(Bypassing(s)')
      BY <1>9, RoomType, FewerTasks
    <2> QED
      BY <1>7, <2>2, <2>3, <2>4, RoomType DEF RoomIn
  <1> QED
    BY <1>10, <1>11

\* No step crowds a session.
LEMMA RoomNext == TypeOK /\ Ledger /\ Victims /\ Room /\ [Next]_vars => Room'
PROOF
  <1> SUFFICES ASSUME TypeOK, Ledger, Victims, Room, [Next]_vars PROVE Room'
    OBVIOUS
  <1>1. ASSUME NEW t \in Task, CommitRow(t) PROVE Room'
    <2>1. /\ UNCHANGED <<pending, status, victim>>
          /\ resv[t] = "held" /\ resv' = [resv EXCEPT ![t] = "durable"]
      BY <1>1 DEF CommitRow, ledger
    <2>2. UNCHANGED <<OpenReservations, ReservedVictims, Evicted>>
      BY <2>1 DEF OpenReservations, ReservedVictims, Evicted, TypeOK
    <2>3. ASSUME NEW s \in Session
          PROVE  UNCHANGED <<Contending(s), Arriving(s), Bypassing(s)>>
      <3>1. \A u \in Task : resv'[u] # "none" <=> resv[u] # "none"
        BY <2>1 DEF TypeOK
      <3>2. Bypassing(s)' = Bypassing(s)
        BY <3>1 DEF Bypassing, InSession
      <3> QED
        BY <2>1, <2>2, <3>2 DEF Contending, Waiting, Arriving
    <2> QED
      BY <2>3 DEF Room
  <1>2. CASE \A t \in Task :
               ~Reserve(t) /\ ~CommitRow(t) /\ ~AbortReservation(t) /\ ~Activate(t)
    <2>1. /\ UNCHANGED <<resv, victim>> /\ pending' \subseteq pending
          /\ \A t \in Task : status'[t] = "queued" => status[t] = "queued"
      BY <1>2, StayingOut
    <2>2. UNCHANGED <<OpenReservations, ReservedVictims, Evicted>>
      BY <2>1 DEF OpenReservations, ReservedVictims, Evicted
    <2> SUFFICES ASSUME NEW s \in Session PROVE RoomIn(s)'
      BY DEF Room, RoomIn
    <2>3. RoomIn(s)
      BY DEF Room, RoomIn
    <2>4. /\ Contending(s)' \subseteq Contending(s) /\ Arriving(s)' \subseteq Arriving(s)
          /\ Bypassing(s) \subseteq Bypassing(s)'
      BY <2>1, <2>2 DEF Contending, Waiting, InSession, Arriving, Bypassing
    <2> QED
      BY <2>3, <2>4, RoomKept
  <1> QED
    BY <1>1, <1>2, RoomReserve, RoomAbort, RoomActivate

\* Nobody waits at first.
LEMMA RoomInit == Init => Victims /\ Room
PROOF
  <1> SUFFICES ASSUME Init PROVE Victims /\ Room
    OBVIOUS
  <1>1. Victims
    BY DEF Init, Victims
  <1>2. ASSUME NEW s \in Session PROVE RoomIn(s)
    <2>1. Contending(s) = {} /\ Arriving(s) = {}
      BY DEF Init, Contending, Waiting, Arriving, OpenReservations
    <2>2. Cardinality(Contending(s)) = 0 /\ Cardinality(Arriving(s)) = 0
      BY <2>1, FS_EmptySet
    <2> QED
      BY <2>2, RoomType, TaskRuntimeAssumption DEF RoomIn
  <1> QED
    BY <1>1, <1>2 DEF Room, RoomIn

\* Eviction makes room exactly once, however reservations, cancellations and settlements of
\* a session interleave.
THEOREM PendingIsBounded == Spec => []PendingBounded
PROOF
  <1>1. IInv /\ Victims /\ Room /\ [Next]_vars => Victims' /\ Room'
    BY VictimsNext, RoomNext DEF IInv
  <1>2. TypeOK /\ Victims /\ Room => PendingBounded
    <2> SUFFICES ASSUME TypeOK, Victims, Room, NEW s \in Session
                 PROVE  Cardinality({t \in Waiting(s) \ ReservedVictims :
                                       status[t] = "queued" /\ t \notin cancelled})
                            + Cardinality(Arriving(s))
                          <= MaxPending + Cardinality(Bypassing(s))
      BY DEF PendingBounded, Arriving, Bypassing
    <2> DEFINE counted == {t \in Waiting(s) \ ReservedVictims :
                             status[t] = "queued" /\ t \notin cancelled}
    <2>1. Evicted \subseteq cancelled
      BY DEF Evicted, Victims
    <2>2. counted \subseteq Contending(s)
      BY <2>1 DEF Contending
    <2>3. Cardinality(counted) <= Cardinality(Contending(s)) /\ Cardinality(counted) \in Nat
      BY <2>2, RoomType, FewerTasks
    <2>4. RoomIn(s)
      BY DEF Room, RoomIn
    <2> QED
      BY <2>3, <2>4, RoomType, TaskRuntimeAssumption DEF RoomIn
  <1>3. IInv => TypeOK
    BY DEF IInv
  <1> QED
    BY <1>1, <1>2, <1>3, RoomInit, LedgerInvariant, PTL DEF Spec

--------------------------------------------------------------------------------
(* The shutdown's sweep *)

\* A settlement has decided on a terminal status, and the sweep goes past a task only once
\* it is settled.
Sweep ==
    \A t \in Task : /\ TerminalClosing(t) => status[t] \in Terminal
                    /\ t \in swept => settle[t] = "settled"

\* The forced cancellation of shutdown never goes past a task that is not settled.
LEMMA SweepNext ==
    TypeOK /\ Ledger /\ Outcomes /\ TerminalOutcomeKept /\ Sweep /\ [Next]_vars => Sweep'
PROOF
  <1> SUFFICES ASSUME TypeOK, Ledger, Outcomes, TerminalOutcomeKept, Sweep, [Next]_vars
               PROVE  Sweep'
    OBVIOUS
  <1> USE DEF admission, shutdown, ledger, execution, cancel, settlement
  <1>a. \A t \in Task : TerminalClosing(t) => status'[t] = status[t]
    BY OutcomesNext DEF Stable
  <1>0. ASSUME UNCHANGED <<settle, swept>> PROVE Sweep'
    BY <1>0, <1>a DEF Sweep, TerminalClosing
  <1>1. ASSUME NEW t \in Task, AdmissionStep(t) \/ RetryPersists(t) \/ EnvironmentStep(t)
        PROVE  Sweep'
    BY <1>0, <1>1 DEF AdmissionStep, CommitRow, Activate, RetryPersists, EnvironmentStep,
         Reserve, AbortReservation, HandlerFails, RaiseApproval
  <1>2. ASSUME NEW t \in Task, DriverStep(t) \/ ResolveApproval(t) \/ Signal(t)
        PROVE  Sweep'
    BY <1>0, <1>2 DEF DriverStep, StartDriver, EnterLane, GrantSlot, MarkRunning,
         AnnounceRunning, HandlerReturns, RefuseToRun, DeliverCancellation, RecordSteers,
         DriverExits, ResolveApproval, Signal
  <1>3. ASSUME NEW t \in Task, ClaimStep(t) PROVE Sweep'
    <2>1. PICK verdict \in Terminal : ClaimSettlement(t, verdict)
      <3>1. DriverVerdict(t) \in Terminal
        BY DEF DriverVerdict, Terminal
      <3> QED
        BY <1>3, <3>1 DEF ClaimStep, DriverSettles, CancellerSettles, SweepSettles, Terminal
    <2>2. /\ settle[t] = "open" /\ settle' = [settle EXCEPT ![t] = "claimed"]
          /\ status' = [status EXCEPT ![t] = verdict] /\ UNCHANGED swept
      BY <2>1 DEF ClaimSettlement, TerminalClosing
    <2> QED
      BY <2>2 DEF Sweep, TerminalClosing, TypeOK
  <1>4. ASSUME NEW t \in Task, SettlementStep(t) PROVE Sweep'
    <2>1. /\ settle[t] \notin {"open", "settled"} /\ UNCHANGED <<swept, status>>
          /\ \E v \in {"persisting", "emitting", "compensating", "finishing", "settled"} :
                    settle' = [settle EXCEPT ![t] = v]
      BY <1>4 DEF SettlementStep, ExpireApprovals, PersistTerminal, EmitTerminal, Compensate,
           FinishSettlement
    <2> QED
      BY <2>1 DEF Sweep, TerminalClosing, TypeOK
  <1>5. ASSUME NEW s \in Session, Cancel(s) \/ AdmitAuxiliary(s) \/ AuxiliaryStep(s)
        PROVE  Sweep'
    BY <1>0, <1>5 DEF Cancel, RequestCancel, AdmitAuxiliary, AuxiliaryStep, StartAuxiliary,
         EndAuxiliary
  <1>6. CASE ShutdownStep
    <2>1. UNCHANGED <<settle, status>>
      BY <1>6, ShutdownSteps
    <2>2. \A t \in Task : t \in swept' => t \in swept \/ settle[t] = "settled"
      BY <1>6 DEF ShutdownStep, CloseAdmission, ShutdownCancels, RequestCancel, Quiesce,
           BeginSweep, SweepAdvances, EndSweep, ShutdownReturns
    <2> QED
      BY <2>1, <2>2 DEF Sweep, TerminalClosing
  <1>7. CASE UNCHANGED vars
    BY <1>0, <1>7 DEF vars
  <1> QED
    BY <1>1, <1>2, <1>3, <1>4, <1>5, <1>6, <1>7 DEF Next

\* A turn that _mark_unfinished_abandoned went past keeps a durable outcome, whoever
\* settled it and however the writes fail, unless a retry still owes it.
THEOREM SweptTurnsAreDurable == Spec => []SweptTurnsDurable
PROOF
  <1>1. Init => Sweep
    BY DEF Init, Sweep, TerminalClosing
  <1>2. IInv /\ Outcomes /\ TerminalOutcomeKept /\ Sweep /\ [Next]_vars => Sweep'
    BY SweepNext DEF IInv
  <1>3. IInv /\ TerminalOutcomeKept /\ Sweep => SweptTurnsDurable
    BY DEF IInv, TypeOK, Sweep, TerminalOutcomeKept, TerminalClosing, SweptTurnsDurable
  <1> QED
    BY <1>1, <1>2, <1>3, LedgerInvariant, OutcomesInvariant, PTL DEF Spec

================================================================================
