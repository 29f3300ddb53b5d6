-------------------------- MODULE ChannelIngressProofs --------------------------
(***************************************************************************)
(* Safety of the channel intake for any gateways, events and bounds.         *)
(*                                                                           *)
(* Claimed and Tokens say what a claim token is worth, Memory what a process *)
(* remembers of the events it took without the journal, Leases which tokens  *)
(* of the lease a late cleanup may still carry, Accounted where every        *)
(* journaled event is.                                                       *)
(***************************************************************************)
EXTENDS ChannelIngress, TLAPS

--------------------------------------------------------------------------------
(* Types *)

\* A queue of one gateway is a function of the events.
LEMMA QueueType ==
    ASSUME TypeOK, NEW g \in Gateway, NEW e \in Event
    PROVE  /\ queue[g] \in [Event -> Nat] /\ queue[g][e] \in Nat
           /\ [queue EXCEPT ![g][e] = @ + 1] \in [Gateway -> [Event -> Nat]]
           /\ queue[g][e] > 0 =>
                [queue EXCEPT ![g][e] = @ - 1] \in [Gateway -> [Event -> Nat]]
PROOF
  <1>1. queue[g] \in [Event -> Nat] /\ queue[g][e] \in Nat
    BY DEF TypeOK
  <1>2. queue[g][e] + 1 \in Nat /\ (queue[g][e] > 0 => queue[g][e] - 1 \in Nat)
    BY <1>1
  <1> QED
    BY <1>1, <1>2 DEF TypeOK

\* What is left of a budget stays a number.
LEMMA SpendType ==
    ASSUME TypeOK, NEW k \in Limited, Spend(k)
    PROVE  left' \in [Limited -> Nat]
PROOF
  <1>1. left[k] \in Nat /\ left[k] > 0
    BY DEF TypeOK, Spend
  <1>2. left[k] - 1 \in Nat
    BY <1>1
  <1> QED
    BY <1>2 DEF TypeOK, Spend

\* A fault leaves fewer to come.
LEMMA FaultType == ASSUME TypeOK, Fault PROVE faults' \in Nat
  BY DEF TypeOK, Fault

\* Sets of events, one per gateway, stay so.
LEMMA SetsType ==
    ASSUME NEW f \in [Gateway -> SUBSET Event], NEW g \in Gateway, NEW e \in Event
    PROVE  With(f, g, e) \in [Gateway -> SUBSET Event] /\ Without(f, g, e) \in [Gateway -> SUBSET Event]
  BY DEF With, Without

\* What acceptance of a message changes.
LEMMA EnqueueType ==
    ASSUME TypeOK, NEW g \in Gateway, NEW e \in Event, Enqueue(g, e)
    PROVE  /\ state' \in [Event -> {"absent", "accepted", "processing", "completed"}]
           /\ queue' \in [Gateway -> [Event -> Nat]]
           /\ seen' \in [Gateway -> SUBSET Event] /\ permits' \in [Gateway -> SUBSET Event]
           /\ unjournaled' \in [Gateway -> SUBSET Event] /\ faults' \in Nat
PROOF
  <1>1. /\ With(seen, g, e) \in [Gateway -> SUBSET Event]
        /\ Without(permits, g, e) \in [Gateway -> SUBSET Event]
        /\ With(unjournaled, g, e) \in [Gateway -> SUBSET Event]
    BY SetsType DEF TypeOK
  <1>2. Fault => faults' \in Nat
    BY FaultType
  <1>3. Put(g, e) => queue' \in [Gateway -> [Event -> Nat]]
    BY QueueType DEF Put
  <1>4. CASE g \in Remembers /\ e \in seen[g] /\ UNCHANGED <<state, queue, seen, permits, unjournaled, faults>>
    BY <1>4 DEF TypeOK
  <1>5. CASE ~(g \in Remembers /\ e \in seen[g])
    <2>1. seen' \in [Gateway -> SUBSET Event]
      BY <1>1, <1>5 DEF Enqueue, TypeOK
    <2>2. CASE AcceptRow(g, e) /\ UNCHANGED <<unjournaled, faults>>
      BY <1>1, <1>3, <2>1, <2>2 DEF AcceptRow, TypeOK
    <2>3. CASE AcceptInMemory(g, e)
      BY <1>1, <1>2, <1>3, <2>1, <2>3 DEF AcceptInMemory, TypeOK
    <2> QED
      BY <1>5, <2>2, <2>3 DEF Enqueue
  <1> QED
    BY <1>4, <1>5 DEF Enqueue

\* What a settlement writes.
LEMMA SettlementType ==
    ASSUME TypeOK, NEW e \in Event, NEW t \in Nat, Complete(e, t) \/ Fail(e, t)
    PROVE  /\ state' \in [Event -> {"absent", "accepted", "processing", "completed"}]
           /\ claim' \in [Event -> Nat]
PROOF
  <1>1. [claim EXCEPT ![e] = 0] \in [Event -> Nat]
    BY DEF TypeOK
  <1>2. CASE Complete(e, t)
    BY <1>1, <1>2 DEF TypeOK, Complete
  <1>3. CASE Fail(e, t)
    BY <1>1, <1>3 DEF TypeOK, Fail
  <1> QED
    BY <1>2, <1>3

\* The event of a dispatcher that is at work.
Tasks == \A g \in Gateway :
           /\ disp[g].pc \in Holding \union {"claiming"} => disp[g].event \in Event
           /\ phase[g] \in {"down", "recovering", "requeueing", "failed", "releasing"} => disp[g] = NoTask

\* What a dispatcher is.
LEMMA TaskType ==
    ASSUME TypeOK, NEW g \in Gateway
    PROVE  /\ disp[g].pc \in Place /\ disp[g].event \in Event \union {None} /\ disp[g].token \in Nat
           /\ \A pc \in Place, e \in Event \union {None}, t \in Nat :
                [disp EXCEPT ![g] = [pc |-> pc, event |-> e, token |-> t]] \in
                  [Gateway -> [pc : Place, event : Event \union {None}, token : Nat]]
           /\ \A pc \in Place :
                [disp EXCEPT ![g].pc = pc] =
                  [disp EXCEPT ![g] = [pc |-> pc, event |-> disp[g].event, token |-> disp[g].token]]
PROOF
  <1> DEFINE Task == [pc : Place, event : Event \union {None}, token : Nat]
  <1>1. disp \in [Gateway -> Task] /\ disp[g] \in Task
    BY DEF TypeOK
  <1>2. \A pc \in Place, e \in Event \union {None}, t \in Nat :
          [pc |-> pc, event |-> e, token |-> t] \in Task
    OBVIOUS
  <1>3. \A t \in Task, pc \in Place : [t EXCEPT !.pc = pc] = [pc |-> pc, event |-> t.event, token |-> t.token]
    OBVIOUS
  <1>4. disp[g].pc \in Place /\ disp[g].event \in Event \union {None} /\ disp[g].token \in Nat
    BY <1>1
  <1>5. \A t \in Task : [disp EXCEPT ![g] = t] \in [Gateway -> Task]
    BY <1>1
  <1> QED
    BY <1>1, <1>2, <1>3, <1>4, <1>5

\* The dispatcher between two messages, and without its task.
LEMMA RestingTask ==
    /\ \A pc : [NoTask EXCEPT !.pc = pc] = [pc |-> pc, event |-> None, token |-> 0]
    /\ NoTask = [pc |-> "none", event |-> None, token |-> 0]
    /\ Waiting = [pc |-> "idle", event |-> None, token |-> 0]
  BY DEF NoTask, Waiting

\* The events a failure of the dispatcher leaves.
LEMMA InHandType ==
    ASSUME TypeOK, Tasks, NEW g \in Gateway
    PROVE  InHand(g) \subseteq Event /\ ByMemory(g) \subseteq Event /\ Queued(g) \subseteq Event
  BY DEF InHand, ByMemory, Queued, Tasks

\* Where an exception leaves the dispatcher.
LEMMA ReentersType ==
    ASSUME TypeOK, Tasks, NEW g \in Gateway, Reenters(g)
    PROVE  /\ disp' \in [Gateway -> [pc : Place, event : Event \union {None}, token : Nat]]
           /\ disp'[g].pc \in {"idle", "dead"} /\ disp'[g].event = None /\ disp'[g].token = 0
           /\ \A h \in Gateway \ {g} : disp'[h] = disp[h]
           /\ orphaned' \subseteq Event /\ orphaned \union InHand(g) \subseteq orphaned'
           /\ disp'[g].pc = "dead" => Queued(g) \subseteq orphaned'
           /\ forwarded' = [forwarded EXCEPT ![g] = @ \union ByMemory(g)]
           /\ forwarded' \in [Gateway -> SUBSET Event]
PROOF
  <1>1. PICK pc \in {"idle", "dead"} :
          /\ disp' = [disp EXCEPT ![g] = [pc |-> pc, event |-> None, token |-> 0]]
          /\ orphaned' = orphaned \union InHand(g) \union (IF pc = "dead" THEN Queued(g) ELSE {})
          /\ forwarded' = [forwarded EXCEPT ![g] = @ \union ByMemory(g)]
    BY RestingTask DEF Reenters
  <1>2. pc \in Place
    BY DEF Place
  <1>3. disp' \in [Gateway -> [pc : Place, event : Event \union {None}, token : Nat]]
    BY <1>1, <1>2, TaskType
  <1>4. /\ disp'[g] = [pc |-> pc, event |-> None, token |-> 0]
        /\ \A h \in Gateway \ {g} : disp'[h] = disp[h]
    BY <1>1 DEF TypeOK
  <1>5. forwarded' \in [Gateway -> SUBSET Event]
    BY <1>1, InHandType DEF TypeOK
  <1> QED
    BY <1>1, <1>3, <1>4, <1>5, InHandType DEF TypeOK

\* A dispatcher takes a place.
LEMMA TakesPlace ==
    ASSUME TypeOK, NEW g \in Gateway,
           NEW pc \in Place, NEW e \in Event \union {None}, NEW t \in Nat,
           disp' = [disp EXCEPT ![g] = [pc |-> pc, event |-> e, token |-> t]]
    PROVE  /\ disp' \in [Gateway -> [pc : Place, event : Event \union {None}, token : Nat]]
           /\ disp'[g].pc = pc /\ disp'[g].event = e /\ disp'[g].token = t
           /\ \A h \in Gateway \ {g} : disp'[h] = disp[h]
PROOF
  <1>1. disp' \in [Gateway -> [pc : Place, event : Event \union {None}, token : Nat]]
    BY TaskType
  <1> QED
    BY <1>1 DEF TypeOK

\* The lease columns.
LEMMA LeaseType ==
    ASSUME TypeOK
    PROVE  /\ lease.owner \in Gateway \union {None} /\ lease.token \in Nat /\ lease.valid \in BOOLEAN
           /\ lease = [owner |-> lease.owner, token |-> lease.token, valid |-> lease.valid]
           /\ \A b \in BOOLEAN : [lease EXCEPT !.valid = b] =
                [owner |-> lease.owner, token |-> lease.token, valid |-> b]
           /\ [lease EXCEPT !.owner = None] =
                [owner |-> None, token |-> lease.token, valid |-> lease.valid]
PROOF
  <1>1. lease \in [owner : Gateway \union {None}, token : Nat, valid : BOOLEAN]
    BY DEF TypeOK
  <1> QED
    BY <1>1

\* A release of the lease leaves its owner and its token.
LEMMA ReleasedType ==
    ASSUME TypeOK, NEW g \in Gateway, NEW t \in Nat
    PROVE  /\ Released(g, t) \in [owner : Gateway \union {None}, token : Nat, valid : BOOLEAN]
           /\ Released(g, t).token = lease.token /\ Released(g, t).owner = lease.owner
  BY LeaseType DEF Released, TypeOK

\* The initial state is well typed and no dispatcher is at work.
LEMMA InitType == Init => TypeOK /\ Tasks
PROOF
  <1> SUFFICES ASSUME Init PROVE TypeOK /\ Tasks
    OBVIOUS
  <1>1. NoTask \in [pc : Place, event : Event \union {None}, token : Nat] /\ NoTask.pc = "none"
    BY RestingTask DEF Place
  <1>2. \A n \in Nat : \A i \in 0 .. n : i \in Nat
    OBVIOUS
  <1>3. faults \in Nat
    BY <1>2, IngressAssumption DEF Init
  <1>4. TypeOK
    BY <1>1, <1>3 DEF Init, TypeOK
  <1>5. Tasks
    BY <1>1 DEF Init, Tasks, Holding
  <1> QED
    BY <1>4, <1>5

\* A start that is cut off by the lease, its recovery, its requeueing and its end.
LEMMA StartTypes ==
    ASSUME TypeOK, Tasks, NEW g \in Gateway,
           Acquire(g) \/ StartStep(g) \/ StartFails(g)
    PROVE  TypeOK' /\ Tasks'
PROOF
  <1>1. CASE Acquire(g)
    <2>1. left' \in [Limited -> Nat]
      BY <1>1, SpendType DEF Acquire, Limited
    <2>2. lease.token + 1 \in Nat
      BY LeaseType
    <2>3. lease' \in [owner : Gateway \union {None}, token : Nat, valid : BOOLEAN]
      BY <1>1, <2>2 DEF Acquire, Taken
    <2>4. [op |-> "release", gateway |-> g, event |-> None, token |-> lease.token + 1] \in Job
      BY <2>2 DEF Job
    <2>5. late' \subseteq Job
      BY <1>1, <2>4 DEF Acquire, TypeOK
    <2>6. token' \in [Gateway -> Nat]
      BY <1>1, <2>2 DEF Acquire, TypeOK
    <2>7. TypeOK'
      BY <1>1, <2>1, <2>3, <2>5, <2>6 DEF Acquire, TypeOK, journal, memory, history
    <2>8. Tasks'
      BY <1>1 DEF Acquire, Tasks, TypeOK
    <2> QED
      BY <2>7, <2>8
  <1>2. CASE Recover(g)
    <2>1. /\ state' \in [Event -> {"absent", "accepted", "processing", "completed"}]
          /\ claim' \in [Event -> Nat]
      BY <1>2 DEF Recover, TypeOK
    <2>2. Pending \subseteq Event
      BY DEF Pending
    <2>3. /\ todo' \in [Gateway -> SUBSET Event] /\ permits' \in [Gateway -> SUBSET Event]
      BY <1>2, <2>2 DEF Recover, TypeOK
    <2>4. TypeOK'
      BY <1>2, <2>1, <2>3 DEF Recover, TypeOK, bounds
    <2>5. Tasks'
      BY <1>2 DEF Recover, Tasks, TypeOK
    <2> QED
      BY <2>4, <2>5
  <1>3. CASE StartAdapter(g)
    <2>1. disp' = [disp EXCEPT ![g] = [pc |-> "idle", event |-> None, token |-> 0]]
      BY <1>3, RestingTask DEF StartAdapter
    <2>2. "idle" \in Place
      BY DEF Place
    <2>3. /\ disp' \in [Gateway -> [pc : Place, event : Event \union {None}, token : Nat]]
          /\ disp'[g].pc = "idle" /\ \A h \in Gateway \ {g} : disp'[h] = disp[h]
      BY <2>1, <2>2, TakesPlace
    <2>4. TypeOK'
      BY <1>3, <2>3 DEF StartAdapter, TypeOK, journal, memory, history, bounds
    <2>5. Tasks'
      BY <1>3, <2>3 DEF StartAdapter, Tasks, TypeOK, Holding
    <2> QED
      BY <2>4, <2>5
  <1>4. ASSUME NEW e \in Event, Requeue(g, e) PROVE TypeOK' /\ Tasks'
    <2>1. Enqueue(g, e)
      BY <1>4 DEF Requeue
    <2>2. TypeOK'
      BY <1>4, <2>1, EnqueueType DEF Requeue, TypeOK, history
    <2>3. Tasks'
      BY <1>4 DEF Requeue, Tasks
    <2> QED
      BY <2>2, <2>3
  <1>5. CASE StartFails(g)
    <2>1. TypeOK'
      BY <1>5, InHandType DEF StartFails, TypeOK, journal, memory, bounds
    <2>2. Tasks'
      BY <1>5 DEF StartFails, Tasks, TypeOK
    <2> QED
      BY <2>1, <2>2
  <1> QED
    BY <1>1, <1>2, <1>3, <1>4, <1>5 DEF StartStep

\* The lease, and the end of the channel in one gateway.
LEMMA StopTypes ==
    ASSUME TypeOK, Tasks, NEW g \in Gateway,
           Expire \/ Renew(g) \/ LoseLease(g) \/ Stop(g) \/ Release(g) \/ Crash(g)
    PROVE  TypeOK' /\ Tasks'
PROOF
  <1>0. \A b \in BOOLEAN : [lease EXCEPT !.valid = b] \in
           [owner : Gateway \union {None}, token : Nat, valid : BOOLEAN]
    BY LeaseType
  <1>1. CASE Expire
    <2>1. left' \in [Limited -> Nat]
      BY <1>1, SpendType DEF Expire, Limited
    <2>2. TypeOK'
      BY <1>0, <1>1, <2>1 DEF Expire, TypeOK, journal, channel, memory, history
    <2>3. Tasks'
      BY <1>1 DEF Expire, Tasks, channel
    <2> QED
      BY <2>2, <2>3
  <1>2. CASE Renew(g)
    <2>1. TypeOK'
      BY <1>0, <1>2 DEF Renew, TypeOK, journal, channel, memory, history, bounds
    <2>2. Tasks'
      BY <1>2 DEF Renew, Tasks, channel
    <2> QED
      BY <2>1, <2>2
  <1>3. CASE LoseLease(g)
    <2>1. faults' \in Nat
      BY <1>3, FaultType DEF LoseLease, TypeOK
    <2>2. [op |-> "release", gateway |-> g, event |-> None, token |-> token[g]] \in Job
      BY DEF Job, TypeOK
    <2>3. late' \subseteq Job
      BY <1>3, <2>2 DEF LoseLease, TypeOK
    <2>4. TypeOK'
      BY <1>3, <2>1, <2>3 DEF LoseLease, TypeOK, journal, memory, history
    <2>5. Tasks'
      BY <1>3 DEF LoseLease, Tasks, TypeOK
    <2> QED
      BY <2>4, <2>5
  <1>4. CASE Stop(g)
    <2>1. "none" \in Place
      BY DEF Place
    <2>2. /\ disp' \in [Gateway -> [pc : Place, event : Event \union {None}, token : Nat]]
          /\ disp'[g].pc = "none" /\ \A h \in Gateway \ {g} : disp'[h] = disp[h]
      BY <1>4, <2>1, TakesPlace, RestingTask DEF Stop
    <2>3. disp'[g] = NoTask
      BY <1>4 DEF Stop, TypeOK
    <2>4. \A jobs \in Remains(g) : jobs \subseteq Job
      BY TaskType DEF Remains, Job, Tasks, Holding
    <2>5. late' \subseteq Job
      BY <1>4, <2>4 DEF Stop, TypeOK
    <2>6. orphaned' \subseteq Event /\ forwarded' \in [Gateway -> SUBSET Event]
      BY <1>4, InHandType DEF Stop, TypeOK
    <2>7. TypeOK'
      BY <1>4, <2>2, <2>5, <2>6 DEF Stop, TypeOK, journal, memory, bounds
    <2>8. Tasks'
      BY <1>4, <2>2, <2>3 DEF Stop, Tasks, TypeOK, Holding
    <2> QED
      BY <2>7, <2>8
  <1>5. CASE Release(g)
    <2>1. faults' \in Nat
      BY <1>5, FaultType DEF Release, TypeOK
    <2>2. lease' \in [owner : Gateway \union {None}, token : Nat, valid : BOOLEAN]
      BY <1>5, ReleasedType DEF Release, TypeOK
    <2>3. TypeOK'
      BY <1>5, <2>1, <2>2 DEF Release, TypeOK, journal, memory, history
    <2>4. Tasks'
      BY <1>5 DEF Release, Tasks, TypeOK
    <2> QED
      BY <2>3, <2>4
  <1>6. CASE Crash(g)
    <2>1. "none" \in Place
      BY DEF Place
    <2>2. /\ disp' \in [Gateway -> [pc : Place, event : Event \union {None}, token : Nat]]
          /\ disp'[g].pc = "none" /\ \A h \in Gateway \ {g} : disp'[h] = disp[h]
      BY <1>6, <2>1, TakesPlace, RestingTask DEF Crash
    <2>3. disp'[g] = NoTask
      BY <1>6 DEF Crash, TypeOK
    <2>4. lease' \in [owner : Gateway \union {None}, token : Nat, valid : BOOLEAN]
      BY <1>6, LeaseType DEF Crash, TypeOK
    <2>5. \A j \in Job : j.op # "release" => j.event \in Event
      BY DEF Job
    <2>6. orphaned' \subseteq Event
      BY <1>6, <2>5, InHandType DEF Crash, TypeOK
    <2>7. TypeOK'
      BY <1>6, <2>2, <2>4, <2>6 DEF Crash, TypeOK, journal, bounds
    <2>8. Tasks'
      BY <1>6, <2>2, <2>3 DEF Crash, Tasks, TypeOK, Holding
    <2> QED
      BY <2>7, <2>8
  <1> QED
    BY <1>1, <1>2, <1>3, <1>4, <1>5, <1>6

\* A claim gives the row to the attempt.
LEMMA ClaimsType ==
    ASSUME TypeOK, NEW g \in Gateway, NEW e \in Event, NEW t \in Nat, Claims(g, e, t)
    PROVE  /\ disp' \in [Gateway -> [pc : Place, event : Event \union {None}, token : Nat]]
           /\ disp'[g].pc = "claimed" /\ disp'[g].event = e /\ disp'[g].token = t
           /\ \A h \in Gateway \ {g} : disp'[h] = disp[h]
           /\ state' \in [Event -> {"absent", "accepted", "processing", "completed"}]
           /\ claim' \in [Event -> Nat] /\ attempts' \in [Event -> Nat]
PROOF
  <1>1. "claimed" \in Place
    BY DEF Place
  <1>2. /\ disp' \in [Gateway -> [pc : Place, event : Event \union {None}, token : Nat]]
        /\ disp'[g].pc = "claimed" /\ disp'[g].event = e /\ disp'[g].token = t
        /\ \A h \in Gateway \ {g} : disp'[h] = disp[h]
    BY <1>1, TakesPlace DEF Claims
  <1> QED
    BY <1>2 DEF Claims, TypeOK

\* A copy that claims nothing leaves the dispatcher waiting.
LEMMA WaitingType ==
    ASSUME TypeOK, NEW g \in Gateway, disp' = [disp EXCEPT ![g] = Waiting]
    PROVE  /\ disp' \in [Gateway -> [pc : Place, event : Event \union {None}, token : Nat]]
           /\ disp'[g].pc = "idle" /\ disp'[g].event = None /\ disp'[g].token = 0
           /\ \A h \in Gateway \ {g} : disp'[h] = disp[h]
PROOF
  <1>1. "idle" \in Place
    BY DEF Place
  <1> QED
    BY <1>1, TakesPlace, RestingTask

\* What a claim of the dispatcher can come to.
LEMMA ClaimCases ==
    ASSUME TypeOK, Tasks, NEW g \in Gateway, Claim(g)
    PROVE  LET e == disp[g].event IN
           /\ disp[g].pc = "claiming" /\ e \in Event
           /\ UNCHANGED <<lease, channel, queue, seen, permits, late, left>>
           /\ \/ /\ disp' = [disp EXCEPT ![g] = Waiting]
                 /\ state[e] # "accepted" \/ e \in passed[g]
                 /\ UNCHANGED <<journal, unjournaled, passed, orphaned, forwarded, faults>>
              \/ /\ disp' = [disp EXCEPT ![g] = Waiting]
                 /\ e \in unjournaled[g]
                 /\ unjournaled' = Without(unjournaled, g, e)
                 /\ UNCHANGED <<journal, passed, orphaned, forwarded, faults>>
              \/ /\ e \in unjournaled[g] /\ e \notin passed[g]
                 /\ PassThrough(g, e) /\ UNCHANGED forwarded
              \/ /\ e \in unjournaled[g] /\ e \notin passed[g]
                 /\ state[e] = "absent" /\ Claims(g, e, 1)
                 /\ unjournaled' = Without(unjournaled, g, e)
                 /\ UNCHANGED forwarded
              \/ /\ e \notin unjournaled[g] /\ e \notin passed[g]
                 /\ state[e] = "accepted" /\ Claims(g, e, attempts[e] + 1)
                 /\ UNCHANGED <<unjournaled, forwarded>>
              \/ Fault /\ Reenters(g) /\ UNCHANGED <<journal, unjournaled, passed>>
PROOF
  <1>1. disp[g].pc = "claiming" /\ disp[g].event \in Event
    BY DEF Claim, Tasks
  <1> QED
    BY <1>1 DEF Claim, Skips

\* The dispatcher of one gateway.
LEMMA DispatchTypes ==
    ASSUME TypeOK, Tasks, NEW g \in Gateway, DispatchStep(g) \/ Escapes(g)
    PROVE  TypeOK' /\ Tasks'
PROOF
  <1>1. ASSUME NEW e \in Event, Receive(g, e) PROVE TypeOK' /\ Tasks'
    <2>1. queue' \in [Gateway -> [Event -> Nat]]
      BY <1>1, QueueType DEF Receive
    <2>2. "claiming" \in Place
      BY DEF Place
    <2>3. /\ disp' \in [Gateway -> [pc : Place, event : Event \union {None}, token : Nat]]
          /\ disp'[g].pc = "claiming" /\ disp'[g].event = e
          /\ \A h \in Gateway \ {g} : disp'[h] = disp[h]
      BY <1>1, <2>2, TakesPlace DEF Receive
    <2>4. TypeOK'
      BY <1>1, <2>1, <2>3 DEF Receive, TypeOK, journal, channel, history, bounds
    <2>5. Tasks'
      BY <1>1, <2>3, RestingTask DEF Receive, Tasks, channel
    <2> QED
      BY <2>4, <2>5
  <1>2. ASSUME UNCHANGED <<attempts, lease, channel, queue, seen, permits, late>>,
               /\ disp' \in [Gateway -> [pc : Place, event : Event \union {None}, token : Nat]]
               /\ disp'[g].pc \in Holding => disp'[g].event \in Event
               /\ disp'[g].pc # "claiming" /\ disp[g].pc \notin {"none"}
               /\ \A h \in Gateway \ {g} : disp'[h] = disp[h]
        PROVE  Tasks'
    <2>1. phase[g] \notin {"down", "recovering", "requeueing", "failed", "releasing"}
      BY <1>2, RestingTask DEF Tasks
    <2> QED
      BY <1>2, <2>1 DEF Tasks, channel
  <1>3. CASE Claim(g)
    <2> DEFINE e == disp[g].event
    <2>1. /\ disp[g].pc = "claiming" /\ e \in Event
          /\ UNCHANGED <<lease, channel, queue, seen, permits, late, left>>
      BY <1>3, ClaimCases
    <2>2. /\ Without(unjournaled, g, e) \in [Gateway -> SUBSET Event]
          /\ With(passed, g, e) \in [Gateway -> SUBSET Event]
      BY <2>1, SetsType DEF TypeOK
    <2>3. attempts[e] + 1 \in Nat
      BY <2>1 DEF TypeOK
    <2>4. CASE /\ disp' = [disp EXCEPT ![g] = Waiting]
               /\ unjournaled' \in {unjournaled, Without(unjournaled, g, e)}
               /\ UNCHANGED <<journal, passed, orphaned, forwarded, faults>>
      <3>1. /\ disp' \in [Gateway -> [pc : Place, event : Event \union {None}, token : Nat]]
            /\ disp'[g].pc = "idle" /\ \A h \in Gateway \ {g} : disp'[h] = disp[h]
        BY <2>4, WaitingType
      <3>2. TypeOK'
        BY <2>1, <2>2, <2>4, <3>1 DEF TypeOK, journal, channel
      <3>3. Tasks'
        BY <1>2, <2>1, <2>4, <3>1 DEF Holding, journal
      <3> QED
        BY <3>2, <3>3
    <2>5. CASE PassThrough(g, e) /\ UNCHANGED forwarded
      <3>1. "claimed" \in Place
        BY DEF Place
      <3>2. /\ disp' \in [Gateway -> [pc : Place, event : Event \union {None}, token : Nat]]
            /\ disp'[g].pc = "claimed" /\ disp'[g].event = e
            /\ \A h \in Gateway \ {g} : disp'[h] = disp[h]
        BY <2>1, <2>5, <3>1, TakesPlace DEF PassThrough
      <3>3. faults' \in Nat
        BY <2>5, FaultType DEF PassThrough
      <3>4. TypeOK'
        BY <2>1, <2>2, <2>5, <3>2, <3>3 DEF PassThrough, TypeOK, journal, channel
      <3>5. Tasks'
        BY <1>2, <2>1, <2>5, <3>2 DEF PassThrough, journal
      <3> QED
        BY <3>4, <3>5
    <2>6. ASSUME NEW t \in Nat, Claims(g, e, t),
                 unjournaled' \in {unjournaled, Without(unjournaled, g, e)}, UNCHANGED forwarded
          PROVE  TypeOK' /\ Tasks'
      <3>1. /\ disp' \in [Gateway -> [pc : Place, event : Event \union {None}, token : Nat]]
            /\ disp'[g].pc = "claimed" /\ disp'[g].event = e
            /\ \A h \in Gateway \ {g} : disp'[h] = disp[h]
            /\ state' \in [Event -> {"absent", "accepted", "processing", "completed"}]
            /\ claim' \in [Event -> Nat] /\ attempts' \in [Event -> Nat]
        BY <2>1, <2>6, ClaimsType
      <3>2. TypeOK'
        BY <2>1, <2>2, <2>6, <3>1 DEF Claims, TypeOK, channel
      <3>3. phase[g] \notin {"down", "recovering", "requeueing", "failed", "releasing"}
        BY <2>1, RestingTask DEF Tasks
      <3>4. Tasks'
        BY <2>1, <3>1, <3>3 DEF Tasks, channel
      <3> QED
        BY <3>2, <3>4
    <2>7. CASE Fault /\ Reenters(g) /\ UNCHANGED <<journal, unjournaled, passed>>
      <3>1. faults' \in Nat
        BY <2>7, FaultType
      <3>2. TypeOK'
        BY <2>1, <2>7, <3>1, ReentersType DEF TypeOK, journal, channel
      <3>3. Tasks'
        BY <1>2, <2>1, <2>7, ReentersType DEF Holding, journal
      <3> QED
        BY <3>2, <3>3
    <2> QED
      BY <1>3, <2>3, <2>4, <2>5, <2>6, <2>7, ClaimCases
  <1>4. ASSUME NEW p \in {"completing", "failing"}, disp[g].pc = "claimed", Goto(g, p),
               UNCHANGED <<journal, lease, channel, memory, late, history, bounds>>
        PROVE  TypeOK' /\ Tasks'
    <2>1. p \in Place /\ disp[g].event \in Event /\ disp[g].token \in Nat
      BY <1>4, TaskType DEF Place, Tasks, Holding
    <2>2. disp' = [disp EXCEPT ![g] = [pc |-> p, event |-> disp[g].event, token |-> disp[g].token]]
      BY <1>4, <2>1, TaskType DEF Goto
    <2>3. /\ disp' \in [Gateway -> [pc : Place, event : Event \union {None}, token : Nat]]
          /\ disp'[g].pc = p /\ disp'[g].event = disp[g].event
          /\ \A h \in Gateway \ {g} : disp'[h] = disp[h]
      BY <2>1, <2>2, TakesPlace
    <2>4. TypeOK'
      BY <1>4, <2>3 DEF TypeOK, journal, channel, memory, history, bounds
    <2>5. Tasks'
      BY <1>2, <1>4, <2>1, <2>3 DEF journal, memory
    <2> QED
      BY <2>4, <2>5
  <1>5. CASE Escapes(g)
    <2>1. TypeOK'
      BY <1>5, ReentersType DEF Escapes, TypeOK, journal, channel, memory, bounds
    <2>2. Tasks'
      BY <1>2, <1>5, ReentersType DEF Escapes, Holding, journal, memory
    <2> QED
      BY <2>1, <2>2
  <1>6. CASE Settle(g)
    <2>1. disp[g].event \in Event /\ disp[g].token \in Nat /\ disp[g].pc \in Holding
      BY <1>6, TaskType DEF Settle, Tasks, Holding
    <2>2. /\ state' \in [Event -> {"absent", "accepted", "processing", "completed"}]
          /\ claim' \in [Event -> Nat]
      BY <1>6, <2>1, SettlementType DEF Settle
    <2>3. CASE /\ disp' = [disp EXCEPT ![g] = Waiting] /\ UNCHANGED orphaned
               /\ forwarded' = [forwarded EXCEPT ![g] = @ \union ByMemory(g)]
      <3>1. /\ disp' \in [Gateway -> [pc : Place, event : Event \union {None}, token : Nat]]
            /\ disp'[g].pc = "idle" /\ \A h \in Gateway \ {g} : disp'[h] = disp[h]
        BY <2>3, WaitingType
      <3>2. forwarded' \in [Gateway -> SUBSET Event]
        BY <2>3, InHandType DEF TypeOK
      <3>3. TypeOK'
        BY <1>6, <2>2, <2>3, <3>1, <3>2 DEF Settle, TypeOK, channel, memory, bounds
      <3>4. Tasks'
        BY <1>2, <1>6, <2>1, <3>1 DEF Settle, Holding, memory
      <3> QED
        BY <3>3, <3>4
    <2>4. CASE Reenters(g)
      <3>1. TypeOK'
        BY <1>6, <2>2, <2>4, ReentersType DEF Settle, TypeOK, channel, memory, bounds
      <3>2. Tasks'
        BY <1>2, <1>6, <2>1, <2>4, ReentersType DEF Settle, Holding, memory
      <3> QED
        BY <3>1, <3>2
    <2> QED
      BY <1>6, <2>3, <2>4 DEF Settle
  <1>7. Handle(g) => TypeOK' /\ Tasks'
    BY <1>4 DEF Handle
  <1>8. RefuseTurn(g) => TypeOK' /\ Tasks'
    BY <1>4 DEF RefuseTurn
  <1> QED
    BY <1>1, <1>3, <1>5, <1>6, <1>7, <1>8 DEF DispatchStep

\* A delivery, and a retained operation.
LEMMA OtherTypes ==
    ASSUME TypeOK, Tasks,
           (\E g \in Gateway, e \in Event : Deliver(g, e)) \/ (\E j \in late : RunLate(j))
    PROVE  TypeOK' /\ Tasks'
PROOF
  <1>1. ASSUME NEW g \in Gateway, NEW e \in Event, Deliver(g, e) PROVE TypeOK' /\ Tasks'
    <2>1. left' \in [Limited -> Nat]
      BY <1>1, SpendType DEF Deliver, Limited
    <2>2. Enqueue(g, e)
      BY <1>1 DEF Deliver
    <2>3. TypeOK'
      BY <1>1, <2>1, <2>2, EnqueueType DEF Deliver, TypeOK, channel
    <2>4. Tasks'
      BY <1>1 DEF Deliver, Tasks, channel
    <2> QED
      BY <2>3, <2>4
  <1>2. ASSUME NEW j \in late, RunLate(j) PROVE TypeOK' /\ Tasks'
    <2>1. j \in Job /\ late' \subseteq Job
      BY <1>2 DEF TypeOK, RunLate
    <2>2. /\ j.gateway \in Gateway /\ j.token \in Nat
          /\ j.op # "release" => j.event \in Event
      BY <2>1 DEF Job
    <2>3. /\ state' \in [Event -> {"absent", "accepted", "processing", "completed"}]
          /\ claim' \in [Event -> Nat]
      BY <1>2, <2>2, SettlementType DEF RunLate, TypeOK
    <2>4. lease' \in [owner : Gateway \union {None}, token : Nat, valid : BOOLEAN]
      BY <1>2, <2>2, ReleasedType DEF RunLate, TypeOK
    <2>5. TypeOK'
      BY <1>2, <2>1, <2>3, <2>4 DEF RunLate, Fault, TypeOK, channel, memory, history
    <2>6. Tasks'
      BY <1>2 DEF RunLate, Tasks, channel
    <2> QED
      BY <2>5, <2>6
  <1> QED
    BY <1>1, <1>2

\* Types and the dispatcher's event are kept.
LEMMA TypeStep == ASSUME TypeOK, Tasks, [Next]_vars PROVE TypeOK' /\ Tasks'
PROOF
  <1>1. CASE UNCHANGED vars
    <2>1. TypeOK'
      BY <1>1 DEF TypeOK, vars, journal, channel, memory, history, bounds
    <2>2. Tasks'
      BY <1>1 DEF Tasks, vars, journal, channel, memory, history, bounds
    <2> QED
      BY <2>1, <2>2
  <1>2. CASE Expire
    <2>1. TypeOK'
      BY <1>2, LeaseType, SpendType DEF Expire, TypeOK, Limited, journal, channel, memory, history
    <2>2. Tasks'
      BY <1>2 DEF Expire, Tasks, channel
    <2> QED
      BY <2>1, <2>2
  <1>3. ASSUME NEW g \in Gateway,
               \/ Acquire(g) \/ StartFails(g) \/ Renew(g) \/ LoseLease(g)
               \/ Stop(g) \/ Release(g) \/ Crash(g) \/ Escapes(g)
               \/ StartStep(g) \/ DispatchStep(g)
               \/ \E e \in Event : Deliver(g, e)
        PROVE  TypeOK' /\ Tasks'
    BY <1>3, StartTypes, StopTypes, DispatchTypes, OtherTypes
  <1> QED
    BY <1>1, <1>2, <1>3, OtherTypes DEF Next

\* Type correctness of the channel intake: columns, markers, dispatchers and retained
\* operations keep their shape (delivery_store.py, manager.py).
THEOREM TypeCorrect == Spec => []TypeOK
PROOF
  <1>1. Spec => [](TypeOK /\ Tasks)
    BY InitType, TypeStep, PTL DEF Spec
  <1> QED
    BY <1>1, PTL

--------------------------------------------------------------------------------
(* Rows *)

\* A row in "processing" carries a claim token, which is at most the last attempt.
Claimed == \A e \in Event : /\ claim[e] # 0 <=> state[e] = "processing"
                            /\ claim[e] <= attempts[e]
                            /\ state[e] = "absent" => attempts[e] = 0

\* What a step can do to a row: accept, claim, complete or return it.
RowMove(e) ==
    \/ state'[e] = state[e] /\ claim'[e] = claim[e] /\ attempts'[e] = attempts[e]
    \/ /\ state[e] = "absent" /\ state'[e] = "accepted"
       /\ claim'[e] = claim[e] /\ attempts'[e] = attempts[e]
    \/ /\ state[e] \in {"absent", "accepted"} /\ state'[e] = "processing"
       /\ claim'[e] = attempts[e] + 1 /\ attempts'[e] = attempts[e] + 1
    \/ /\ state[e] = "processing" /\ state'[e] \in {"completed", "accepted"}
       /\ claim'[e] = 0 /\ attempts'[e] = attempts[e]

\* A settlement with the token of the row's claim moves the row, another one does not.
LEMMA SettlementMoves ==
    ASSUME TypeOK, Claimed, NEW e \in Event, NEW t \in Nat, Complete(e, t) \/ Fail(e, t),
           attempts' = attempts
    PROVE  /\ \A f \in Event : RowMove(f)
           /\ \A f \in Event : f # e => state'[f] = state[f] /\ claim'[f] = claim[f]
           /\ IF t # 0 /\ claim[e] = t
                THEN /\ claim'[e] = 0
                     /\ Complete(e, t) => state'[e] = "completed"
                     /\ state'[e] \in {"completed", "accepted"}
                ELSE state' = state /\ claim' = claim
PROOF
  <1>1. CASE t # 0 /\ claim[e] = t
    <2>1. state[e] = "processing"
      BY <1>1 DEF Claimed
    <2>2. claim' = [claim EXCEPT ![e] = 0]
      BY <1>1 DEF Complete, Fail, Fenced
    <2>3. \/ state' = [state EXCEPT ![e] = "completed"]
          \/ state' = [state EXCEPT ![e] = "accepted"]
      BY <1>1 DEF Complete, Fail, Fenced
    <2>4. Complete(e, t) => state' = [state EXCEPT ![e] = "completed"]
      BY <1>1 DEF Complete, Fenced
    <2>5. \A f \in Event \ {e} : state'[f] = state[f] /\ claim'[f] = claim[f]
      BY <2>2, <2>3 DEF TypeOK
    <2>6. claim'[e] = 0 /\ state'[e] \in {"completed", "accepted"}
      BY <2>2, <2>3 DEF TypeOK
    <2>7. Complete(e, t) => state'[e] = "completed"
      BY <2>4 DEF TypeOK
    <2> QED
      BY <1>1, <2>1, <2>5, <2>6, <2>7 DEF RowMove
  <1>2. CASE ~(t # 0 /\ claim[e] = t)
    BY <1>2 DEF Complete, Fail, Fenced, RowMove
  <1> QED
    BY <1>1, <1>2

\* Acceptance moves at most the row of its event.
LEMMA EnqueueMoves ==
    ASSUME TypeOK, NEW g \in Gateway, NEW e \in Event, Enqueue(g, e)
    PROVE  /\ \A f \in Event : \/ state'[f] = state[f]
                               \/ f = e /\ state[f] = "absent" /\ state'[f] = "accepted"
  BY DEF Enqueue, AcceptRow, AcceptInMemory, TypeOK

\* Every step moves each row in one of these ways.
LEMMA RowMoves ==
    ASSUME TypeOK, Tasks, Claimed, [Next]_vars
    PROVE  \A f \in Event : RowMove(f)
PROOF
  <1>1. ASSUME UNCHANGED journal PROVE \A f \in Event : RowMove(f)
    BY <1>1 DEF journal, RowMove
  <1>2. ASSUME NEW g \in Gateway, Recover(g) PROVE \A f \in Event : RowMove(f)
    <2> SUFFICES ASSUME NEW f \in Event PROVE RowMove(f)
      OBVIOUS
    <2>1. /\ state'[f] = IF state[f] = "processing" THEN "accepted" ELSE state[f]
          /\ claim'[f] = IF state[f] = "processing" THEN 0 ELSE claim[f]
          /\ attempts' = attempts
      BY <1>2 DEF Recover
    <2> QED
      BY <2>1 DEF RowMove
  <1>3. ASSUME NEW g \in Gateway, NEW e \in Event, Enqueue(g, e), UNCHANGED <<claim, attempts>>
        PROVE  \A f \in Event : RowMove(f)
    BY <1>3, EnqueueMoves DEF RowMove
  <1>4. ASSUME NEW g \in Gateway, Claim(g) PROVE \A f \in Event : RowMove(f)
    <2> DEFINE e == disp[g].event
    <2>1. e \in Event
      BY <1>4, ClaimCases
    <2>2. ASSUME NEW t \in Nat, Claims(g, e, t), state[e] \in {"absent", "accepted"},
                 t = attempts[e] + 1
          PROVE  \A f \in Event : RowMove(f)
      <3>1. /\ state'[e] = "processing" /\ claim'[e] = t /\ attempts'[e] = t
            /\ \A f \in Event \ {e} : /\ state'[f] = state[f] /\ claim'[f] = claim[f]
                                      /\ attempts'[f] = attempts[f]
        BY <2>1, <2>2 DEF Claims, TypeOK
      <3> QED
        BY <2>1, <2>2, <3>1 DEF RowMove
    <2>3. attempts[e] + 1 \in Nat /\ (state[e] = "absent" => 1 = attempts[e] + 1)
      BY <2>1 DEF TypeOK, Claimed
    <2>4. CASE state[e] = "absent" /\ Claims(g, e, 1)
      BY <2>2, <2>3, <2>4
    <2>5. CASE state[e] = "accepted" /\ Claims(g, e, attempts[e] + 1)
      BY <2>2, <2>3, <2>5
    <2> QED
      BY <1>1, <1>4, <2>4, <2>5, ClaimCases DEF PassThrough
  <1>5. ASSUME NEW g \in Gateway, Settle(g) PROVE \A f \in Event : RowMove(f)
    <2>1. disp[g].event \in Event /\ disp[g].token \in Nat
      BY <1>5, TaskType DEF Settle, Tasks, Holding
    <2> QED
      BY <1>5, <2>1, SettlementMoves DEF Settle
  <1>6. ASSUME NEW j \in late, RunLate(j) PROVE \A f \in Event : RowMove(f)
    <2>1. j.op # "release" => j.event \in Event /\ j.token \in Nat
      BY DEF TypeOK, Job
    <2>2. CASE j.op = "release"
      BY <1>1, <1>6, <2>2 DEF RunLate, journal
    <2>3. CASE j.op # "release"
      BY <1>1, <1>6, <2>1, <2>3, SettlementMoves DEF RunLate, journal
    <2> QED
      BY <2>2, <2>3
  <1>7. CASE UNCHANGED vars
    BY <1>1, <1>7 DEF vars
  <1>8. CASE Expire
    BY <1>1, <1>8 DEF Expire
  <1>9. ASSUME NEW g \in Gateway,
               \/ Acquire(g) \/ StartFails(g) \/ Renew(g) \/ LoseLease(g) \/ Stop(g)
               \/ Release(g) \/ Crash(g) \/ Escapes(g) \/ StartAdapter(g)
               \/ Handle(g) \/ RefuseTurn(g) \/ \E e \in Event : Receive(g, e)
        PROVE  UNCHANGED journal
    BY <1>9 DEF Acquire, StartFails, Renew, LoseLease, Stop, Release, Crash, Escapes,
                StartAdapter, Handle, RefuseTurn, Receive
  <1>10. ASSUME NEW g \in Gateway, NEW e \in Event, Requeue(g, e) \/ Deliver(g, e)
         PROVE  \A f \in Event : RowMove(f)
    BY <1>3, <1>10 DEF Requeue, Deliver
  <1> QED
    BY <1>1, <1>2, <1>4, <1>5, <1>6, <1>7, <1>8, <1>9, <1>10
       DEF Next, StartStep, DispatchStep

\* A row keeps what Claimed says of it.
LEMMA ClaimedStep == ASSUME TypeOK, Tasks, Claimed, [Next]_vars PROVE Claimed'
PROOF
  <1> SUFFICES ASSUME NEW e \in Event
               PROVE  /\ claim'[e] # 0 <=> state'[e] = "processing"
                      /\ claim'[e] <= attempts'[e]
                      /\ state'[e] = "absent" => attempts'[e] = 0
    BY DEF Claimed
  <1>1. RowMove(e)
    BY RowMoves
  <1>2. /\ claim[e] \in Nat /\ attempts[e] \in Nat
        /\ claim[e] # 0 <=> state[e] = "processing"
        /\ claim[e] <= attempts[e]
        /\ state[e] = "absent" => attempts[e] = 0
    BY DEF TypeOK, Claimed
  <1> QED
    BY <1>1, <1>2 DEF RowMove

\* The rows start without a claim.
LEMMA InitClaimed == Init => Claimed
  BY DEF Init, Claimed

\* Nothing takes a completed event up again: a settlement writes under the token of the
\* row's claim, and a completed row has none (complete_inbound, fail_inbound).
THEOREM CompletedStays == Spec => CompletedIsFinal
PROOF
  <1>1. ASSUME TypeOK, Tasks, Claimed, [Next]_vars
        PROVE  [\A e \in Event : state[e] = "completed" => state'[e] = "completed"]_vars
    <2>1. \A e \in Event : RowMove(e)
      BY <1>1, RowMoves
    <2> QED
      BY <2>1 DEF RowMove
  <1>2. Spec => [](TypeOK /\ Tasks /\ Claimed)
    BY InitType, InitClaimed, TypeStep, ClaimedStep, PTL DEF Spec
  <1> QED
    BY <1>1, <1>2, PTL DEF Spec, CompletedIsFinal

--------------------------------------------------------------------------------
(* Tasks *)

\* What a step can do to a dispatcher: it holds no claim, keeps the one it has, or takes
\* one, of the row or without it; what it has dealt with by memory was passed on.
TaskMove(h) ==
    /\ \/ disp'[h].pc \notin Holding
       \/ /\ disp[h].pc \in Holding
          /\ disp'[h].event = disp[h].event /\ disp'[h].token = disp[h].token
          /\ forwarded'[h] = forwarded[h]
       \/ /\ disp[h].pc = "claiming"
          /\ disp'[h].event \in Event \ passed[h] /\ forwarded'[h] = forwarded[h]
          /\ \/ disp'[h].token = 0 /\ disp'[h].event \in passed'[h]
             \/ disp'[h].token = attempts'[disp'[h].event] /\ disp'[h].token # 0
    /\ \/ passed[h] \subseteq passed'[h] /\ forwarded'[h] \subseteq forwarded[h] \union ByMemory(h)
       \/ forwarded'[h] = {} /\ disp'[h].pc \notin Holding

\* A step that leaves the dispatcher and its markers alone.
LEMMA RestingMove ==
    ASSUME NEW h \in Gateway, disp'[h] = disp[h], passed'[h] = passed[h], forwarded'[h] = forwarded[h]
    PROVE  TaskMove(h)
  BY DEF TaskMove

\* A step that takes the dispatcher off its message.
LEMMA LeavingMove ==
    ASSUME TypeOK, NEW g \in Gateway, disp'[g].pc \notin Holding,
           \A h \in Gateway \ {g} : disp'[h] = disp[h], passed' = passed,
           forwarded' \in {forwarded, [forwarded EXCEPT ![g] = @ \union ByMemory(g)]}
    PROVE  \A h \in Gateway : TaskMove(h)
PROOF
  <1>1. /\ forwarded'[g] \subseteq forwarded[g] \union ByMemory(g)
        /\ \A h \in Gateway \ {g} : forwarded'[h] = forwarded[h]
    BY DEF TypeOK
  <1>2. TaskMove(g)
    BY <1>1 DEF TaskMove
  <1>3. \A h \in Gateway \ {g} : TaskMove(h)
    BY <1>1 DEF TaskMove
  <1> QED
    BY <1>2, <1>3

\* The claims of a dispatcher, with or without the row.
LEMMA ClaimMoves ==
    ASSUME TypeOK, Tasks, Claimed, NEW g \in Gateway, Claim(g)
    PROVE  \A h \in Gateway : TaskMove(h)
PROOF
  <1> DEFINE e == disp[g].event
  <1>1. e \in Event /\ disp[g].pc = "claiming"
    BY ClaimCases
  <1>2. CASE disp' = [disp EXCEPT ![g] = Waiting] /\ UNCHANGED <<passed, forwarded>>
    BY <1>2, WaitingType, LeavingMove DEF Holding
  <1>3. CASE e \notin passed[g] /\ PassThrough(g, e) /\ UNCHANGED forwarded
    <2>1. "claimed" \in Place
      BY DEF Place
    <2>2. /\ disp'[g].event = e /\ disp'[g].token = 0
          /\ \A h \in Gateway \ {g} : disp'[h] = disp[h]
      BY <1>1, <1>3, <2>1, TakesPlace DEF PassThrough
    <2>3. /\ passed'[g] = passed[g] \union {e} /\ \A h \in Gateway \ {g} : passed'[h] = passed[h]
      BY <1>3 DEF PassThrough, With, TypeOK
    <2>4. TaskMove(g)
      BY <1>1, <1>3, <2>2, <2>3 DEF TaskMove
    <2>5. \A h \in Gateway \ {g} : TaskMove(h)
      BY <1>3, <2>2, <2>3, RestingMove
    <2> QED
      BY <2>4, <2>5
  <1>4. ASSUME NEW t \in Nat \ {0}, Claims(g, e, t), e \notin passed[g], UNCHANGED forwarded
        PROVE  \A h \in Gateway : TaskMove(h)
    <2>1. /\ disp'[g].event = e /\ disp'[g].token = t
          /\ \A h \in Gateway \ {g} : disp'[h] = disp[h]
      BY <1>1, <1>4, ClaimsType
    <2>2. attempts'[e] = t /\ passed' = passed
      BY <1>1, <1>4 DEF Claims, TypeOK
    <2>3. TaskMove(g)
      BY <1>1, <1>4, <2>1, <2>2 DEF TaskMove
    <2>4. \A h \in Gateway \ {g} : TaskMove(h)
      BY <1>4, <2>1, <2>2, RestingMove
    <2> QED
      BY <2>3, <2>4
  <1>5. CASE Reenters(g) /\ UNCHANGED passed
    BY <1>5, ReentersType, LeavingMove DEF Holding
  <1>6. 1 \in Nat \ {0} /\ attempts[e] + 1 \in Nat \ {0}
    BY <1>1 DEF TypeOK
  <1> QED
    BY <1>2, <1>3, <1>4, <1>5, <1>6, ClaimCases

\* Every step moves each dispatcher in one of these ways.
LEMMA TaskMoves ==
    ASSUME TypeOK, Tasks, Claimed, [Next]_vars
    PROVE  \A h \in Gateway : TaskMove(h)
PROOF
  <1>1. ASSUME UNCHANGED <<disp, passed, forwarded>> PROVE \A h \in Gateway : TaskMove(h)
    BY <1>1, RestingMove
  <1>2. CASE UNCHANGED vars
    BY <1>1, <1>2 DEF vars, memory, history
  <1>3. CASE Expire
    BY <1>1, <1>3 DEF Expire, memory, history
  <1>4. ASSUME NEW g \in Gateway,
               \/ Acquire(g) \/ StartFails(g) \/ Renew(g) \/ LoseLease(g) \/ Release(g)
               \/ Recover(g) \/ \E e \in Event : Requeue(g, e) \/ Deliver(g, e)
        PROVE  \A h \in Gateway : TaskMove(h)
    BY <1>1, <1>4 DEF Acquire, StartFails, Renew, LoseLease, Release, Recover, Requeue, Deliver,
                      memory, history
  <1>5. ASSUME NEW g \in Gateway, StartAdapter(g) PROVE \A h \in Gateway : TaskMove(h)
    BY <1>5, WaitingType, LeavingMove DEF StartAdapter, Holding, memory, history
  <1>6. ASSUME NEW g \in Gateway, Stop(g) PROVE \A h \in Gateway : TaskMove(h)
    <2>1. disp'[g] = NoTask /\ \A h \in Gateway \ {g} : disp'[h] = disp[h]
      BY <1>6 DEF Stop, TypeOK
    <2>2. disp'[g].pc \notin Holding
      BY <2>1, RestingTask DEF Holding
    <2> QED
      BY <1>6, <2>1, <2>2, LeavingMove DEF Stop, memory
  <1>7. ASSUME NEW g \in Gateway, Crash(g) PROVE \A h \in Gateway : TaskMove(h)
    <2>1. disp'[g] = NoTask /\ \A h \in Gateway \ {g} : disp'[h] = disp[h]
      BY <1>7 DEF Crash, TypeOK
    <2>2. disp'[g].pc \notin Holding
      BY <2>1, RestingTask DEF Holding
    <2>3. /\ forwarded'[g] = {}
          /\ \A h \in Gateway \ {g} : forwarded'[h] = forwarded[h] /\ passed'[h] = passed[h]
      BY <1>7 DEF Crash, TypeOK
    <2>4. TaskMove(g)
      BY <2>2, <2>3 DEF TaskMove
    <2>5. \A h \in Gateway \ {g} : TaskMove(h)
      BY <2>1, <2>3, RestingMove
    <2> QED
      BY <2>4, <2>5
  <1>8. ASSUME NEW g \in Gateway, NEW e \in Event, Receive(g, e)
        PROVE  \A h \in Gateway : TaskMove(h)
    <2>1. "claiming" \in Place
      BY DEF Place
    <2>2. disp'[g].pc = "claiming" /\ \A h \in Gateway \ {g} : disp'[h] = disp[h]
      BY <1>8, <2>1, TakesPlace DEF Receive
    <2> QED
      BY <1>8, <2>2, LeavingMove DEF Receive, Holding, history
  <1>9. ASSUME NEW g \in Gateway, Handle(g) \/ RefuseTurn(g)
        PROVE  \A h \in Gateway : TaskMove(h)
    <2>1. PICK p \in {"completing", "failing"} : disp' = [disp EXCEPT ![g].pc = p]
      BY <1>9 DEF Handle, RefuseTurn, Goto
    <2>2. p \in Place /\ disp[g].event \in Event /\ disp[g].token \in Nat /\ disp[g].pc \in Holding
      BY <1>9, <2>1, TaskType DEF Handle, RefuseTurn, Place, Tasks, Holding
    <2>3. disp' = [disp EXCEPT ![g] = [pc |-> p, event |-> disp[g].event, token |-> disp[g].token]]
      BY <2>1, <2>2, TaskType
    <2>4. /\ disp'[g].event = disp[g].event /\ disp'[g].token = disp[g].token
          /\ \A h \in Gateway \ {g} : disp'[h] = disp[h]
      BY <2>2, <2>3, TakesPlace
    <2>5. UNCHANGED <<passed, forwarded>>
      BY <1>9 DEF Handle, RefuseTurn, memory, history
    <2>6. TaskMove(g)
      BY <2>2, <2>4, <2>5 DEF TaskMove
    <2>7. \A h \in Gateway \ {g} : TaskMove(h)
      BY <2>4, <2>5, RestingMove
    <2> QED
      BY <2>6, <2>7
  <1>10. ASSUME NEW g \in Gateway, Escapes(g) PROVE \A h \in Gateway : TaskMove(h)
    BY <1>10, ReentersType, LeavingMove DEF Escapes, Holding, memory
  <1>11. ASSUME NEW g \in Gateway, Settle(g) PROVE \A h \in Gateway : TaskMove(h)
    <2>1. passed' = passed
      BY <1>11 DEF Settle, memory
    <2>2. CASE Reenters(g)
      BY <2>1, <2>2, ReentersType, LeavingMove DEF Holding
    <2>3. CASE /\ disp' = [disp EXCEPT ![g] = Waiting]
               /\ forwarded' = [forwarded EXCEPT ![g] = @ \union ByMemory(g)]
      BY <2>1, <2>3, WaitingType, LeavingMove DEF Holding
    <2> QED
      BY <1>11, <2>2, <2>3 DEF Settle
  <1>12. ASSUME NEW j \in late, RunLate(j) PROVE \A h \in Gateway : TaskMove(h)
    BY <1>1, <1>12 DEF RunLate, memory, history
  <1> QED
    BY <1>2, <1>3, <1>4, <1>5, <1>6, <1>7, <1>8, <1>9, <1>10, <1>11, <1>12, ClaimMoves
       DEF Next, StartStep, DispatchStep

\* What a process has dealt with without the journal it has passed on for good, and what
\* it has in hand it has not dealt with.
Memory ==
    \A g \in Gateway :
        /\ forwarded[g] \subseteq passed[g]
        /\ disp[g].pc \in Holding =>
             /\ disp[g].event \notin forwarded[g]
             /\ disp[g].token = 0 => disp[g].event \in passed[g]

\* The markers keep what Memory says of them.
LEMMA MemoryStep == ASSUME TypeOK, Tasks, Claimed, Memory, [Next]_vars PROVE Memory'
PROOF
  <1> SUFFICES ASSUME NEW g \in Gateway
               PROVE  /\ forwarded'[g] \subseteq passed'[g]
                      /\ disp'[g].pc \in Holding =>
                           /\ disp'[g].event \notin forwarded'[g]
                           /\ disp'[g].token = 0 => disp'[g].event \in passed'[g]
    BY DEF Memory
  <1>1. TaskMove(g)
    BY TaskMoves
  <1>2. ByMemory(g) \subseteq passed[g]
    BY DEF ByMemory, Memory
  <1>3. forwarded'[g] \subseteq passed'[g]
    BY <1>1, <1>2 DEF TaskMove, Memory
  <1>4. ASSUME disp'[g].pc \in Holding
        PROVE  /\ disp'[g].event \notin forwarded'[g]
               /\ disp'[g].token = 0 => disp'[g].event \in passed'[g]
    BY <1>1, <1>4 DEF TaskMove, Memory
  <1> QED
    BY <1>3, <1>4

\* A process starts without markers.
LEMMA InitMemory == Init => Memory
  BY RestingTask DEF Init, Memory, Holding

\* A message taken without the journal is handled once by its process, whatever is
\* redelivered or readmitted later: its marker stays (claim_inbound).
THEOREM HandledOnce == Spec => []ForwardedOnce
PROOF
  <1>1. Memory => ForwardedOnce
    BY DEF Memory, ForwardedOnce
  <1>2. Spec => [](TypeOK /\ Tasks /\ Claimed /\ Memory)
    BY InitType, InitClaimed, InitMemory, TypeStep, ClaimedStep, MemoryStep, PTL DEF Spec
  <1> QED
    BY <1>1, <1>2, PTL

--------------------------------------------------------------------------------
(* Tokens *)

\* No token is newer than the last attempt, and a late settlement whose token is still the
\* row's claim belongs to an event left behind.
Tokens ==
    /\ \A g \in Gateway : disp[g].pc \in Holding => disp[g].token <= attempts[disp[g].event]
    /\ \A j \in late : j.op # "release" =>
         /\ j.token <= attempts[j.event]
         /\ j.token # 0 /\ j.token = claim[j.event] => j.event \in orphaned

\* What becomes of the events left behind, and which settlements become late.
LEMMA LeftBehind ==
    ASSUME TypeOK, Tasks, [Next]_vars
    PROVE  /\ orphaned \subseteq orphaned' \/ \E g \in Gateway : Recover(g)
           /\ \A j \in late' : \/ j \in late \/ j.op = "release"
                               \/ \E g \in Gateway : /\ disp[g].pc \in Holding /\ Stop(g)
                                                     /\ j.event = disp[g].event
                                                     /\ j.token = disp[g].token
PROOF
  <1>1. CASE UNCHANGED vars
    BY <1>1 DEF vars, history
  <1>2. CASE Expire
    BY <1>2 DEF Expire, history
  <1>3. ASSUME NEW g \in Gateway, Acquire(g) \/ LoseLease(g)
        PROVE  orphaned' = orphaned /\ \A j \in late' : j \in late \/ j.op = "release"
    BY <1>3 DEF Acquire, LoseLease, history
  <1>4. ASSUME NEW g \in Gateway,
               \/ StartFails(g) \/ Renew(g) \/ Release(g) \/ Crash(g) \/ StartAdapter(g)
               \/ Handle(g) \/ RefuseTurn(g) \/ \E e \in Event : Requeue(g, e) \/ Receive(g, e)
               \/ \E e \in Event : Deliver(g, e)
        PROVE  orphaned \subseteq orphaned' /\ late' \subseteq late
    BY <1>4 DEF StartFails, Renew, Release, Crash, StartAdapter, Handle, RefuseTurn, Requeue,
                Receive, Deliver, history
  <1>5. ASSUME NEW g \in Gateway, Escapes(g) \/ Claim(g) \/ Settle(g)
        PROVE  orphaned \subseteq orphaned' /\ late' = late
    BY <1>5, ReentersType DEF Escapes, Claim, Settle, PassThrough, Claims, Skips
  <1>6. ASSUME NEW g \in Gateway, Stop(g)
        PROVE  /\ orphaned \subseteq orphaned'
               /\ \A j \in late' : \/ j \in late
                                   \/ /\ disp[g].pc \in Holding /\ j.event = disp[g].event
                                      /\ j.token = disp[g].token
    BY <1>6 DEF Stop, Remains, Holding
  <1>7. ASSUME NEW j \in late, RunLate(j) PROVE orphaned' = orphaned /\ late' \subseteq late
    BY <1>7 DEF RunLate, history
  <1>8. ASSUME NEW g \in Gateway, Recover(g) PROVE late' = late
    BY <1>8 DEF Recover
  <1> QED
    BY <1>1, <1>2, <1>3, <1>4, <1>5, <1>6, <1>7, <1>8 DEF Next, StartStep, DispatchStep

\* The tokens stay what they are worth: a new claim has a newer one than any in use.
LEMMA TokensStep == ASSUME TypeOK, Tasks, Claimed, Tokens, [Next]_vars PROVE Tokens'
PROOF
  <1>1. \A e \in Event : attempts[e] \in Nat /\ claim[e] \in Nat /\ RowMove(e)
    BY RowMoves DEF TypeOK
  <1>2. \A e \in Event : attempts'[e] \in Nat /\ attempts[e] <= attempts'[e]
    BY <1>1 DEF RowMove
  <1>3. ASSUME NEW g \in Gateway, disp'[g].pc \in Holding
        PROVE  disp'[g].token <= attempts'[disp'[g].event]
    <2>1. TaskMove(g) /\ TypeOK' /\ Tasks'
      BY TaskMoves, TypeStep
    <2>2. disp'[g].event \in Event /\ disp'[g].token \in Nat
      BY <1>3, <2>1 DEF Tasks, TypeOK
    <2>3. CASE /\ disp[g].pc \in Holding
               /\ disp'[g].event = disp[g].event /\ disp'[g].token = disp[g].token
      <3>1. disp[g].token <= attempts[disp[g].event]
        BY <2>3 DEF Tokens
      <3> QED
        BY <1>1, <1>2, <2>2, <2>3, <3>1
    <2>4. CASE disp'[g].token = 0 \/ disp'[g].token = attempts'[disp'[g].event]
      BY <1>2, <2>2, <2>4
    <2> QED
      BY <1>3, <2>1, <2>3, <2>4 DEF TaskMove
  <1>4. ASSUME NEW j \in late', j.op # "release"
        PROVE  /\ j.token <= attempts'[j.event]
               /\ j.token # 0 /\ j.token = claim'[j.event] => j.event \in orphaned'
    <2>1. j.event \in Event /\ j.token \in Nat
      BY <1>4, TypeStep DEF TypeOK, Job
    <2>2. CASE j \in late
      <3>1. /\ j.token <= attempts[j.event]
            /\ j.token # 0 /\ j.token = claim[j.event] => j.event \in orphaned
        BY <1>4, <2>2 DEF Tokens
      <3>2. ASSUME j.token # 0, j.token = claim'[j.event] PROVE j.event \in orphaned'
        <4>1. claim'[j.event] = claim[j.event]
          BY <1>1, <2>1, <3>1, <3>2 DEF RowMove
        <4>2. j.event \in orphaned
          BY <3>1, <3>2, <4>1
        <4>3. ASSUME NEW g \in Gateway, Recover(g) PROVE FALSE
          <5>1. claim'[j.event] = 0 \/ (claim'[j.event] = claim[j.event] /\ state[j.event] # "processing")
            BY <2>1, <4>3 DEF Recover
          <5>2. claim'[j.event] = 0
            BY <2>1, <5>1 DEF Claimed
          <5> QED
            BY <3>2, <5>2
        <4> QED
          BY <4>2, <4>3, LeftBehind
      <3>3. j.token <= attempts'[j.event]
        BY <1>1, <1>2, <2>1, <3>1
      <3> QED
        BY <3>2, <3>3
    <2>3. ASSUME NEW g \in Gateway, disp[g].pc \in Holding, Stop(g),
                 j.event = disp[g].event, j.token = disp[g].token
          PROVE  /\ j.token <= attempts'[j.event]
                 /\ j.event \in orphaned'
      BY <2>3 DEF Tokens, Stop, InHand, journal
    <2> QED
      BY <1>4, <2>2, <2>3, LeftBehind
  <1> QED
    BY <1>3, <1>4 DEF Tokens

\* There are no tokens at first.
LEMMA InitTokens == Init => Tokens
  BY RestingTask DEF Init, Tokens, Holding

--------------------------------------------------------------------------------
(* Where the events are *)

\* The marker that one of the copies was taken without its row.
Mark(g, e) == IF e \in unjournaled[g] THEN 1 ELSE 0

\* The copies of an event in one gateway that still come to a claim.
Copies(g, e) == queue[g][e] + (IF disp[g].pc = "claiming" /\ disp[g].event = e THEN 1 ELSE 0)

\* The gateway takes the event up again: it may readmit it, has passed it on, or has a
\* copy for a claim of the row besides the one that spends the marker.
Reaches(g, e) ==
    \/ e \in permits[g] \union passed[g]
    \/ Serving(g) /\ Copies(g, e) > Mark(g, e)

\* The dispatcher of the gateway has the claim of the row.
Holds(g, e) == disp[g].pc \in Holding /\ disp[g].event = e /\ disp[g].token = claim[e]

At(e) ==
    /\ state[e] = "accepted" => \E g \in Gateway : Reaches(g, e)
    /\ state[e] = "processing" => \E g \in Gateway : Holds(g, e)

Accounted == \A e \in Event \ orphaned : At(e)

\* A step that changes one gateway keeps an event in its place if that gateway does.
LEMMA Carried ==
    ASSUME TypeOK, Accounted, NEW g \in Gateway, NEW e \in Event,
           orphaned \subseteq orphaned', e \notin orphaned',
           \A h \in Gateway \ {g} :
              /\ disp'[h] = disp[h] /\ permits'[h] = permits[h] /\ passed'[h] = passed[h]
              /\ queue'[h] = queue[h] /\ unjournaled'[h] = unjournaled[h] /\ phase'[h] = phase[h],
           state'[e] = state[e], claim'[e] = claim[e],
           state[e] = "accepted" /\ Reaches(g, e) => Reaches(g, e)',
           state[e] = "processing" /\ Holds(g, e) => Holds(g, e)'
    PROVE  At(e)'
PROOF
  <1>1. At(e)
    BY DEF Accounted
  <1>2. \A h \in Gateway \ {g} : (Reaches(h, e) => Reaches(h, e)') /\ (Holds(h, e) => Holds(h, e)')
    BY DEF Reaches, Serving, Copies, Mark, Holds
  <1> QED
    BY <1>1, <1>2 DEF At

\* A gateway whose memory and dispatcher do not change keeps its events while it serves.
LEMMA Unmoved ==
    ASSUME NEW g \in Gateway, NEW e \in Event,
           disp'[g] = disp[g], permits'[g] = permits[g], passed'[g] = passed[g],
           queue'[g] = queue[g], unjournaled'[g] = unjournaled[g], claim'[e] = claim[e],
           Serving(g) => Serving(g)'
    PROVE  /\ Reaches(g, e) => Reaches(g, e)'
           /\ Holds(g, e) => Holds(g, e)'
  BY DEF Reaches, Copies, Mark, Holds

\* Without copies an event is reached by the permit or by the marker only.
LEMMA NoCopies ==
    ASSUME TypeOK, Tasks, NEW g \in Gateway, NEW e \in Event, e \notin InHand(g) \union Queued(g)
    PROVE  ~Holds(g, e) /\ (Reaches(g, e) => e \in permits[g] \union passed[g])
PROOF
  <1>1. queue[g][e] \in Nat /\ ~(queue[g][e] > 0)
    BY QueueType DEF Queued
  <1>2. queue[g][e] = 0
    BY <1>1
  <1>3. ~(disp[g].pc = "claiming" /\ disp[g].event = e) /\ ~Holds(g, e)
    BY DEF InHand, Holds
  <1>4. Copies(g, e) = 0
    BY <1>2, <1>3 DEF Copies
  <1>5. ~(Copies(g, e) > Mark(g, e))
    BY <1>4 DEF Mark
  <1> QED
    BY <1>3, <1>5 DEF Reaches

\* Nothing of the intake of a channel moves.
LEMMA Still ==
    ASSUME TypeOK, Accounted, UNCHANGED <<journal, phase, memory, disp, orphaned>>
    PROVE  Accounted'
  BY DEF Accounted, At, Reaches, Serving, Copies, Mark, Holds, journal, memory

\* The start of the channel and its failure.
LEMMA StartAccounted ==
    ASSUME TypeOK, Tasks, Claimed, Accounted, NEW g \in Gateway,
           Acquire(g) \/ Recover(g) \/ StartAdapter(g) \/ StartFails(g)
    PROVE  Accounted'
PROOF
  <1> SUFFICES ASSUME NEW e \in Event, e \notin orphaned' PROVE At(e)'
    BY DEF Accounted
  <1>1. CASE Acquire(g)
    <2>1. Serving(g) => Serving(g)'
      BY <1>1 DEF Acquire, Serving, TypeOK
    <2>2. \A h \in Gateway \ {g} : phase'[h] = phase[h]
      BY <1>1 DEF Acquire, TypeOK
    <2> QED
      BY <1>1, <2>1, <2>2, Unmoved, Carried DEF Acquire, journal, memory, history
  <1>2. CASE Recover(g)
    <2>1. state'[e] = "accepted" => e \in Pending
      BY <1>2 DEF Recover, Pending
    <2>2. state'[e] # "processing"
      BY <1>2 DEF Recover
    <2>3. Pending \subseteq permits'[g]
      BY <1>2 DEF Recover, TypeOK
    <2> QED
      BY <2>1, <2>2, <2>3 DEF At, Reaches
  <1>3. CASE StartAdapter(g)
    <2>1. disp[g].pc = "none" /\ ~Holds(g, e)
      BY <1>3, RestingTask DEF StartAdapter, Tasks, Holds, Holding
    <2>2. disp'[g].pc = "idle" /\ \A h \in Gateway \ {g} : disp'[h] = disp[h]
      BY <1>3, WaitingType DEF StartAdapter
    <2>3. Reaches(g, e) => Reaches(g, e)'
      BY <1>3, <2>1, <2>2 DEF StartAdapter, Reaches, Serving, Copies, Mark, memory
    <2>4. \A h \in Gateway \ {g} : phase'[h] = phase[h]
      BY <1>3 DEF StartAdapter, TypeOK
    <2> QED
      BY <1>3, <2>1, <2>2, <2>3, <2>4, Carried DEF StartAdapter, journal, memory, history
  <1>4. CASE StartFails(g)
    <2>1. e \notin InHand(g) \union Queued(g)
      BY <1>4, RestingTask DEF StartFails, Tasks, InHand, Holding
    <2>2. ~Holds(g, e) /\ (Reaches(g, e) => e \in permits[g] \union passed[g])
      BY <2>1, NoCopies
    <2>3. Reaches(g, e) => Reaches(g, e)'
      BY <1>4, <2>2 DEF StartFails, Reaches, memory
    <2>4. \A h \in Gateway \ {g} : phase'[h] = phase[h]
      BY <1>4 DEF StartFails, TypeOK
    <2> QED
      BY <1>4, <2>2, <2>3, <2>4, Carried DEF StartFails, journal, memory
  <1> QED
    BY <1>1, <1>2, <1>3, <1>4

\* The lease, and the end of the channel.
LEMMA StopAccounted ==
    ASSUME TypeOK, Tasks, Accounted, NEW g \in Gateway,
           LoseLease(g) \/ Stop(g) \/ Release(g) \/ Crash(g)
    PROVE  Accounted'
PROOF
  <1> SUFFICES ASSUME NEW e \in Event, e \notin orphaned' PROVE At(e)'
    BY DEF Accounted
  <1>1. CASE LoseLease(g)
    <2>1. Serving(g) => Serving(g)'
      BY <1>1 DEF LoseLease, Serving
    <2>2. \A h \in Gateway \ {g} : phase'[h] = phase[h]
      BY <1>1 DEF LoseLease, TypeOK
    <2> QED
      BY <1>1, <2>1, <2>2, Unmoved, Carried DEF LoseLease, journal, memory, history
  <1>2. CASE Stop(g)
    <2>1. e \notin InHand(g) \union Queued(g)
      BY <1>2 DEF Stop
    <2>2. ~Holds(g, e) /\ (Reaches(g, e) => e \in permits[g] \union passed[g])
      BY <2>1, NoCopies
    <2>3. Reaches(g, e) => Reaches(g, e)'
      BY <1>2, <2>2 DEF Stop, Reaches, memory
    <2>4. \A h \in Gateway \ {g} : phase'[h] = phase[h] /\ disp'[h] = disp[h]
      BY <1>2 DEF Stop, TypeOK
    <2> QED
      BY <1>2, <2>2, <2>3, <2>4, Carried DEF Stop, journal, memory
  <1>3. CASE Release(g)
    <2>1. Serving(g) => Serving(g)'
      BY <1>3, RestingTask DEF Release, Serving, Tasks
    <2>2. \A h \in Gateway \ {g} : phase'[h] = phase[h]
      BY <1>3 DEF Release, TypeOK
    <2> QED
      BY <1>3, <2>1, <2>2, Unmoved, Carried DEF Release, journal, memory, history
  <1>4. CASE Crash(g)
    <2>1. e \notin InHand(g) \union Queued(g) /\ e \notin permits[g] \union passed[g]
      BY <1>4 DEF Crash
    <2>2. ~Holds(g, e) /\ ~Reaches(g, e)
      BY <2>1, NoCopies
    <2>3. \A h \in Gateway \ {g} :
            /\ disp'[h] = disp[h] /\ permits'[h] = permits[h] /\ passed'[h] = passed[h]
            /\ queue'[h] = queue[h] /\ unjournaled'[h] = unjournaled[h] /\ phase'[h] = phase[h]
      BY <1>4 DEF Crash, TypeOK
    <2>4. orphaned \subseteq orphaned' /\ UNCHANGED journal
      BY <1>4 DEF Crash
    <2> QED
      BY <2>2, <2>3, <2>4, Carried DEF journal
  <1> QED
    BY <1>1, <1>2, <1>3, <1>4

\* Acceptance leaves a journaled event with a copy, or where it was.
LEMMA EnqueueAccounted ==
    ASSUME TypeOK, Accounted, NEW g \in Gateway, NEW f \in Event, Enqueue(g, f),
           UNCHANGED <<claim, attempts, phase, passed, disp>>,
           orphaned \subseteq orphaned', Serving(g) \/ f \in orphaned'
    PROVE  Accounted'
PROOF
  <1> SUFFICES ASSUME NEW e \in Event, e \notin orphaned' PROVE At(e)'
    BY DEF Accounted
  <1>1. \A h \in Gateway \ {g} :
          /\ disp'[h] = disp[h] /\ permits'[h] = permits[h] /\ passed'[h] = passed[h]
          /\ queue'[h] = queue[h] /\ unjournaled'[h] = unjournaled[h] /\ phase'[h] = phase[h]
    BY DEF Enqueue, AcceptRow, AcceptInMemory, Put, With, Without, TypeOK
  <1>2. Serving(g)' <=> Serving(g)
    BY DEF Serving
  <1>3. queue[g] \in [Event -> Nat] /\ queue[g][e] \in Nat
    BY QueueType
  <1>4. CASE UNCHANGED <<state, queue, permits, unjournaled>>
    BY <1>1, <1>2, <1>4, Unmoved, Carried
  <1>5. CASE e # f
    <2>1. state'[e] = state[e]
      BY <1>5, EnqueueMoves
    <2>2. /\ queue'[g][e] = queue[g][e] /\ (e \in permits'[g] <=> e \in permits[g])
          /\ e \in unjournaled'[g] <=> e \in unjournaled[g]
      BY <1>5 DEF Enqueue, AcceptRow, AcceptInMemory, Put, With, Without, TypeOK
    <2>3. /\ Reaches(g, e) => Reaches(g, e)'
          /\ Holds(g, e) => Holds(g, e)'
      BY <1>2, <2>2 DEF Reaches, Copies, Mark, Holds
    <2> QED
      BY <1>1, <2>1, <2>3, Carried
  <1>6. CASE e = f /\ Put(g, e)
    <2>1. queue'[g][e] = queue[g][e] + 1
      BY <1>6 DEF Put, TypeOK
    <2>2. Copies(g, e)' = Copies(g, e) + 1 /\ Copies(g, e) \in Nat
      BY <1>3, <2>1 DEF Copies
    <2>3. Serving(g)'
      BY <1>2, <1>6
    <2>4. CASE AcceptRow(g, e) /\ UNCHANGED unjournaled
      <3>1. Mark(g, e)' = 0
        BY <1>3, <1>6, <2>1, <2>4 DEF AcceptRow, KnownInMemory, Mark
      <3>2. Reaches(g, e)'
        BY <2>2, <2>3, <3>1 DEF Reaches
      <3>3. state'[e] # "processing"
        BY <1>3, <2>1, <2>4 DEF AcceptRow, TypeOK
      <3> QED
        BY <3>2, <3>3 DEF At
    <2>5. CASE AcceptInMemory(g, e)
      <3>1. Mark(g, e) = 0 /\ Mark(g, e)' \in {0, 1}
        BY <2>5 DEF AcceptInMemory, KnownInMemory, Mark
      <3>2. Reaches(g, e) => Reaches(g, e)'
        BY <2>2, <2>3, <2>5, <3>1 DEF Reaches, AcceptInMemory
      <3>3. Holds(g, e) => Holds(g, e)'
        BY DEF Holds
      <3>4. state' = state
        BY <2>5 DEF AcceptInMemory
      <3> QED
        BY <1>1, <3>2, <3>3, <3>4, Carried
    <2> QED
      BY <1>4, <1>6, <2>4, <2>5 DEF Enqueue
  <1> QED
    BY <1>4, <1>5, <1>6 DEF Enqueue, AcceptRow, AcceptInMemory

\* A dispatcher that goes back leaves what it had in hand, and its queue if it is dead.
LEMMA ReentersAccounted ==
    ASSUME TypeOK, Tasks, NEW g \in Gateway, Reenters(g), disp[g].pc \notin {"none", "dead"},
           NEW e \in Event, e \notin orphaned', UNCHANGED memory
    PROVE  (Reaches(g, e) => Reaches(g, e)') /\ ~Holds(g, e)
PROOF
  <1>1. /\ InHand(g) \subseteq orphaned' /\ (disp'[g].pc = "dead" => Queued(g) \subseteq orphaned')
        /\ disp'[g].pc \in {"idle", "dead"}
    BY ReentersType
  <1>2. ~(disp[g].pc = "claiming" /\ disp[g].event = e) /\ ~Holds(g, e)
    BY <1>1 DEF InHand, Holds
  <1>3. CASE disp'[g].pc = "idle"
    BY <1>2, <1>3 DEF Reaches, Serving, Copies, Mark, memory
  <1>4. CASE disp'[g].pc = "dead"
    BY <1>1, <1>4, NoCopies DEF Reaches, memory
  <1> QED
    BY <1>1, <1>2, <1>3, <1>4

\* A claim takes the copy it spends, with its marker or with the row.
LEMMA ClaimAccounted ==
    ASSUME TypeOK, Tasks, Claimed, Accounted, NEW g \in Gateway, Claim(g)
    PROVE  Accounted'
PROOF
  <1> SUFFICES ASSUME NEW e \in Event, e \notin orphaned' PROVE At(e)'
    BY DEF Accounted
  <1> DEFINE c == disp[g].event
  <1>1. /\ disp[g].pc = "claiming" /\ c \in Event
        /\ UNCHANGED <<lease, phase, token, todo, queue, seen, permits, late, left>>
    BY ClaimCases DEF channel
  <1>2. Serving(g) /\ ~Holds(g, e)
    BY <1>1 DEF Serving, Holds, Holding
  <1>3. queue[g] \in [Event -> Nat] /\ queue[g][e] \in Nat
    BY QueueType
  <1>4. ASSUME disp'[g].pc \in {"idle", "claimed"}, \A h \in Gateway \ {g} : disp'[h] = disp[h],
               orphaned \subseteq orphaned', state'[e] = state[e], claim'[e] = claim[e],
               \A h \in Gateway \ {g} : passed'[h] = passed[h] /\ unjournaled'[h] = unjournaled[h],
               passed[g] \subseteq passed'[g],
               e # c => (e \in unjournaled'[g] <=> e \in unjournaled[g]),
               e = c => \/ state[e] # "accepted" \/ e \in passed'[g]
                        \/ e \in unjournaled[g] /\ e \notin unjournaled'[g]
        PROVE  At(e)'
    <2>1. Serving(g)'
      BY <1>4 DEF Serving
    <2>2. ~(disp'[g].pc = "claiming" /\ disp'[g].event = e)
      BY <1>4
    <2>3. CASE e # c
      <3>1. Copies(g, e)' = Copies(g, e) /\ Mark(g, e)' = Mark(g, e)
        BY <1>1, <1>4, <2>2, <2>3 DEF Copies, Mark
      <3>2. Reaches(g, e) => Reaches(g, e)'
        BY <1>1, <1>4, <2>1, <3>1 DEF Reaches
      <3> QED
        BY <1>1, <1>2, <1>4, <3>2, Carried
    <2>4. CASE e = c
      <3>1. Copies(g, e) = queue[g][e] + 1 /\ Copies(g, e)' = queue[g][e]
        BY <1>1, <1>3, <2>2, <2>4 DEF Copies
      <3>2. ASSUME e \in unjournaled[g], e \notin unjournaled'[g], Reaches(g, e)
            PROVE  Reaches(g, e)'
        <4>1. Mark(g, e) = 1 /\ Mark(g, e)' = 0
          BY <3>2 DEF Mark
        <4>2. Copies(g, e) > Mark(g, e) => Copies(g, e)' > Mark(g, e)'
          BY <1>3, <3>1, <4>1
        <4> QED
          BY <1>1, <1>4, <2>1, <3>2, <4>2 DEF Reaches
      <3>3. state[e] = "accepted" /\ Reaches(g, e) => Reaches(g, e)'
        BY <1>4, <2>4, <3>2 DEF Reaches
      <3> QED
        BY <1>1, <1>2, <1>4, <3>3, Carried
    <2> QED
      BY <2>3, <2>4
  <1>5. CASE /\ disp' = [disp EXCEPT ![g] = Waiting]
             /\ state[c] # "accepted" \/ c \in passed[g]
             /\ UNCHANGED <<journal, unjournaled, passed, orphaned>>
    BY <1>4, <1>5, WaitingType DEF journal
  <1>6. CASE /\ disp' = [disp EXCEPT ![g] = Waiting]
             /\ c \in unjournaled[g] /\ unjournaled' = Without(unjournaled, g, c)
             /\ UNCHANGED <<journal, passed, orphaned>>
    <2>1. /\ \A h \in Gateway \ {g} : unjournaled'[h] = unjournaled[h]
          /\ unjournaled'[g] = unjournaled[g] \ {c}
      BY <1>6 DEF Without, TypeOK
    <2> QED
      BY <1>4, <1>6, <2>1, WaitingType DEF journal
  <1>7. CASE c \in unjournaled[g] /\ PassThrough(g, c)
    <2>1. /\ \A h \in Gateway \ {g} : unjournaled'[h] = unjournaled[h] /\ passed'[h] = passed[h]
          /\ unjournaled'[g] = unjournaled[g] \ {c} /\ passed'[g] = passed[g] \union {c}
      BY <1>7 DEF PassThrough, With, Without, TypeOK
    <2>2. "claimed" \in Place
      BY DEF Place
    <2>3. disp'[g].pc = "claimed" /\ \A h \in Gateway \ {g} : disp'[h] = disp[h]
      BY <1>1, <1>7, <2>2, TakesPlace DEF PassThrough
    <2> QED
      BY <1>4, <1>7, <2>1, <2>3 DEF PassThrough, journal
  <1>8. ASSUME NEW t \in Nat, Claims(g, c, t),
               unjournaled' \in {unjournaled, Without(unjournaled, g, c)}
        PROVE  At(e)'
    <2>1. /\ disp'[g].pc = "claimed" /\ disp'[g].event = c /\ disp'[g].token = t
          /\ \A h \in Gateway \ {g} : disp'[h] = disp[h]
      BY <1>1, <1>8, ClaimsType
    <2>2. CASE e = c
      <3>1. state'[e] = "processing" /\ claim'[e] = t
        BY <1>1, <1>8, <2>2 DEF Claims, TypeOK
      <3>2. Holds(g, e)'
        BY <2>1, <2>2, <3>1 DEF Holds, Holding
      <3> QED
        BY <3>1, <3>2 DEF At
    <2>3. CASE e # c
      <3>1. state'[e] = state[e] /\ claim'[e] = claim[e] /\ UNCHANGED <<passed, orphaned>>
        BY <1>8, <2>3 DEF Claims, TypeOK
      <3>2. /\ \A h \in Gateway \ {g} : unjournaled'[h] = unjournaled[h]
            /\ e \in unjournaled'[g] <=> e \in unjournaled[g]
        BY <1>8, <2>3 DEF Without, TypeOK
      <3> QED
        BY <1>4, <2>1, <2>3, <3>1, <3>2
    <2> QED
      BY <2>2, <2>3
  <1>9. CASE Reenters(g) /\ UNCHANGED <<journal, unjournaled, passed>>
    <2>1. (Reaches(g, e) => Reaches(g, e)') /\ ~Holds(g, e)
      BY <1>1, <1>9, ReentersAccounted DEF memory
    <2> QED
      BY <1>1, <1>9, <2>1, ReentersType, Carried DEF journal
  <1>10. attempts[c] + 1 \in Nat
    BY <1>1 DEF TypeOK
  <1> QED
    BY <1>5, <1>6, <1>7, <1>8, <1>9, <1>10, ClaimCases

\* The other steps of a dispatcher.
LEMMA DispatchAccounted ==
    ASSUME TypeOK, Tasks, Claimed, Accounted, NEW g \in Gateway,
           \/ Handle(g) \/ RefuseTurn(g) \/ Escapes(g) \/ Settle(g)
           \/ \E f \in Event : Receive(g, f)
    PROVE  Accounted'
PROOF
  <1> SUFFICES ASSUME NEW e \in Event, e \notin orphaned' PROVE At(e)'
    BY DEF Accounted
  <1>1. ASSUME NEW f \in Event, Receive(g, f) PROVE At(e)'
    <2>1. "claiming" \in Place
      BY DEF Place
    <2>2. /\ disp'[g].pc = "claiming" /\ disp'[g].event = f
          /\ \A h \in Gateway \ {g} : disp'[h] = disp[h]
      BY <1>1, <2>1, TakesPlace DEF Receive
    <2>3. disp[g].pc = "idle" /\ ~Holds(g, e) /\ Serving(g)'
      BY <1>1, <2>2 DEF Receive, Holds, Holding, Serving
    <2>4. queue'[g][e] = (IF e = f THEN queue[g][e] - 1 ELSE queue[g][e]) /\ queue[g][e] \in Nat
      BY <1>1, QueueType DEF Receive, TypeOK
    <2>5. Copies(g, e)' = Copies(g, e)
      BY <2>2, <2>3, <2>4 DEF Copies
    <2>6. Reaches(g, e) => Reaches(g, e)'
      BY <1>1, <2>3, <2>5 DEF Receive, Reaches, Mark
    <2>7. \A h \in Gateway \ {g} : queue'[h] = queue[h]
      BY <1>1 DEF Receive, TypeOK
    <2> QED
      BY <1>1, <2>2, <2>3, <2>6, <2>7, Carried DEF Receive, journal, channel, history
  <1>2. CASE Handle(g) \/ RefuseTurn(g)
    <2>1. PICK p \in {"completing", "failing"} : disp' = [disp EXCEPT ![g].pc = p]
      BY <1>2 DEF Handle, RefuseTurn, Goto
    <2>2. p \in Place /\ disp[g].event \in Event /\ disp[g].token \in Nat /\ disp[g].pc \in Holding
      BY <1>2, <2>1, TaskType DEF Handle, RefuseTurn, Place, Tasks, Holding
    <2>3. disp' = [disp EXCEPT ![g] = [pc |-> p, event |-> disp[g].event, token |-> disp[g].token]]
      BY <2>1, <2>2, TaskType
    <2>4. /\ disp'[g].pc = p /\ disp'[g].event = disp[g].event /\ disp'[g].token = disp[g].token
          /\ \A h \in Gateway \ {g} : disp'[h] = disp[h]
      BY <2>2, <2>3, TakesPlace
    <2>5. UNCHANGED <<journal, phase, memory, orphaned>>
      BY <1>2 DEF Handle, RefuseTurn, channel, history
    <2>6. /\ Reaches(g, e) => Reaches(g, e)'
          /\ Holds(g, e) => Holds(g, e)'
      BY <2>2, <2>4, <2>5 DEF Reaches, Serving, Copies, Mark, Holds, Holding, journal, memory
    <2> QED
      BY <2>4, <2>5, <2>6, Carried DEF journal, memory
  <1>3. CASE Escapes(g)
    <2>1. disp[g].pc \notin {"none", "dead"}
      BY <1>3 DEF Escapes, Holding
    <2>2. (Reaches(g, e) => Reaches(g, e)') /\ ~Holds(g, e)
      BY <1>3, <2>1, ReentersAccounted DEF Escapes
    <2> QED
      BY <1>3, <2>2, ReentersType, Carried DEF Escapes, journal, channel, memory
  <1>4. CASE Settle(g)
    <2> DEFINE c == disp[g].event
               t == disp[g].token
    <2>1. c \in Event /\ t \in Nat /\ disp[g].pc \in Holding
      BY <1>4, TaskType DEF Settle, Tasks, Holding
    <2>2. UNCHANGED <<attempts, phase, memory>>
      BY <1>4 DEF Settle, channel
    <2>3. CASE Reenters(g) /\ Fail(c, t)
      <3>1. (Reaches(g, e) => Reaches(g, e)') /\ ~Holds(g, e)
        BY <2>1, <2>2, <2>3, ReentersAccounted DEF Holding
      <3>2. e # c
        BY <2>1, <2>3, ReentersType DEF InHand
      <3>3. state'[e] = state[e] /\ claim'[e] = claim[e]
        BY <2>1, <2>2, <2>3, <3>2, SettlementMoves
      <3> QED
        BY <2>2, <2>3, <3>1, <3>3, ReentersType, Carried DEF memory
    <2>4. CASE Complete(c, t) /\ disp' = [disp EXCEPT ![g] = Waiting] /\ UNCHANGED orphaned
      <3>1. disp'[g].pc = "idle" /\ \A h \in Gateway \ {g} : disp'[h] = disp[h]
        BY <2>4, WaitingType
      <3>2. Reaches(g, e) => Reaches(g, e)'
        BY <2>1, <2>2, <3>1 DEF Reaches, Serving, Copies, Mark, Holding, memory
      <3>3. /\ c # e => state'[e] = state[e] /\ claim'[e] = claim[e]
            /\ ~(t # 0 /\ claim[c] = t) => state' = state /\ claim' = claim
            /\ t # 0 /\ claim[c] = t => state'[c] = "completed"
        BY <2>1, <2>2, <2>4, SettlementMoves
      <3>4. CASE state'[e] = state[e] /\ claim'[e] = claim[e] /\ ~(c = e /\ claim[c] = t)
        <4>1. ~Holds(g, e)
          BY <3>4 DEF Holds
        <4> QED
          BY <2>2, <2>4, <3>1, <3>2, <3>4, <4>1, Carried DEF memory
      <3>5. CASE c = e /\ claim[c] = t /\ t # 0
        BY <3>3, <3>5 DEF At
      <3>6. CASE c = e /\ claim[c] = t /\ t = 0
        <4>1. state[e] # "processing" /\ state' = state /\ claim' = claim
          BY <3>3, <3>6 DEF Claimed
        <4> QED
          BY <2>2, <2>4, <3>1, <3>2, <4>1, Carried DEF memory
      <3> QED
        BY <3>3, <3>4, <3>5, <3>6
    <2> QED
      BY <1>4, <2>3, <2>4 DEF Settle
  <1> QED
    BY <1>1, <1>2, <1>3, <1>4

\* A late settlement is of an event left behind, or of a claim that is over.
LEMMA LateAccounted ==
    ASSUME TypeOK, Claimed, Tokens, Accounted, NEW j \in late, RunLate(j)
    PROVE  Accounted'
PROOF
  <1>1. CASE UNCHANGED <<state, claim>>
    BY <1>1, Still DEF RunLate, channel, history, journal
  <1>2. CASE j.op # "release" /\ (Complete(j.event, j.token) \/ Fail(j.event, j.token))
    <2>1. j.event \in Event /\ j.token \in Nat
      BY <1>2 DEF TypeOK, Job
    <2>2. UNCHANGED <<attempts, phase, memory, disp, orphaned>>
      BY DEF RunLate, channel, history
    <2>3. CASE j.token # 0 /\ claim[j.event] = j.token
      <3>1. j.event \in orphaned
        BY <1>2, <2>3 DEF Tokens
      <3>2. \A e \in Event : e # j.event => state'[e] = state[e] /\ claim'[e] = claim[e]
        BY <1>2, <2>1, <2>2, SettlementMoves
      <3> QED
        BY <2>2, <3>1, <3>2
           DEF Accounted, At, Reaches, Serving, Copies, Mark, Holds, memory
    <2>4. CASE ~(j.token # 0 /\ claim[j.event] = j.token)
      <3>1. state' = state /\ claim' = claim
        BY <1>2, <2>1, <2>2, <2>4, SettlementMoves
      <3> QED
        BY <2>2, <3>1, Still DEF journal
    <2> QED
      BY <2>3, <2>4
  <1> QED
    BY <1>1, <1>2 DEF RunLate

\* Every step keeps the account.
LEMMA AccountedStep ==
    ASSUME TypeOK, Tasks, Claimed, Tokens, Accounted, [Next]_vars PROVE Accounted'
PROOF
  <1>1. CASE UNCHANGED vars
    BY <1>1, Still DEF vars, channel, history
  <1>2. CASE Expire
    BY <1>2, Still DEF Expire, channel, history
  <1>3. ASSUME NEW g \in Gateway, Renew(g) PROVE Accounted'
    BY <1>3, Still DEF Renew, channel, history
  <1>4. ASSUME NEW g \in Gateway, NEW e \in Event, Requeue(g, e) PROVE Accounted'
    BY <1>4, EnqueueAccounted DEF Requeue, Serving, history
  <1>5. ASSUME NEW g \in Gateway, NEW e \in Event, Deliver(g, e) PROVE Accounted'
    <2>1. orphaned \subseteq orphaned' /\ (Serving(g) \/ e \in orphaned')
      BY <1>5 DEF Deliver
    <2> QED
      BY <1>5, <2>1, EnqueueAccounted DEF Deliver, channel
  <1> QED
    BY <1>1, <1>2, <1>3, <1>4, <1>5, StartAccounted, StopAccounted, ClaimAccounted,
       DispatchAccounted, LateAccounted DEF Next, StartStep, DispatchStep

\* There is nothing to account for at first.
LEMMA InitAccounted == Init => Accounted
  BY DEF Init, Accounted, At

\* No journaled event is forgotten: acceptance and the claim trade a copy, the marker, the
\* permit and the row for each other without a gap (accept_inbound, claim_inbound).
THEOREM NoneForgotten == Spec => []NothingForgotten
PROOF
  <1>1. ASSUME TypeOK, Accounted PROVE NothingForgotten
    <2> SUFFICES ASSUME NEW e \in Event \ orphaned
                 PROVE  /\ state[e] = "accepted" => OnItsWay(e)
                        /\ state[e] = "processing" => InProgress(e)
      BY DEF NothingForgotten
    <2>1. At(e)
      BY <1>1 DEF Accounted
    <2>2. ASSUME NEW g \in Gateway, Reaches(g, e) PROVE OnItsWay(e)
      <3>1. CASE e \in permits[g] \union passed[g]
        BY <3>1 DEF OnItsWay
      <3>2. CASE Serving(g) /\ Copies(g, e) > Mark(g, e)
        <4>1. queue[g][e] \in Nat
          BY <1>1, QueueType
        <4>2. queue[g][e] > 0 \/ (disp[g].pc = "claiming" /\ disp[g].event = e)
          BY <3>2, <4>1 DEF Copies, Mark
        <4> QED
          BY <3>2, <4>2 DEF OnItsWay
      <3> QED
        BY <2>2, <3>1, <3>2 DEF Reaches
    <2>3. ASSUME NEW g \in Gateway, Holds(g, e) PROVE InProgress(e)
      BY <2>3 DEF Holds, InProgress
    <2> QED
      BY <2>1, <2>2, <2>3 DEF At
  <1>2. Spec => [](TypeOK /\ Tasks /\ Claimed /\ Tokens /\ Accounted)
    BY InitType, InitClaimed, InitTokens, InitAccounted, TypeStep, ClaimedStep, TokensStep,
       AccountedStep, PTL DEF Spec
  <1> QED
    BY <1>1, <1>2, PTL

--------------------------------------------------------------------------------
(* The lease *)

Started == {"recovering", "requeueing", "running"}

\* The token of the lease only grows, and a late cleanup does not carry the token of a
\* channel that its gateway runs now.
Leases ==
    /\ \A g \in Gateway : token[g] <= lease.token
    /\ \A j \in late : j.op = "release" =>
         /\ j.token <= lease.token
         /\ phase[j.gateway] \in Started => token[j.gateway] # j.token

\* No gateway has a token at first.
LEMMA InitLeases == Init => Leases
  BY DEF Init, Leases
\* The tokens of the lease stay apart.
LEMMA LeasesStep == ASSUME TypeOK, Leases, [Next]_vars PROVE Leases'
PROOF
  <1>0. /\ lease.token \in Nat /\ \A g \in Gateway : token[g] \in Nat
        /\ \A b \in BOOLEAN : [lease EXCEPT !.valid = b].token = lease.token
        /\ [lease EXCEPT !.owner = None].token = lease.token
        /\ \A j \in late : j.gateway \in Gateway /\ j.token \in Nat
    BY LeaseType DEF TypeOK, Job
  <1>1. ASSUME lease'.token = lease.token,
               \A g \in Gateway : \/ token'[g] = token[g] /\ (phase'[g] \in Started => phase[g] \in Started)
                                  \/ token'[g] = 0 /\ phase'[g] \notin Started,
               \A j \in late' : j \in late \/ j.op # "release"
        PROVE  Leases'
    <2>1. \A g \in Gateway : token'[g] <= lease'.token
      BY <1>0, <1>1 DEF Leases
    <2>2. \A j \in late' : j.op = "release" =>
            /\ j.token <= lease'.token
            /\ phase'[j.gateway] \in Started => token'[j.gateway] # j.token
      BY <1>0, <1>1 DEF Leases
    <2> QED
      BY <2>1, <2>2 DEF Leases
  <1>2. CASE UNCHANGED vars
    BY <1>1, <1>2 DEF vars, channel
  <1>3. CASE Expire
    BY <1>0, <1>1, <1>3 DEF Expire, channel
  <1>4. ASSUME NEW g \in Gateway, Acquire(g) PROVE Leases'
    <2>1. /\ lease'.token = lease.token + 1
          /\ \A h \in Gateway \ {g} : token'[h] = token[h] /\ phase'[h] = phase[h]
      BY <1>4 DEF Acquire, Taken, TypeOK
    <2>2. CASE phase' = [phase EXCEPT ![g] = "recovering"]
               /\ token' = [token EXCEPT ![g] = lease.token + 1] /\ UNCHANGED late
      <3>1. token'[g] = lease.token + 1
        BY <2>2 DEF TypeOK
      <3>2. \A h \in Gateway : token'[h] <= lease'.token
        BY <1>0, <2>1, <3>1 DEF Leases
      <3>3. \A j \in late' : j.op = "release" =>
              /\ j.token <= lease'.token
              /\ phase'[j.gateway] \in Started => token'[j.gateway] # j.token
        BY <1>0, <2>1, <2>2, <3>1 DEF Leases
      <3> QED
        BY <3>2, <3>3 DEF Leases
    <2>3. CASE /\ late' = late \union {[op |-> "release", gateway |-> g, event |-> None,
                                        token |-> lease.token + 1]}
               /\ UNCHANGED <<phase, token>>
      <3>1. \A h \in Gateway : token'[h] <= lease'.token
        BY <1>0, <2>1, <2>3 DEF Leases
      <3>2. ASSUME NEW j \in late', j.op = "release"
            PROVE  /\ j.token <= lease'.token
                   /\ phase'[j.gateway] \in Started => token'[j.gateway] # j.token
        <4>1. CASE j \in late
          BY <1>0, <2>1, <2>3, <3>2, <4>1 DEF Leases
        <4>2. CASE j.gateway = g /\ j.token = lease.token + 1
          <5>1. phase'[g] \notin Started
            BY <1>4, <2>3 DEF Acquire, Started
          <5> QED
            BY <1>0, <2>1, <4>2, <5>1
        <4> QED
          BY <2>3, <4>1, <4>2
      <3> QED
        BY <3>1, <3>2 DEF Leases
    <2> QED
      BY <1>4, <2>2, <2>3 DEF Acquire
  <1>5. ASSUME NEW g \in Gateway, Recover(g) \/ StartAdapter(g) \/ StartFails(g)
        PROVE  Leases'
    BY <1>1, <1>5 DEF Recover, StartAdapter, StartFails, Started, TypeOK
  <1>6. ASSUME NEW g \in Gateway, Renew(g) PROVE Leases'
    BY <1>0, <1>1, <1>6 DEF Renew, channel
  <1>7. ASSUME NEW g \in Gateway, LoseLease(g) PROVE Leases'
    <2>1. /\ UNCHANGED <<lease, token>> /\ phase'[g] = "lost"
          /\ \A h \in Gateway \ {g} : phase'[h] = phase[h]
          /\ \A j \in late' : j \in late \/ (j.gateway = g /\ j.token = token[g])
      BY <1>7 DEF LoseLease, TypeOK
    <2>2. \A h \in Gateway : token'[h] <= lease'.token
      BY <2>1 DEF Leases
    <2>3. \A j \in late' : j.op = "release" =>
            /\ j.token <= lease'.token
            /\ phase'[j.gateway] \in Started => token'[j.gateway] # j.token
      BY <1>0, <2>1 DEF Leases, Started
    <2> QED
      BY <2>2, <2>3 DEF Leases
  <1>8. ASSUME NEW g \in Gateway, Stop(g) PROVE Leases'
    <2>1. \A j \in late' : j \in late \/ j.op # "release"
      BY <1>8 DEF Stop, Remains
    <2> QED
      BY <1>1, <1>8, <2>1 DEF Stop, Started, TypeOK
  <1>9. ASSUME NEW g \in Gateway, Release(g) PROVE Leases'
    <2>1. lease'.token = lease.token
      BY <1>0, <1>9, ReleasedType DEF Release
    <2> QED
      BY <1>1, <1>9, <2>1 DEF Release, Started, TypeOK
  <1>10. ASSUME NEW g \in Gateway, Crash(g) PROVE Leases'
    <2>1. lease'.token = lease.token
      BY <1>0, <1>10 DEF Crash
    <2> QED
      BY <1>1, <1>10, <2>1 DEF Crash, Started, TypeOK
  <1>11. ASSUME NEW g \in Gateway,
                \/ Claim(g) \/ Handle(g) \/ RefuseTurn(g) \/ Escapes(g) \/ Settle(g)
                \/ \E e \in Event : Requeue(g, e) \/ Deliver(g, e) \/ Receive(g, e)
         PROVE  Leases'
    BY <1>1, <1>11 DEF Claim, Handle, RefuseTurn, Escapes, Settle, Requeue, Deliver, Receive, channel
  <1>12. ASSUME NEW j \in late, RunLate(j) PROVE Leases'
    <2>1. lease'.token = lease.token
      BY <1>0, <1>12, ReleasedType DEF RunLate
    <2> QED
      BY <1>1, <1>12, <2>1 DEF RunLate, channel
  <1> QED
    BY <1>2, <1>3, <1>4, <1>5, <1>6, <1>7, <1>8, <1>9, <1>10, <1>11, <1>12
       DEF Next, StartStep, DispatchStep

\* While a gateway runs the channel under a live lease, only time takes the lease from it:
\* the cleanup of a start that was cancelled carries another token, and another gateway is
\* refused (acquire_transport_lease, release_transport_lease).
THEOREM LeaseIsKept == Spec => LeaseKept
PROOF
  <1> DEFINE Keeps == \A g \in Gateway :
               phase[g] \in Started /\ Mine(g) /\ lease.valid /\ phase'[g] = phase[g] =>
                 lease' = lease \/ Expire
  <1>1. ASSUME TypeOK, Leases, [Next]_vars, NEW g \in Gateway,
               phase[g] \in Started, Mine(g), lease.valid, phase'[g] = phase[g]
        PROVE  lease' = lease \/ Expire
    <2>1. lease.valid = TRUE /\ [lease EXCEPT !.valid = TRUE] = lease
      BY <1>1, LeaseType
    <2>2. ASSUME NEW h \in Gateway, Acquire(h) PROVE FALSE
      BY <1>1, <2>2 DEF Acquire, Mine, Started
    <2>3. ASSUME NEW h \in Gateway, Renew(h) PROVE lease' = lease
      BY <2>1, <2>3 DEF Renew
    <2>4. ASSUME NEW h \in Gateway, Release(h) PROVE lease' = lease
      BY <1>1, <2>4 DEF Release, Released, Mine, Started
    <2>5. ASSUME NEW h \in Gateway, Crash(h) PROVE lease' = lease
      <3>1. h # g
        BY <1>1, <2>5 DEF Crash, Started, TypeOK
      <3> QED
        BY <1>1, <2>5, <3>1 DEF Crash, Mine
    <2>6. ASSUME NEW j \in late, RunLate(j) PROVE lease' = lease
      <3>1. CASE j.op = "release"
        <4>1. ~(lease.owner = j.gateway /\ lease.token = j.token)
          BY <1>1, <3>1 DEF Leases, Mine
        <4> QED
          BY <2>6, <3>1, <4>1 DEF RunLate, Released
      <3>2. CASE j.op # "release"
        BY <2>6, <3>2 DEF RunLate
      <3> QED
        BY <3>1, <3>2
    <2>7. ASSUME NEW h \in Gateway,
                 \/ Recover(h) \/ StartAdapter(h) \/ StartFails(h) \/ LoseLease(h) \/ Stop(h)
                 \/ Claim(h) \/ Handle(h) \/ RefuseTurn(h) \/ Escapes(h) \/ Settle(h)
                 \/ \E e \in Event : Requeue(h, e) \/ Deliver(h, e) \/ Receive(h, e)
          PROVE  lease' = lease
      BY <2>7 DEF Recover, StartAdapter, StartFails, LoseLease, Stop, Claim, Handle, RefuseTurn,
                  Escapes, Settle, Requeue, Deliver, Receive
    <2> QED
      BY <1>1, <2>2, <2>3, <2>4, <2>5, <2>6, <2>7 DEF Next, StartStep, DispatchStep, vars
  <1>2. ASSUME TypeOK, Leases, [Next]_vars PROVE [Keeps]_vars
    BY <1>1, <1>2
  <1>3. Spec => [](TypeOK /\ Tasks /\ Leases)
    BY InitType, InitLeases, TypeStep, LeasesStep, PTL DEF Spec
  <1>4. LeaseKept <=> [][Keeps]_vars
    BY DEF LeaseKept, Started
  <1> QED
    BY <1>2, <1>3, <1>4, PTL DEF Spec

================================================================================
