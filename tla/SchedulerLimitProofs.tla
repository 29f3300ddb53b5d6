-------------------------- MODULE SchedulerLimitProofs --------------------------
(***************************************************************************)
(* The timer's limits, for any number of jobs and any max_concurrent_runs    *)
(* and max_catchup_jobs.                                                     *)
(*                                                                           *)
(* A pass of the timer counts the tasks it knows of once, when it begins,    *)
(* and then starts what it has room for, one reservation at a time.  What    *)
(* keeps it within the limit is that every run it may still find a handler   *)
(* for is one the next pass counts (Tracked), and that the jobs the pass has *)
(* still to handle count as if they ran already (Crowd).                     *)
(***************************************************************************)
EXTENDS SchedulerProofs, FiniteSetTheorems

Limit == Later(MaxConcurrent, MaxCatchup)

\* The timer's runs whose handler may still start or has not ended.
TimerHeld == {r \in Run : by[r] = Timer /\ phase[r] \in Held}

\* A pass that reserves is under way; the jobs it has still to handle.
Passing == engine \in {"catching", "ticking"}
Ahead == IF Passing THEN todo ELSE {}

\* A run is in _running from the moment it has a task, and has one before the pass ends.
Tracked ==
    \A r \in TimerHeld : /\ phase[r] = "granted" => Passing
                         /\ phase[r] # "granted" => tracked[of[r]] = r

Crowd == Cardinality(TimerHeld) + Cardinality(Ahead) <= Limit

--------------------------------------------------------------------------------

\* The sets that are counted are finite.
LEMMA Countable ==
    ASSUME TypeOK
    PROVE  /\ IsFiniteSet(TimerHeld) /\ Cardinality(TimerHeld) \in Nat
           /\ IsFiniteSet(Ahead) /\ Cardinality(Ahead) \in Nat
           /\ Limit \in Nat /\ Limit >= MaxConcurrent /\ Limit >= MaxCatchup
           /\ MaxConcurrent \in Nat /\ MaxCatchup \in Nat
PROOF
  <1>1. IsFiniteSet(Run) /\ IsFiniteSet(Job) /\ MaxConcurrent \in Nat /\ MaxCatchup \in Nat
    BY SchedulerAssumption
  <1>2. TimerHeld \in SUBSET Run /\ Ahead \in SUBSET Job
    BY DEF TimerHeld, Ahead, TypeOK
  <1>3. IsFiniteSet(TimerHeld)
    BY <1>1, <1>2, FS_Subset
  <1>4. IsFiniteSet(Ahead)
    BY <1>1, <1>2, FS_Subset
  <1>5. Cardinality(TimerHeld) \in Nat
    BY <1>3, FS_CardinalityType
  <1>6. Cardinality(Ahead) \in Nat
    BY <1>4, FS_CardinalityType
  <1> QED
    BY <1>1, <1>3, <1>4, <1>5, <1>6, LaterType DEF Limit

\* Steps that begin no run of the timer and add no job to its pass.
Quiet ==
    /\ tracked' = tracked
    /\ Ahead' \subseteq Ahead
    /\ Passing => Passing'
    /\ \A r \in TimerHeld' : /\ r \in TimerHeld /\ of'[r] = of[r]
                             /\ phase'[r] = "granted" <=> phase[r] = "granted"

\* They leave no more to count than there was.
LEMMA QuietKeeps == TypeOK /\ Tracked /\ Crowd /\ Quiet => Tracked' /\ Crowd'
PROOF
  <1> SUFFICES ASSUME TypeOK, Tracked, Crowd, Quiet PROVE Tracked' /\ Crowd'
    OBVIOUS
  <1>1. Tracked'
    BY DEF Quiet, Tracked
  <1>2. TimerHeld' \in SUBSET TimerHeld /\ Ahead' \in SUBSET Ahead
    BY DEF Quiet
  <1>3. IsFiniteSet(TimerHeld') /\ Cardinality(TimerHeld') <= Cardinality(TimerHeld)
    BY <1>2, Countable, FS_Subset
  <1>4. IsFiniteSet(Ahead') /\ Cardinality(Ahead') <= Cardinality(Ahead)
    BY <1>2, Countable, FS_Subset
  <1>5. Cardinality(TimerHeld') \in Nat
    BY <1>3, FS_CardinalityType
  <1>6. Cardinality(Ahead') \in Nat
    BY <1>4, FS_CardinalityType
  <1>7. Limit' = Limit
    BY DEF Limit
  <1>8. Cardinality(TimerHeld') + Cardinality(Ahead') <= Limit
    BY <1>3, <1>4, <1>5, <1>6, Countable DEF Crowd
  <1> QED
    BY <1>1, <1>7, <1>8 DEF Crowd

\* A reservation adds one run at most, of the timer only when the timer makes it.
LEMMA ReserveHeld ==
    ASSUME TypeOK, NEW j \in Job, NEW owner \in Owner, NEW t, NEW p \in Live,
           Reserve(j, NewToken, owner, t, p)
    PROVE  /\ NewToken \in Run /\ NewToken \notin TimerHeld
           /\ TimerHeld' \subseteq
                TimerHeld \union (IF owner = Timer THEN {NewToken} ELSE {})
           /\ phase'[NewToken] = p
           /\ \A r \in TimerHeld' : r # NewToken =>
                r \in TimerHeld /\ of'[r] = of[r] /\ phase'[r] = phase[r]
PROOF
  <1>1. PICK r \in Run : r = NewToken
    BY DEF Reserve
  <1>2. /\ phase[r] = "free" /\ phase' = [phase EXCEPT ![r] = p]
        /\ of' = [of EXCEPT ![r] = j] /\ by' = [by EXCEPT ![r] = owner]
    BY <1>1 DEF Reserve, Unused
  <1>3. r \notin TimerHeld
    BY <1>2 DEF TimerHeld, Held
  <1>4. \A q \in Run \ {r} : phase'[q] = phase[q] /\ by'[q] = by[q] /\ of'[q] = of[q]
    BY <1>2 DEF TypeOK
  <1>5. by'[r] = owner /\ phase'[r] = p
    BY <1>2 DEF TypeOK
  <1>6. \A q \in TimerHeld' : q # r => q \in TimerHeld /\ of'[q] = of[q] /\ phase'[q] = phase[q]
    BY <1>4 DEF TimerHeld
  <1>7. r \in TimerHeld' => owner = Timer
    BY <1>5 DEF TimerHeld
  <1> QED
    BY <1>1, <1>3, <1>5, <1>6, <1>7

\* Every step is quiet but those of a pass that count, reserve or launch, and the ends.
LEMMA QuietSteps ==
    ASSUME TypeOK, Safety, [Next]_vars
    PROVE  \/ Quiet
           \/ Collect \/ CollectMissed \/ TickLaunch \/ CatchupLaunch
           \/ \E j \in Job : (CatchupReserve(j) \/ TickReserve(j))
                             /\ Reserve(j, NewToken, Timer, at, "granted")
           \/ Stop \/ Restart
PROOF
  <1> USE SchedulerAssumption DEF runs, passes, history, others
  <1>1. ASSUME UNCHANGED <<tracked, engine, todo, phase, of, by>> PROVE Quiet
    BY <1>1 DEF Quiet, Ahead, Passing, TimerHeld
  <1>2. CASE Start
    BY <1>2 DEF Start, Quiet, Ahead, Passing, TimerHeld
  <1>3. CASE Tick
    BY <1>1, <1>3 DEF Tick
  <1>4. ASSUME NEW j \in Job, Recover(j) \/ FastForward(j) PROVE Quiet
    <2>1. /\ UNCHANGED <<tracked, engine, phase, of, by>> /\ todo' \subseteq todo
      BY <1>4 DEF Recover, FastForward
    <2> QED
      BY <2>1 DEF Quiet, Ahead, Passing, TimerHeld
  <1>5. CASE Started
    BY <1>5 DEF Started, Quiet, Ahead, Passing, TimerHeld
  <1>6. ASSUME NEW j \in Job, CatchupReserve(j) \/ TickReserve(j)
        PROVE  Quiet \/ Reserve(j, NewToken, Timer, at, "granted")
    <2>1. UNCHANGED <<tracked, engine>> /\ ReserveDue(j)
      BY <1>6 DEF CatchupReserve, TickReserve
    <2>2. CASE UNCHANGED <<row, runs, history>> /\ todo' = todo \ {j}
      BY <2>1, <2>2 DEF Quiet, Ahead, Passing, TimerHeld
    <2> QED
      BY <2>1, <2>2 DEF ReserveDue
  <1>7. ASSUME UNCHANGED <<tracked, engine, todo>>, NEW r \in Run,
               \A q \in Run \ {r} : phase'[q] = phase[q] /\ of'[q] = of[q] /\ by'[q] = by[q],
               \/ phase'[r] \notin Held
               \/ phase'[r] = "executing" /\ phase[r] = "created"
                    /\ of'[r] = of[r] /\ by'[r] = by[r]
               \/ by'[r] # Timer
        PROVE  Quiet
    BY <1>7 DEF Quiet, Ahead, Passing, TimerHeld, Held
  <1>8. ASSUME NEW r \in Run, RunStep(r) \/ WriteFails(r) \/ CallerLeaves(r) PROVE Quiet
    <2>1. UNCHANGED <<tracked, engine, todo>>
      BY <1>8 DEF RunStep, StartRun, HandlerEnds, Finalize, Notify, Release, WriteFails,
                  CallerLeaves
    <2>2. \A q \in Run \ {r} : phase'[q] = phase[q] /\ of'[q] = of[q] /\ by'[q] = by[q]
      BY <1>8 DEF RunStep, StartRun, HandlerEnds, Finalize, Notify, Release, WriteFails,
                  CallerLeaves, EndRun, ToFinalize, Goto, TypeOK
    <2>3. CASE StartRun(r)
      BY <1>7, <2>1, <2>2, <2>3 DEF StartRun, ToFinalize, Goto, TypeOK, Held
    <2>4. CASE HandlerEnds(r) \/ Finalize(r) \/ Notify(r) \/ Release(r) \/ WriteFails(r)
                 \/ CallerLeaves(r)
      <3>1. phase'[r] \notin Held
        BY <2>4 DEF HandlerEnds, Finalize, Notify, Release, WriteFails, CallerLeaves,
                    EndRun, ToFinalize, Goto, TypeOK, Held
      <3> QED
        BY <1>7, <2>1, <2>2, <3>1
    <2> QED
      BY <1>8, <2>3, <2>4 DEF RunStep
  <1>9. ASSUME NEW m \in Manual, RunJobNow(m) \/ ManualGivesUp(m) PROVE Quiet
    BY <1>1, <1>9 DEF RunJobNow, ManualGivesUp
  <1>10. ASSUME NEW m \in Manual, NEW j \in Job, ManualReserve(m, j) PROVE Quiet
    <2>1. PICK t \in asked[m] .. now, p \in {"executing", "releasing"} :
            Reserve(j, NewToken, m, t, p)
      BY <1>10 DEF ManualReserve
    <2>2. m # Timer /\ m \in Owner /\ p \in Live
      BY DEF Owner, Live
    <2>3. UNCHANGED <<tracked, engine, todo>>
      BY <1>10 DEF ManualReserve
    <2>4. TimerHeld' \subseteq TimerHeld
      BY <2>1, <2>2, ReserveHeld
    <2>5. \A r \in TimerHeld' : of'[r] = of[r] /\ phase'[r] = phase[r]
      BY <2>1, <2>2, <2>4, ReserveHeld
    <2> QED
      BY <2>3, <2>4, <2>5 DEF Quiet, Ahead, Passing
  <1>11. ASSUME NEW e \in Editor,
                EditWrite(e) \/ \E j \in Job :
                  AddJob(e, j) \/ DeleteJob(e, j) \/ \E c \in Command : EditRead(e, j, c)
         PROVE  Quiet
    <2>1. UNCHANGED <<tracked, engine, todo, phase, of, by>>
      BY <1>11 DEF EditWrite, AddJob, DeleteJob, EditRead
    <2> QED
      BY <1>1, <2>1
  <1>12. CASE UNCHANGED vars
    BY <1>1, <1>12 DEF vars
  <1> QED
    BY <1>2, <1>3, <1>4, <1>5, <1>6, <1>8, <1>9, <1>10, <1>11, <1>12 DEF Next, PassStep

--------------------------------------------------------------------------------
(* The steps of a pass *)

\* A reservation takes the place of a job the pass had still to handle.
LEMMA ReserveCounts ==
    ASSUME TypeOK, Tracked, Crowd, NEW j \in Job, CatchupReserve(j) \/ TickReserve(j),
           Reserve(j, NewToken, Timer, at, "granted")
    PROVE  Tracked' /\ Crowd'
PROOF
  <1> DEFINE r == NewToken
  <1>1. /\ Passing /\ Passing' /\ tracked' = tracked
        /\ j \in todo /\ todo' = todo \ {j}
    BY DEF CatchupReserve, TickReserve, ReserveDue, Passing
  <1>2. Timer \in Owner /\ "granted" \in Live
    BY DEF Owner, Live
  <1>3. /\ r \notin TimerHeld /\ TimerHeld' \subseteq TimerHeld \union {r}
        /\ phase'[r] = "granted"
        /\ \A q \in TimerHeld' : q # r =>
             q \in TimerHeld /\ of'[q] = of[q] /\ phase'[q] = phase[q]
    BY <1>2, ReserveHeld
  <1>4. Tracked'
    BY <1>1, <1>3 DEF Tracked
  <1>5. IsFiniteSet(TimerHeld \union {r})
        /\ Cardinality(TimerHeld \union {r}) = Cardinality(TimerHeld) + 1
    BY <1>3, Countable, FS_AddElement
  <1>6. IsFiniteSet(TimerHeld') /\ Cardinality(TimerHeld') <= Cardinality(TimerHeld) + 1
    BY <1>3, <1>5, FS_Subset
  <1>7. Ahead = todo /\ Ahead' = todo \ {j}
    BY <1>1 DEF Ahead
  <1>8. IsFiniteSet(Ahead') /\ Cardinality(Ahead') = Cardinality(Ahead) - 1
    BY <1>1, <1>7, Countable, FS_RemoveElement
  <1>9. Cardinality(TimerHeld') \in Nat
    BY <1>6, FS_CardinalityType
  <1>10. Cardinality(Ahead') \in Nat
    BY <1>8, FS_CardinalityType
  <1>11. Cardinality(TimerHeld') + Cardinality(Ahead') <= Limit
    BY <1>6, <1>8, <1>9, <1>10, Countable DEF Crowd
  <1> QED
    BY <1>4, <1>11 DEF Crowd, Limit

\* The launch of the tasks puts each of them into _running under its own job.
LEMMA LaunchTracks ==
    ASSUME TypeOK, Safety, Tracked, Launched
    PROVE  /\ TimerHeld' = TimerHeld
           /\ \A r \in TimerHeld : phase'[r] # "granted" /\ tracked'[of'[r]] = r
PROOF
  <1>1. /\ of' = of /\ by' = by
        /\ \A r \in Run : phase'[r] = IF r \in Granted THEN "created" ELSE phase[r]
    BY DEF Launched
  <1>2. TimerHeld' = TimerHeld
    BY <1>1 DEF TimerHeld, Granted, Held
  <1>3. ASSUME NEW r \in TimerHeld PROVE phase'[r] # "granted" /\ tracked'[of'[r]] = r
    <2>1. r \in Run /\ by[r] = Timer /\ phase[r] \in Held /\ of[r] \in Job
      BY DEF TimerHeld, Safety, Tokens, Held, IsLive, Live
    <2>2. \A q \in Granted : of[q] = of[r] => q = r
      BY <2>1 DEF Granted, Safety, Single, Held
    <2>3. phase'[r] # "granted"
      BY <1>1, <2>1 DEF Granted
    <2>4. tracked'[of[r]] = IF \E q \in Granted : of[q] = of[r]
                              THEN CHOOSE q \in Granted : of[q] = of[r] ELSE tracked[of[r]]
      BY <2>1 DEF Launched
    <2>5. CASE r \in Granted
      BY <1>1, <2>2, <2>3, <2>4, <2>5
    <2>6. CASE r \notin Granted
      <3>1. ~\E q \in Granted : of[q] = of[r]
        BY <2>2, <2>6
      <3>2. phase[r] # "granted"
        BY <2>1, <2>6 DEF Granted
      <3> QED
        BY <1>1, <2>3, <2>4, <3>1, <3>2 DEF Tracked
    <2> QED
      BY <2>5, <2>6
  <1> QED
    BY <1>2, <1>3

\* No launch makes the crowd any larger.
LEMMA LaunchCounts ==
    ASSUME TypeOK, Safety, Tracked, Crowd, CatchupLaunch \/ TickLaunch
    PROVE  Tracked' /\ Crowd'
PROOF
  <1>1. Launched /\ Ahead' \subseteq Ahead
    BY DEF CatchupLaunch, TickLaunch, Ahead, Passing
  <1>2. /\ TimerHeld' = TimerHeld
        /\ \A r \in TimerHeld : phase'[r] # "granted" /\ tracked'[of'[r]] = r
    BY <1>1, LaunchTracks
  <1>3. Tracked'
    BY <1>2 DEF Tracked
  <1>4. IsFiniteSet(Ahead') /\ Cardinality(Ahead') <= Cardinality(Ahead)
    BY <1>1, Countable, FS_Subset
  <1>5. Cardinality(Ahead') \in Nat
    BY <1>4, FS_CardinalityType
  <1>6. Cardinality(TimerHeld') + Cardinality(Ahead') <= Limit
    BY <1>2, <1>4, <1>5, Countable DEF Crowd
  <1> QED
    BY <1>3, <1>6 DEF Crowd, Limit

\* A pass takes no more jobs than it is given room for.
LEMMA FirstFits ==
    ASSUME NEW n \in Nat, NEW S \in SUBSET Job, NEW q \in First(n, S)
    PROVE  IsFiniteSet(q) /\ Cardinality(q) \in Nat /\ Cardinality(q) <= n
PROOF
  <1>1. IsFiniteSet(Job)
    BY SchedulerAssumption
  <1>2. IsFiniteSet(S)
    BY <1>1, FS_Subset
  <1>3. q \in SUBSET S
        /\ Cardinality(q) = (IF Cardinality(S) < n THEN Cardinality(S) ELSE n)
    BY DEF First
  <1>4. IsFiniteSet(q)
    BY <1>2, <1>3, FS_Subset
  <1>5. Cardinality(S) \in Nat
    BY <1>2, FS_CardinalityType
  <1> QED
    BY <1>3, <1>4, <1>5

\* When the start takes up the missed jobs, the timer has no run.
LEMMA MissedCount ==
    ASSUME TypeOK, Safety, Crowd, CollectMissed
    PROVE  Tracked' /\ Crowd'
PROOF
  <1>1. engine = "recovering" /\ UNCHANGED <<phase, of, by, tracked>>
    BY DEF CollectMissed, runs
  <1>2. Timer \notin Manual
    BY SchedulerAssumption
  <1>3. TimerHeld' = {}
    BY <1>1, <1>2 DEF Safety, EarlyRuns, TimerHeld, Held, IsLive, Live
  <1>4. Cardinality(TimerHeld') = 0
    BY <1>3, FS_EmptySet
  <1>5. PICK q \in First(MaxCatchup, {j \in Job : Due(j, at)} \ aside) : todo' = q
    BY DEF CollectMissed
  <1>6. Cardinality(q) \in Nat /\ Cardinality(q) <= MaxCatchup
    BY <1>5, Countable, FirstFits
  <1>7. Ahead' = q
    BY <1>5 DEF CollectMissed, Ahead, Passing
  <1>8. Cardinality(TimerHeld') + Cardinality(Ahead') <= Limit
    BY <1>4, <1>6, <1>7, Countable
  <1> QED
    BY <1>3, <1>8 DEF Tracked, Crowd, Limit

\* The timer leaves room for the runs that are still in _running.
LEMMA CollectCounts ==
    ASSUME TypeOK, Safety, Tracked, Crowd, Collect
    PROVE  Tracked' /\ Crowd'
PROOF
  <1> DEFINE kept == [j \in Job |-> IF tracked[j] # None /\ IsLive(tracked[j])
                                      THEN tracked[j] ELSE None]
             busy == {j \in Job : kept[j] # None}
             due == {j \in Job : Due(j, now) /\ row[j].last # now}
             taken == [r \in TimerHeld |-> of[r]]
  <1>1. engine = "idle" /\ UNCHANGED <<phase, of, by>> /\ tracked' = kept
    BY DEF Collect, runs
  <1>2. PICK q \in First(Slots(Cardinality(busy)), due) :
          IF q = {} THEN UNCHANGED <<engine, todo, at>>
                    ELSE engine' = "ticking" /\ todo' = q /\ at' = now
    BY DEF Collect
  <1>3. TimerHeld' = TimerHeld
    BY <1>1 DEF TimerHeld
  <1>4. ASSUME NEW r \in TimerHeld
        PROVE  of[r] \in Job /\ phase[r] # "granted" /\ kept[of[r]] = r /\ r # None
    <2>1. r \in Run /\ phase[r] \in Held
      BY DEF TimerHeld
    <2>2. IsLive(r) /\ of[r] \in Job
      BY <2>1 DEF Safety, Tokens, Held, IsLive, Live
    <2>3. phase[r] # "granted" /\ tracked[of[r]] = r
      BY <1>1 DEF Tracked, Passing
    <2>4. r # None
      BY <2>1, SchedulerAssumption
    <2> QED
      BY <2>2, <2>3, <2>4
  <1>5. Tracked'
    BY <1>1, <1>3, <1>4 DEF Tracked
  <1>6. taken \in Injection(TimerHeld, busy)
    <2>1. taken \in [TimerHeld -> busy]
      BY <1>4
    <2>2. \A r, s \in TimerHeld : taken[r] = taken[s] => r = s
      BY <1>4
    <2> QED
      BY <2>1, <2>2 DEF Injection, IsInjective
  <1>7. IsFiniteSet(Job) /\ busy \in SUBSET Job
    BY SchedulerAssumption
  <1>8. IsFiniteSet(busy)
    BY <1>7, FS_Subset
  <1>9. Cardinality(busy) \in Nat
    BY <1>8, FS_CardinalityType
  <1>10. Cardinality(TimerHeld) <= Cardinality(busy)
    BY <1>6, <1>8, FS_Injection
  <1>11. Slots(Cardinality(busy)) \in Nat
    BY <1>9, Countable DEF Slots
  <1>12. Cardinality(q) \in Nat /\ Cardinality(q) <= Slots(Cardinality(busy)) /\ IsFiniteSet(q)
    BY <1>2, <1>11, FirstFits
  <1>13. CASE q = {}
    BY <1>1, <1>2, <1>3, <1>5, <1>13 DEF Crowd, Limit, Ahead, Passing
  <1>14. CASE q # {}
    <2>1. Ahead' = q
      BY <1>2, <1>14 DEF Ahead, Passing
    <2>2. Cardinality(q) # 0
      BY <1>12, <1>14, FS_EmptySet
    <2>3. Cardinality(busy) + Cardinality(q) <= MaxConcurrent
      BY <1>9, <1>12, <2>2, Countable DEF Slots
    <2>4. Cardinality(TimerHeld') + Cardinality(Ahead') <= Limit
      BY <1>3, <1>9, <1>10, <1>12, <2>1, <2>3, Countable
    <2> QED
      BY <1>5, <2>4 DEF Crowd, Limit
  <1> QED
    BY <1>13, <1>14

\* With the engine or the process the timer's runs end.
LEMMA EndsCount ==
    ASSUME TypeOK, Safety, Tracked, Crowd, Stop \/ Restart
    PROVE  Tracked' /\ Crowd'
PROOF
  <1>1. TimerHeld' = {}
    <2>1. CASE Restart
      BY <2>1 DEF Restart, TimerHeld, Held
    <2>2. CASE Stop
      <3> SUFFICES ASSUME NEW r \in Run, by'[r] = Timer, phase'[r] \in Held PROVE FALSE
        BY DEF TimerHeld
      <3>1. Timer # None
        BY SchedulerAssumption
      <3>2. /\ ~(by[r] = Timer /\ phase[r] \in {"granted", "created"})
            /\ by[r] = Timer /\ phase'[r] = phase[r]
            /\ ~(IsLive(r) /\ \E j \in Job : tracked[j] = r)
        BY <2>2, <3>1 DEF Stop, Held
      <3>3. r \in TimerHeld /\ phase[r] # "granted"
        BY <3>2 DEF TimerHeld
      <3>4. IsLive(r) /\ of[r] \in Job
        BY <3>2 DEF Held, IsLive, Live, Safety, Tokens
      <3> QED
        BY <3>2, <3>3, <3>4 DEF Tracked
    <2> QED
      BY <2>1, <2>2
  <1>2. Ahead' = {}
    BY DEF Stop, Restart, Ahead, Passing
  <1>3. Cardinality(TimerHeld') = 0 /\ Cardinality(Ahead') = 0
    BY <1>1, <1>2, FS_EmptySet
  <1> QED
    BY <1>1, <1>3, Countable DEF Tracked, Crowd, Limit

\* What the timer runs and is about to run stays within the limit.
LEMMA LimitNext ==
    TypeOK /\ Decided /\ Safety /\ Tracked /\ Crowd /\ [Next]_vars => Tracked' /\ Crowd'
  BY QuietSteps, QuietKeeps, ReserveCounts, LaunchCounts, MissedCount, CollectCounts, EndsCount

--------------------------------------------------------------------------------

\* The handlers the timer has started stay within the limit of the pass that started
\* them, for any number of jobs and any limits (_tick, startup_catchup).
THEOREM NoBurst == Spec => []RunnersBounded
PROOF
  <1>1. Init => Tracked /\ Crowd
    <2> SUFFICES ASSUME Init PROVE Tracked /\ Crowd
      OBVIOUS
    <2>1. TimerHeld = {} /\ Ahead = {}
      BY DEF Init, TimerHeld, Held, Ahead, Passing
    <2>2. Cardinality(TimerHeld) = 0 /\ Cardinality(Ahead) = 0
      BY <2>1, FS_EmptySet
    <2>3. TypeOK
      BY TypeInit
    <2> QED
      BY <2>1, <2>2, <2>3, Countable DEF Tracked, Crowd
  <1>2. TypeOK /\ Decided /\ Safety /\ Tracked /\ Crowd /\ [Next]_vars => Tracked' /\ Crowd'
    BY LimitNext
  <1>3. TypeOK /\ Crowd => RunnersBounded
    <2> SUFFICES ASSUME TypeOK, Crowd PROVE RunnersBounded
      OBVIOUS
    <2> DEFINE busy == {r \in Run : by[r] = Timer /\ phase[r] = "executing"}
    <2>1. busy \in SUBSET TimerHeld
      BY DEF TimerHeld, Held
    <2>2. IsFiniteSet(busy) /\ Cardinality(busy) <= Cardinality(TimerHeld)
      BY <2>1, Countable, FS_Subset
    <2>3. Cardinality(busy) \in Nat
      BY <2>2, FS_CardinalityType
    <2>4. Cardinality(busy) <= Limit
      BY <2>2, <2>3, Countable DEF Crowd
    <2> QED
      BY <2>4 DEF RunnersBounded, Limit
  <1> QED
    BY <1>1, <1>2, <1>3, Safe, PTL DEF Spec
================================================================================
