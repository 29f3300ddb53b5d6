-------------------------- MODULE SchedulerFenceProofs --------------------------
(***************************************************************************)
(* What the conditional writes of the store protect, for any jobs, tokens,   *)
(* owners and editors: an edit is written over the configuration it was      *)
(* computed from, and a rescheduled one-shot keeps its new occurrence.       *)
(*                                                                           *)
(* Every write of a row moves updated_at or run_count forward or leaves the  *)
(* configuration alone (Onward), unless a reservation moves updated_at back; *)
(* so a copy that agrees with the row in both is configured as the row is    *)
(* (Dated).  Whatever is promised to the user (Promised) is then disturbed   *)
(* by none of the seven kinds of writes a row can receive (Writes).          *)
(***************************************************************************)
EXTENDS SchedulerProofs

\* A copy w of a row v: not newer, and the same configuration unless it is older.
Dated(v, w) ==
    /\ w.updated <= v.updated /\ w.count <= v.count
    /\ w.updated = v.updated /\ w.count = v.count => Config(v) = Config(w)

\* The jobs to be fast-forwarded.
Waiting == CASE engine = "catching" -> aside
             [] engine = "forwarding" -> todo
             [] OTHER -> {}

Copies ==
    /\ \A e \in Editor : edit[e].pc = "editing" =>
         /\ edit[e].job \in Job /\ intent[edit[e].job] # "absent"
         /\ edit[e].job \notin back => Dated(row[edit[e].job], edit[e].row)
    /\ \A j \in Waiting : intent[j] # "absent" /\ (j \notin back => Dated(row[j], seen[j]))

\* The occurrence owed is the next one, and the run in progress is of another one.
Promised(j) ==
    wanted[j] # 0 =>
        /\ j \in jobs /\ row[j].kind = "at" /\ row[j].next = wanted[j]
        /\ intent[j] = "on" => row[j].status \in {"pending", "running"}
        /\ row[j].token # None => row[j].sched \notin {0, wanted[j]}

Promises ==
    /\ \A j \in Job \ back : Promised(j)
    /\ \A j \in jobs : intent[j] = "on" => row[j].status # "paused"

--------------------------------------------------------------------------------
(* What the writes do to the columns of a row *)

LEMMA ClearedParts ==
    ASSUME NEW w \in Row
    PROVE  /\ Config(Cleared(w)) = Config(w) /\ Cleared(w).kind = w.kind /\ Cleared(w).next = w.next
           /\ Cleared(w).status = w.status /\ Cleared(w).updated = w.updated
           /\ Cleared(w).count = w.count /\ Cleared(w).token = None
  BY DEF Row, Cleared, Config

LEMMA ReleasedParts ==
    ASSUME NEW w \in Row, NEW t \in Nat
    PROVE  LET x == Released(w, t) IN
           /\ Config(x) = Config(w) /\ x.kind = w.kind /\ x.next = w.next
           /\ x.status = IF w.status = "running" THEN "pending" ELSE w.status
           /\ x.updated = Later(w.updated, t) /\ x.count = w.count /\ x.token = None
PROOF
  <1>1. Cleared(w) \in Row
    BY ClearedType
  <1>2. \A x \in Row : \A s, u : LET y == [x EXCEPT !.status = s, !.updated = u] IN
          /\ y.kind = x.kind /\ y.next = x.next /\ y.backoff = x.backoff /\ y.errs = x.errs
          /\ y.status = s /\ y.updated = u /\ y.count = x.count /\ y.token = x.token
    BY DEF Row
  <1>3. Released(w, t) = [Cleared(w) EXCEPT
          !.status = IF Cleared(w).status = "running" THEN "pending" ELSE Cleared(w).status,
          !.updated = Later(Cleared(w).updated, t)]
    BY DEF Released
  <1> QED
    BY <1>1, <1>2, <1>3, ClearedParts DEF Config

\* The result of a run says nothing of the times it is written at...
LEMMA AfterResultParts ==
    ASSUME NEW w \in Row, NEW o \in {"ok", "transient", "permanent", "missing"},
           NEW n \in Nat, now \in Nat
    PROVE  AfterResult(w, o, n).updated = w.updated /\ AfterResult(w, o, n).count = w.count
PROOF
  <1> DEFINE Same(x) == x \in Row /\ x.updated = w.updated /\ x.count = w.count
  <1>1. \A x : Same(x) =>
          /\ Same(Charged(x)) /\ Same(Stopped(x)) /\ Same(Broken(x)) /\ Same(Reset(x))
          /\ Same([x EXCEPT !.next = 0, !.backoff = 0])
          /\ \A a, b \in Nat : Same(Again(x, a, b))
    <2> SUFFICES ASSUME NEW x \in Row, x.updated = w.updated, x.count = w.count
                 PROVE  /\ Same(Charged(x)) /\ Same(Stopped(x)) /\ Same(Broken(x)) /\ Same(Reset(x))
                        /\ Same([x EXCEPT !.next = 0, !.backoff = 0])
                        /\ \A a, b \in Nat : Same(Again(x, a, b))
      OBVIOUS
    <2>1. /\ Charged(x) \in Row /\ Stopped(x) \in Row /\ Broken(x) \in Row /\ Reset(x) \in Row
          /\ [x EXCEPT !.next = 0, !.backoff = 0] \in Row
          /\ \A a, b \in Nat : Again(x, a, b) \in Row
      BY PartsType
    <2>2. /\ Charged(x).updated = x.updated /\ Charged(x).count = x.count
          /\ Stopped(x).updated = x.updated /\ Stopped(x).count = x.count
      BY DEF Row, Charged, Stopped
    <2>3. /\ Broken(x).updated = x.updated /\ Broken(x).count = x.count
          /\ Reset(x).updated = x.updated /\ Reset(x).count = x.count
      BY DEF Row, Broken, Reset
    <2>4. /\ [x EXCEPT !.next = 0, !.backoff = 0].updated = x.updated
          /\ [x EXCEPT !.next = 0, !.backoff = 0].count = x.count
      BY DEF Row
    <2>5. \A a, b \in Nat : Again(x, a, b).updated = x.updated /\ Again(x, a, b).count = x.count
      BY DEF Row, Again
    <2> QED
      BY <2>1, <2>2, <2>3, <2>4, <2>5
  <1>2. Same(w) /\ w.next \in Nat /\ now + 1 \in Nat /\ 0 \in Nat
    BY RowFields
  <1> HIDE DEF Same
  <1>3. CASE IsRescheduled(w)
    <2>1. Same(Again(Reset(w), w.next, 0))
      BY <1>1, <1>2
    <2> QED
      BY <1>3, <2>1 DEF AfterResult, Same
  <1>4. CASE ~IsRescheduled(w) /\ o = "missing"
    <2>1. Same(Broken(Charged(w)))
      BY <1>1, <1>2
    <2> QED
      BY <1>4, <2>1 DEF AfterResult, Same
  <1>5. CASE ~IsRescheduled(w) /\ o = "permanent"
    <2>1. Same([Stopped(Charged(w)) EXCEPT !.next = 0, !.backoff = 0])
      BY <1>1, <1>2
    <2> QED
      BY <1>5, <2>1 DEF AfterResult, Same
  <1>6. CASE ~IsRescheduled(w) /\ o = "ok"
    <2>1. /\ Same(Stopped(Reset(w))) /\ Same(Broken(Charged(Reset(w))))
          /\ Same(Again(Reset(w), n, 0))
      BY <1>1, <1>2
    <2>2. AfterResult(w, o, n) \in {Stopped(Reset(w)), Broken(Charged(Reset(w))),
                                    Again(Reset(w), n, 0)}
      BY <1>6 DEF AfterResult
    <2> QED
      BY <2>1, <2>2 DEF Same
  <1>7. CASE ~IsRescheduled(w) /\ o = "transient"
    <2>1. /\ Same(Stopped(Charged(w))) /\ Same(Broken(Charged(w)))
          /\ Same(Again(Charged(w), w.next, now + 1)) /\ Same(Again(Charged(w), n, now + 1))
      BY <1>1, <1>2
    <2>2. AfterResult(w, o, n) \in {Stopped(Charged(w)), Broken(Charged(w)),
            Again(Charged(w), w.next, now + 1), Again(Charged(w), n, now + 1)}
      BY <1>7 DEF AfterResult
    <2> QED
      BY <2>1, <2>2 DEF Same
  <1> QED
    BY <1>3, <1>4, <1>5, <1>6, <1>7

\* ...but its write counts the run, or leaves a job the user stopped as it is.
LEMMA FinalizedParts ==
    ASSUME NEW w \in Row, NEW o \in {"ok", "transient", "permanent", "missing"},
           NEW n \in Nat, now \in Nat
    PROVE  LET x == Finalized(w, o, n) IN
           /\ w.status \in Off => x = Cleared(w)
           /\ w.status \notin Off =>
                /\ x.count = w.count + 1 /\ x.updated = Later(w.updated, now) /\ x.token = None
                /\ x.kind = AfterResult(w, o, n).kind /\ x.next = AfterResult(w, o, n).next
                /\ x.status = AfterResult(w, o, n).status
PROOF
  <1>1. AfterResult(w, o, n) \in Row
    BY AfterResultType
  <1>2. \A v \in Row : \A a, b : LET y == [v EXCEPT !.count = a, !.updated = b] IN
          /\ y.count = a /\ y.updated = b /\ y.token = v.token
          /\ y.kind = v.kind /\ y.next = v.next /\ y.status = v.status
    BY DEF Row
  <1>3. Cleared(AfterResult(w, o, n)) \in Row
    BY <1>1, ClearedType
  <1>4. w.status \notin Off =>
          Finalized(w, o, n) = [Cleared(AfterResult(w, o, n)) EXCEPT
                  !.count = Cleared(AfterResult(w, o, n)).count + 1,
                  !.updated = Later(Cleared(AfterResult(w, o, n)).updated, now)]
    BY DEF Finalized
  <1>5. w.status \in Off => Finalized(w, o, n) = Cleared(w)
    BY DEF Finalized
  <1> DEFINE v == Cleared(AfterResult(w, o, n))
  <1>6. /\ v \in Row /\ v.count = w.count /\ v.updated = w.updated /\ v.token = None
        /\ v.kind = AfterResult(w, o, n).kind /\ v.next = AfterResult(w, o, n).next
        /\ v.status = AfterResult(w, o, n).status
    BY <1>1, <1>3, ClearedParts, AfterResultParts
  <1>7. w.status \notin Off =>
          Finalized(w, o, n) = [v EXCEPT !.count = w.count + 1, !.updated = Later(w.updated, now)]
    BY <1>4, <1>6
  <1> HIDE DEF v
  <1>8. LET y == [v EXCEPT !.count = w.count + 1, !.updated = Later(w.updated, now)] IN
          /\ y.count = w.count + 1 /\ y.updated = Later(w.updated, now) /\ y.token = v.token
          /\ y.kind = v.kind /\ y.next = v.next /\ y.status = v.status
    BY <1>2, <1>6
  <1> QED
    BY <1>5, <1>6, <1>7, <1>8

\* The result of the run of an earlier occurrence gives a rescheduled job back.
LEMMA RescheduledParts ==
    ASSUME NEW w \in Row, NEW o, NEW n, IsRescheduled(w)
    PROVE  LET x == AfterResult(w, o, n) IN
           x.kind = "at" /\ x.next = w.next /\ x.status = "pending"
PROOF
  <1>1. AfterResult(w, o, n) = Again(Reset(w), w.next, 0)
    BY DEF AfterResult
  <1>2. Reset(w) \in Row /\ Reset(w).kind = w.kind
    <2>1. Reset(w).kind = w.kind
      BY DEF Row, Reset
    <2> QED
      BY <2>1, PartsType
  <1>3. \A v \in Row : \A a, b : LET y == Again(v, a, b) IN
          y.kind = v.kind /\ y.next = a /\ y.status = "pending"
    BY DEF Row, Again
  <1> QED
    BY <1>1, <1>2, <1>3 DEF IsRescheduled

\* What each command does to the schedule and the status of a job.
LEMMA AppliedParts ==
    ASSUME NEW w \in Row, NEW c \in Command, NEW n \in Nat
    PROVE  LET u == Applied(w, c, n) IN
           /\ c.op \in {"pause", "disable"} =>
                u.status = "paused" /\ u.kind = w.kind /\ u.next = w.next
           /\ c.op \in {"resume", "enable"} =>
                /\ u.kind = w.kind /\ (w.kind = "at" => u.next = w.next)
                /\ u.status = IF c.op = "resume" \/ w.status \in {"paused", "disabled", "failed"}
                                THEN "pending" ELSE w.status
           /\ c.op = "at" => u.kind = "at" /\ u.next = c.time /\ u.status = w.status
           /\ c.op = "every" => u.status = w.status
PROOF
  <1>1. \A x \in Row :
          /\ LET y == [x EXCEPT !.status = "paused"] IN
             y.status = "paused" /\ y.kind = x.kind /\ y.next = x.next
          /\ LET y == [x EXCEPT !.status = "paused", !.enabled = FALSE] IN
             y.status = "paused" /\ y.kind = x.kind /\ y.next = x.next
          /\ LET y == [x EXCEPT !.enabled = TRUE] IN
             y.status = x.status /\ y.kind = x.kind /\ y.next = x.next
          /\ \A k, t : LET y == [x EXCEPT !.kind = k, !.next = t] IN
             y.status = x.status /\ y.kind = k /\ y.next = t
    BY DEF Row
  <1>2. Reset(w) \in Row /\ Reset(w).kind = w.kind /\ Reset(w).next = w.next
        /\ Reset(w).status = w.status
    <2>1. Reset(w).kind = w.kind /\ Reset(w).next = w.next /\ Reset(w).status = w.status
      BY DEF Row, Reset
    <2> QED
      BY <2>1, PartsType
  <1>3. /\ Revived(w, n) \in Row /\ Revived(w, n).status = "pending" /\ Revived(w, n).kind = w.kind
        /\ w.kind = "at" => Revived(w, n).next = w.next
    <2>1. \A x \in Row : \A a, b : LET y == Again(x, a, b) IN
            y.kind = x.kind /\ y.next = a /\ y.status = "pending"
      BY DEF Row, Again
    <2>2. (IF w.kind = "at" THEN w.next ELSE n) \in Nat
      BY RowFields
    <2>3. Revived(w, n) \in Row
      BY <1>2, <2>2, PartsType DEF Revived
    <2> QED
      BY <1>2, <2>1, <2>3 DEF Revived
  <1>4. CASE c.op \in {"pause", "disable"}
    BY <1>1, <1>4 DEF Applied
  <1>5. CASE c.op = "resume"
    BY <1>1, <1>3, <1>5 DEF Applied
  <1>6. CASE c.op = "enable"
    <2>1. Applied(w, c, n) =
            [(IF w.status \in {"paused", "disabled", "failed"} THEN Revived(w, n) ELSE w)
               EXCEPT !.enabled = TRUE]
      BY <1>6 DEF Applied
    <2>2. CASE w.status \in {"paused", "disabled", "failed"}
      BY <1>1, <1>3, <1>6, <2>1, <2>2
    <2>3. CASE w.status \notin {"paused", "disabled", "failed"}
      BY <1>1, <1>6, <2>1, <2>3
    <2> QED
      BY <2>2, <2>3
  <1>7. CASE c.op = "at"
    <2>1. Applied(w, c, n) = [(IF w.kind = "at" /\ w.next # c.time THEN Reset(w) ELSE w)
              EXCEPT !.kind = "at", !.next = c.time]
      BY <1>7 DEF Applied
    <2>2. CASE w.kind = "at" /\ w.next # c.time
      BY <1>1, <1>2, <1>7, <2>1, <2>2
    <2>3. CASE ~(w.kind = "at" /\ w.next # c.time)
      BY <1>1, <1>7, <2>1, <2>3
    <2> QED
      BY <2>2, <2>3
  <1>8. CASE c.op = "every"
    <2>1. Applied(w, c, n) = [w EXCEPT !.kind = "every", !.next = n]
      BY <1>8 DEF Applied
    <2> QED
      BY <1>1, <1>8, <2>1
  <1>9. c.op \in {"pause", "disable", "resume", "enable", "at", "every"}
    BY DEF Command
  <1> QED
    BY <1>4, <1>5, <1>6, <1>7, <1>8, <1>9

--------------------------------------------------------------------------------
(* The writes a row can receive *)

Unwritten(j) == intent'[j] = intent[j] /\ wanted'[j] = wanted[j] /\ (j \in jobs' <=> j \in jobs)

Untouched(j) == row'[j] = row[j] /\ Unwritten(j)

Reserved(j) ==
    /\ j \in jobs /\ j \in jobs' /\ intent'[j] = intent[j]
    /\ \E r \in Run, a \in Owner, t \in Nat :
         /\ row'[j] = [row[j] EXCEPT !.status = "running", !.token = r, !.owner = a,
                                     !.sched = row[j].next, !.last = t, !.updated = t]
         /\ t < row[j].updated => j \in back'
    /\ wanted'[j] = IF wanted[j] = row[j].next THEN 0 ELSE wanted[j]

Returned(j) == Unwritten(j) /\ \E t \in Nat : row'[j] = Released(row[j], t)

Forwarded(j) ==
    /\ Unwritten(j) /\ j \in Waiting /\ Unedited(j, seen[j]) /\ seen[j].kind = "every"
    /\ \E n \in Nat, t \in Nat : row[j].updated < t /\ row'[j] = [row[j] EXCEPT !.next = n, !.updated = t]

Finished(j) ==
    /\ j \in jobs /\ row[j].token # None /\ intent'[j] = intent[j] /\ wanted'[j] = wanted[j]
    /\ \E o \in {"ok", "transient", "permanent", "missing"} :
         \/ Consumed(j, row[j], o) /\ row'[j] = row[j]
         \/ /\ j \in jobs' /\ \E n \in Nat : row'[j] = Finalized(row[j], o, n)

Rewritten(j) ==
    \E e \in Editor : LET w == edit[e].row  c == edit[e].cmd IN
        /\ edit[e].pc = "editing" /\ edit[e].job = j /\ j \in jobs' /\ Unedited(j, w)
        /\ \E n \in Nat : row'[j] = Edited(row[j], w, Applied(w, c, n))
        /\ intent'[j] = Asked(c, intent[j]) /\ wanted'[j] = Owed(row[j], c, wanted[j])

Created(j) ==
    /\ intent[j] = "absent" /\ intent'[j] = "on" /\ wanted'[j] = wanted[j]
    /\ row'[j] = NewRow(j, now)

Deleted(j) == j \notin jobs' /\ row'[j] = row[j] /\ intent'[j] = "deleted" /\ wanted'[j] = 0

Written(j) ==
    \/ Untouched(j) \/ Reserved(j) \/ Returned(j) \/ Forwarded(j) \/ Finished(j)
    \/ Rewritten(j) \/ Created(j) \/ Deleted(j)

\* A reservation writes the row it reserves.
LEMMA ReserveWrites ==
    ASSUME TypeOK, NEW i \in jobs, NEW owner \in Owner, NEW t \in Nat, NEW p,
           Reserve(i, NewToken, owner, t, p), jobs' = jobs, NEW j \in Job
    PROVE  Written(j) /\ back \subseteq back'
PROOF
  <1>1. PICK r \in Run : r = NewToken
    BY DEF Reserve
  <1>2. /\ row' = [row EXCEPT ![i] =
                     [row[i] EXCEPT !.status = "running", !.token = r, !.owner = owner,
                                    !.sched = row[i].next, !.last = t, !.updated = t]]
        /\ wanted' = [wanted EXCEPT ![i] = IF wanted[i] = row[i].next THEN 0 ELSE wanted[i]]
        /\ back' = IF t < row[i].updated THEN back \union {i} ELSE back
        /\ intent' = intent
    BY <1>1 DEF Reserve
  <1>3. CASE j = i
    <2>1. row'[j] = [row[j] EXCEPT !.status = "running", !.token = r, !.owner = owner,
                                   !.sched = row[j].next, !.last = t, !.updated = t]
      BY <1>2, <1>3 DEF TypeOK
    <2>2. wanted'[j] = IF wanted[j] = row[j].next THEN 0 ELSE wanted[j]
      BY <1>2, <1>3 DEF TypeOK
    <2>3. t < row[j].updated => j \in back'
      BY <1>2, <1>3
    <2>4. \E q \in Run, a \in Owner, u \in Nat :
            /\ row'[j] = [row[j] EXCEPT !.status = "running", !.token = q, !.owner = a,
                                        !.sched = row[j].next, !.last = u, !.updated = u]
            /\ u < row[j].updated => j \in back'
      <3> WITNESS r \in Run, owner \in Owner, t \in Nat
      <3> QED
        BY <2>1, <2>3
    <2>5. Reserved(j)
      BY <1>2, <1>3, <2>2, <2>4 DEF Reserved
    <2> QED
      BY <1>2, <2>5 DEF Written
  <1>4. CASE j # i
    <2>1. Untouched(j)
      BY <1>2, <1>4 DEF Untouched, Unwritten, TypeOK
    <2> QED
      BY <1>2, <2>1 DEF Written
  <1> QED
    BY <1>3, <1>4

\* The steps of the start and of the timer loop write the rows so.
LEMMA PassWrites ==
    ASSUME TypeOK, Start \/ Tick \/ PassStep, NEW j \in Job
    PROVE  Written(j) /\ back \subseteq back'
PROOF
  <1> USE DEF runs, passes, history, others
  <1>1. ASSUME UNCHANGED <<jobs, row, intent, wanted, back>> PROVE Written(j) /\ back \subseteq back'
    BY <1>1 DEF Written, Untouched, Unwritten
  <1>2. CASE Start \/ Tick \/ CollectMissed \/ CatchupLaunch \/ TickLaunch \/ Started \/ Collect
    BY <1>1, <1>2 DEF Start, Tick, CollectMissed, CatchupLaunch, TickLaunch, Started, Collect
  <1>3. ASSUME NEW i \in Job, Recover(i) PROVE Written(j) /\ back \subseteq back'
    <2>1. UNCHANGED <<jobs, intent, wanted, back>> /\ at \in Nat
      BY <1>3 DEF Recover, TypeOK
    <2>2. row' = row \/ row' = [row EXCEPT ![i] = Released(row[i], at)]
      BY <1>3 DEF Recover
    <2>3. row'[j] = row[j] \/ row'[j] = Released(row[j], at)
      BY <2>2 DEF TypeOK
    <2> QED
      BY <2>1, <2>3 DEF Written, Untouched, Returned, Unwritten
  <1>4. ASSUME NEW i \in Job, CatchupReserve(i) \/ TickReserve(i)
        PROVE  Written(j) /\ back \subseteq back'
    <2>1. jobs' = jobs /\ ReserveDue(i)
      BY <1>4 DEF CatchupReserve, TickReserve
    <2>2. CASE UNCHANGED <<row, runs, history>>
      BY <1>1, <2>1, <2>2
    <2>3. CASE Reservable(i, at) /\ Reserve(i, NewToken, Timer, at, "granted")
      <3>1. i \in jobs /\ Timer \in Owner /\ at \in Nat
        BY <2>3 DEF Reservable, Owner, TypeOK
      <3> QED
        BY <2>1, <2>3, <3>1, ReserveWrites
    <2> QED
      BY <2>1, <2>2, <2>3 DEF ReserveDue
  <1>5. ASSUME NEW i \in Job, FastForward(i) PROVE Written(j) /\ back \subseteq back'
    <2>1. UNCHANGED <<jobs, intent, wanted, back>> /\ i \in Waiting
      BY <1>5 DEF FastForward, Waiting
    <2>2. CASE row' = row
      BY <1>1, <2>1, <2>2
    <2>3. ASSUME NEW n \in NextRuns(i, at), seen[i].kind = "every", Unedited(i, seen[i]),
                 row' = [row EXCEPT ![i] =
                           [row[i] EXCEPT !.next = n, !.updated = Later(at, seen[i].updated + 1)]]
          PROVE  Written(j) /\ back \subseteq back'
      <3>1. seen[i].updated \in Nat /\ at \in Nat /\ row[i].updated = seen[i].updated
        BY <2>3, RowFields DEF TypeOK, Unedited
      <3>2. seen[i].updated + 1 \in Nat /\ seen[i].updated < seen[i].updated + 1
        BY <3>1
      <3>3. /\ Later(at, seen[i].updated + 1) \in Nat
            /\ Later(at, seen[i].updated + 1) >= seen[i].updated + 1
        BY <3>1, <3>2, LaterType
      <3>4. row[i].updated < Later(at, seen[i].updated + 1)
        BY <3>1, <3>2, <3>3
      <3>5. n \in Nat
        BY <3>1 DEF NextRuns
      <3>6. CASE j = i
        <4>1. row'[j] = [row[j] EXCEPT !.next = n, !.updated = Later(at, seen[i].updated + 1)]
          BY <2>3, <3>6 DEF TypeOK
        <4>2. Forwarded(j)
          BY <2>1, <2>3, <3>3, <3>4, <3>5, <3>6, <4>1 DEF Forwarded, Unwritten
        <4> QED
          BY <2>1, <4>2 DEF Written
      <3>7. CASE j # i
        BY <2>1, <2>3, <3>7 DEF Written, Untouched, Unwritten, TypeOK
      <3> QED
        BY <3>6, <3>7
    <2> QED
      BY <1>5, <2>2, <2>3 DEF FastForward
  <1> QED
    BY <1>2, <1>3, <1>4, <1>5 DEF PassStep

\* So do the steps of the runs: what a finalizer writes is computed from the row itself.
LEMMA RunWrites ==
    ASSUME TypeOK, Decided, Snapshots, NEW r \in Run, RunStep(r) \/ WriteFails(r) \/ CallerLeaves(r),
           NEW j \in Job
    PROVE  Written(j) /\ back \subseteq back'
PROOF
  <1> USE DEF runs, passes, history, others
  <1>1. UNCHANGED <<intent, wanted, back>>
    BY DEF RunStep, StartRun, HandlerEnds, Finalize, Notify, Release, WriteFails, CallerLeaves
  <1>2. CASE ~Finalize(r)
    <2>1. jobs' = jobs /\ now \in Nat
      BY <1>2 DEF RunStep, StartRun, HandlerEnds, Notify, Release, WriteFails, CallerLeaves, TypeOK
    <2>2. row'[j] = row[j] \/ row'[j] = Released(row[j], now)
      BY <1>2 DEF RunStep, StartRun, HandlerEnds, Notify, Release, WriteFails, CallerLeaves, TypeOK
    <2> QED
      BY <1>1, <2>1, <2>2 DEF Written, Untouched, Returned, Unwritten
  <1>3. CASE Finalize(r)
    <2>1. CASE UNCHANGED <<jobs, row>>
      BY <1>1, <2>1 DEF Written, Untouched, Unwritten
    <2>2. ASSUME StillRead(r),
                 \/ Consumed(of[r], read[r], outcome[r]) /\ jobs' = jobs \ {of[r]} /\ row' = row
                 \/ /\ jobs' = jobs
                    /\ \E n \in NextRuns(of[r], now) :
                         row' = [row EXCEPT ![of[r]] = Finalized(read[r], outcome[r], n)]
          PROVE  Written(j)
      <3>1. /\ of[r] \in Job /\ of[r] \in jobs /\ Holds(r) /\ phase[r] = "writing"
            /\ row[of[r]] \in Row /\ row[of[r]].token = r /\ r # None
        BY <1>3, <2>2, SchedulerAssumption DEF Finalize, StillRead, Holds, TypeOK
      <3>2. read[r] = row[of[r]]
        <4>1. row[of[r]].updated = read[r].updated /\ row[of[r]].updated \in Nat
          BY <2>2, <3>1, RowFields DEF StillRead
        <4> QED
          BY <3>1, <4>1 DEF Snapshots
      <3>3. outcome[r] \in {"ok", "transient", "permanent", "missing"}
        BY <3>1 DEF Decided, TypeOK
      <3>4. CASE j # of[r]
        <4>1. row'[j] = row[j] /\ (j \in jobs' <=> j \in jobs)
          BY <2>2, <3>4 DEF TypeOK
        <4> QED
          BY <1>1, <4>1 DEF Written, Untouched, Unwritten
      <3>5. CASE j = of[r]
        <4>1. CASE Consumed(of[r], read[r], outcome[r]) /\ row' = row
          <5>1. Consumed(j, row[j], outcome[r]) /\ row'[j] = row[j]
            BY <3>2, <3>5, <4>1
          <5> QED
            BY <1>1, <3>1, <3>3, <3>5, <5>1 DEF Written, Finished
        <4>2. ASSUME jobs' = jobs, NEW n \in NextRuns(of[r], now),
                     row' = [row EXCEPT ![of[r]] = Finalized(read[r], outcome[r], n)]
              PROVE  Written(j)
          <5>1. n \in Nat
            BY DEF NextRuns, TypeOK
          <5>2. row'[j] = Finalized(row[j], outcome[r], n) /\ j \in jobs'
            BY <3>1, <3>2, <3>5, <4>2 DEF TypeOK
          <5> QED
            BY <1>1, <3>1, <3>3, <3>5, <5>1, <5>2 DEF Written, Finished
        <4> QED
          BY <2>2, <4>1, <4>2
      <3> QED
        BY <3>4, <3>5
    <2>3. Written(j)
      BY <1>3, <2>1, <2>2 DEF Finalize
    <2> QED
      BY <1>1, <2>3
  <1> QED
    BY <1>2, <1>3

\* And the calls, the edits and the ends.
LEMMA RestWrites ==
    ASSUME TypeOK, NEW j \in Job,
           \/ Stop \/ Restart \/ UNCHANGED vars
           \/ \E m \in Manual : RunJobNow(m) \/ ManualGivesUp(m) \/ \E i \in Job : ManualReserve(m, i)
           \/ \E e \in Editor : EditWrite(e) \/ \E i \in Job :
                AddJob(e, i) \/ DeleteJob(e, i) \/ \E c \in Command : EditRead(e, i, c)
    PROVE  Written(j) /\ back \subseteq back'
PROOF
  <1> USE DEF runs, passes, history, others
  <1>1. ASSUME UNCHANGED <<jobs, row, intent, wanted, back>> PROVE Written(j) /\ back \subseteq back'
    BY <1>1 DEF Written, Untouched, Unwritten
  <1>2. CASE Stop \/ Restart \/ UNCHANGED vars
    BY <1>1, <1>2 DEF Stop, Restart, vars
  <1>3. ASSUME NEW m \in Manual, RunJobNow(m) \/ ManualGivesUp(m)
        PROVE  Written(j) /\ back \subseteq back'
    BY <1>1, <1>3 DEF RunJobNow, ManualGivesUp
  <1>4. ASSUME NEW m \in Manual, NEW i \in Job, ManualReserve(m, i)
        PROVE  Written(j) /\ back \subseteq back'
    <2>1. PICK t \in asked[m] .. now, p \in {"executing", "releasing"} :
            Reserve(i, NewToken, m, t, p)
      BY <1>4 DEF ManualReserve
    <2>2. i \in jobs /\ m \in Owner /\ t \in Nat /\ jobs' = jobs
      BY <1>4 DEF ManualReserve, Reservable, Owner, TypeOK
    <2> QED
      BY <2>1, <2>2, ReserveWrites
  <1>5. ASSUME NEW e \in Editor, NEW i \in Job, NEW c \in Command, EditRead(e, i, c)
        PROVE  Written(j) /\ back \subseteq back'
    BY <1>1, <1>5 DEF EditRead
  <1>6. ASSUME NEW e \in Editor, NEW i \in Job, AddJob(e, i)
        PROVE  Written(j) /\ back \subseteq back'
    <2>1. /\ jobs' = jobs \union {i} /\ row' = [row EXCEPT ![i] = NewRow(i, now)]
          /\ intent' = [intent EXCEPT ![i] = "on"] /\ UNCHANGED <<wanted, back>>
          /\ intent[i] = "absent"
      BY <1>6 DEF AddJob
    <2>2. CASE j = i
      BY <2>1, <2>2 DEF Written, Created, TypeOK
    <2>3. CASE j # i
      BY <2>1, <2>3 DEF Written, Untouched, Unwritten, TypeOK
    <2> QED
      BY <2>1, <2>2, <2>3
  <1>7. ASSUME NEW e \in Editor, NEW i \in Job, DeleteJob(e, i)
        PROVE  Written(j) /\ back \subseteq back'
    <2>1. /\ jobs' = jobs \ {i} /\ row' = row /\ back' = back
          /\ intent' = [intent EXCEPT ![i] = "deleted"] /\ wanted' = [wanted EXCEPT ![i] = 0]
      BY <1>7 DEF DeleteJob
    <2>2. CASE j = i
      BY <2>1, <2>2 DEF Written, Deleted, TypeOK
    <2>3. CASE j # i
      BY <2>1, <2>3 DEF Written, Untouched, Unwritten, TypeOK
    <2> QED
      BY <2>1, <2>2, <2>3
  <1>8. ASSUME NEW e \in Editor, EditWrite(e) PROVE Written(j) /\ back \subseteq back'
    <2>1. jobs' = jobs /\ back' = back
      BY <1>8 DEF EditWrite
    <2>2. CASE UNCHANGED <<row, intent, wanted>>
      BY <1>1, <2>1, <2>2
    <2>3. ASSUME NEW n \in NextRuns(edit[e].job, now), Unedited(edit[e].job, edit[e].row),
                 row' = [row EXCEPT ![edit[e].job] =
                           Edited(@, edit[e].row, Applied(edit[e].row, edit[e].cmd, n))],
                 intent' = [intent EXCEPT ![edit[e].job] = Asked(edit[e].cmd, @)],
                 wanted' = [wanted EXCEPT ![edit[e].job] = Owed(row[edit[e].job], edit[e].cmd, @)]
          PROVE  Written(j)
      <3> DEFINE i == edit[e].job
      <3>1. i \in jobs /\ i \in Job /\ n \in Nat
        BY <2>3 DEF Unedited, NextRuns, TypeOK
      <3>2. CASE j # i
        <4>1. Untouched(j)
          BY <2>1, <2>3, <3>2 DEF Untouched, Unwritten, TypeOK
        <4> QED
          BY <4>1 DEF Written
      <3>3. CASE j = i
        <4>1. row'[j] = Edited(row[j], edit[e].row, Applied(edit[e].row, edit[e].cmd, n))
          BY <2>3, <3>1, <3>3 DEF TypeOK
        <4>2. /\ intent'[j] = Asked(edit[e].cmd, intent[j])
              /\ wanted'[j] = Owed(row[j], edit[e].cmd, wanted[j])
          BY <2>3, <3>1, <3>3 DEF TypeOK
        <4>3. edit[e].pc = "editing" /\ j \in jobs'
          BY <1>8, <2>1, <3>1, <3>3 DEF EditWrite
        <4>4. Rewritten(j)
          BY <2>3, <3>1, <3>3, <4>1, <4>2, <4>3 DEF Rewritten
        <4> QED
          BY <4>4 DEF Written
      <3> QED
        BY <3>2, <3>3
    <2> QED
      BY <1>8, <2>1, <2>2, <2>3 DEF EditWrite
  <1> QED
    BY <1>2, <1>3, <1>4, <1>5, <1>6, <1>7, <1>8

\* There are no other writes, and no job is forgotten that was moved back.
LEMMA Writes ==
    ASSUME TypeOK, Decided, Snapshots, [Next]_vars, NEW j \in Job
    PROVE  Written(j) /\ back \subseteq back'
  BY PassWrites, RunWrites, RestWrites DEF Next

--------------------------------------------------------------------------------
(* The fence *)

\* A write goes forward in updated_at or run_count unless it leaves the configuration.
Onward(j) ==
    /\ row[j].updated <= row'[j].updated /\ row[j].count <= row'[j].count
    /\ \/ Config(row'[j]) = Config(row[j])
       \/ row[j].updated < row'[j].updated
       \/ row[j].count < row'[j].count

\* The reservations that move updated_at back and the new jobs are the only exceptions.
LEMMA GoOnward ==
    ASSUME TypeOK, Decided, Snapshots, [Next]_vars, NEW j \in Job, j \notin back',
           intent[j] # "absent"
    PROVE  Onward(j)
PROOF
  <1>1. row[j] \in Row /\ row[j].updated \in Nat /\ row[j].count \in Nat /\ now \in Nat
    BY RowFields DEF TypeOK
  <1>2. CASE row'[j] = row[j]
    BY <1>1, <1>2 DEF Onward
  <1>3. CASE Reserved(j)
    <2>1. PICK r \in Run, a \in Owner, t \in Nat :
            /\ row'[j] = [row[j] EXCEPT !.status = "running", !.token = r, !.owner = a,
                                        !.sched = row[j].next, !.last = t, !.updated = t]
            /\ t < row[j].updated => j \in back'
      BY <1>3 DEF Reserved
    <2>2. row'[j].updated = t
      BY <1>1, <2>1 DEF Row
    <2>3. row'[j].count = row[j].count
      BY <1>1, <2>1 DEF Row
    <2>4. /\ row'[j].kind = row[j].kind /\ row'[j].next = row[j].next
          /\ row'[j].backoff = row[j].backoff /\ row'[j].errs = row[j].errs
      BY <1>1, <2>1 DEF Row
    <2> QED
      BY <1>1, <2>1, <2>2, <2>3, <2>4 DEF Onward, Config
  <1>4. CASE Returned(j)
    <2>1. PICK t \in Nat : row'[j] = Released(row[j], t)
      BY <1>4 DEF Returned
    <2>2. /\ row'[j].updated = Later(row[j].updated, t) /\ row'[j].count = row[j].count
          /\ Config(row'[j]) = Config(row[j])
      BY <1>1, <2>1, ReleasedParts
    <2>3. Later(row[j].updated, t) \in Nat /\ row[j].updated <= Later(row[j].updated, t)
      BY <1>1, LaterType
    <2> QED
      BY <1>1, <2>2, <2>3 DEF Onward
  <1>5. CASE Forwarded(j)
    <2>1. PICK n \in Nat, t \in Nat :
            row[j].updated < t /\ row'[j] = [row[j] EXCEPT !.next = n, !.updated = t]
      BY <1>5 DEF Forwarded
    <2>2. \A w \in Row : \A a, b : LET y == [w EXCEPT !.next = a, !.updated = b] IN
            y.updated = b /\ y.count = w.count
      BY DEF Row
    <2>3. row'[j].updated = t /\ row'[j].count = row[j].count
      BY <1>1, <2>1, <2>2
    <2> QED
      BY <1>1, <2>1, <2>3 DEF Onward
  <1>6. CASE Finished(j)
    <2>1. PICK o \in {"ok", "transient", "permanent", "missing"} :
            row'[j] = row[j] \/ \E n \in Nat : row'[j] = Finalized(row[j], o, n)
      BY <1>6 DEF Finished
    <2>2. ASSUME NEW n \in Nat, row'[j] = Finalized(row[j], o, n) PROVE Onward(j)
      <3>1. CASE row[j].status \in Off
        <4>1. row'[j] = Cleared(row[j])
          BY <1>1, <2>2, <3>1, FinalizedParts
        <4> QED
          BY <1>1, <4>1, ClearedParts DEF Onward
      <3>2. CASE row[j].status \notin Off
        <4>1. row'[j].count = row[j].count + 1 /\ row'[j].updated = Later(row[j].updated, now)
          BY <1>1, <2>2, <3>2, FinalizedParts
        <4>2. Later(row[j].updated, now) \in Nat /\ row[j].updated <= Later(row[j].updated, now)
          BY <1>1, LaterType
        <4> QED
          BY <1>1, <4>1, <4>2 DEF Onward
      <3> QED
        BY <3>1, <3>2
    <2> QED
      BY <1>2, <2>1, <2>2
  <1>7. CASE Rewritten(j)
    <2>1. PICK e \in Editor : /\ Unedited(j, edit[e].row)
                              /\ \E n \in Nat : row'[j] =
                                   Edited(row[j], edit[e].row, Applied(edit[e].row, edit[e].cmd, n))
      BY <1>7 DEF Rewritten
    <2>2. PICK n \in Nat :
            row'[j] = Edited(row[j], edit[e].row, Applied(edit[e].row, edit[e].cmd, n))
      BY <2>1
    <2>3. edit[e].row \in Row /\ edit[e].cmd \in Command
      BY DEF TypeOK
    <2>4. Applied(edit[e].row, edit[e].cmd, n) \in Row
      BY <2>3, AppliedType
    <2>5. row'[j] \in Row /\ edit[e].row.updated < row'[j].updated /\ row'[j].count = row[j].count
      BY <1>1, <2>2, <2>3, <2>4, EditedParts
    <2>6. row[j].updated = edit[e].row.updated
      BY <2>1 DEF Unedited
    <2> QED
      BY <1>1, <2>5, <2>6, RowFields DEF Onward
  <1> QED
    BY <1>2, <1>3, <1>4, <1>5, <1>6, <1>7, Writes DEF Written, Untouched, Created, Deleted

\* A copy stays as old as it is.
LEMMA DatedOn ==
    ASSUME TypeOK, TypeOK', NEW j \in Job, NEW w \in Row, Dated(row[j], w), Onward(j)
    PROVE  Dated(row'[j], w)
PROOF
  <1>1. /\ row[j].updated \in Nat /\ row[j].count \in Nat
        /\ row'[j].updated \in Nat /\ row'[j].count \in Nat
        /\ w.updated \in Nat /\ w.count \in Nat
    BY RowFields DEF TypeOK
  <1> QED
    BY <1>1 DEF Dated, Onward

\* An editor keeps its copy, or takes the row of a job that is there.
LEMMA EditorSteps ==
    ASSUME TypeOK, [Next]_vars, NEW e \in Editor, edit'[e].pc = "editing"
    PROVE  \/ edit'[e] = edit[e]
           \/ /\ edit'[e].job \in jobs /\ edit'[e].row = row[edit'[e].job]
              /\ row' = row /\ intent' = intent
PROOF
  <1> USE DEF runs, passes, history, others
  <1>1. ASSUME UNCHANGED edit PROVE edit'[e] = edit[e]
    BY <1>1
  <1>2. CASE Start \/ Tick \/ Stop \/ UNCHANGED vars
    BY <1>1, <1>2 DEF Start, Tick, Stop, vars
  <1>3. CASE PassStep
    BY <1>1, <1>3 DEF PassStep, Collect, TickLaunch, CollectMissed, CatchupLaunch, Started, Recover,
         CatchupReserve, FastForward, TickReserve
  <1>4. ASSUME NEW r \in Run, RunStep(r) \/ WriteFails(r) \/ CallerLeaves(r) PROVE edit'[e] = edit[e]
    BY <1>1, <1>4 DEF RunStep, StartRun, HandlerEnds, Finalize, Notify, Release, WriteFails,
         CallerLeaves
  <1>5. ASSUME NEW m \in Manual,
               RunJobNow(m) \/ ManualGivesUp(m) \/ \E j \in Job : ManualReserve(m, j)
        PROVE  edit'[e] = edit[e]
    BY <1>1, <1>5 DEF RunJobNow, ManualGivesUp, ManualReserve
  <1>6. CASE Restart
    BY <1>6 DEF Restart, Idle, NoEdit
  <1>7. ASSUME NEW d \in Editor, NEW j \in Job, AddJob(d, j) \/ DeleteJob(d, j)
        PROVE  edit'[e] = edit[e]
    <2>1. edit' = [edit EXCEPT ![d] = NoEdit] /\ NoEdit.pc = "done"
      BY <1>7 DEF AddJob, DeleteJob, NoEdit, Idle
    <2> QED
      BY <2>1 DEF TypeOK
  <1>8. ASSUME NEW d \in Editor, NEW j \in Job, NEW c \in Command, EditRead(d, j, c)
        PROVE  \/ edit'[e] = edit[e]
               \/ /\ edit'[e].job \in jobs /\ edit'[e].row = row[edit'[e].job]
                  /\ row' = row /\ intent' = intent
    BY <1>8 DEF EditRead, TypeOK
  <1>9. ASSUME NEW d \in Editor, EditWrite(d)
        PROVE  \/ edit'[e] = edit[e]
               \/ /\ edit'[e].job \in jobs /\ edit'[e].row = row[edit'[e].job]
                  /\ row' = row /\ intent' = intent
    <2>1. CASE edit' = [edit EXCEPT ![d] = NoEdit]
      BY <2>1 DEF NoEdit, TypeOK
    <2>2. CASE /\ edit[d].job \in jobs /\ edit' = [edit EXCEPT ![d].row = row[edit[d].job]]
               /\ row' = row /\ intent' = intent
      <3>1. CASE d = e
        <4>1. edit'[e].job = edit[e].job /\ edit'[e].row = row[edit[e].job]
          BY <2>2, <3>1 DEF TypeOK
        <4> QED
          BY <2>2, <3>1, <4>1
      <3> QED
        BY <2>2, <3>1 DEF TypeOK
    <2> QED
      BY <1>9, <2>1, <2>2 DEF EditWrite
  <1> QED
    BY <1>2, <1>3, <1>4, <1>5, <1>6, <1>7, <1>8, <1>9 DEF Next

\* A job waits on with the copy it had, or starts to wait with the row of a job that is there.
LEMMA WaitingSteps ==
    ASSUME TypeOK, [Next]_vars, NEW j \in Job, j \in Waiting'
    PROVE  \/ j \in Waiting /\ seen'[j] = seen[j]
           \/ j \in jobs /\ seen'[j] = row[j] /\ row' = row /\ intent' = intent
PROOF
  <1> USE DEF runs, passes, history, others
  <1>1. ASSUME UNCHANGED passes PROVE j \in Waiting /\ seen'[j] = seen[j]
    BY <1>1 DEF Waiting
  <1>2. CASE Tick \/ UNCHANGED vars
    BY <1>1, <1>2 DEF Tick, vars
  <1>3. CASE Start \/ Stop \/ Restart \/ Started \/ Collect \/ TickLaunch \/ \E i \in Job : Recover(i) \/ TickReserve(i)
    BY <1>3 DEF Start, Stop, Restart, Started, Collect, TickLaunch, Recover, TickReserve, Waiting
  <1>4. CASE CollectMissed
    <2>1. j \in aside' /\ row' = row /\ intent' = intent
      BY <1>4 DEF CollectMissed, Waiting
    <2>2. j \in jobs /\ seen'[j] = row[j]
      BY <1>4, <2>1 DEF CollectMissed, Due
    <2> QED
      BY <2>1, <2>2
  <1>5. CASE CatchupLaunch
    BY <1>5 DEF CatchupLaunch, Waiting
  <1>6. ASSUME NEW i \in Job, CatchupReserve(i) PROVE j \in Waiting /\ seen'[j] = seen[j]
    BY <1>6 DEF CatchupReserve, Waiting
  <1>7. ASSUME NEW i \in Job, FastForward(i) PROVE j \in Waiting /\ seen'[j] = seen[j]
    BY <1>7 DEF FastForward, Waiting, TypeOK
  <1>8. ASSUME NEW r \in Run, RunStep(r) \/ WriteFails(r) \/ CallerLeaves(r)
        PROVE  j \in Waiting /\ seen'[j] = seen[j]
    BY <1>1, <1>8 DEF RunStep, StartRun, HandlerEnds, Finalize, Notify, Release, WriteFails,
         CallerLeaves
  <1>9. ASSUME NEW m \in Manual,
               RunJobNow(m) \/ ManualGivesUp(m) \/ \E i \in Job : ManualReserve(m, i)
        PROVE  j \in Waiting /\ seen'[j] = seen[j]
    BY <1>1, <1>9 DEF RunJobNow, ManualGivesUp, ManualReserve
  <1>10. ASSUME NEW e \in Editor, EditWrite(e) \/ \E i \in Job :
                 AddJob(e, i) \/ DeleteJob(e, i) \/ \E c \in Command : EditRead(e, i, c)
         PROVE  j \in Waiting /\ seen'[j] = seen[j]
    BY <1>1, <1>10 DEF EditWrite, AddJob, DeleteJob, EditRead
  <1> QED
    BY <1>2, <1>3, <1>4, <1>5, <1>6, <1>7, <1>8, <1>9, <1>10 DEF Next, PassStep

\* A job that was once added is not added again.
LEMMA OnceAdded ==
    ASSUME TypeOK, Decided, Snapshots, [Next]_vars, NEW j \in Job, intent[j] # "absent"
    PROVE  intent'[j] # "absent"
PROOF
  <1>1. CASE Rewritten(j)
    BY <1>1 DEF Rewritten, Asked
  <1> QED
    BY <1>1, Writes DEF Written, Untouched, Unwritten, Reserved, Returned, Forwarded, Finished,
       Created, Deleted

\* So the copies the edits and the fast-forward are computed from grow old knowingly.
LEMMA CopiesNext ==
    TypeOK /\ TypeOK' /\ Decided /\ Safety /\ Snapshots /\ Copies /\ [Next]_vars => Copies'
PROOF
  <1> SUFFICES ASSUME TypeOK, TypeOK', Decided, Safety, Snapshots, Copies, [Next]_vars
               PROVE  Copies'
    OBVIOUS
  <1>1. ASSUME NEW j \in Job, NEW w \in Row, intent[j] # "absent", j \notin back => Dated(row[j], w)
        PROVE  intent'[j] # "absent" /\ (j \notin back' => Dated(row'[j], w))
    <2>1. intent'[j] # "absent" /\ back \subseteq back'
      BY <1>1, OnceAdded, Writes
    <2>2. ASSUME j \notin back' PROVE Dated(row'[j], w)
      <3>1. Onward(j)
        BY <1>1, <2>2, GoOnward
      <3> QED
        BY <1>1, <2>1, <2>2, <3>1, DatedOn
    <2> QED
      BY <2>1, <2>2
  <1>2. ASSUME NEW j \in jobs, row' = row, intent' = intent
        PROVE  intent'[j] # "absent" /\ Dated(row'[j], row[j])
    <2>1. j \in Job /\ row[j].updated \in Nat /\ row[j].count \in Nat
      BY RowFields DEF TypeOK
    <2> QED
      BY <1>2, <2>1 DEF Safety, Tokens, Dated
  <1>3. ASSUME NEW e \in Editor, edit'[e].pc = "editing"
        PROVE  /\ edit'[e].job \in Job /\ intent'[edit'[e].job] # "absent"
               /\ edit'[e].job \notin back' => Dated(row'[edit'[e].job], edit'[e].row)
    <2>1. CASE edit'[e] = edit[e]
      <3> DEFINE j == edit[e].job
                 w == edit[e].row
      <3>1. j \in Job /\ w \in Row /\ intent[j] # "absent" /\ (j \notin back => Dated(row[j], w))
        BY <1>3, <2>1 DEF Copies, TypeOK
      <3> HIDE DEF j, w
      <3>2. intent'[j] # "absent" /\ (j \notin back' => Dated(row'[j], w))
        BY <1>1, <3>1
      <3>3. edit'[e].job = j /\ edit'[e].row = w
        BY <2>1 DEF j, w
      <3> QED
        BY <3>1, <3>2, <3>3
    <2>2. CASE /\ edit'[e].job \in jobs /\ edit'[e].row = row[edit'[e].job]
               /\ row' = row /\ intent' = intent
      <3>1. PICK j \in jobs : j = edit'[e].job
        BY <2>2
      <3>2. intent'[j] # "absent" /\ Dated(row'[j], row[j]) /\ j \in Job
        BY <1>2, <2>2 DEF TypeOK
      <3> QED
        BY <2>2, <3>1, <3>2
    <2> QED
      BY <1>3, <2>1, <2>2, EditorSteps
  <1>4. ASSUME NEW j \in Job, j \in Waiting'
        PROVE  intent'[j] # "absent" /\ (j \notin back' => Dated(row'[j], seen'[j]))
    <2>1. CASE j \in Waiting /\ seen'[j] = seen[j]
      <3> DEFINE w == seen[j]
      <3>1. w \in Row /\ intent[j] # "absent" /\ (j \notin back => Dated(row[j], w))
        BY <2>1 DEF Copies, TypeOK
      <3> HIDE DEF w
      <3>2. intent'[j] # "absent" /\ (j \notin back' => Dated(row'[j], w))
        BY <1>1, <3>1
      <3>3. seen'[j] = w
        BY <2>1 DEF w
      <3> QED
        BY <3>2, <3>3
    <2>2. CASE j \in jobs /\ seen'[j] = row[j] /\ row' = row /\ intent' = intent
      <3>1. intent'[j] # "absent" /\ Dated(row'[j], row[j])
        BY <1>2, <2>2
      <3> QED
        BY <2>2, <3>1
    <2> QED
      BY <1>4, <2>1, <2>2, WaitingSteps
  <1>5. Waiting' \subseteq Job
    BY DEF Waiting, TypeOK
  <1> QED
    BY <1>3, <1>4, <1>5 DEF Copies

LEMMA FenceFits == TypeOK /\ Copies => FenceTells
PROOF
  <1> SUFFICES ASSUME TypeOK, Copies, NEW j \in Job \ back
               PROVE  /\ \A e \in Editor : edit[e].pc = "editing" /\ edit[e].job = j
                                             /\ Unedited(j, edit[e].row)
                                               => Config(row[j]) = Config(edit[e].row)
                      /\ engine = "forwarding" /\ j \in todo /\ Unedited(j, seen[j])
                           => Config(row[j]) = Config(seen[j])
    BY DEF FenceTells
  <1>1. ASSUME NEW w, Dated(row[j], w), Unedited(j, w) PROVE Config(row[j]) = Config(w)
    BY <1>1 DEF Dated, Unedited
  <1>2. \A e \in Editor : edit[e].pc = "editing" /\ edit[e].job = j => Dated(row[j], edit[e].row)
    BY DEF Copies
  <1>3. engine = "forwarding" /\ j \in todo => Dated(row[j], seen[j])
    BY DEF Copies, Waiting
  <1> QED
    BY <1>1, <1>2, <1>3

\* The jobs, copies and clocks a process starts with.
LEMMA CopiesInit == Init => Copies
  BY DEF Init, Copies, Waiting, Idle, NoEdit

\* When the runs are in any order and the clock does what it likes, an edit or a
\* fast-forward of a job whose updated_at was never moved back overwrites the configuration
\* it was computed from, or nothing (update_configuration, fast_forward_missed_job).
THEOREM FenceHolds == Spec => []FenceTells
PROOF
  <1>1. Init => Snapshots /\ Copies
    BY CopiesInit DEF Init, Snapshots
  <1>2. TypeOK /\ Decided /\ Safety /\ Snapshots /\ [Next]_vars => Snapshots'
    BY SnapshotsNext
  <1>3. TypeOK /\ TypeOK' /\ Decided /\ Safety /\ Snapshots /\ Copies /\ [Next]_vars => Copies'
    BY CopiesNext
  <1>4. TypeOK /\ Copies => FenceTells
    BY FenceFits
  <1> QED
    BY <1>1, <1>2, <1>3, <1>4, Safe, PTL DEF Spec

--------------------------------------------------------------------------------
(* The occurrence the user is owed *)

\* What an edit leaves in the row, when the fence matches.
LEMMA RewrittenParts ==
    ASSUME TypeOK, NEW j \in Job, NEW e \in Editor, NEW n \in Nat, Unedited(j, edit[e].row),
           row'[j] = Edited(row[j], edit[e].row, Applied(edit[e].row, edit[e].cmd, n))
    PROVE  LET w == edit[e].row  u == Applied(w, edit[e].cmd, n) IN
           /\ row'[j].token = row[j].token /\ row'[j].sched = row[j].sched
           /\ row'[j].status = u.status /\ w.status = row[j].status
           /\ Config(row[j]) = Config(w) =>
                /\ row'[j].kind = u.kind /\ row'[j].next = u.next
                /\ w.kind = row[j].kind /\ w.next = row[j].next
PROOF
  <1> DEFINE w == edit[e].row
             u == Applied(w, edit[e].cmd, n)
  <1>1. /\ row[j] \in Row /\ w \in Row /\ edit[e].cmd \in Command /\ now \in Nat
        /\ w.status = row[j].status /\ row'[j] = Edited(row[j], w, u)
    BY DEF TypeOK, Unedited
  <1>2. u \in Row
    BY <1>1, AppliedType
  <1>3. Config(row[j]) = Config(w) => w.kind = row[j].kind /\ w.next = row[j].next
    BY DEF Config
  <1> HIDE DEF w, u
  <1>4. /\ row'[j].status = Merged(row[j].status, w.status, u.status)
        /\ row'[j].kind = Merged(row[j].kind, w.kind, u.kind)
        /\ row'[j].next = Merged(row[j].next, w.next, u.next)
        /\ row'[j].token = row[j].token /\ row'[j].sched = row[j].sched
    BY <1>1, <1>2, EditedParts
  <1> QED
    BY <1>1, <1>3, <1>4 DEF Merged, w, u

\* No result of a run pauses a job.
LEMMA ResultStatus ==
    ASSUME NEW w \in Row, NEW o \in {"ok", "transient", "permanent", "missing"}, NEW n \in Nat,
           now \in Nat, w.status # "paused"
    PROVE  Finalized(w, o, n).status # "paused"
PROOF
  <1>1. \A x \in Row : /\ Stopped(x).status = "disabled" /\ Broken(x).status = "failed"
                       /\ \A a, b : Again(x, a, b).status = "pending"
    BY DEF Row, Stopped, Broken, Again
  <1>2. \A x \in Row : [Stopped(x) EXCEPT !.next = 0, !.backoff = 0].status = "disabled"
    BY DEF Row, Stopped
  <1>3. /\ Charged(w) \in Row /\ Reset(w) \in Row /\ Charged(Reset(w)) \in Row
    BY PartsType
  <1>4. AfterResult(w, o, n).status # "paused"
    BY <1>1, <1>2, <1>3 DEF AfterResult
  <1>5. w.status \in Off => Finalized(w, o, n).status = w.status
    BY FinalizedParts, ClearedParts
  <1> QED
    BY <1>4, <1>5, FinalizedParts

\* A job that the user has on is not paused.
LEMMA OnNext ==
    ASSUME TypeOK, Decided, Safety, Snapshots, [Next]_vars, NEW j \in Job, j \in jobs',
           intent'[j] = "on", j \in jobs /\ intent[j] = "on" => row[j].status # "paused"
    PROVE  row'[j].status # "paused"
PROOF
  <1>1. row[j] \in Row /\ now \in Nat
    BY DEF TypeOK
  <1>2. CASE Untouched(j) \/ Deleted(j)
    BY <1>2 DEF Untouched, Unwritten, Deleted
  <1>3. CASE Reserved(j)
    <2>1. row'[j].status = "running"
      BY <1>1, <1>3 DEF Reserved, Row
    <2> QED
      BY <2>1
  <1>4. CASE Returned(j)
    BY <1>1, <1>4, ReleasedParts DEF Returned, Unwritten
  <1>5. CASE Forwarded(j)
    <2>1. row'[j].status = row[j].status
      BY <1>1, <1>5 DEF Forwarded, Row
    <2> QED
      BY <1>5, <2>1 DEF Forwarded, Unwritten
  <1>6. CASE Finished(j)
    BY <1>1, <1>6, ResultStatus DEF Finished
  <1>7. CASE Rewritten(j)
    <2>1. PICK e \in Editor, n \in Nat :
            /\ Unedited(j, edit[e].row) /\ intent'[j] = Asked(edit[e].cmd, intent[j])
            /\ row'[j] = Edited(row[j], edit[e].row, Applied(edit[e].row, edit[e].cmd, n))
      BY <1>7 DEF Rewritten
    <2>2. /\ row'[j].status = Applied(edit[e].row, edit[e].cmd, n).status
          /\ edit[e].row.status = row[j].status
      BY <2>1, RewrittenParts
    <2>3. edit[e].row \in Row /\ edit[e].cmd \in Command
      BY DEF TypeOK
    <2>4. edit[e].cmd.op \in {"pause", "disable", "resume", "enable", "at", "every"}
      BY <2>3 DEF Command
    <2>5. edit[e].cmd.op \in {"at", "every"} => intent[j] = "on" /\ j \in jobs
      BY <2>1 DEF Asked, Unedited
    <2> QED
      BY <2>1, <2>2, <2>3, <2>4, <2>5, AppliedParts DEF Asked
  <1>8. CASE Created(j)
    BY <1>8 DEF Created, NewRow, NoRow
  <1> QED
    BY <1>2, <1>3, <1>4, <1>5, <1>6, <1>7, <1>8, Writes DEF Written

\* A promise is kept, or the write that ends it says so.
LEMMA PromiseNext ==
    ASSUME TypeOK, Decided, Safety, Snapshots, Copies, Promises, [Next]_vars,
           NEW j \in Job, j \notin back', wanted'[j] # 0
    PROVE  /\ j \in jobs' /\ row'[j].kind = "at" /\ row'[j].next = wanted'[j]
           /\ intent'[j] = "on" => row'[j].status \in {"pending", "running"}
           /\ row'[j].token # None => row'[j].sched \notin {0, wanted'[j]}
PROOF
  <1>1. /\ row[j] \in Row /\ now \in Nat /\ wanted[j] \in Nat
        /\ Written(j) /\ j \notin back /\ Promised(j)
    BY Writes DEF TypeOK, Promises
  <1>2. CASE Untouched(j)
    BY <1>1, <1>2 DEF Untouched, Unwritten, Promised
  <1>3. CASE Reserved(j)
    BY <1>1, <1>3 DEF Reserved, Promised
  <1>4. CASE Returned(j)
    BY <1>1, <1>4, ReleasedParts DEF Returned, Unwritten, Promised
  <1>5. CASE Forwarded(j)
    <2>1. Dated(row[j], seen[j]) /\ Unedited(j, seen[j]) /\ seen[j].kind = "every"
      BY <1>1, <1>5 DEF Forwarded, Copies
    <2>2. row[j].kind = "every"
      BY <2>1 DEF Dated, Unedited, Config
    <2> QED
      BY <1>1, <1>5, <2>2 DEF Forwarded, Unwritten, Promised
  <1>6. CASE Finished(j)
    <2>1. PICK o \in {"ok", "transient", "permanent", "missing"} :
            \/ Consumed(j, row[j], o) /\ row'[j] = row[j]
            \/ /\ j \in jobs' /\ \E n \in Nat : row'[j] = Finalized(row[j], o, n)
      BY <1>6 DEF Finished
    <2>2. row[j].token # None /\ intent'[j] = intent[j] /\ wanted'[j] = wanted[j]
      BY <1>6 DEF Finished
    <2>3. /\ row[j].kind = "at" /\ row[j].next = wanted[j]
          /\ intent[j] = "on" => row[j].status \in {"pending", "running"}
          /\ row[j].sched \notin {0, wanted[j]}
      BY <1>1, <2>2 DEF Promised
    <2>4. IsRescheduled(row[j])
      BY <2>2, <2>3 DEF IsRescheduled
    <2>5. PICK n \in Nat : j \in jobs' /\ row'[j] = Finalized(row[j], o, n)
      BY <2>1, <2>4 DEF Consumed
    <2>6. CASE row[j].status \in Off
      <3>1. row'[j] = Cleared(row[j])
        BY <1>1, <2>5, <2>6, FinalizedParts
      <3>2. intent[j] # "on"
        BY <2>3, <2>6 DEF Off
      <3> QED
        BY <1>1, <2>2, <2>3, <2>5, <3>1, <3>2, ClearedParts
    <2>7. CASE row[j].status \notin Off
      <3>1. /\ row'[j].token = None /\ row'[j].kind = AfterResult(row[j], o, n).kind
            /\ row'[j].next = AfterResult(row[j], o, n).next
            /\ row'[j].status = AfterResult(row[j], o, n).status
        BY <1>1, <2>5, <2>7, FinalizedParts
      <3> QED
        BY <1>1, <2>2, <2>3, <2>4, <2>5, <3>1, RescheduledParts
    <2> QED
      BY <2>6, <2>7
  <1>7. CASE Rewritten(j)
    <2>1. PICK e \in Editor :
            /\ edit[e].pc = "editing" /\ edit[e].job = j /\ j \in jobs' /\ Unedited(j, edit[e].row)
            /\ \E n \in Nat :
                 row'[j] = Edited(row[j], edit[e].row, Applied(edit[e].row, edit[e].cmd, n))
            /\ intent'[j] = Asked(edit[e].cmd, intent[j])
            /\ wanted'[j] = Owed(row[j], edit[e].cmd, wanted[j])
      BY <1>7 DEF Rewritten
    <2> DEFINE w == edit[e].row
               c == edit[e].cmd
    <2>2. PICK n \in Nat : row'[j] = Edited(row[j], w, Applied(w, c, n))
      BY <2>1
    <2>3. Dated(row[j], w)
      BY <1>1, <2>1 DEF Copies
    <2>4. Config(row[j]) = Config(w)
      BY <2>1, <2>3 DEF Dated, Unedited
    <2>5. w \in Row /\ c \in Command
      BY DEF TypeOK
    <2>6. /\ row'[j].token = row[j].token /\ row'[j].sched = row[j].sched
          /\ row'[j].status = Applied(w, c, n).status /\ w.status = row[j].status
          /\ row'[j].kind = Applied(w, c, n).kind /\ row'[j].next = Applied(w, c, n).next
          /\ w.kind = row[j].kind /\ w.next = row[j].next
      BY <2>1, <2>2, <2>4, RewrittenParts
    <2>7. c.op \in {"pause", "disable", "resume", "enable", "at", "every"}
      BY <2>5 DEF Command
    <2>8. j \in jobs /\ row[j].status \in Status /\ (intent[j] = "on" => row[j].status # "paused")
      BY <1>1, <2>1, RowFields DEF Unedited, Promises
    <2> HIDE DEF w, c
    <2>9. CASE c.op = "at"
      <3>1. /\ wanted'[j] = c.time /\ row[j].status \notin {"failed", "disabled"}
            /\ row[j].token # None => row[j].sched \notin {0, c.time}
            /\ intent'[j] = intent[j]
        BY <2>1, <2>9 DEF Owed, Asked, w, c
      <3>2. row'[j].kind = "at" /\ row'[j].next = c.time /\ row'[j].status = row[j].status
        BY <2>5, <2>6, <2>9, AppliedParts
      <3> QED
        BY <2>1, <2>6, <2>8, <3>1, <3>2 DEF Status
    <2>10. CASE c.op \in {"pause", "disable", "resume", "enable"}
      <3>1. wanted'[j] = wanted[j]
        BY <2>1, <2>10 DEF Owed, c
      <3>2. /\ row[j].kind = "at" /\ row[j].next = wanted[j]
            /\ intent[j] = "on" => row[j].status \in {"pending", "running"}
            /\ row[j].token # None => row[j].sched \notin {0, wanted[j]}
        BY <1>1, <3>1 DEF Promised
      <3>3. row'[j].kind = "at" /\ row'[j].next = wanted[j]
        BY <2>5, <2>6, <2>10, <3>2, AppliedParts
      <3>4. c.op \in {"pause", "disable"} => intent'[j] = "off"
        BY <2>1 DEF Asked, c
      <3>5. c.op \in {"resume", "enable"} => row'[j].status \in {"pending", "running"}
        BY <2>5, <2>6, <2>8, AppliedParts DEF Status
      <3> QED
        BY <2>1, <2>6, <2>10, <3>1, <3>2, <3>3, <3>4, <3>5
    <2>11. CASE c.op = "every"
      BY <2>1, <2>11 DEF Owed, c
    <2> QED
      BY <2>7, <2>9, <2>10, <2>11
  <1>8. CASE Created(j)
    <2>1. j \notin jobs
      BY <1>8 DEF Created, Safety, Tokens
    <2> QED
      BY <1>1, <1>8, <2>1 DEF Created, Promised
  <1>9. CASE Deleted(j)
    BY <1>9 DEF Deleted
  <1> QED
    BY <1>1, <1>2, <1>3, <1>4, <1>5, <1>6, <1>7, <1>8, <1>9 DEF Written

LEMMA PromisesNext ==
    ASSUME TypeOK, TypeOK', Decided, Safety, Snapshots, Copies, Promises, [Next]_vars
    PROVE  Promises'
PROOF
  <1>1. ASSUME NEW j \in Job \ back' PROVE Promised(j)'
    BY <1>1, PromiseNext DEF Promised
  <1>2. ASSUME NEW j \in jobs', intent'[j] = "on" PROVE row'[j].status # "paused"
    <2>1. j \in Job
      BY DEF TypeOK
    <2> QED
      BY <1>2, <2>1, OnNext DEF Promises
  <1> QED
    BY <1>1, <1>2 DEF Promises

\* A rescheduled one-shot keeps its new occurrence, for any jobs, tokens, owners and limits:
\* neither the result of the run of the old one nor an edit or a fast-forward undoes it
\* (is_rescheduled_one_shot, finalize_reserved_job, update_configuration).
THEOREM ReplacementStays == Spec => []ReplacementKept
PROOF
  <1>1. Init => Snapshots /\ Copies /\ Promises
    <2>1. Init => \A j \in Job : Promised(j)
      BY DEF Init, Promised
    <2>2. \A j \in Job : \A t : NewRow(j, t).status # "paused"
      BY DEF NewRow, NoRow
    <2>3. Init => \A j \in jobs : row[j].status # "paused"
      BY <2>2 DEF Init
    <2> QED
      BY <2>1, <2>3, CopiesInit DEF Init, Snapshots, Promises
  <1>2. TypeOK /\ Decided /\ Safety /\ Snapshots /\ [Next]_vars => Snapshots'
    BY SnapshotsNext
  <1>3. TypeOK /\ TypeOK' /\ Decided /\ Safety /\ Snapshots /\ Copies /\ [Next]_vars => Copies'
    BY CopiesNext
  <1>4. TypeOK /\ TypeOK' /\ Decided /\ Safety /\ Snapshots /\ Copies /\ Promises /\ [Next]_vars
          => Promises'
    BY PromisesNext
  <1>5. Promises => ReplacementKept
    BY DEF Promises, Promised, ReplacementKept
  <1> QED
    BY <1>1, <1>2, <1>3, <1>4, <1>5, Safe, PTL DEF Spec
================================================================================
