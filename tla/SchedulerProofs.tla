---------------------------- MODULE SchedulerProofs ----------------------------
(***************************************************************************)
(* Safety of the scheduler for any jobs, tokens, owners and limits.          *)
(*                                                                           *)
(* Tokens says what a live run and the row of its job know of each other,    *)
(* Owners how the recovery at start tells the runs of this process from      *)
(* those of an earlier one, Snapshots what is left of the row a finalizer    *)
(* has read.                                                                 *)
(***************************************************************************)
EXTENDS Scheduler, TLAPS

--------------------------------------------------------------------------------
(* Types *)

LEMMA LaterType == \A a, b \in Nat : Later(a, b) \in Nat /\ Later(a, b) >= a /\ Later(a, b) >= b
  BY DEF Later

\* What the columns of a row are.
LEMMA RowFields ==
    \A w \in Row : /\ w.status \in Status /\ w.enabled \in BOOLEAN /\ w.kind \in {"at", "every"}
                   /\ w.next \in Nat /\ w.backoff \in Nat /\ w.errs \in Nat /\ w.count \in Nat
                   /\ w.updated \in Nat /\ w.last \in Nat /\ w.sched \in Nat
                   /\ w.token \in Run \union {None} /\ w.owner \in Owner
  BY DEF Row

\* A release or a recovery leaves a row.
LEMMA ClearedType == \A w \in Row, t \in Nat : Cleared(w) \in Row /\ Released(w, t) \in Row
PROOF
  <1>1. \A w \in Row : Cleared(w) \in Row
    BY DEF Row, Cleared, Owner
  <1>2. \A w \in Row, s \in Status, t \in Nat : [w EXCEPT !.status = s, !.updated = t] \in Row
    BY DEF Row
  <1> SUFFICES ASSUME NEW w \in Row, NEW t \in Nat PROVE Released(w, t) \in Row
    BY <1>1
  <1>3. (IF Cleared(w).status = "running" THEN "pending" ELSE Cleared(w).status) \in Status
    BY <1>1, RowFields DEF Status
  <1>4. Later(Cleared(w).updated, t) \in Nat
    BY <1>1, RowFields, LaterType
  <1> QED
    BY <1>1, <1>2, <1>3, <1>4 DEF Released

\* A new or an absent job has a row.
LEMMA NewRowType == NoRow \in Row /\ \A j \in Job, t \in Nat : NewRow(j, t) \in Row
PROOF
  <1>1. NoRow \in Row
    BY DEF Row, NoRow, Owner, Status
  <1>2. \A w \in Row, k \in {"at", "every"}, n, t \in Nat :
          [w EXCEPT !.kind = k, !.next = n, !.updated = t] \in Row
    BY DEF Row
  <1>3. \A t \in Nat : t + 1 \in Nat
    OBVIOUS
  <1> QED
    BY <1>1, <1>2, <1>3 DEF NewRow

\* The building blocks of the results and of the edits leave a row.
LEMMA PartsType ==
    ASSUME NEW w \in Row
    PROVE  /\ Charged(w) \in Row /\ Stopped(w) \in Row /\ Broken(w) \in Row /\ Reset(w) \in Row
           /\ [w EXCEPT !.next = 0, !.backoff = 0] \in Row
           /\ \A a, b \in Nat : Again(w, a, b) \in Row
PROOF
  <1>1. \A e \in Nat : [w EXCEPT !.errs = e] \in Row
    BY DEF Row
  <1>2. w.errs + 1 \in Nat
    BY RowFields
  <1>3. Charged(w) \in Row
    BY <1>1, <1>2 DEF Charged
  <1>4. Stopped(w) \in Row
    BY DEF Row, Stopped, Status
  <1>5. \A n, b \in Nat : [w EXCEPT !.status = "failed", !.next = n, !.backoff = b] \in Row
    BY DEF Row, Status
  <1>6. Broken(w) \in Row
    BY <1>5 DEF Broken
  <1>7. \A e, b \in Nat : [w EXCEPT !.errs = e, !.backoff = b] \in Row
    BY DEF Row
  <1>8. Reset(w) \in Row
    BY <1>7 DEF Reset
  <1>9. \A n, b \in Nat : [w EXCEPT !.next = n, !.backoff = b] \in Row
    BY DEF Row
  <1>10. \A n, b \in Nat : Again(w, n, b) \in Row
    BY DEF Row, Again, Status
  <1> QED
    BY <1>3, <1>4, <1>6, <1>8, <1>9, <1>10

\* What an edit computes is a row.
LEMMA AppliedType ==
    ASSUME NEW w \in Row, NEW c \in Command, NEW n \in Nat
    PROVE  Applied(w, c, n) \in Row
PROOF
  <1>1. c.time \in Nat
    BY SchedulerAssumption DEF Command
  <1>2. c.op \in {"pause", "resume", "disable", "enable", "every", "at"}
    BY DEF Command
  <1>3. Reset(w) \in Row /\ Revived(w, n) \in Row
    <2>1. Reset(w) \in Row
      BY PartsType
    <2>2. (IF w.kind = "at" THEN w.next ELSE n) \in Nat
      BY RowFields
    <2> QED
      BY <2>1, <2>2, PartsType DEF Revived
  <1>4. \A v \in Row : /\ [v EXCEPT !.status = "paused"] \in Row
                       /\ [v EXCEPT !.status = "paused", !.enabled = FALSE] \in Row
                       /\ [v EXCEPT !.enabled = TRUE] \in Row
    BY DEF Row, Status
  <1>5. \A v \in Row, t \in Nat, k \in {"at", "every"} :
          [v EXCEPT !.kind = k, !.next = t] \in Row
    BY DEF Row
  <1>6. CASE c.op \in {"pause", "disable", "resume"}
    BY <1>3, <1>4, <1>6 DEF Applied
  <1>7. CASE c.op = "enable"
    BY <1>3, <1>4, <1>7 DEF Applied
  <1>8. CASE c.op \in {"at", "every"}
    BY <1>1, <1>3, <1>5, <1>8 DEF Applied
  <1> QED
    BY <1>2, <1>6, <1>7, <1>8

\* An edit writes each column it has changed, and no column of the reservation.
LEMMA EditedParts ==
    ASSUME NEW v \in Row, NEW w \in Row, NEW u \in Row, now \in Nat
    PROVE  LET x == Edited(v, w, u) IN
           /\ x \in Row
           /\ x.status = Merged(v.status, w.status, u.status)
           /\ x.kind = Merged(v.kind, w.kind, u.kind) /\ x.next = Merged(v.next, w.next, u.next)
           /\ x.updated = Later(now, w.updated + 1) /\ w.updated < x.updated
           /\ x.token = v.token /\ x.owner = v.owner /\ x.sched = v.sched /\ x.count = v.count
PROOF
  <1> DEFINE st == Merged(v.status, w.status, u.status)
             en == Merged(v.enabled, w.enabled, u.enabled)
             k == Merged(v.kind, w.kind, u.kind)
             n == Merged(v.next, w.next, u.next)
             b == Merged(v.backoff, w.backoff, u.backoff)
             er == Merged(v.errs, w.errs, u.errs)
             t == Later(now, w.updated + 1)
             x1 == [v EXCEPT !.status = st]
             x2 == [x1 EXCEPT !.enabled = en]
             x3 == [x2 EXCEPT !.kind = k]
             x4 == [x3 EXCEPT !.next = n]
             x5 == [x4 EXCEPT !.backoff = b]
             x6 == [x5 EXCEPT !.errs = er]
             x7 == [x6 EXCEPT !.updated = t]
  <1>1. st \in Status /\ en \in {TRUE, FALSE} /\ k \in {"at", "every"}
        /\ n \in Nat /\ b \in Nat /\ er \in Nat
    BY RowFields DEF Merged
  <1>2. t \in Nat /\ w.updated < t
    <2>1. w.updated \in Nat /\ w.updated + 1 \in Nat /\ w.updated < w.updated + 1
      BY RowFields
    <2>2. t \in Nat /\ t >= w.updated + 1
      BY <2>1, LaterType
    <2> QED
      BY <2>1, <2>2
  <1>3. \A x \in Row, a \in Status :
          LET y == [x EXCEPT !.status = a] IN
          /\ y \in Row /\ y.status = a
          /\ y.token = x.token /\ y.owner = x.owner /\ y.sched = x.sched /\ y.count = x.count
    <2>1. \A x \in Row, a \in Status : [x EXCEPT !.status = a] \in Row
      BY DEF Row, Status
    <2>2. \A x \in Row, a \in Status :
            LET y == [x EXCEPT !.status = a] IN
            /\ y.status = a
            /\ y.token = x.token /\ y.owner = x.owner /\ y.sched = x.sched /\ y.count = x.count
      BY DEF Row
    <2> QED
      BY <2>1, <2>2
  <1>4. \A x \in Row, a \in {TRUE, FALSE} :
          LET y == [x EXCEPT !.enabled = a] IN
          /\ y \in Row /\ y.status = x.status
          /\ y.token = x.token /\ y.owner = x.owner /\ y.sched = x.sched /\ y.count = x.count
    <2>1. \A x \in Row : [x EXCEPT !.enabled = TRUE] \in Row /\ [x EXCEPT !.enabled = FALSE] \in Row
      BY DEF Row
    <2>2. \A x \in Row : \A a : LET y == [x EXCEPT !.enabled = a] IN
            /\ y.status = x.status
            /\ y.token = x.token /\ y.owner = x.owner /\ y.sched = x.sched /\ y.count = x.count
      BY DEF Row
    <2> QED
      BY <2>1, <2>2
  <1>5. \A x \in Row, a \in {"at", "every"} :
          LET y == [x EXCEPT !.kind = a] IN
          /\ y \in Row /\ y.status = x.status /\ y.kind = a
          /\ y.token = x.token /\ y.owner = x.owner /\ y.sched = x.sched /\ y.count = x.count
    <2>1. \A x \in Row, a \in {"at", "every"} : [x EXCEPT !.kind = a] \in Row
      BY DEF Row
    <2>2. \A x \in Row, a \in {"at", "every"} :
            LET y == [x EXCEPT !.kind = a] IN
            /\ y.status = x.status /\ y.kind = a
            /\ y.token = x.token /\ y.owner = x.owner /\ y.sched = x.sched /\ y.count = x.count
      BY DEF Row
    <2> QED
      BY <2>1, <2>2
  <1>6. \A x \in Row, a \in Nat :
          LET y == [x EXCEPT !.next = a] IN
          /\ y \in Row /\ y.status = x.status /\ y.kind = x.kind /\ y.next = a
          /\ y.token = x.token /\ y.owner = x.owner /\ y.sched = x.sched /\ y.count = x.count
    <2>1. \A x \in Row, a \in Nat : [x EXCEPT !.next = a] \in Row
      BY DEF Row
    <2>2. \A x \in Row, a \in Nat :
            LET y == [x EXCEPT !.next = a] IN
            /\ y.status = x.status /\ y.kind = x.kind /\ y.next = a
            /\ y.token = x.token /\ y.owner = x.owner /\ y.sched = x.sched /\ y.count = x.count
      BY DEF Row
    <2> QED
      BY <2>1, <2>2
  <1>7. \A x \in Row, a \in Nat :
          LET y == [x EXCEPT !.backoff = a] IN
          /\ y \in Row /\ y.status = x.status /\ y.kind = x.kind /\ y.next = x.next
          /\ y.token = x.token /\ y.owner = x.owner /\ y.sched = x.sched /\ y.count = x.count
    <2>1. \A x \in Row, a \in Nat : [x EXCEPT !.backoff = a] \in Row
      BY DEF Row
    <2>2. \A x \in Row, a \in Nat :
            LET y == [x EXCEPT !.backoff = a] IN
            /\ y.status = x.status /\ y.kind = x.kind /\ y.next = x.next
            /\ y.token = x.token /\ y.owner = x.owner /\ y.sched = x.sched /\ y.count = x.count
      BY DEF Row
    <2> QED
      BY <2>1, <2>2
  <1>8. \A x \in Row, a \in Nat :
          LET y == [x EXCEPT !.errs = a] IN
          /\ y \in Row /\ y.status = x.status /\ y.kind = x.kind /\ y.next = x.next
          /\ y.token = x.token /\ y.owner = x.owner /\ y.sched = x.sched /\ y.count = x.count
    <2>1. \A x \in Row, a \in Nat : [x EXCEPT !.errs = a] \in Row
      BY DEF Row
    <2>2. \A x \in Row, a \in Nat :
            LET y == [x EXCEPT !.errs = a] IN
            /\ y.status = x.status /\ y.kind = x.kind /\ y.next = x.next
            /\ y.token = x.token /\ y.owner = x.owner /\ y.sched = x.sched /\ y.count = x.count
      BY DEF Row
    <2> QED
      BY <2>1, <2>2
  <1>9. \A x \in Row, a \in Nat :
          LET y == [x EXCEPT !.updated = a] IN
          /\ y \in Row /\ y.status = x.status /\ y.kind = x.kind /\ y.next = x.next /\ y.updated = a
          /\ y.token = x.token /\ y.owner = x.owner /\ y.sched = x.sched /\ y.count = x.count
    <2>1. \A x \in Row, a \in Nat : [x EXCEPT !.updated = a] \in Row
      BY DEF Row
    <2>2. \A x \in Row, a \in Nat :
            LET y == [x EXCEPT !.updated = a] IN
            /\ y.status = x.status /\ y.kind = x.kind /\ y.next = x.next /\ y.updated = a
            /\ y.token = x.token /\ y.owner = x.owner /\ y.sched = x.sched /\ y.count = x.count
      BY DEF Row
    <2> QED
      BY <2>1, <2>2
  <1>10. Edited(v, w, u) = x7
    BY DEF Edited
  <1>11. /\ x1 = [v EXCEPT !.status = st] /\ x2 = [x1 EXCEPT !.enabled = en]
         /\ x3 = [x2 EXCEPT !.kind = k] /\ x4 = [x3 EXCEPT !.next = n]
         /\ x5 = [x4 EXCEPT !.backoff = b] /\ x6 = [x5 EXCEPT !.errs = er]
         /\ x7 = [x6 EXCEPT !.updated = t]
    OBVIOUS
  <1> HIDE DEF st, en, k, n, b, er, t, x1, x2, x3, x4, x5, x6, x7
  <1>12. /\ x1 \in Row /\ x1.status = st
         /\ x1.token = v.token /\ x1.owner = v.owner /\ x1.sched = v.sched /\ x1.count = v.count
    BY <1>1, <1>3, <1>11
  <1>13. /\ x2 \in Row /\ x2.status = st
         /\ x2.token = v.token /\ x2.owner = v.owner /\ x2.sched = v.sched /\ x2.count = v.count
    BY <1>1, <1>4, <1>11, <1>12
  <1>14. /\ x3 \in Row /\ x3.status = st /\ x3.kind = k
         /\ x3.token = v.token /\ x3.owner = v.owner /\ x3.sched = v.sched /\ x3.count = v.count
    BY <1>1, <1>5, <1>11, <1>13
  <1>15. /\ x4 \in Row /\ x4.status = st /\ x4.kind = k /\ x4.next = n
         /\ x4.token = v.token /\ x4.owner = v.owner /\ x4.sched = v.sched /\ x4.count = v.count
    BY <1>1, <1>6, <1>11, <1>14
  <1>16. /\ x5 \in Row /\ x5.status = st /\ x5.kind = k /\ x5.next = n
         /\ x5.token = v.token /\ x5.owner = v.owner /\ x5.sched = v.sched /\ x5.count = v.count
    BY <1>1, <1>7, <1>11, <1>15
  <1>17. /\ x6 \in Row /\ x6.status = st /\ x6.kind = k /\ x6.next = n
         /\ x6.token = v.token /\ x6.owner = v.owner /\ x6.sched = v.sched /\ x6.count = v.count
    BY <1>1, <1>8, <1>11, <1>16
  <1>18. /\ x7 \in Row /\ x7.status = st /\ x7.kind = k /\ x7.next = n /\ x7.updated = t
         /\ x7.token = v.token /\ x7.owner = v.owner /\ x7.sched = v.sched /\ x7.count = v.count
    <2>1. t \in Nat /\ x7 = [x6 EXCEPT !.updated = t]
      BY <1>2, <1>11
    <2>2. x6 \in Row
      BY <1>17
    <2>3. /\ x7 \in Row /\ x7.status = x6.status /\ x7.kind = x6.kind /\ x7.next = x6.next
          /\ x7.updated = t /\ x7.token = x6.token /\ x7.owner = x6.owner
          /\ x7.sched = x6.sched /\ x7.count = x6.count
      BY <1>9, <2>1, <2>2
    <2> QED
      BY <1>17, <2>3
  <1> QED
    BY <1>2, <1>10, <1>18 DEF st, k, n, t

\* The result of a run turns a row into a row.
LEMMA AfterResultType ==
    ASSUME NEW w \in Row, NEW o \in {"ok", "transient", "permanent", "missing"},
           NEW n \in Nat, now \in Nat
    PROVE  AfterResult(w, o, n) \in Row
PROOF
  <1>1. w.next \in Nat /\ now + 1 \in Nat /\ 0 \in Nat
    BY RowFields
  <1>2. CASE IsRescheduled(w)
    BY <1>1, <1>2, PartsType DEF AfterResult
  <1>3. CASE ~IsRescheduled(w) /\ o = "missing"
    BY <1>3, PartsType DEF AfterResult
  <1>4. CASE ~IsRescheduled(w) /\ o = "permanent"
    BY <1>4, PartsType DEF AfterResult
  <1>5. CASE ~IsRescheduled(w) /\ o = "ok"
    BY <1>1, <1>5, PartsType DEF AfterResult
  <1>6. CASE ~IsRescheduled(w) /\ o = "transient"
    <2>1. /\ Stopped(Charged(w)) \in Row /\ Broken(Charged(w)) \in Row
          /\ Again(Charged(w), w.next, now + 1) \in Row /\ Again(Charged(w), n, now + 1) \in Row
      BY <1>1, PartsType
    <2>2. AfterResult(w, o, n) \in {Stopped(Charged(w)), Broken(Charged(w)),
            Again(Charged(w), w.next, now + 1), Again(Charged(w), n, now + 1)}
      BY <1>6 DEF AfterResult
    <2> QED
      BY <2>1, <2>2
  <1> QED
    BY <1>2, <1>3, <1>4, <1>5, <1>6

\* What a finalizer computes is a row.
LEMMA FinalizedType ==
    ASSUME NEW w \in Row, NEW o \in {"ok", "transient", "permanent", "missing"},
           NEW n \in Nat, now \in Nat
    PROVE  Finalized(w, o, n) \in Row
PROOF
  <1>1. AfterResult(w, o, n) \in Row
    BY AfterResultType
  <1>2. Cleared(w) \in Row /\ Cleared(AfterResult(w, o, n)) \in Row
    BY <1>1, ClearedType
  <1>3. \A v \in Row, a, b \in Nat : [v EXCEPT !.count = a, !.updated = b] \in Row
    BY DEF Row
  <1>4. ASSUME NEW v \in Row PROVE v.count + 1 \in Nat /\ Later(v.updated, now) \in Nat
    <2>1. v.count \in Nat /\ v.updated \in Nat
      BY RowFields
    <2>2. now \in Nat
      OBVIOUS
    <2>3. Later(v.updated, now) \in Nat
      BY <2>1, <2>2, LaterType
    <2>4. v.count + 1 \in Nat
      BY <2>1
    <2> QED
      BY <2>3, <2>4
  <1>5. \A v \in Row : [v EXCEPT !.count = v.count + 1, !.updated = Later(v.updated, now)] \in Row
    BY <1>3, <1>4
  <1>6. Finalized(w, o, n) =
          IF w.status \in Off THEN Cleared(w)
          ELSE [Cleared(AfterResult(w, o, n)) EXCEPT
                  !.count = Cleared(AfterResult(w, o, n)).count + 1,
                  !.updated = Later(Cleared(AfterResult(w, o, n)).updated, now)]
    BY DEF Finalized
  <1> QED
    BY <1>2, <1>5, <1>6

\* ...and it is reserved no more.
LEMMA FinalizedFree ==
    ASSUME NEW w \in Row, NEW o \in {"ok", "transient", "permanent", "missing"},
           NEW n \in Nat, now \in Nat
    PROVE  Finalized(w, o, n).token = None /\ Finalized(w, o, n).owner = None
PROOF
  <1>1. AfterResult(w, o, n) \in Row
    BY AfterResultType
  <1>2. \A v \in Row : /\ Cleared(v).token = None /\ Cleared(v).owner = None
                       /\ \A a, b :
                            /\ [Cleared(v) EXCEPT !.count = a, !.updated = b].token = None
                            /\ [Cleared(v) EXCEPT !.count = a, !.updated = b].owner = None
    BY DEF Cleared, Row
  <1> QED
    BY <1>1, <1>2 DEF Finalized

\* The type of the variables of the runs.
RunTypes ==
    /\ phase \in [Run -> Live \union {"free"}]
    /\ of \in [Run -> Job \union {None}]
    /\ by \in [Run -> Owner]
    /\ outcome \in [Run -> {"none", "ok", "transient", "permanent", "missing"}]
    /\ read \in [Run -> Row]

\* A run that writes knows how its handler ended.
Decided == \A r \in Run : phase[r] = "writing" => outcome[r] # "none"

\* An idle scheduler is well typed.
LEMMA TypeInit == Init => TypeOK
PROOF
  <1> SUFFICES ASSUME Init PROVE TypeOK
    OBVIOUS
  <1> USE SchedulerAssumption
  <1>1. row \in [Job -> Row] /\ seen \in [Job -> Row] /\ read \in [Run -> Row]
    BY NewRowType DEF Init
  <1>2. /\ phase \in [Run -> Live \union {"free"}] /\ of \in [Run -> Job \union {None}]
        /\ by \in [Run -> Owner] /\ tracked \in [Job -> Run \union {None}]
        /\ outcome \in [Run -> {"none", "ok", "transient", "permanent", "missing"}]
    BY DEF Init, Owner
  <1>3. /\ manual \in [Manual -> {"idle", "asked", "owner", "done"}]
        /\ asked \in [Manual -> Nat] /\ restarts \in Nat /\ faults \in Nat /\ now \in Nat \ {0} /\ at \in Nat
        /\ jobs \subseteq Job /\ todo \subseteq Job /\ aside \subseteq Job /\ failed \subseteq Run
    BY DEF Init
  <1>4. edit \in [Editor -> [pc : {"idle", "editing", "done"}, job : Job \union {None},
                             cmd : Command, row : Row]]
    <2>1. [op |-> "pause", time |-> 0] \in Command
      BY DEF Command
    <2>2. Idle \in [pc : {"idle", "editing", "done"}, job : Job \union {None},
                    cmd : Command, row : Row]
      BY <2>1, NewRowType DEF Idle
    <2>3. NoEdit \in [pc : {"idle", "editing", "done"}, job : Job \union {None},
                      cmd : Command, row : Row]
      BY <2>2 DEF NoEdit
    <2> QED
      BY <2>2, <2>3 DEF Init
  <1>5. intent \in [Job -> {"absent", "on", "off", "deleted"}] /\ wanted \in [Job -> Nat]
    BY DEF Init
  <1> QED
    BY <1>1, <1>2, <1>3, <1>4, <1>5 DEF Init, TypeOK

\* A reservation is well typed.
LEMMA ReserveType ==
    ASSUME TypeOK, NEW j \in Job, NEW r, NEW owner \in Owner, NEW t \in Nat, NEW p \in Live,
           Reserve(j, r, owner, t, p)
    PROVE  /\ row' \in [Job -> Row] /\ RunTypes' /\ intent' = intent
           /\ wanted' \in [Job -> Nat] /\ failed' \subseteq Run /\ back' \subseteq Job
PROOF
  <1>1. \A w \in Row, k \in Run, n \in Nat :
          [w EXCEPT !.status = "running", !.token = k, !.owner = owner,
                    !.sched = n, !.last = t, !.updated = t] \in Row
    BY DEF Row, Status
  <1>2. row[j] \in Row /\ row[j].next \in Nat
    BY RowFields DEF TypeOK
  <1>3. row' \in [Job -> Row]
    BY <1>1, <1>2 DEF TypeOK, Reserve
  <1>4. RunTypes'
    BY DEF TypeOK, Reserve, RunTypes
  <1>5. wanted' \in [Job -> Nat]
    BY DEF TypeOK, Reserve
  <1> QED
    BY <1>3, <1>4, <1>5 DEF TypeOK, Reserve

\* The end of a run and its way to the finalizer are well typed.
LEMMA RunStepType ==
    ASSUME TypeOK, NEW r \in Run
    PROVE  /\ EndRun(r) => RunTypes' /\ manual' \in [Manual -> {"idle", "asked", "owner", "done"}]
           /\ \A o \in {"ok", "transient", "permanent", "missing"} :
                ToFinalize(r, o) /\ UNCHANGED <<of, by>> => RunTypes'
PROOF
  <1>1. EndRun(r) => RunTypes' /\ manual' \in [Manual -> {"idle", "asked", "owner", "done"}]
    BY NewRowType DEF TypeOK, EndRun, RunTypes, Owner
  <1>2. ASSUME NEW o \in {"ok", "transient", "permanent", "missing"},
               ToFinalize(r, o), UNCHANGED <<of, by>>
        PROVE  RunTypes'
    <2>1. read' \in [Run -> Row]
      BY <1>2, NewRowType DEF TypeOK, ToFinalize, Holds
    <2>2. phase' \in [Run -> Live \union {"free"}]
      BY <1>2 DEF TypeOK, ToFinalize, Goto, Live
    <2>3. outcome' \in [Run -> {"none", "ok", "transient", "permanent", "missing"}]
      BY <1>2 DEF TypeOK, ToFinalize
    <2> QED
      BY <1>2, <2>1, <2>2, <2>3 DEF TypeOK, RunTypes
  <1> QED
    BY <1>1, <1>2

\* Every step of the start and of the timer loop keeps the types.
LEMMA TypePass == TypeOK /\ (Start \/ Tick \/ PassStep) => TypeOK'
PROOF
  <1> SUFFICES ASSUME TypeOK, Start \/ Tick \/ PassStep PROVE TypeOK'
    OBVIOUS
  <1> USE SchedulerAssumption DEF runs, passes, history, others
  <1>1. CASE Start
    BY <1>1 DEF Start, TypeOK
  <1>2. CASE Tick
    BY <1>2 DEF Tick, TypeOK
  <1>3. ASSUME NEW j \in Job, Recover(j) PROVE TypeOK'
    <2>1. row' \in [Job -> Row] /\ seen' \in [Job -> Row]
      <3>1. /\ row' \in {row, [row EXCEPT ![j] = Released(row[j], at)]}
            /\ seen' \in {[seen EXCEPT ![j] = NoRow], [seen EXCEPT ![j] = row[j]]}
        BY <1>3 DEF Recover
      <3>2. row[j] \in Row /\ Released(row[j], at) \in Row /\ NoRow \in Row
        BY NewRowType, ClearedType DEF TypeOK
      <3> QED
        BY <3>1, <3>2 DEF TypeOK
    <2> QED
      BY <1>3, <2>1 DEF Recover, TypeOK
  <1>4. CASE CollectMissed
    <2>1. PICK q \in SUBSET Job :
             todo' = q /\ aside' \subseteq Job
             /\ seen' = [j \in Job |-> IF j \in aside' THEN row[j] ELSE NoRow]
      BY <1>4 DEF CollectMissed, First
    <2>2. seen' \in [Job -> Row]
      BY <2>1, NewRowType DEF TypeOK
    <2> QED
      BY <1>4, <2>1, <2>2 DEF CollectMissed, TypeOK
  <1>5. ASSUME NEW j \in Job, CatchupReserve(j) \/ TickReserve(j) PROVE TypeOK'
    <2>1. ReserveDue(j) /\ UNCHANGED <<now, jobs, tracked, engine, at, seen, aside, manual, edit, others>>
      BY <1>5 DEF CatchupReserve, TickReserve
    <2>2. CASE Reserve(j, NewToken, Timer, at, "granted")
      <3>1. Timer \in Owner /\ "granted" \in Live /\ at \in Nat
        BY DEF Owner, Live, TypeOK
      <3>2. /\ row' \in [Job -> Row] /\ RunTypes' /\ intent' = intent
            /\ wanted' \in [Job -> Nat] /\ failed' \subseteq Run /\ back' \subseteq Job
        BY <2>2, <3>1, ReserveType
      <3>3. todo' \subseteq Job
        BY <2>1 DEF ReserveDue, TypeOK
      <3> QED
        BY <2>1, <3>2, <3>3 DEF TypeOK, RunTypes
    <2>3. CASE UNCHANGED <<row, runs, history>>
      BY <2>1, <2>3 DEF ReserveDue, TypeOK
    <2> QED
      BY <2>1, <2>2, <2>3 DEF ReserveDue
  <1>6. Launched => /\ phase' \in [Run -> Live \union {"free"}]
                    /\ tracked' \in [Job -> Run \union {None}]
                    /\ UNCHANGED <<of, by, outcome, read>>
    BY DEF Launched, Granted, Live, TypeOK
  <1>7. CASE CatchupLaunch
    BY <1>6, <1>7 DEF CatchupLaunch, TypeOK
  <1>8. CASE TickLaunch
    BY <1>6, <1>8 DEF TickLaunch, TypeOK
  <1>9. ASSUME NEW j \in Job, FastForward(j) PROVE TypeOK'
    <2>1. \A w \in Row, n, t \in Nat : [w EXCEPT !.next = n, !.updated = t] \in Row
      BY DEF Row
    <2>2. PICK n \in NextRuns(j, at) :
            row' = IF seen[j].kind = "every" /\ n # 0 /\ Unedited(j, seen[j])
                     THEN [row EXCEPT ![j] =
                             [@ EXCEPT !.next = n, !.updated = Later(at, seen[j].updated + 1)]]
                     ELSE row
      BY <1>9 DEF FastForward
    <2>3. n \in Nat
      BY DEF NextRuns, TypeOK
    <2>4. Later(at, seen[j].updated + 1) \in Nat
      <3>1. seen[j].updated \in Nat /\ at \in Nat
        BY RowFields DEF TypeOK
      <3>2. seen[j].updated + 1 \in Nat
        BY <3>1
      <3> QED
        BY <3>1, <3>2, LaterType
    <2>5. row' \in [Job -> Row]
      BY <2>1, <2>2, <2>3, <2>4 DEF TypeOK
    <2>6. seen' \in [Job -> Row]
      BY <1>9, NewRowType DEF FastForward, TypeOK
    <2> QED
      BY <1>9, <2>5, <2>6 DEF FastForward, TypeOK
  <1>10. CASE Started
    BY <1>10 DEF Started, TypeOK
  <1>11. CASE Collect
    <2>1. tracked' \in [Job -> Run \union {None}]
      BY <1>11 DEF Collect, TypeOK
    <2>2. todo' \subseteq Job /\ at' \in Nat /\ engine' \in {"idle", "ticking"}
      BY <1>11 DEF Collect, First, TypeOK
    <2> QED
      BY <1>11, <2>1, <2>2 DEF Collect, TypeOK
  <1> QED
    BY <1>1, <1>2, <1>3, <1>4, <1>5, <1>7, <1>8, <1>9, <1>10, <1>11 DEF PassStep

\* Every step of a run keeps the types.
LEMMA TypeRun ==
    ASSUME TypeOK, Decided, NEW r \in Run, RunStep(r) \/ WriteFails(r) \/ CallerLeaves(r)
    PROVE  TypeOK'
PROOF
  <1> USE SchedulerAssumption DEF runs, passes, history, others
  <1>1. CASE StartRun(r)
    <2>1. RunTypes'
      <3>1. CASE Goto(r, "executing") /\ UNCHANGED <<outcome, read>>
        BY <1>1, <3>1 DEF StartRun, Goto, TypeOK, RunTypes, Live
      <3>2. CASE ToFinalize(r, "missing")
        BY <1>1, <3>2, RunStepType DEF StartRun
      <3> QED
        BY <1>1, <3>1, <3>2 DEF StartRun
    <2> QED
      BY <1>1, <2>1 DEF StartRun, TypeOK, RunTypes
  <1>2. CASE HandlerEnds(r)
    <2>1. RunTypes'
      BY <1>2, RunStepType DEF HandlerEnds
    <2> QED
      BY <1>2, <2>1 DEF HandlerEnds, TypeOK, RunTypes
  <1>3. CASE Finalize(r)
    <2>1. UNCHANGED <<now, of, by, tracked, passes, manual, edit, history, others>>
      BY <1>3 DEF Finalize
    <2>2. CASE ~StillRead(r) /\ ToFinalize(r, outcome[r]) /\ UNCHANGED <<jobs, row>>
      <3>1. outcome[r] \in {"ok", "transient", "permanent", "missing"}
        BY <1>3 DEF Finalize, Decided, TypeOK
      <3>2. RunTypes'
        BY <2>1, <2>2, <3>1, RunStepType
      <3> QED
        BY <2>1, <2>2, <3>2 DEF TypeOK, RunTypes
    <2>3. CASE /\ StillRead(r)
               /\ Goto(r, "notifying")
               /\ outcome' = [outcome EXCEPT ![r] = "none"] /\ read' = [read EXCEPT ![r] = NoRow]
      <3>1. RunTypes'
        BY <2>1, <2>3, NewRowType DEF Goto, TypeOK, RunTypes, Live
      <3>2. jobs' \subseteq Job /\ row' \in [Job -> Row]
        <4>1. CASE jobs' = jobs \ {of[r]} /\ UNCHANGED row
          BY <4>1 DEF TypeOK
        <4>2. CASE /\ UNCHANGED jobs
                   /\ \E n \in NextRuns(of[r], now) :
                        row' = [row EXCEPT ![of[r]] = Finalized(read[r], outcome[r], n)]
          <5>1. PICK n \in NextRuns(of[r], now) :
                        row' = [row EXCEPT ![of[r]] = Finalized(read[r], outcome[r], n)]
            BY <4>2
          <5>2. n \in Nat /\ now \in Nat /\ read[r] \in Row
            BY DEF NextRuns, TypeOK
          <5>3. outcome[r] \in {"ok", "transient", "permanent", "missing"}
            BY <1>3 DEF Finalize, Decided, TypeOK
          <5> QED
            BY <4>2, <5>1, <5>2, <5>3, FinalizedType DEF TypeOK
        <4> QED
          BY <1>3, <2>3, <4>1, <4>2 DEF Finalize
      <3> QED
        BY <2>1, <3>1, <3>2 DEF TypeOK, RunTypes
    <2> QED
      BY <1>3, <2>2, <2>3 DEF Finalize
  <1>4. CASE Notify(r)
    BY <1>4, RunStepType DEF Notify, TypeOK, RunTypes
  <1>5. CASE Release(r)
    <2>1. row' \in [Job -> Row]
      BY <1>5, ClearedType DEF Release, TypeOK
    <2> QED
      BY <1>5, <2>1, RunStepType DEF Release, TypeOK, RunTypes
  <1>6. CASE WriteFails(r)
    BY <1>6, RunStepType DEF WriteFails, TypeOK, RunTypes
  <1>7. CASE CallerLeaves(r)
    BY <1>7, NewRowType DEF CallerLeaves, Goto, TypeOK, Live
  <1> QED
    BY <1>1, <1>2, <1>3, <1>4, <1>5, <1>6, <1>7 DEF RunStep

\* Manual runs, edits and the ends of the engine and of the process keep the types.
LEMMA TypeRest ==
    ASSUME TypeOK,
           \/ Stop \/ Restart
           \/ \E m \in Manual : RunJobNow(m) \/ ManualGivesUp(m) \/ \E j \in Job : ManualReserve(m, j)
           \/ \E e \in Editor : EditWrite(e) \/ \E j \in Job :
                AddJob(e, j) \/ DeleteJob(e, j) \/ \E c \in Command : EditRead(e, j, c)
    PROVE  TypeOK'
PROOF
  <1> USE SchedulerAssumption DEF runs, passes, history, others
  <1>1. CASE Stop
    <2>1. read' \in [Run -> Row]
      BY <1>1, NewRowType DEF Stop, TypeOK
    <2>2. phase' \in [Run -> Live \union {"free"}]
      BY <1>1 DEF Stop, TypeOK, Live
    <2>3. of' \in [Run -> Job \union {None}] /\ by' \in [Run -> Owner]
      BY <1>1 DEF Stop, TypeOK, Owner
    <2>4. outcome' \in [Run -> {"none", "ok", "transient", "permanent", "missing"}]
      BY <1>1 DEF Stop, TypeOK
    <2>5. tracked' \in [Job -> Run \union {None}]
      BY <1>1 DEF Stop
    <2>6. manual' \in [Manual -> {"idle", "asked", "owner", "done"}] /\ failed' \subseteq Run
      BY <1>1 DEF Stop, TypeOK
    <2> QED
      BY <1>1, <2>1, <2>2, <2>3, <2>4, <2>5, <2>6 DEF Stop, TypeOK
  <1>2. CASE Restart
    <2>1. read' \in [Run -> Row] /\ seen' \in [Job -> Row]
      BY <1>2, NewRowType DEF Restart
    <2>2. /\ phase' \in [Run -> Live \union {"free"}] /\ of' \in [Run -> Job \union {None}]
          /\ by' \in [Run -> Owner] /\ tracked' \in [Job -> Run \union {None}]
          /\ outcome' \in [Run -> {"none", "ok", "transient", "permanent", "missing"}]
      BY <1>2 DEF Restart, Owner
    <2>3. manual' \in [Manual -> {"idle", "asked", "owner", "done"}]
      BY <1>2 DEF Restart
    <2>4. edit' \in [Editor -> [pc : {"idle", "editing", "done"}, job : Job \union {None},
                                cmd : Command, row : Row]]
      <3>1. [op |-> "pause", time |-> 0] \in Command
        BY DEF Command
      <3>2. Idle \in [pc : {"idle", "editing", "done"}, job : Job \union {None},
                      cmd : Command, row : Row]
        BY <3>1, NewRowType DEF Idle
      <3>3. NoEdit \in [pc : {"idle", "editing", "done"}, job : Job \union {None},
                        cmd : Command, row : Row]
        BY <3>2 DEF NoEdit
      <3> QED
        BY <1>2, <3>2, <3>3 DEF Restart
    <2> QED
      BY <1>2, <2>1, <2>2, <2>3, <2>4 DEF Restart, TypeOK
  <1>3. ASSUME NEW m \in Manual, RunJobNow(m) \/ ManualGivesUp(m) PROVE TypeOK'
    BY <1>3 DEF RunJobNow, ManualGivesUp, TypeOK
  <1>4. ASSUME NEW m \in Manual, NEW j \in Job, ManualReserve(m, j) PROVE TypeOK'
    <2>1. PICK t \in asked[m] .. now, p \in {"executing", "releasing"} :
            Reserve(j, NewToken, m, t, p)
      BY <1>4 DEF ManualReserve
    <2>2. m \in Owner /\ p \in Live /\ t \in Nat
      BY DEF Owner, Live, TypeOK
    <2>3. /\ row' \in [Job -> Row] /\ RunTypes' /\ intent' = intent
          /\ wanted' \in [Job -> Nat] /\ failed' \subseteq Run /\ back' \subseteq Job
      BY <2>1, <2>2, ReserveType
    <2> QED
      BY <1>4, <2>3 DEF ManualReserve, TypeOK, RunTypes
  <1> DEFINE Edit == [pc : {"idle", "editing", "done"}, job : Job \union {None},
                      cmd : Command, row : Row]
  <1>5. edit \in [Editor -> Edit] /\ NoEdit \in Edit
    <2>1. [op |-> "pause", time |-> 0] \in Command
      BY DEF Command
    <2>2. Idle \in Edit
      BY <2>1, NewRowType DEF Idle
    <2> QED
      BY <2>2 DEF NoEdit, TypeOK
  <1>6. ASSUME NEW e \in Editor, NEW j \in Job, AddJob(e, j) PROVE TypeOK'
    <2>1. row' \in [Job -> Row]
      BY <1>6, NewRowType DEF AddJob, TypeOK
    <2> QED
      BY <1>5, <1>6, <2>1 DEF AddJob, TypeOK
  <1>7. ASSUME NEW e \in Editor, NEW j \in Job, DeleteJob(e, j) PROVE TypeOK'
    BY <1>5, <1>7 DEF DeleteJob, TypeOK
  <1>8. ASSUME NEW e \in Editor, NEW j \in Job, NEW c \in Command, EditRead(e, j, c) PROVE TypeOK'
    <2>1. edit' \in [Editor -> Edit]
      BY <1>5, <1>8 DEF EditRead, TypeOK
    <2> QED
      BY <1>8, <2>1 DEF EditRead, TypeOK
  <1>9. ASSUME NEW e \in Editor, EditWrite(e) PROVE TypeOK'
    <2>1. UNCHANGED <<now, jobs, runs, tracked, passes, manual, failed, back, others>>
      BY <1>9 DEF EditWrite
    <2>2. CASE edit' = [edit EXCEPT ![e] = NoEdit] /\ UNCHANGED <<row, intent, wanted>>
      BY <1>5, <2>1, <2>2 DEF TypeOK
    <2>3. CASE edit[e].job \in jobs /\ edit' = [edit EXCEPT ![e].row = row[edit[e].job]]
               /\ UNCHANGED <<row, intent, wanted>>
      <3>1. edit' \in [Editor -> Edit]
        BY <1>5, <2>3 DEF TypeOK
      <3> QED
        BY <2>1, <2>3, <3>1 DEF TypeOK
    <2>4. ASSUME NEW n \in NextRuns(edit[e].job, now), edit[e].job \in jobs,
                 edit' = [edit EXCEPT ![e] = NoEdit],
                 row' = [row EXCEPT ![edit[e].job] =
                           Edited(@, edit[e].row, Applied(edit[e].row, edit[e].cmd, n))],
                 intent' = [intent EXCEPT ![edit[e].job] = Asked(edit[e].cmd, @)],
                 wanted' = [wanted EXCEPT ![edit[e].job] = Owed(row[edit[e].job], edit[e].cmd, @)]
          PROVE  TypeOK'
      <3> DEFINE j == edit[e].job
      <3>1. j \in Job /\ edit[e].cmd \in Command /\ edit[e].row \in Row /\ n \in Nat /\ now \in Nat
        BY <1>5, <2>4 DEF TypeOK, NextRuns
      <3>2. Applied(edit[e].row, edit[e].cmd, n) \in Row /\ row[j] \in Row
        BY <3>1, AppliedType DEF TypeOK
      <3>5. row' \in [Job -> Row]
        <4>1. Edited(row[j], edit[e].row, Applied(edit[e].row, edit[e].cmd, n)) \in Row
          BY <3>1, <3>2, EditedParts
        <4> QED
          BY <2>4, <3>1, <4>1 DEF TypeOK
      <3>6. intent' \in [Job -> {"absent", "on", "off", "deleted"}]
        BY <2>4, <3>1 DEF TypeOK, Asked
      <3>7. wanted' \in [Job -> Nat]
        <4>1. edit[e].cmd.time \in Nat
          BY <3>1 DEF Command
        <4> QED
          BY <2>4, <3>1, <4>1 DEF TypeOK, Owed
      <3> QED
        BY <1>5, <2>1, <2>4, <3>5, <3>6, <3>7 DEF TypeOK
    <2> QED
      BY <1>9, <2>2, <2>3, <2>4 DEF EditWrite
  <1> QED
    BY <1>1, <1>2, <1>3, <1>4, <1>6, <1>7, <1>8, <1>9

\* The outcome is chosen before the row is read and kept until the write is over.
LEMMA DecidedNext == TypeOK /\ Decided /\ [Next]_vars => Decided'
PROOF
  <1> SUFFICES ASSUME TypeOK, Decided, [Next]_vars PROVE Decided'
    OBVIOUS
  <1> USE DEF Decided, TypeOK, runs, passes, history, others
  <1>1. ASSUME NEW j \in Job, NEW r, NEW t, NEW p \in {"granted", "executing", "releasing"},
               NEW owner, Reserve(j, r, owner, t, p)
        PROVE  Decided'
    BY <1>1 DEF Reserve
  <1>2. ASSUME NEW r \in Run, NEW o \in {"ok", "transient", "permanent", "missing"}, ToFinalize(r, o)
        PROVE  Decided'
    BY <1>2 DEF ToFinalize, Goto
  <1>3. ASSUME NEW r \in Run, EndRun(r) PROVE Decided'
    BY <1>3 DEF EndRun
  <1>4. CASE PassStep \/ Start \/ Tick
    <2>1. Launched => Decided'
      BY DEF Launched
    <2>2. ASSUME NEW j \in Job, CatchupReserve(j) \/ TickReserve(j) PROVE Decided'
      <3>1. CASE Reserve(j, NewToken, Timer, at, "granted")
        BY <1>1, <3>1
      <3>2. CASE UNCHANGED runs
        BY <3>2
      <3> QED
        BY <2>2, <3>1, <3>2 DEF CatchupReserve, TickReserve, ReserveDue
    <2> QED
      BY <1>4, <2>1, <2>2 DEF PassStep, Start, Tick, Collect, TickLaunch, CollectMissed,
           CatchupLaunch, Started, Recover, FastForward
  <1>5. ASSUME NEW r \in Run, RunStep(r) \/ WriteFails(r) \/ CallerLeaves(r) PROVE Decided'
    <2>1. CASE StartRun(r)
      BY <1>2, <2>1 DEF StartRun, Goto
    <2>2. CASE HandlerEnds(r)
      BY <1>2, <2>2 DEF HandlerEnds
    <2>3. CASE Finalize(r)
      <3>1. outcome[r] \in {"ok", "transient", "permanent", "missing"}
        BY <2>3 DEF Finalize
      <3> QED
        BY <1>2, <2>3, <3>1 DEF Finalize, Goto
    <2>4. CASE Notify(r) \/ Release(r) \/ WriteFails(r)
      BY <1>3, <2>4 DEF Notify, Release, WriteFails
    <2>5. CASE CallerLeaves(r)
      BY <2>5 DEF CallerLeaves, Goto
    <2> QED
      BY <1>5, <2>1, <2>2, <2>3, <2>4, <2>5 DEF RunStep
  <1>6. CASE Stop \/ Restart
    BY <1>6 DEF Stop, Restart
  <1>7. ASSUME NEW m \in Manual, RunJobNow(m) \/ ManualGivesUp(m) \/ \E j \in Job : ManualReserve(m, j)
        PROVE  Decided'
    <2>1. ASSUME NEW j \in Job, ManualReserve(m, j) PROVE Decided'
      <3>1. PICK t \in asked[m] .. now, p \in {"executing", "releasing"} :
              Reserve(j, NewToken, m, t, p)
        BY <2>1 DEF ManualReserve
      <3> QED
        BY <3>1 DEF Reserve
    <2> QED
      BY <1>7, <2>1 DEF RunJobNow, ManualGivesUp
  <1>8. ASSUME NEW e \in Editor,
               EditWrite(e) \/ \E j \in Job :
                 AddJob(e, j) \/ DeleteJob(e, j) \/ \E c \in Command : EditRead(e, j, c)
        PROVE  Decided'
    BY <1>8 DEF EditWrite, AddJob, DeleteJob, EditRead
  <1>9. CASE UNCHANGED vars
    BY <1>9 DEF vars
  <1> QED
    BY <1>4, <1>5, <1>6, <1>7, <1>8, <1>9 DEF Next

\* The scheduler keeps the types of its variables (CronJob, JobStatus).
THEOREM TypeCorrect == Spec => []TypeOK
PROOF
  <1>1. Init => TypeOK /\ Decided
    BY TypeInit DEF Init, Decided
  <1>2. TypeOK /\ Decided /\ [Next]_vars => TypeOK' /\ Decided'
    <2> SUFFICES ASSUME TypeOK, Decided, [Next]_vars PROVE TypeOK'
      BY DecidedNext
    <2>1. CASE UNCHANGED vars
      BY <2>1 DEF vars, runs, passes, history, others, TypeOK
    <2> QED
      BY <2>1, TypePass, TypeRun, TypeRest DEF Next
  <1> QED
    BY <1>1, <1>2, PTL DEF Spec

--------------------------------------------------------------------------------
(* The inductive invariant *)

\* The places in which a run has not read the row again since it was reserved.
Held == {"granted", "created", "executing"}

\* A live run belongs to a job that was added once, and until it reads the row again
\* the row names it, unless the job is deleted; afterwards it names it no more.
Tokens ==
    /\ \A r \in Run : IsLive(r) =>
         /\ of[r] \in Job /\ intent[of[r]] # "absent"
         /\ phase[r] \in Held /\ of[r] \in jobs => row[of[r]].token = r
         /\ phase[r] = "notifying" /\ of[r] \in jobs => row[of[r]].token # r
    /\ \A j \in jobs : intent[j] \notin {"absent", "deleted"}

\* Of the runs that may still start a handler, each job has one.
Single ==
    \A r, q \in Run : phase[r] \in Held /\ phase[q] \in Held /\ of[r] = of[q] => r = q

\* Before the end of the recovery only manual runs are alive.
EarlyRuns ==
    engine \in {"fresh", "recovering"} =>
        /\ \A r \in Run : IsLive(r) => by[r] \in Manual
        /\ \A j \in Job : tracked[j] = None

\* A manual call has at most one run, and is at work as long as the run.
Callers ==
    /\ \A r \in Run : IsLive(r) => by[r] \in Manual \union {Timer}
                                   /\ (by[r] \in Manual => manual[by[r]] = "owner")
    /\ \A r, q \in Run : IsLive(r) /\ IsLive(q) /\ by[r] = by[q] /\ by[r] \in Manual => r = q

\* A row that names a manual call at work as its owner names its run as well.
NamesOwner(w, j) ==
    w.owner \in Manual =>
        /\ manual[w.owner] \in {"owner", "done"}
        /\ manual[w.owner] = "owner" =>
             w.token \in Run /\ IsLive(w.token) /\ of[w.token] = j /\ by[w.token] = w.owner

Owners ==
    /\ \A j \in Job : NamesOwner(row[j], j) /\ NamesOwner(seen[j], j)
    /\ \A r \in Run : IsLive(r) /\ row[of[r]].token = r => row[of[r]].owner = by[r]

\* The reservation of a row has somebody who gives it back.
Kept(j) ==
    row[j].token # None =>
        \/ IsLive(row[j].token) /\ of[row[j].token] = j
        \/ row[j].token \in failed

\* The recovery has dealt with a job, or still has the row as it saw it to deal with.
Reservations ==
    /\ engine \in {"catching", "forwarding", "idle", "ticking"} => \A j \in jobs : Kept(j)
    /\ engine = "recovering" =>
         \A j \in jobs : Kept(j) \/ (j \in todo /\ row[j].token = seen[j].token)

\* The row a finalizer has read is older than the row, or the same.
Snapshots ==
    \A r \in Run : phase[r] = "writing" /\ Holds(r) =>
        \/ read[r].updated < row[of[r]].updated
        \/ read[r] = row[of[r]]

Safety == Tokens /\ Single /\ EarlyRuns /\ Callers /\ Owners

\* What a row says of its reservation.
SameReservation(j) == row'[j].token = row[j].token /\ row'[j].owner = row[j].owner
Freed(j) == row'[j].token = None /\ row'[j].owner = None

\* At first nothing runs and nothing is reserved.
LEMMA SafetyInit == Init => Safety
PROOF
  <1> SUFFICES ASSUME Init PROVE Safety
    OBVIOUS
  <1>1. \A j \in Job : /\ row[j].owner = None /\ row[j].token = None
                       /\ seen[j].owner = None /\ seen[j].token = None
    BY DEF Init, NewRow, NoRow
  <1>2. \A r \in Run : phase[r] = "free" /\ ~IsLive(r) /\ phase[r] \notin Held
    BY DEF Init, IsLive, Live, Held
  <1>3. None \notin Manual /\ \A j \in Job : tracked[j] = None
    BY SchedulerAssumption DEF Init
  <1>4. Tokens
    BY <1>2 DEF Init, Tokens
  <1> QED
    BY <1>1, <1>2, <1>3, <1>4 DEF Safety, Single, EarlyRuns, Callers, Owners, NamesOwner

\* A row is given up when no run of its job may still start, by the last write of the
\* run it names if that is alive.
GivesUp(j) ==
    /\ Freed(j)
    /\ \A r \in Run : phase'[r] \in Held => of[r] # j
    /\ \A r \in Run : row[j].token = r /\ of[r] = j /\ IsLive(r) =>
         phase[r] = "writing" /\ phase'[r] = "notifying"

\* Steps by which runs only go on: no run begins, ends or goes back, and a row changes
\* its reservation only by giving it up.
GoesOn ==
    /\ UNCHANGED <<of, by, manual>>
    /\ \A r \in Run : /\ IsLive(r)' <=> IsLive(r)
                      /\ phase'[r] \in Held => phase[r] \in Held
                      /\ phase'[r] = "notifying" /\ of[r] \in jobs' => row'[of[r]].token # r
    /\ \A j \in Job : /\ SameReservation(j) \/ GivesUp(j)
                      /\ seen'[j] \in {seen[j], row[j], NoRow}
                      /\ intent[j] # "absent" => intent'[j] # "absent"
    /\ \A j \in jobs' : intent'[j] \notin {"absent", "deleted"}
    /\ jobs' \subseteq jobs

\* Such a step is safe.
LEMMA SafetySteps ==
    ASSUME TypeOK, Safety, GoesOn, EarlyRuns'
    PROVE  Safety'
PROOF
  <1> USE DEF GoesOn, GivesUp
  <1>1. None \notin Manual /\ None \notin Run /\ NoRow.owner = None
    BY SchedulerAssumption DEF NoRow
  <1>2. Tokens'
    <2>1. ASSUME NEW r \in Run, IsLive(r)'
          PROVE  /\ of'[r] \in Job /\ intent'[of'[r]] # "absent"
                 /\ phase'[r] \in Held /\ of'[r] \in jobs' => row'[of'[r]].token = r
                 /\ phase'[r] = "notifying" /\ of'[r] \in jobs' => row'[of'[r]].token # r
      <3>1. of'[r] = of[r] /\ IsLive(r) /\ of[r] \in Job
        BY <2>1 DEF Safety, Tokens
      <3>2. phase'[r] \in Held /\ of'[r] \in jobs' => row'[of'[r]].token = r
        BY <3>1 DEF Safety, Tokens, SameReservation
      <3> QED
        BY <3>1, <3>2 DEF Safety, Tokens
    <2> QED
      BY <2>1 DEF Tokens
  <1>3. Single' /\ Callers'
    BY DEF Safety, Single, Callers
  <1>4. Owners'
    <2>1. ASSUME NEW j \in Job PROVE NamesOwner(row[j], j)' /\ NamesOwner(seen[j], j)'
      <3>1. NamesOwner(row[j], j) /\ NamesOwner(seen[j], j)
        BY DEF Safety, Owners
      <3>2. NamesOwner(row[j], j)'
        BY <1>1, <3>1 DEF NamesOwner, SameReservation, Freed
      <3>3. CASE seen'[j] = seen[j]
        BY <3>1, <3>2, <3>3 DEF NamesOwner
      <3>4. CASE seen'[j] = row[j]
        BY <3>1, <3>2, <3>4 DEF NamesOwner
      <3>5. CASE seen'[j] = NoRow
        BY <1>1, <3>2, <3>5 DEF NamesOwner
      <3> QED
        BY <3>3, <3>4, <3>5
    <2>2. ASSUME NEW r \in Run, IsLive(r)', row'[of'[r]].token = r PROVE row'[of'[r]].owner = by'[r]
      <3>1. of'[r] = of[r] /\ by'[r] = by[r] /\ IsLive(r) /\ of[r] \in Job
        BY <2>2 DEF Safety, Tokens
      <3> QED
        BY <1>1, <2>2, <3>1 DEF Safety, Owners, SameReservation, Freed
    <2> QED
      BY <2>1, <2>2 DEF Owners
  <1> QED
    BY <1>2, <1>3, <1>4 DEF Safety

\* The end of a run, which may give up the reservation that names it.
LEMMA SafetyEnds ==
    ASSUME TypeOK, Safety, NEW r \in Run, IsLive(r), EndRun(r),
           UNCHANGED <<jobs, seen, intent, tracked, engine>>,
           \A j \in Job : SameReservation(j) \/ (Freed(j) /\ row[j].token = r /\ of[r] = j)
    PROVE  Safety'
PROOF
  <1> USE SchedulerAssumption
  <1>1. /\ ~IsLive(r)' /\ phase'[r] \notin Held
        /\ \A q \in Run \ {r} : /\ IsLive(q)' <=> IsLive(q)
                                /\ phase'[q] = phase[q] /\ of'[q] = of[q] /\ by'[q] = by[q]
    BY DEF EndRun, TypeOK, IsLive, Live, Held
  <1>2. Tokens'
    <2>1. ASSUME NEW q \in Run, IsLive(q)'
          PROVE  /\ of'[q] \in Job /\ intent'[of'[q]] # "absent"
                 /\ phase'[q] \in Held /\ of'[q] \in jobs' => row'[of'[q]].token = q
                 /\ phase'[q] = "notifying" /\ of'[q] \in jobs' => row'[of'[q]].token # q
      <3>1. q # r /\ IsLive(q) /\ of'[q] = of[q] /\ phase'[q] = phase[q] /\ of[q] \in Job
        BY <1>1, <2>1 DEF Safety, Tokens
      <3>2. /\ phase[q] \in Held /\ of[q] \in jobs => row[of[q]].token = q
            /\ phase[q] = "notifying" /\ of[q] \in jobs => row[of[q]].token # q
        BY <3>1 DEF Safety, Tokens
      <3>3. SameReservation(of[q]) \/ (row[of[q]].token = r /\ row'[of[q]].token = None)
        BY <3>1 DEF Freed
      <3> QED
        BY <3>1, <3>2, <3>3 DEF Safety, Tokens, SameReservation
    <2> QED
      BY <2>1 DEF Safety, Tokens
  <1>3. Single'
    BY <1>1 DEF Safety, Single
  <1>4. EarlyRuns'
    BY <1>1 DEF Safety, EarlyRuns
  <1>5. Callers'
    BY <1>1 DEF Safety, Callers, EndRun, TypeOK
  <1>6. ASSUME NEW w, NEW j \in Job, NamesOwner(w, j)
        PROVE  w.owner \in Manual =>
                 /\ manual'[w.owner] \in {"owner", "done"}
                 /\ manual'[w.owner] = "owner" =>
                      /\ w.token \in Run /\ IsLive(w.token)' /\ of'[w.token] = j
                      /\ by'[w.token] = w.owner
    BY <1>1, <1>6 DEF NamesOwner, EndRun, TypeOK
  <1>7. Owners'
    <2>1. ASSUME NEW j \in Job PROVE NamesOwner(row[j], j)' /\ NamesOwner(seen[j], j)'
      <3>1. NamesOwner(row[j], j) /\ NamesOwner(seen[j], j)
        BY DEF Safety, Owners
      <3>2. NamesOwner(seen[j], j)'
        BY <1>6, <3>1 DEF NamesOwner
      <3>3. CASE SameReservation(j)
        BY <1>6, <3>1, <3>2, <3>3 DEF NamesOwner, SameReservation
      <3>4. CASE Freed(j)
        BY <3>2, <3>4 DEF NamesOwner, Freed
      <3> QED
        BY <3>3, <3>4
    <2>2. ASSUME NEW q \in Run, IsLive(q)', row'[of'[q]].token = q PROVE row'[of'[q]].owner = by'[q]
      <3>1. q # r /\ IsLive(q) /\ of'[q] = of[q] /\ by'[q] = by[q] /\ of[q] \in Job
        BY <1>1, <2>2 DEF Safety, Tokens
      <3> QED
        BY <2>2, <3>1 DEF Safety, Owners, SameReservation, Freed
    <2> QED
      BY <2>1, <2>2 DEF Owners
  <1> QED
    BY <1>2, <1>3, <1>4, <1>5, <1>7 DEF Safety

\* A step that reserves a row.
Reserves(owner) ==
    \E j \in jobs, t \in Nat, p \in {"granted", "executing", "releasing"} :
        Reservable(j, t) /\ Reserve(j, NewToken, owner, t, p)

\* A reservation with a fresh token, by the timer after the recovery or by a manual call.
LEMMA SafetyReserve ==
    ASSUME TypeOK, Safety, NEW j \in Job, NEW owner \in Manual \union {Timer}, NEW t,
           NEW p \in {"granted", "executing", "releasing"},
           j \in jobs, row[j].token = None, Reserve(j, NewToken, owner, t, p),
           UNCHANGED <<jobs, seen, tracked, engine>>,
           \/ owner = Timer /\ engine \notin {"fresh", "recovering"} /\ manual' = manual
           \/ owner \in Manual /\ manual[owner] = "asked"
                /\ manual'[owner] = "owner" /\ \A n \in Manual \ {owner} : manual'[n] = manual[n]
    PROVE  Safety'
PROOF
  <1> USE SchedulerAssumption
  <1>1. PICK r \in Run : r = NewToken
    BY DEF Reserve
  <1>2. /\ Unused(r) /\ intent' = intent
        /\ row' = [row EXCEPT ![j] =
                     [row[j] EXCEPT !.status = "running", !.token = r, !.owner = owner,
                                    !.sched = row[j].next, !.last = t, !.updated = t]]
        /\ phase' = [phase EXCEPT ![r] = p]
        /\ of' = [of EXCEPT ![r] = j] /\ by' = [by EXCEPT ![r] = owner]
    BY <1>1 DEF Reserve
  <1>3. /\ ~IsLive(r) /\ IsLive(r)' /\ phase'[r] = p /\ of'[r] = j /\ by'[r] = owner
        /\ phase'[r] # "notifying"
        /\ \A q \in Run \ {r} : /\ IsLive(q)' <=> IsLive(q)
                                /\ phase'[q] = phase[q] /\ of'[q] = of[q] /\ by'[q] = by[q]
    BY <1>2 DEF TypeOK, Unused, IsLive, Live
  <1>4. /\ row'[j].token = r /\ row'[j].owner = owner
        /\ \A i \in Job \ {j} : row'[i] = row[i]
        /\ \A i \in Job : row[i].token # r /\ seen[i].token # r
    <2>1. row[j] \in Row
      BY DEF TypeOK
    <2>2. \A w \in Row, k \in Run, n, u \in Nat : \A a :
            LET v == [w EXCEPT !.status = "running", !.token = k, !.owner = a,
                               !.sched = n, !.last = t, !.updated = t]
            IN  v.token = k /\ v.owner = a
      BY DEF Row
    <2>3. row[j].next \in Nat
      BY <2>1, RowFields
    <2> QED
      BY <1>2, <2>1, <2>2, <2>3 DEF TypeOK, Unused
  <1>5. \A q \in Run : phase[q] \in Held => of[q] # j
    <2>1. Held \subseteq Live
      BY DEF Held, Live
    <2> QED
      BY <2>1 DEF Safety, Tokens, IsLive
  <1>6. Tokens'
    <2>1. ASSUME NEW q \in Run, IsLive(q)'
          PROVE  /\ of'[q] \in Job /\ intent'[of'[q]] # "absent"
                 /\ phase'[q] \in Held /\ of'[q] \in jobs' => row'[of'[q]].token = q
                 /\ phase'[q] = "notifying" /\ of'[q] \in jobs' => row'[of'[q]].token # q
      <3>1. CASE q = r
        BY <1>2, <1>3, <1>4, <3>1 DEF Safety, Tokens
      <3>2. CASE q # r
        <4>1. IsLive(q) /\ of'[q] = of[q] /\ phase'[q] = phase[q]
          BY <1>3, <2>1, <3>2
        <4>2. /\ of[q] \in Job /\ intent[of[q]] # "absent"
              /\ phase[q] \in Held /\ of[q] \in jobs => row[of[q]].token = q
              /\ phase[q] = "notifying" /\ of[q] \in jobs => row[of[q]].token # q
          BY <4>1 DEF Safety, Tokens
        <4>3. CASE of[q] = j
          BY <1>2, <1>4, <1>5, <3>2, <4>1, <4>2, <4>3
        <4>4. CASE of[q] # j
          BY <1>2, <1>4, <4>1, <4>2, <4>4
        <4> QED
          BY <4>3, <4>4
      <3> QED
        BY <3>1, <3>2
    <2> QED
      BY <1>2, <2>1 DEF Safety, Tokens
  <1>7. Single'
    BY <1>3, <1>5 DEF Safety, Single
  <1>8. EarlyRuns'
    BY <1>3 DEF Safety, EarlyRuns
  <1>9. owner \in Manual => \A q \in Run : IsLive(q) => by[q] # owner
    BY DEF Safety, Callers
  <1>10. Callers'
    <2>1. \A q \in Run \ {r} : IsLive(q)' =>
             /\ IsLive(q) /\ by'[q] = by[q] /\ by[q] \in Manual \union {Timer}
             /\ by[q] \in Manual => by[q] # owner /\ manual[by[q]] = "owner"
      BY <1>3, <1>9 DEF Safety, Callers
    <2>2. \A q \in Run : IsLive(q)' => by'[q] \in Manual \union {Timer}
                                      /\ (by'[q] \in Manual => manual'[by'[q]] = "owner")
      BY <1>3, <2>1
    <2>3. \A q \in Run \ {r} : IsLive(q)' /\ by'[q] \in Manual => by'[q] # by'[r]
      BY <1>3, <2>1
    <2>4. ASSUME NEW q \in Run, NEW s \in Run, IsLive(q)', IsLive(s)', by'[q] = by'[s],
                 by'[q] \in Manual
          PROVE  q = s
      <3>1. CASE q = r \/ s = r
        BY <2>3, <2>4, <3>1
      <3>2. CASE q # r /\ s # r
        <4>1. IsLive(q) /\ IsLive(s) /\ by[q] = by[s] /\ by[q] \in Manual
          BY <2>1, <2>4, <3>2
        <4> QED
          BY <4>1 DEF Safety, Callers
      <3> QED
        BY <3>1, <3>2
    <2> QED
      BY <2>2, <2>4 DEF Callers
  <1>11. ASSUME NEW w, NEW i \in Job, w.token # r, NamesOwner(w, i)
         PROVE  w.owner \in Manual =>
                  /\ manual'[w.owner] \in {"owner", "done"}
                  /\ manual'[w.owner] = "owner" =>
                       /\ w.token \in Run /\ IsLive(w.token)' /\ of'[w.token] = i
                       /\ by'[w.token] = w.owner
    BY <1>3, <1>11 DEF NamesOwner, TypeOK
  <1>12. Owners'
    <2>1. ASSUME NEW i \in Job PROVE NamesOwner(row[i], i)' /\ NamesOwner(seen[i], i)'
      <3>1. NamesOwner(row[i], i) /\ NamesOwner(seen[i], i)
        BY DEF Safety, Owners
      <3>2. NamesOwner(seen[i], i)'
        BY <1>4, <1>11, <3>1 DEF NamesOwner
      <3>3. CASE i = j
        <4>1. row'[i].owner \in Manual => manual'[owner] = "owner" /\ owner \in Manual
          BY <1>4, <3>3 DEF TypeOK
        <4> QED
          BY <1>3, <1>4, <3>2, <3>3, <4>1 DEF NamesOwner
      <3>4. CASE i # j
        <4>1. row'[i] = row[i] /\ row[i].token # r
          BY <1>4, <3>4
        <4> QED
          BY <1>11, <3>1, <3>2, <4>1 DEF NamesOwner
      <3> QED
        BY <3>3, <3>4
    <2>2. ASSUME NEW q \in Run, IsLive(q)', row'[of'[q]].token = q PROVE row'[of'[q]].owner = by'[q]
      <3>1. CASE q = r
        BY <1>3, <1>4, <3>1
      <3>2. CASE q # r
        <4>1. IsLive(q) /\ of'[q] = of[q] /\ by'[q] = by[q] /\ of[q] \in Job
          BY <1>3, <2>2, <3>2 DEF Safety, Tokens
        <4>2. of[q] # j
          BY <1>4, <2>2, <3>2, <4>1
        <4> QED
          BY <1>4, <2>2, <4>1, <4>2 DEF Safety, Owners
      <3> QED
        BY <3>1, <3>2
    <2> QED
      BY <2>1, <2>2 DEF Owners
  <1> QED
    BY <1>6, <1>7, <1>8, <1>10, <1>12 DEF Safety

\* A step that leaves the runs and the rows alone.
LEMMA StillSteps ==
    ASSUME Safety, UNCHANGED <<jobs, row, of, by, phase, manual, intent>>,
           \A j \in Job : seen'[j] \in {seen[j], row[j], NoRow}
    PROVE  GoesOn
PROOF
  <1>1. \A j \in Job : SameReservation(j)
    BY DEF SameReservation
  <1> QED
    BY <1>1 DEF GoesOn, IsLive, Safety, Tokens, Held, Live

\* The passes of the start and of the timer loop are safe.
LEMMA SafetyPass ==
    ASSUME TypeOK, Safety, Start \/ Tick \/ PassStep
    PROVE  Safety' /\ (GoesOn \/ Reserves(Timer))
PROOF
  <1> USE SchedulerAssumption DEF runs, passes, history, others
  <1>1. Tokens /\ EarlyRuns
    BY DEF Safety
  <1>2. CASE Start
    <2>1. GoesOn
      BY StillSteps, <1>2 DEF Start
    <2>2. EarlyRuns'
      BY <1>1, <1>2 DEF Start, EarlyRuns, IsLive
    <2> QED
      BY <2>1, <2>2, SafetySteps
  <1>3. CASE Tick
    <2>1. GoesOn
      BY StillSteps, <1>3 DEF Tick
    <2>2. EarlyRuns'
      BY <1>1, <1>3 DEF Tick, EarlyRuns, IsLive
    <2> QED
      BY <2>1, <2>2, SafetySteps
  <1>4. ASSUME NEW j \in Job, Recover(j) PROVE Safety' /\ GoesOn
    <2>1. EarlyRuns'
      BY <1>1, <1>4 DEF Recover, EarlyRuns, IsLive
    <2>2. \A i \in Job : seen'[i] \in {seen[i], row[i], NoRow}
      BY <1>4 DEF Recover, TypeOK
    <2>3. CASE row' = row
      BY <1>4, <2>1, <2>2, <2>3, StillSteps, SafetySteps DEF Recover
    <2>4. CASE /\ ~ActiveOwner(j, seen[j]) /\ j \in jobs
               /\ row[j].token = seen[j].token /\ row[j].owner = seen[j].owner
               /\ row' = [row EXCEPT ![j] = Released(row[j], at)]
      <3>1. \A r \in Run : of[r] = j => phase[r] \notin Held /\ ~(IsLive(r) /\ row[j].token = r)
        <4> SUFFICES ASSUME NEW r \in Run, IsLive(r), of[r] = j, row[j].token = r PROVE FALSE
          BY <1>1, <2>4 DEF Tokens, IsLive, Held, Live
        <4>1. IsLive(r) /\ row[j].token = r
          OBVIOUS
        <4>2. by[r] \in Manual /\ manual[by[r]] = "owner" /\ row[j].owner = by[r]
          BY <1>1, <1>4, <4>1 DEF EarlyRuns, Safety, Callers, Owners, Recover
        <4> QED
          BY <2>4, <4>2 DEF ActiveOwner
      <3>2. Freed(j) /\ \A i \in Job \ {j} : row'[i] = row[i]
        <4>1. \A w \in Row : \A s, t : [Cleared(w) EXCEPT !.status = s, !.updated = t].token = None
                                /\ [Cleared(w) EXCEPT !.status = s, !.updated = t].owner = None
          BY DEF Cleared, Row
        <4>2. row[j] \in Row
          BY DEF TypeOK
        <4>3. Released(row[j], at).token = None /\ Released(row[j], at).owner = None
          BY <4>1, <4>2 DEF Released
        <4> QED
          BY <2>4, <4>3 DEF TypeOK, Freed
      <3>3. GoesOn
        <4>1. \A i \in Job : SameReservation(i) \/ (i = j /\ Freed(i))
          BY <3>2 DEF SameReservation
        <4>2. UNCHANGED <<jobs, of, by, phase, manual, intent>>
          BY <1>4 DEF Recover
        <4>3. \A r \in Run : phase'[r] = "notifying" /\ of[r] \in jobs' => row'[of[r]].token # r
          BY <1>1, <3>2, <4>2 DEF Tokens, Freed, IsLive, Live
        <4> QED
          BY <1>1, <2>2, <3>1, <4>1, <4>2, <4>3 DEF GoesOn, GivesUp, Tokens, IsLive
      <3> QED
        BY <2>1, <3>3, SafetySteps
    <2> QED
      BY <1>4, <2>3, <2>4 DEF Recover
  <1>5. CASE CollectMissed
    <2>1. GoesOn
      BY StillSteps, <1>5 DEF CollectMissed
    <2>2. EarlyRuns'
      BY <1>5 DEF CollectMissed, EarlyRuns
    <2> QED
      BY <2>1, <2>2, SafetySteps
  <1>6. ASSUME NEW j \in Job, CatchupReserve(j) \/ TickReserve(j)
        PROVE  Safety' /\ (GoesOn \/ Reserves(Timer))
    <2>1. /\ engine \in {"catching", "ticking"} /\ ReserveDue(j)
          /\ UNCHANGED <<jobs, tracked, engine, seen, manual>>
      BY <1>6 DEF CatchupReserve, TickReserve
    <2>2. CASE Reservable(j, at) /\ Reserve(j, NewToken, Timer, at, "granted")
      BY <2>1, <2>2, SafetyReserve DEF Reservable, Reserves, TypeOK
    <2>3. CASE UNCHANGED <<row, runs, history>>
      <3>1. GoesOn
        BY StillSteps, <2>1, <2>3
      <3>2. EarlyRuns'
        BY <2>1 DEF EarlyRuns
      <3> QED
        BY <3>1, <3>2, SafetySteps
    <2> QED
      BY <2>1, <2>2, <2>3 DEF ReserveDue
  <1>7. CASE CatchupLaunch \/ TickLaunch
    <2>1. /\ Launched /\ UNCHANGED <<jobs, row, seen, manual, intent>>
          /\ engine' \in {"forwarding", "ticking", "idle"}
      BY <1>7 DEF CatchupLaunch, TickLaunch
    <2>2. \A r \in Run : phase'[r] = phase[r] \/ (phase[r] = "granted" /\ phase'[r] = "created")
      BY <2>1 DEF Launched, Granted
    <2>3. \A j \in Job : SameReservation(j)
      BY <2>1 DEF SameReservation
    <2>4. GoesOn
      BY <1>1, <2>1, <2>2, <2>3 DEF GoesOn, Launched, Tokens, IsLive, Live, Held
    <2>5. EarlyRuns'
      BY <2>1 DEF EarlyRuns
    <2> QED
      BY <2>4, <2>5, SafetySteps
  <1>8. ASSUME NEW j \in Job, FastForward(j) PROVE Safety' /\ GoesOn
    <2>1. \A i \in Job : SameReservation(i)
      <3>1. \A w \in Row : \A n, t : /\ [w EXCEPT !.next = n, !.updated = t].token = w.token
                                     /\ [w EXCEPT !.next = n, !.updated = t].owner = w.owner
        BY DEF Row
      <3> QED
        BY <1>8, <3>1 DEF FastForward, SameReservation, TypeOK
    <2>2. \A i \in Job : row'[i].token = row[i].token
      BY <2>1 DEF SameReservation
    <2>3. /\ UNCHANGED <<jobs, of, by, phase, manual, intent>>
          /\ \A i \in Job : seen'[i] \in {seen[i], NoRow}
      BY <1>8 DEF FastForward, TypeOK
    <2>4. GoesOn
      BY <1>1, <2>1, <2>2, <2>3 DEF GoesOn, Tokens, IsLive, Live
    <2>5. EarlyRuns'
      BY <1>8 DEF FastForward, EarlyRuns
    <2> QED
      BY <2>4, <2>5, SafetySteps
  <1>9. CASE Started \/ Collect
    <2>1. GoesOn
      BY StillSteps, <1>9 DEF Started, Collect
    <2>2. EarlyRuns'
      BY <1>9 DEF Started, Collect, EarlyRuns
    <2> QED
      BY <2>1, <2>2, SafetySteps
  <1> QED
    BY <1>2, <1>3, <1>4, <1>5, <1>6, <1>7, <1>8, <1>9 DEF PassStep

\* The steps of a run are safe.
LEMMA SafetyRun ==
    ASSUME TypeOK, Decided, Safety, NEW r \in Run, RunStep(r) \/ WriteFails(r) \/ CallerLeaves(r)
    PROVE  Safety' /\ (GoesOn \/ EndRun(r))
PROOF
  <1> USE SchedulerAssumption DEF runs, passes, history, others
  <1>1. ASSUME UNCHANGED <<engine, tracked, by>>, \A q \in Run : IsLive(q)' <=> IsLive(q)
        PROVE  EarlyRuns'
    BY <1>1 DEF Safety, EarlyRuns
  <1>2. ASSUME NEW p \in {"executing", "writing", "notifying", "releasing"}, Goto(r, p), IsLive(r),
               UNCHANGED <<of, by, manual, seen, intent, engine, tracked, row, jobs>>,
               p = "executing" => phase[r] \in Held,
               p = "notifying" => ~Holds(r)
        PROVE  Safety' /\ GoesOn
    <2>1. \A q \in Run : IsLive(q)' <=> IsLive(q)
      BY <1>2 DEF TypeOK, Goto, IsLive, Live
    <2>2. \A j \in Job : SameReservation(j)
      BY <1>2 DEF SameReservation
    <2>3. /\ \A q \in Run : phase'[q] \in Held => phase[q] \in Held
          /\ \A q \in Run : phase'[q] = "notifying" /\ of[q] \in jobs' => row'[of[q]].token # q
      <3>1. phase' = [phase EXCEPT ![r] = p]
        BY <1>2 DEF Goto
      <3>2. \A q \in Run \ {r} : phase'[q] = phase[q]
        BY <3>1 DEF TypeOK
      <3>3. phase'[r] = p
        BY <3>1 DEF TypeOK
      <3> QED
        BY <1>2, <3>2, <3>3 DEF Safety, Tokens, Held, Holds, IsLive, Live
    <2>4. GoesOn
      BY <1>2, <2>1, <2>2, <2>3 DEF GoesOn, Safety, Tokens
    <2> QED
      BY <1>1, <1>2, <2>1, <2>4, SafetySteps
  <1>3. ASSUME NEW o, ToFinalize(r, o), IsLive(r),
               UNCHANGED <<of, by, manual, seen, intent, engine, tracked, row, jobs>>
        PROVE  Safety' /\ GoesOn
    BY <1>2, <1>3 DEF ToFinalize
  <1>4. CASE StartRun(r)
    BY <1>2, <1>3, <1>4 DEF StartRun, IsLive, Live, Held
  <1>5. CASE HandlerEnds(r)
    BY <1>3, <1>5 DEF HandlerEnds, IsLive, Live
  <1>6. CASE CallerLeaves(r)
    <2>1. IsLive(r)
      BY <1>6 DEF CallerLeaves, IsLive
    <2>2. UNCHANGED <<of, by, manual, seen, intent, engine, tracked, row, jobs>>
      BY <1>6 DEF CallerLeaves
    <2> QED
      BY <1>2, <1>6, <2>1, <2>2 DEF CallerLeaves
  <1>7. CASE Finalize(r)
    <2>1. /\ phase[r] = "writing" /\ IsLive(r)
          /\ UNCHANGED <<of, by, manual, seen, intent, engine, tracked>>
      BY <1>7 DEF Finalize, IsLive, Live
    <2>2. CASE ToFinalize(r, outcome[r]) /\ UNCHANGED <<jobs, row>>
      BY <1>3, <2>1, <2>2
    <2>3. CASE StillRead(r) /\ Goto(r, "notifying") /\ ~(ToFinalize(r, outcome[r]) /\ UNCHANGED <<jobs, row>>)
      <3> DEFINE j == of[r]
      <3>1. j \in Job /\ j \in jobs /\ row[j].token = r
        BY <2>1, <2>3 DEF StillRead, Holds, Safety, Tokens
      <3>2. /\ phase'[r] = "notifying" /\ \A q \in Run \ {r} : phase'[q] = phase[q]
            /\ \A q \in Run : IsLive(q)' <=> IsLive(q)
        BY <2>1, <2>3 DEF Goto, TypeOK, IsLive, Live
      <3>3. \A q \in Run : phase'[q] \in Held => of[q] # j
        BY <2>1, <3>1, <3>2 DEF Safety, Tokens, Held, IsLive, Live
      <3>4. /\ jobs' \subseteq jobs
            /\ \A i \in Job : SameReservation(i) \/ (i = j /\ Freed(i))
            /\ row' = row => j \notin jobs'
            /\ row' # row => Freed(j)
        <4>1. CASE jobs' = jobs \ {j} /\ row' = row
          BY <4>1 DEF SameReservation
        <4>2. ASSUME jobs' = jobs, NEW n \in NextRuns(j, now),
                     row' = [row EXCEPT ![j] = Finalized(read[r], outcome[r], n)]
              PROVE  /\ \A i \in Job \ {j} : SameReservation(i)
                     /\ Freed(j)
          <5>1. /\ read[r] \in Row /\ now \in Nat /\ n \in Nat
                /\ outcome[r] \in {"ok", "transient", "permanent", "missing"}
            BY <2>1, <4>2 DEF TypeOK, Decided, NextRuns
          <5>2. Freed(j)
            BY <3>1, <4>2, <5>1, FinalizedFree DEF TypeOK, Freed
          <5> QED
            BY <4>2, <5>2 DEF TypeOK, SameReservation
        <4>3. CASE /\ jobs' = jobs
                   /\ \E n \in NextRuns(j, now) :
                        row' = [row EXCEPT ![j] = Finalized(read[r], outcome[r], n)]
          <5>1. Freed(j) /\ \A i \in Job \ {j} : SameReservation(i)
            BY <4>2, <4>3
          <5>2. row' # row
            BY <3>1, <5>1 DEF Freed
          <5> QED
            BY <4>3, <5>1, <5>2
        <4> QED
          BY <1>7, <2>3, <4>1, <4>3 DEF Finalize
      <3>5. \A q \in Run : phase'[q] = "notifying" /\ of[q] \in jobs' => row'[of[q]].token # q
        <4> SUFFICES ASSUME NEW q \in Run, phase'[q] = "notifying", of[q] \in jobs'
                     PROVE  row'[of[q]].token # q
          OBVIOUS
        <4>1. CASE q = r
          BY <3>4, <4>1 DEF Freed
        <4>2. CASE q # r
          <5>1. phase[q] = "notifying" /\ IsLive(q) /\ of[q] \in jobs /\ of[q] \in Job
            BY <3>2, <3>4, <4>2 DEF IsLive, Live, TypeOK
          <5>2. row[of[q]].token # q
            BY <5>1 DEF Safety, Tokens
          <5> QED
            BY <3>4, <5>1, <5>2 DEF SameReservation, Freed
        <4> QED
          BY <4>1, <4>2
      <3>6. GoesOn
        BY <2>1, <3>1, <3>2, <3>3, <3>4, <3>5 DEF GoesOn, GivesUp, Safety, Tokens, Held
      <3> QED
        BY <1>1, <2>1, <3>2, <3>6, SafetySteps
    <2> QED
      BY <1>7, <2>2, <2>3 DEF Finalize
  <1>8. CASE Notify(r) \/ Release(r) \/ WriteFails(r)
    <2>1. /\ IsLive(r) /\ EndRun(r) /\ UNCHANGED <<jobs, seen, intent, tracked, engine>>
      BY <1>8 DEF Notify, Release, WriteFails, IsLive, Live
    <2>2. CASE row' = row
      BY <2>1, <2>2, SafetyEnds DEF SameReservation
    <2>3. CASE /\ of[r] \in jobs /\ row[of[r]].token = r
               /\ row' = [row EXCEPT ![of[r]] = Released(row[of[r]], now)]
      <3>1. of[r] \in Job /\ row[of[r]] \in Row
        BY <2>1 DEF Safety, Tokens, TypeOK
      <3>2. Released(row[of[r]], now).token = None /\ Released(row[of[r]], now).owner = None
        <4>1. \A w \in Row : \A s, t : [Cleared(w) EXCEPT !.status = s, !.updated = t].token = None
                                /\ [Cleared(w) EXCEPT !.status = s, !.updated = t].owner = None
          BY DEF Cleared, Row
        <4> QED
          BY <3>1, <4>1 DEF Released
      <3>3. \A j \in Job : SameReservation(j) \/ (Freed(j) /\ row[j].token = r /\ of[r] = j)
        BY <2>3, <3>1, <3>2 DEF TypeOK, SameReservation, Freed
      <3> QED
        BY <2>1, <3>3, SafetyEnds
    <2> QED
      BY <1>8, <2>2, <2>3 DEF Notify, Release, WriteFails
  <1> QED
    BY <1>4, <1>5, <1>6, <1>7, <1>8 DEF RunStep

\* The end of the engine and of the process are safe: what they leave in the rows names
\* a run that is over and an owner that is done.
LEMMA SafetyEnd == ASSUME TypeOK, Safety, Stop \/ Restart PROVE Safety'
PROOF
  <1> USE SchedulerAssumption
  <1>1. CASE Restart
    <2>1. /\ \A r \in Run : ~IsLive(r)' /\ phase'[r] \notin Held
          /\ UNCHANGED <<jobs, row, intent>>
      BY <1>1 DEF Restart, IsLive, Live, Held
    <2>2. Tokens' /\ Single' /\ EarlyRuns' /\ Callers'
      BY <1>1, <2>1 DEF Restart, Safety, Tokens, Single, EarlyRuns, Callers
    <2>3. ASSUME NEW j \in Job PROVE NamesOwner(row[j], j)' /\ NamesOwner(seen[j], j)'
      <3>1. row[j].owner \in Manual => manual[row[j].owner] \in {"owner", "done"}
        BY DEF Safety, Owners, NamesOwner
      <3>2. row'[j].owner \in Manual => manual'[row'[j].owner] = "done"
        BY <1>1, <3>1 DEF Restart
      <3>3. seen'[j].owner \notin Manual
        BY <1>1 DEF Restart, NoRow
      <3> QED
        BY <3>2, <3>3 DEF NamesOwner
    <2> QED
      BY <2>1, <2>2, <2>3 DEF Safety, Owners
  <1>2. CASE Stop
    <2> DEFINE unstarted == {r \in Run : by[r] = Timer /\ phase[r] \in {"granted", "created"}}
    <2>1. /\ \A r \in unstarted : ~IsLive(r)' /\ phase'[r] \notin Held
          /\ \A r \in Run \ unstarted : /\ IsLive(r)' <=> IsLive(r)
                                        /\ of'[r] = of[r] /\ by'[r] = by[r]
                                        /\ phase'[r] \in {phase[r], "releasing"}
          /\ UNCHANGED <<jobs, row, seen, intent>> /\ engine' = "stopped"
          /\ \A m \in Manual : manual[m] \in {"owner", "done"} => manual'[m] = manual[m]
      BY <1>2 DEF Stop, IsLive, Live, Held
    <2>2. Tokens'
      <3>1. ASSUME NEW q \in Run, IsLive(q)'
            PROVE  /\ of'[q] \in Job /\ intent'[of'[q]] # "absent"
                   /\ phase'[q] \in Held /\ of'[q] \in jobs' => row'[of'[q]].token = q
                   /\ phase'[q] = "notifying" /\ of'[q] \in jobs' => row'[of'[q]].token # q
        BY <2>1, <3>1 DEF Safety, Tokens, Held
      <3> QED
        BY <2>1, <3>1 DEF Safety, Tokens
    <2>3. Single'
      BY <2>1 DEF Safety, Single, Held
    <2>4. EarlyRuns'
      BY <2>1 DEF EarlyRuns
    <2>5. Callers'
      BY <2>1 DEF Safety, Callers
    <2>6. ASSUME NEW w, NEW i \in Job, NamesOwner(w, i)
          PROVE  w.owner \in Manual =>
                   /\ manual'[w.owner] \in {"owner", "done"}
                   /\ manual'[w.owner] = "owner" =>
                        /\ w.token \in Run /\ IsLive(w.token)' /\ of'[w.token] = i
                        /\ by'[w.token] = w.owner
      BY <2>1, <2>6 DEF NamesOwner
    <2>7. Owners'
      <3>1. ASSUME NEW i \in Job PROVE NamesOwner(row[i], i)' /\ NamesOwner(seen[i], i)'
        <4>1. NamesOwner(row[i], i) /\ NamesOwner(seen[i], i)
          BY DEF Safety, Owners
        <4> QED
          BY <2>1, <2>6, <4>1 DEF NamesOwner
      <3>2. ASSUME NEW q \in Run, IsLive(q)', row'[of'[q]].token = q
            PROVE  row'[of'[q]].owner = by'[q]
        BY <2>1, <3>2 DEF Safety, Owners
      <3> QED
        BY <3>1, <3>2 DEF Owners
    <2> QED
      BY <2>2, <2>3, <2>4, <2>5, <2>7 DEF Safety
  <1> QED
    BY <1>1, <1>2

\* The calls of run_job_now are safe.
LEMMA SafetyCalls ==
    ASSUME TypeOK, Safety, NEW m \in Manual,
           RunJobNow(m) \/ ManualGivesUp(m) \/ \E j \in Job : ManualReserve(m, j)
    PROVE  Safety' /\ (UNCHANGED <<row, phase, of, failed>> \/ Reserves(m))
PROOF
  <1> USE SchedulerAssumption DEF runs, passes, history, others
  <1>1. CASE RunJobNow(m) \/ ManualGivesUp(m)
    <2>1. /\ manual[m] \in {"idle", "asked"} /\ manual' = [manual EXCEPT ![m] = manual'[m]]
          /\ UNCHANGED <<jobs, row, seen, intent, of, by, phase, tracked, engine, failed>>
      BY <1>1 DEF RunJobNow, ManualGivesUp, TypeOK
    <2>2. \A n \in Manual : manual[n] \in {"owner", "done"} => manual'[n] = manual[n]
      BY <2>1 DEF TypeOK
    <2>3. Tokens' /\ Single' /\ EarlyRuns' /\ Callers'
      BY <2>1, <2>2 DEF Safety, Tokens, Single, EarlyRuns, Callers, IsLive
    <2>4. manual'[m] \in {"asked", "done"}
      BY <1>1 DEF RunJobNow, ManualGivesUp, TypeOK
    <2>5. ASSUME NEW i \in Job PROVE NamesOwner(row[i], i)' /\ NamesOwner(seen[i], i)'
      <3>1. NamesOwner(row[i], i) /\ NamesOwner(seen[i], i)
        BY DEF Safety, Owners
      <3> QED
        BY <2>1, <2>2, <3>1 DEF NamesOwner, IsLive
    <2> QED
      BY <2>1, <2>3, <2>5 DEF Safety, Owners, IsLive
  <1>2. ASSUME NEW j \in Job, ManualReserve(m, j) PROVE Safety' /\ Reserves(m)
    <2>1. PICK t \in asked[m] .. now, p \in {"executing", "releasing"} :
            Reservable(j, t) /\ Reserve(j, NewToken, m, t, p)
      BY <1>2 DEF ManualReserve
    <2>2. /\ manual[m] = "asked" /\ manual' = [manual EXCEPT ![m] = "owner"]
          /\ UNCHANGED <<jobs, seen, tracked, engine>>
      BY <1>2 DEF ManualReserve
    <2>3. j \in jobs /\ row[j].token = None
      BY <2>1 DEF Reservable
    <2>4. Safety'
      <3>1. m \in Manual \union {Timer} /\ p \in {"granted", "executing", "releasing"}
        OBVIOUS
      <3>2. UNCHANGED <<jobs, seen, tracked, engine>>
        BY <2>2
      <3>3. /\ manual[m] = "asked" /\ manual'[m] = "owner"
            /\ \A n \in Manual \ {m} : manual'[n] = manual[n]
        BY <2>2 DEF TypeOK
      <3> QED
        BY <2>1, <2>3, <3>1, <3>2, <3>3, SafetyReserve
    <2> QED
      BY <2>1, <2>2, <2>3, <2>4 DEF Reserves, TypeOK
  <1> QED
    BY <1>1, <1>2

\* The edits of the user are safe: they keep the reservation of the row.
LEMMA SafetyEdits ==
    ASSUME TypeOK, Safety, NEW e \in Editor,
           \/ EditWrite(e)
           \/ \E j \in Job : DeleteJob(e, j) \/ \E c \in Command : EditRead(e, j, c)
    PROVE  Safety' /\ GoesOn
PROOF
  <1> USE SchedulerAssumption DEF runs, passes, history, others
  <1>1. UNCHANGED <<of, by, phase, manual, seen, tracked, engine>>
    BY DEF EditWrite, DeleteJob, EditRead
  <1>2. EarlyRuns'
    BY <1>1 DEF Safety, EarlyRuns, IsLive
  <1>3. CASE \E j \in Job, c \in Command : EditRead(e, j, c)
    BY <1>1, <1>2, <1>3, StillSteps, SafetySteps DEF EditRead
  <1>4. ASSUME NEW j \in Job, DeleteJob(e, j) PROVE Safety' /\ GoesOn
    <2>1. /\ jobs' = jobs \ {j} /\ row' = row
          /\ intent' = [intent EXCEPT ![j] = "deleted"]
      BY <1>4 DEF DeleteJob
    <2>2. GoesOn
      BY <1>1, <2>1 DEF GoesOn, SameReservation, Safety, Tokens, IsLive, Live, TypeOK
    <2> QED
      BY <1>2, <2>2, SafetySteps
  <1>5. CASE EditWrite(e)
    <2>1. CASE UNCHANGED <<row, intent>>
      <3>1. jobs' = jobs
        BY <1>5 DEF EditWrite
      <3>2. GoesOn
        BY <1>1, <2>1, <3>1, StillSteps
      <3> QED
        BY <1>2, <3>2, SafetySteps
    <2>2. ASSUME NEW n \in NextRuns(edit[e].job, now), edit[e].job \in jobs,
                 row' = [row EXCEPT ![edit[e].job] =
                           Edited(@, edit[e].row, Applied(edit[e].row, edit[e].cmd, n))],
                 intent' = [intent EXCEPT ![edit[e].job] = Asked(edit[e].cmd, @)]
          PROVE  Safety' /\ GoesOn
      <3> DEFINE i == edit[e].job
      <3>1. i \in Job /\ edit[e].cmd \in Command /\ edit[e].row \in Row /\ n \in Nat
        BY <2>2 DEF TypeOK, NextRuns
      <3>2. Applied(edit[e].row, edit[e].cmd, n) \in Row
        BY <3>1, AppliedType
      <3>3. row'[i].token = row[i].token /\ row'[i].owner = row[i].owner
        BY <2>2, <3>1, <3>2, EditedParts DEF TypeOK
      <3>4. \A k \in Job : SameReservation(k)
        BY <2>2, <3>1, <3>3 DEF SameReservation, TypeOK
      <3>5. intent'[i] \notin {"absent", "deleted"} /\ \A k \in Job \ {i} : intent'[k] = intent[k]
        BY <2>2, <3>1 DEF Asked, Safety, Tokens, TypeOK
      <3>6. jobs' = jobs
        BY <1>5 DEF EditWrite
      <3>7. \A k \in Job : row'[k].token = row[k].token
        BY <3>4 DEF SameReservation
      <3>8. GoesOn
        BY <1>1, <3>4, <3>5, <3>6, <3>7 DEF GoesOn, Safety, Tokens, IsLive, Live, TypeOK
      <3> QED
        BY <1>2, <3>8, SafetySteps
    <2> QED
      BY <1>5, <2>1, <2>2 DEF EditWrite
  <1> QED
    BY <1>3, <1>4, <1>5

\* A new job is safe: no run was ever of it.
LEMMA SafetyAdd ==
    ASSUME TypeOK, Safety, NEW e \in Editor, NEW j \in Job, AddJob(e, j)
    PROVE  /\ Safety' /\ UNCHANGED <<of, phase, failed>>
           /\ j \notin jobs /\ row'[j].token = None /\ \A i \in Job \ {j} : row'[i] = row[i]
PROOF
  <1> USE SchedulerAssumption DEF runs, passes, history, others
  <1>1. /\ UNCHANGED <<of, by, phase, manual, seen, tracked, engine, failed>>
        /\ intent[j] = "absent" /\ jobs' = jobs \union {j}
        /\ row' = [row EXCEPT ![j] = NewRow(j, now)] /\ intent' = [intent EXCEPT ![j] = "on"]
    BY DEF AddJob
  <1>2. j \notin jobs /\ \A r \in Run : IsLive(r) => of[r] # j
    BY <1>1 DEF Safety, Tokens
  <1>3. NewRow(j, now).token = None /\ NewRow(j, now).owner = None
    BY DEF NewRow, NoRow
  <1>4. /\ row'[j].token = None /\ row'[j].owner = None
        /\ \A i \in Job \ {j} : row'[i] = row[i]
    BY <1>1, <1>3 DEF TypeOK
  <1>5. Tokens'
    <2>1. ASSUME NEW q \in Run, IsLive(q)'
          PROVE  /\ of'[q] \in Job /\ intent'[of'[q]] # "absent"
                 /\ phase'[q] \in Held /\ of'[q] \in jobs' => row'[of'[q]].token = q
                 /\ phase'[q] = "notifying" /\ of'[q] \in jobs' => row'[of'[q]].token # q
      <3>1. IsLive(q) /\ of[q] \in Job \ {j}
        BY <1>1, <1>2, <2>1 DEF Safety, Tokens, IsLive
      <3> QED
        BY <1>1, <1>4, <3>1 DEF Safety, Tokens, TypeOK
    <2> QED
      BY <1>1, <2>1 DEF Safety, Tokens, TypeOK
  <1>6. Single' /\ EarlyRuns' /\ Callers'
    BY <1>1 DEF Safety, Single, EarlyRuns, Callers, IsLive
  <1>7. Owners'
    <2>1. ASSUME NEW i \in Job PROVE NamesOwner(row[i], i)' /\ NamesOwner(seen[i], i)'
      <3>1. NamesOwner(row[i], i) /\ NamesOwner(seen[i], i)
        BY DEF Safety, Owners
      <3>2. row'[i] = row[i] \/ row'[i].owner = None
        BY <1>4
      <3> QED
        BY <1>1, <3>1, <3>2 DEF NamesOwner, IsLive
    <2>2. ASSUME NEW q \in Run, IsLive(q)', row'[of'[q]].token = q PROVE row'[of'[q]].owner = by'[q]
      <3>1. IsLive(q) /\ of[q] \in Job \ {j}
        BY <1>1, <1>2, <2>2 DEF Safety, Tokens, IsLive
      <3> QED
        BY <1>1, <1>4, <2>2, <3>1 DEF Safety, Owners
    <2> QED
      BY <2>1, <2>2 DEF Owners
  <1> QED
    BY <1>1, <1>2, <1>4, <1>5, <1>6, <1>7 DEF Safety

\* Every step is safe.
LEMMA SafetyNext == TypeOK /\ Decided /\ Safety /\ [Next]_vars => Safety'
PROOF
  <1> SUFFICES ASSUME TypeOK, Decided, Safety, [Next]_vars PROVE Safety'
    OBVIOUS
  <1>1. CASE UNCHANGED vars
    BY <1>1 DEF vars, runs, passes, history, Safety, Tokens, Single, EarlyRuns, Callers, Owners,
         NamesOwner, IsLive
  <1>2. CASE Next
    BY <1>2, SafetyPass, SafetyRun, SafetyEnd, SafetyCalls, SafetyEdits, SafetyAdd DEF Next
  <1> QED
    BY <1>1, <1>2

\* Safety holds all along.
THEOREM Safe == Spec => [](TypeOK /\ Decided /\ Safety)
PROOF
  <1>1. Init => TypeOK /\ Decided /\ Safety
    BY TypeInit, SafetyInit DEF Init, Decided
  <1>2. TypeOK /\ Decided /\ Safety /\ [Next]_vars => Decided' /\ Safety'
    BY DecidedNext, SafetyNext
  <1> QED
    BY <1>1, <1>2, TypeCorrect, PTL DEF Spec

\* A job never runs twice at a time, for any jobs, tokens and owners
\* (reserve_due_job, reserve_manual_run, recover_reservation).
THEOREM NeverTwice == Spec => []OneExecution
PROOF
  <1>1. Safety => OneExecution
    BY DEF Safety, Single, Held, OneExecution
  <1> QED
    BY <1>1, Safe, PTL

--------------------------------------------------------------------------------
(* Reservations *)

\* The live run a row names, if that is a run of the row's job.
Holder(r, j) == j \in jobs /\ r # None /\ row[j].token = r /\ IsLive(r) /\ of[r] = j

\* No step but the last write of the run takes its reservation away.
LEMMA KeepsNext ==
    ASSUME TypeOK, Decided, Safety, [Next]_vars, NEW j \in Job, NEW r \in Run,
           Holder(r, j), row'[j].token # r
    PROVE  phase[r] \in {"writing", "releasing"} /\ phase'[r] # phase[r]
PROOF
  <1> USE SchedulerAssumption DEF runs, passes, history, others
  <1>1. CASE GoesOn
    BY <1>1 DEF GoesOn, SameReservation, GivesUp, Holder
  <1>2. ASSUME NEW owner, Reserves(owner) PROVE FALSE
    <2>1. PICK i \in jobs : row[i].token = None /\ \A k \in Job \ {i} : row'[k] = row[k]
      BY <1>2 DEF Reserves, Reserve, Reservable, TypeOK
    <2> QED
      BY <2>1 DEF Holder
  <1>3. ASSUME NEW q \in Run, RunStep(q) \/ WriteFails(q) \/ CallerLeaves(q)
        PROVE  phase[r] \in {"writing", "releasing"} /\ phase'[r] # phase[r]
    <2>1. CASE Notify(q) \/ WriteFails(q)
      BY <2>1 DEF Notify, WriteFails, Holder
    <2>2. CASE Release(q)
      <3>1. q = r
        BY <2>2 DEF Release, Holder, TypeOK
      <3> QED
        BY <2>2, <3>1 DEF Release, EndRun, TypeOK
    <2>3. CASE StartRun(q) \/ HandlerEnds(q) \/ CallerLeaves(q)
      BY <2>3 DEF StartRun, HandlerEnds, CallerLeaves, Holder
    <2>4. CASE Finalize(q)
      <3>1. q = r
        BY <2>4 DEF Finalize, StillRead, Holds, Holder, TypeOK
      <3>2. StillRead(q) /\ Goto(q, "notifying")
        BY <2>4, <3>1 DEF Finalize, Holder
      <3> QED
        BY <2>4, <3>1, <3>2 DEF Finalize, Goto, TypeOK
    <2> QED
      BY <1>3, <2>1, <2>2, <2>3, <2>4 DEF RunStep
  <1>4. CASE Stop \/ Restart \/ UNCHANGED vars
    BY <1>4 DEF Stop, Restart, vars, Holder
  <1>5. ASSUME NEW e \in Editor, NEW i \in Job, AddJob(e, i) PROVE FALSE
    <2>1. i \notin jobs /\ \A k \in Job \ {i} : row'[k] = row[k]
      BY <1>5, SafetyAdd
    <2> QED
      BY <2>1 DEF Holder
  <1>6. ASSUME NEW m \in Manual, RunJobNow(m) \/ ManualGivesUp(m) \/ \E i \in Job : ManualReserve(m, i)
        PROVE  FALSE
    BY <1>2, <1>6, SafetyCalls DEF Holder
  <1>7. CASE Start \/ Tick \/ PassStep
    BY <1>1, <1>2, <1>7, SafetyPass
  <1>8. ASSUME NEW e \in Editor,
               EditWrite(e) \/ \E i \in Job : DeleteJob(e, i) \/ \E c \in Command : EditRead(e, i, c)
        PROVE  phase[r] \in {"writing", "releasing"} /\ phase'[r] # phase[r]
    BY <1>1, <1>8, SafetyEdits
  <1> QED
    BY <1>3, <1>4, <1>5, <1>6, <1>7, <1>8 DEF Next

\* A live run loses its reservation only by its own last write, for any jobs, tokens and
\* owners (release_reservation, recover_reservation, update_configuration).
THEOREM ReservationsKept == Spec => OwnerKeepsReservation
PROOF
  <1>1. TypeOK /\ Decided /\ Safety /\ [Next]_vars =>
          [\A j \in Job : LET r == row[j].token IN
             j \in jobs /\ r # None /\ IsLive(r) /\ of[r] = j /\ row'[j].token # r =>
                 phase[r] \in {"writing", "releasing"} /\ phase'[r] # phase[r]]_vars
    <2> SUFFICES ASSUME TypeOK, Decided, Safety, [Next]_vars, NEW j \in Job,
                        j \in jobs, row[j].token # None, IsLive(row[j].token),
                        of[row[j].token] = j, row'[j].token # row[j].token
                 PROVE  /\ phase[row[j].token] \in {"writing", "releasing"}
                        /\ phase'[row[j].token] # phase[row[j].token]
      OBVIOUS
    <2>1. PICK r \in Run : r = row[j].token
      BY RowFields DEF TypeOK
    <2>2. Holder(r, j) /\ row'[j].token # r
      BY <2>1 DEF Holder
    <2> QED
      BY <2>1, <2>2, KeepsNext
  <1> QED
    BY <1>1, Safe, PTL DEF Spec, OwnerKeepsReservation

\* A row keeps whoever gives it back while runs go on...
LEMMA KeptGoesOn ==
    ASSUME TypeOK, Safety, GoesOn, failed \subseteq failed', NEW j \in Job, Kept(j)
    PROVE  Kept(j)'
PROOF
  <1>1. row'[j].token = row[j].token \/ row'[j].token = None
    BY DEF GoesOn, SameReservation, GivesUp, Freed
  <1>2. row[j].token \in Run \union {None}
    BY RowFields DEF TypeOK
  <1> QED
    BY <1>1, <1>2, SchedulerAssumption DEF GoesOn, Kept

\* ...when another run begins...
LEMMA KeptReserves ==
    ASSUME TypeOK, Safety, NEW owner, Reserves(owner), NEW j \in Job
    PROVE  /\ Kept(j) => Kept(j)'
           /\ row'[j].token = row[j].token \/ Kept(j)'
PROOF
  <1> USE SchedulerAssumption
  <1>1. PICK i \in jobs, t \in Nat, p \in {"granted", "executing", "releasing"} :
          Reservable(i, t) /\ Reserve(i, NewToken, owner, t, p)
    BY DEF Reserves
  <1>2. PICK r \in Run : r = NewToken
    BY <1>1 DEF Reserve
  <1>3. i \in Job /\ Unused(r) /\ row[i] \in Row /\ row[j].token \in Run \union {None}
    BY <1>1, <1>2, RowFields DEF Reserve, TypeOK
  <1>4. /\ row'[i].token = r /\ \A k \in Job \ {i} : row'[k] = row[k]
        /\ phase'[r] = p /\ of'[r] = i /\ failed' = failed \ {r}
        /\ \A q \in Run \ {r} : phase'[q] = phase[q] /\ of'[q] = of[q]
    <2>1. \A w \in Row : \A k, a, n, u :
            [w EXCEPT !.status = "running", !.token = k, !.owner = a,
                      !.sched = n, !.last = u, !.updated = u].token = k
      BY DEF Row
    <2> QED
      BY <1>1, <1>2, <1>3, <2>1 DEF Reserve, TypeOK
  <1>5. CASE j = i
    BY <1>4, <1>5 DEF Kept, IsLive, Live
  <1>6. CASE j # i
    BY <1>3, <1>4, <1>6 DEF Kept, Unused, IsLive
  <1> QED
    BY <1>5, <1>6

\* ...which is a live run more...
LEMMA ReservesLive ==
    ASSUME TypeOK, NEW owner, Reserves(owner) PROVE \E r \in Run : ~IsLive(r) /\ IsLive(r)'
PROOF
  <1>1. PICK r \in Run : /\ Unused(r)
                         /\ phase'[r] \in {"granted", "executing", "releasing"}
    BY DEF Reserves, Reserve, TypeOK
  <1> QED
    BY <1>1 DEF Unused, IsLive, Live

\* ...and when a run ends.
LEMMA KeptEnds ==
    ASSUME TypeOK, Safety, NEW r \in Run, Notify(r) \/ Release(r) \/ WriteFails(r), NEW j \in jobs
    PROVE  Kept(j) => Kept(j)'
PROOF
  <1> USE SchedulerAssumption DEF runs, passes, history, others
  <1>1. /\ j \in Job /\ row[j].token \in Run \union {None}
        /\ \A q \in Run \ {r} : phase'[q] = phase[q] /\ of'[q] = of[q]
        /\ failed \subseteq failed'
    BY RowFields DEF TypeOK, Notify, Release, WriteFails, EndRun
  <1>2. CASE Notify(r)
    <2>1. row' = row /\ ~(row[j].token = r /\ IsLive(r) /\ of[r] = j)
      BY <1>2 DEF Notify, Safety, Tokens
    <2> QED
      BY <1>1, <2>1 DEF Kept, IsLive
  <1>3. CASE Release(r)
    <2>1. CASE of[r] = j /\ row[j].token = r
      <3>1. Released(row[j], now).token = None
        <4>1. \A w \in Row : \A s, t : [Cleared(w) EXCEPT !.status = s, !.updated = t].token = None
          BY DEF Cleared, Row
        <4> QED
          BY <1>1, <4>1 DEF Released, TypeOK
      <3> QED
        BY <1>1, <1>3, <2>1, <3>1 DEF Release, Kept, TypeOK
    <2>2. CASE ~(of[r] = j /\ row[j].token = r)
      <3>1. row'[j] = row[j]
        BY <1>3, <2>2 DEF Release, TypeOK
      <3> QED
        BY <1>1, <2>2, <3>1 DEF Kept, IsLive
    <2> QED
      BY <2>1, <2>2
  <1>4. CASE WriteFails(r)
    BY <1>1, <1>4 DEF WriteFails, Kept, IsLive
  <1> QED
    BY <1>2, <1>3, <1>4

\* Every step keeps the reservations, and the recovery of a job ends with one kept.
LEMMA ReservationsNext ==
    TypeOK /\ Decided /\ Safety /\ Reservations /\ [Next]_vars => Reservations'
PROOF
  <1> SUFFICES ASSUME TypeOK, Decided, Safety, Reservations, [Next]_vars PROVE Reservations'
    OBVIOUS
  <1> USE SchedulerAssumption DEF runs, passes, history, others
  <1>1. ASSUME UNCHANGED <<engine, todo, seen>>,
               \A j \in jobs' : \/ j \in jobs /\ (Kept(j) => Kept(j)')
                                     /\ (row'[j].token = row[j].token \/ Kept(j)')
                                \/ Kept(j)'
        PROVE  Reservations'
    BY <1>1 DEF Reservations
  <1>2. \A j \in Job : row[j].token = None => Kept(j)
    BY DEF Kept
  <1>3. ASSUME GoesOn, failed' = failed PROVE /\ \A j \in Job : Kept(j) => Kept(j)'
                                              /\ \A j \in Job : row'[j].token = row[j].token \/ Kept(j)'
    BY <1>3, KeptGoesOn DEF GoesOn, SameReservation, GivesUp, Freed, Kept
  <1>4. ASSUME GoesOn, failed' = failed, UNCHANGED <<engine, todo, seen>> PROVE Reservations'
    BY <1>1, <1>3, <1>4 DEF GoesOn, TypeOK
  <1>5. CASE Start
    BY <1>5 DEF Start, Reservations
  <1>6. CASE Stop \/ Restart
    BY <1>6 DEF Stop, Restart, Reservations
  <1>7. ASSUME NEW j \in Job, Recover(j) PROVE Reservations'
    <2>1. /\ GoesOn /\ engine = "recovering" /\ UNCHANGED <<jobs, engine, failed>>
      <3>1. ~Reserves(Timer)
        BY <1>7, ReservesLive DEF Recover, IsLive
      <3>2. GoesOn
        BY <1>7, <3>1, SafetyPass DEF PassStep
      <3> QED
        BY <1>7, <3>2 DEF Recover
    <2>2. ASSUME NEW i \in jobs, i # j PROVE Kept(i)' \/ (i \in todo' /\ row'[i].token = seen'[i].token)
      <3>1. row'[i] = row[i] /\ seen'[i] = seen[i] /\ (i \in todo => i \in todo') /\ i \in Job
        BY <1>7, <2>2 DEF Recover, TypeOK
      <3> QED
        BY <1>3, <2>1, <2>2, <3>1 DEF Reservations
    <2>3. j \in jobs => Kept(j)' \/ (j \in todo' /\ row'[j].token = seen'[j].token)
      <3> SUFFICES ASSUME j \in jobs PROVE Kept(j)' \/ (j \in todo' /\ row'[j].token = seen'[j].token)
        OBVIOUS
      <3>1. CASE Kept(j)
        BY <1>3, <2>1, <3>1
      <3>2. CASE ~Kept(j) /\ row[j].token = seen[j].token
        <4>1. seen[j].token # None /\ ~ActiveOwner(j, seen[j])
          <5>1. tracked[j] = None
            BY <2>1 DEF Safety, EarlyRuns
          <5>2. seen[j].owner \in Manual => manual[seen[j].owner] # "asked"
                  /\ (manual[seen[j].owner] = "owner" => Kept(j))
            BY <3>2 DEF Safety, Owners, NamesOwner, Kept
          <5> QED
            BY <3>2, <5>1, <5>2 DEF ActiveOwner, Kept
        <4>2. CASE row' = [row EXCEPT ![j] = Released(row[j], at)]
          <5>1. \A w \in Row : \A s, t : [Cleared(w) EXCEPT !.status = s, !.updated = t].token = None
            BY DEF Cleared, Row
          <5>2. Released(row[j], at).token = None
            BY <5>1 DEF Released, TypeOK
          <5> QED
            BY <4>2, <5>2 DEF Kept, TypeOK
        <4>3. CASE todo' = todo /\ row' = row /\ seen' = [seen EXCEPT ![j] = row[j]]
          BY <1>7, <4>3 DEF Recover, TypeOK
        <4> QED
          BY <1>7, <4>1, <4>2, <4>3 DEF Recover
      <3> QED
        BY <2>1, <3>1, <3>2 DEF Reservations
    <2> QED
      BY <2>1, <2>2, <2>3 DEF Reservations
  <1>8. CASE CollectMissed
    <2>1. /\ UNCHANGED <<jobs, row, phase, of, failed>>
          /\ engine = "recovering" /\ todo = {} /\ engine' = "catching"
      BY <1>8 DEF CollectMissed
    <2> QED
      BY <2>1 DEF Reservations, Kept, IsLive
  <1>9. ASSUME NEW j \in Job, CatchupReserve(j) \/ TickReserve(j) PROVE Reservations'
    <2>1. /\ engine \in {"catching", "ticking"} /\ UNCHANGED <<jobs, engine>>
      BY <1>9 DEF CatchupReserve, TickReserve
    <2>2. CASE GoesOn /\ UNCHANGED failed
      BY <1>3, <2>1, <2>2 DEF Reservations, TypeOK
    <2>3. CASE Reserves(Timer)
      BY <2>1, <2>3, KeptReserves DEF Reservations, TypeOK
    <2>4. UNCHANGED failed \/ Reserves(Timer)
      BY <1>9 DEF CatchupReserve, TickReserve, ReserveDue, Reserves, Reservable, TypeOK
    <2> QED
      BY <1>9, <2>2, <2>3, <2>4, SafetyPass DEF PassStep
  <1>10. CASE CatchupLaunch \/ TickLaunch \/ Started \/ Collect \/ \E j \in Job : FastForward(j)
    <2>1. /\ engine \in {"catching", "forwarding", "idle", "ticking"}
          /\ engine' # "recovering" /\ failed' = failed /\ jobs' = jobs /\ by' = by
      BY <1>10 DEF CatchupLaunch, TickLaunch, Started, Collect, FastForward, Launched
    <2>2. ~Reserves(Timer)
      <3>1. \A r \in Run : IsLive(r)' => IsLive(r)
        BY <1>10 DEF CatchupLaunch, TickLaunch, Started, Collect, FastForward, Launched, Granted,
             IsLive, Live
      <3> QED
        BY <3>1, ReservesLive
    <2>3. GoesOn
      BY <1>10, <2>2, SafetyPass DEF PassStep
    <2> QED
      BY <1>3, <2>1, <2>3 DEF Reservations, TypeOK
  <1>11. CASE Tick
    BY <1>11 DEF Tick, Reservations, Kept, IsLive
  <1>12. ASSUME NEW r \in Run, RunStep(r) \/ WriteFails(r) \/ CallerLeaves(r) PROVE Reservations'
    <2>1. CASE Notify(r) \/ Release(r) \/ WriteFails(r)
      <3>1. UNCHANGED <<jobs, engine, todo, seen>>
        BY <2>1 DEF Notify, Release, WriteFails
      <3>2. \A j \in jobs : row'[j].token = row[j].token \/ row'[j].token = None
        <4>1. \A w \in Row : \A s, t : [Cleared(w) EXCEPT !.status = s, !.updated = t].token = None
          BY DEF Cleared, Row
        <4>2. \A j \in Job : Released(row[j], now).token = None
          BY <4>1 DEF Released, TypeOK
        <4> QED
          BY <2>1, <4>2 DEF Notify, Release, WriteFails, TypeOK
      <3> QED
        BY <1>1, <2>1, <3>1, <3>2, KeptEnds DEF Kept
    <2>2. CASE StartRun(r) \/ HandlerEnds(r) \/ Finalize(r) \/ CallerLeaves(r)
      <3>1. UNCHANGED <<engine, todo, seen, failed>>
        BY <2>2 DEF StartRun, HandlerEnds, Finalize, CallerLeaves
      <3>2. ~EndRun(r)
        <4>1. phase'[r] # "free"
          BY <2>2 DEF StartRun, HandlerEnds, Finalize, CallerLeaves, ToFinalize, Goto, TypeOK
        <4> QED
          BY <4>1 DEF EndRun, TypeOK
      <3> QED
        BY <1>4, <2>2, <3>1, <3>2, SafetyRun DEF RunStep
    <2> QED
      BY <1>12, <2>1, <2>2 DEF RunStep
  <1>13. ASSUME NEW m \in Manual, RunJobNow(m) \/ ManualGivesUp(m) \/ \E j \in Job : ManualReserve(m, j)
         PROVE  Reservations'
    <2>1. UNCHANGED <<jobs, engine, todo, seen>>
      BY <1>13 DEF RunJobNow, ManualGivesUp, ManualReserve
    <2>2. CASE UNCHANGED <<row, phase, of, failed>>
      BY <1>1, <2>1, <2>2 DEF Kept, IsLive
    <2>3. CASE Reserves(m)
      <3>1. \A j \in jobs : /\ Kept(j) => Kept(j)'
                            /\ row'[j].token = row[j].token \/ Kept(j)'
        BY <2>3, KeptReserves DEF TypeOK
      <3> QED
        BY <1>1, <2>1, <3>1
    <2> QED
      BY <1>13, <2>2, <2>3, SafetyCalls
  <1>14. ASSUME NEW e \in Editor,
                EditWrite(e) \/ \E j \in Job : DeleteJob(e, j) \/ \E c \in Command : EditRead(e, j, c)
         PROVE  Reservations'
    BY <1>4, <1>14, SafetyEdits DEF EditWrite, DeleteJob, EditRead
  <1>15. ASSUME NEW e \in Editor, NEW j \in Job, AddJob(e, j) PROVE Reservations'
    <2>1. UNCHANGED <<engine, todo, seen, of, phase, failed>> /\ jobs' = jobs \union {j}
      BY <1>15 DEF AddJob
    <2>2. row'[j].token = None /\ \A i \in Job \ {j} : row'[i] = row[i]
      BY <1>15, SafetyAdd
    <2> QED
      BY <1>1, <2>1, <2>2 DEF Kept, IsLive, TypeOK
  <1>16. CASE UNCHANGED vars
    BY <1>16 DEF vars, Reservations, Kept, IsLive
  <1> QED
    BY <1>5, <1>6, <1>7, <1>8, <1>9, <1>10, <1>11, <1>12, <1>13, <1>14, <1>15, <1>16
       DEF Next, PassStep

\* Once the start has recovered the table, a reserved row has a run that will give it
\* back, or the very write that does so has failed (startup_catchup, _run_single).
THEOREM NoneLeftReserved == Spec => []ReservationOwned
PROOF
  <1>1. Init => Reservations
    BY DEF Init, Reservations
  <1>2. Reservations => ReservationOwned
    BY DEF Reservations, ReservationOwned, Kept
  <1> QED
    BY <1>1, <1>2, ReservationsNext, Safe, PTL DEF Spec

--------------------------------------------------------------------------------
(* What the user stopped *)

\* What the writes of the scheduler do to the status of a row.
LEMMA ReleasedStatus ==
    \A w \in Row, t \in Nat : /\ Cleared(w).status = w.status /\ Released(w, t).token = None
                              /\ w.status = "paused" => Released(w, t).status = "paused"
PROOF
  <1>1. \A w \in Row : \A s, t : /\ Cleared(w).status = w.status
                                 /\ [Cleared(w) EXCEPT !.status = s, !.updated = t].token = None
                                 /\ [Cleared(w) EXCEPT !.status = s, !.updated = t].status = s
    BY DEF Cleared, Row
  <1> SUFFICES ASSUME NEW w \in Row, NEW t \in Nat
               PROVE  /\ Cleared(w).status = w.status /\ Released(w, t).token = None
                      /\ w.status = "paused" => Released(w, t).status = "paused"
    OBVIOUS
  <1>2. Released(w, t).status = (IF Cleared(w).status = "running" THEN "pending"
                                 ELSE Cleared(w).status)
    BY <1>1 DEF Released
  <1>3. Released(w, t).token = None
    BY <1>1 DEF Released
  <1> QED
    BY <1>1, <1>2, <1>3

\* A step after which each finalizer has the row it read, or one that has moved since.
LEMMA SnapshotSteps ==
    ASSUME TypeOK, Safety, Snapshots,
           \A r \in Run : phase'[r] = "writing" /\ Holds(r)' =>
             \/ read'[r] = row'[of'[r]]
             \/ /\ phase[r] = "writing" /\ Holds(r)
                /\ read'[r] = read[r] /\ of'[r] = of[r]
                /\ \/ row'[of[r]] = row[of[r]]
                   \/ row[of[r]].updated < row'[of[r]].updated /\ row'[of[r]].updated \in Nat
    PROVE  Snapshots'
PROOF
  <1> SUFFICES ASSUME NEW r \in Run, phase[r] = "writing", Holds(r), read'[r] = read[r], of'[r] = of[r],
                      row[of[r]].updated < row'[of[r]].updated, row'[of[r]].updated \in Nat
               PROVE  read[r].updated < row'[of[r]].updated
    BY DEF Snapshots
  <1>1. read[r].updated \in Nat /\ row[of[r]].updated \in Nat
    <2>1. read[r] \in Row /\ row[of[r]] \in Row
      BY DEF TypeOK, Holds
    <2> QED
      BY <2>1, RowFields
  <1>2. read[r].updated < row[of[r]].updated \/ read[r].updated = row[of[r]].updated
    BY DEF Snapshots
  <1> QED
    BY <1>1, <1>2

\* No write of a row goes unnoticed by a run that is about to finalize it: it takes the
\* token away or comes with a later updated_at.
LEMMA SnapshotsNext == TypeOK /\ Decided /\ Safety /\ Snapshots /\ [Next]_vars => Snapshots'
PROOF
  <1> SUFFICES ASSUME TypeOK, Decided, Safety, Snapshots, [Next]_vars PROVE Snapshots'
    OBVIOUS
  <1> USE SchedulerAssumption DEF runs, passes, history, others
  <1>1. ASSUME UNCHANGED <<row, of, read>>, jobs' \subseteq jobs,
               \A r \in Run : phase'[r] = "writing" => phase[r] = "writing"
        PROVE  Snapshots'
    BY <1>1, SnapshotSteps DEF Holds
  <1>2. ASSUME NEW j \in Job, \A i \in Job \ {j} : row'[i] = row[i],
               \/ row'[j].token = None
               \/ row'[j] = row[j]
               \/ row[j].updated < row'[j].updated /\ row'[j].updated \in Nat
                    /\ row'[j].token = row[j].token,
               UNCHANGED <<jobs, of, read>>,
               \A r \in Run : phase'[r] = "writing" => phase[r] = "writing"
        PROVE  Snapshots'
    <2>1. \A r \in Run : phase'[r] = "writing" => of[r] \in Job
      BY <1>2 DEF Safety, Tokens, IsLive, Live
    <2> QED
      BY <1>2, <2>1, SnapshotSteps DEF Holds
  <1>3. ASSUME NEW owner, Reserves(owner), UNCHANGED jobs PROVE Snapshots'
    <2>1. PICK j \in jobs, t \in Nat, p \in {"granted", "executing", "releasing"} :
            Reservable(j, t) /\ Reserve(j, NewToken, owner, t, p)
      BY <1>3 DEF Reserves
    <2>2. PICK r \in Run : r = NewToken
      BY <2>1 DEF Reserve
    <2>3. /\ j \in Job /\ Unused(r) /\ row[j] \in Row
          /\ \A q \in Run \ {r} : phase'[q] = phase[q] /\ of'[q] = of[q]
          /\ read' = read /\ phase'[r] = p /\ \A k \in Job \ {j} : row'[k] = row[k]
      BY <2>1, <2>2 DEF Reserve, TypeOK
    <2>4. row'[j].token = r
      <3>1. \A w \in Row : \A k, a, n, u :
              [w EXCEPT !.status = "running", !.token = k, !.owner = a,
                        !.sched = n, !.last = u, !.updated = u].token = k
        BY DEF Row
      <3> QED
        BY <2>1, <2>2, <2>3, <3>1 DEF Reserve, TypeOK
    <2>5. ASSUME NEW q \in Run, phase'[q] = "writing", Holds(q)'
          PROVE  /\ phase[q] = "writing" /\ Holds(q) /\ read'[q] = read[q] /\ of'[q] = of[q]
                 /\ row'[of[q]] = row[of[q]]
      <3>1. q # r /\ of'[q] = of[q] /\ phase[q] = "writing" /\ of[q] \in Job
        BY <2>1, <2>3, <2>5 DEF Safety, Tokens, IsLive, Live
      <3>2. of[q] # j
        BY <2>4, <2>5, <3>1 DEF Holds
      <3> QED
        BY <1>3, <2>3, <2>5, <3>1, <3>2 DEF Holds
    <2> QED
      BY <2>5, SnapshotSteps
  <1>4. CASE Start \/ Tick \/ CollectMissed \/ CatchupLaunch \/ TickLaunch \/ Started \/ Collect
    <2>1. UNCHANGED <<row, of, read, jobs>>
      BY <1>4 DEF Start, Tick, CollectMissed, CatchupLaunch, TickLaunch, Started, Collect, Launched
    <2>2. \A r \in Run : phase'[r] = "writing" => phase[r] = "writing"
      BY <1>4 DEF Start, Tick, CollectMissed, CatchupLaunch, TickLaunch, Started, Collect, Launched
    <2> QED
      BY <1>1, <2>1, <2>2
  <1>5. ASSUME NEW j \in Job, Recover(j) PROVE Snapshots'
    <2>1. row' = row \/ row' = [row EXCEPT ![j] = Released(row[j], at)]
      BY <1>5 DEF Recover
    <2>2. row' # row => row'[j].token = None
      BY <2>1, ReleasedStatus DEF TypeOK
    <2> QED
      BY <1>2, <1>5, <2>1, <2>2 DEF Recover, TypeOK
  <1>6. ASSUME NEW j \in Job, CatchupReserve(j) \/ TickReserve(j) PROVE Snapshots'
    <2>1. CASE UNCHANGED <<row, runs, history>>
      BY <1>1, <1>6, <2>1 DEF CatchupReserve, TickReserve
    <2>2. CASE Reserves(Timer)
      BY <1>3, <1>6, <2>2 DEF CatchupReserve, TickReserve
    <2> QED
      BY <1>6, <2>1, <2>2 DEF CatchupReserve, TickReserve, ReserveDue, Reserves, Reservable, TypeOK
  <1>7. ASSUME NEW j \in Job, FastForward(j) PROVE Snapshots'
    <2>1. PICK n \in NextRuns(j, at) :
            row' = IF seen[j].kind = "every" /\ n # 0 /\ Unedited(j, seen[j])
                     THEN [row EXCEPT ![j] =
                             [@ EXCEPT !.next = n, !.updated = Later(at, seen[j].updated + 1)]]
                     ELSE row
      BY <1>7 DEF FastForward
    <2>2. /\ Later(at, seen[j].updated + 1) \in Nat
          /\ seen[j].updated < Later(at, seen[j].updated + 1)
      <3>1. seen[j].updated \in Nat /\ at \in Nat
        BY RowFields DEF TypeOK
      <3>2. seen[j].updated + 1 \in Nat /\ seen[j].updated < seen[j].updated + 1
        BY <3>1
      <3>3. /\ Later(at, seen[j].updated + 1) \in Nat
            /\ Later(at, seen[j].updated + 1) >= seen[j].updated + 1
        BY <3>1, <3>2, LaterType
      <3> QED
        BY <3>1, <3>2, <3>3
    <2>3. \A w \in Row : \A a, b : /\ [w EXCEPT !.next = a, !.updated = b].updated = b
                                   /\ [w EXCEPT !.next = a, !.updated = b].token = w.token
      BY DEF Row
    <2>4. \/ row'[j] = row[j]
          \/ row[j].updated < row'[j].updated /\ row'[j].updated \in Nat
               /\ row'[j].token = row[j].token
      BY <2>1, <2>2, <2>3 DEF Unedited, TypeOK
    <2>5. UNCHANGED <<jobs, of, phase, read>> /\ \A i \in Job \ {j} : row'[i] = row[i]
      BY <1>7, <2>1 DEF FastForward, TypeOK
    <2> QED
      BY <1>2, <2>4, <2>5
  <1>8. ASSUME NEW r \in Run, RunStep(r) \/ WriteFails(r) \/ CallerLeaves(r) PROVE Snapshots'
    <2>1. ASSUME NEW o, ToFinalize(r, o), UNCHANGED <<row, jobs, of>> PROVE Snapshots'
      BY <2>1, SnapshotSteps DEF ToFinalize, Goto, Holds, TypeOK
    <2>2. ASSUME NEW p \in {"executing", "releasing"}, Goto(r, p), UNCHANGED <<row, jobs, of>>,
                 \A q \in Run \ {r} : read'[q] = read[q]
          PROVE  Snapshots'
      BY <2>2, SnapshotSteps DEF Goto, Holds, TypeOK
    <2>3. CASE StartRun(r) \/ HandlerEnds(r) \/ CallerLeaves(r)
      BY <2>1, <2>2, <2>3 DEF StartRun, HandlerEnds, CallerLeaves, TypeOK
    <2>4. CASE Notify(r) \/ Release(r) \/ WriteFails(r)
      <3>1. /\ phase'[r] = "free" /\ jobs' = jobs
            /\ \A q \in Run \ {r} : phase'[q] = phase[q] /\ of'[q] = of[q] /\ read'[q] = read[q]
        BY <2>4 DEF Notify, Release, WriteFails, EndRun, TypeOK
      <3>2. \A i \in Job : row'[i] = row[i] \/ row'[i].token = None
        BY <2>4, ReleasedStatus DEF Notify, Release, WriteFails, TypeOK
      <3>3. \A q \in Run : phase[q] = "writing" => of[q] \in Job
        BY DEF Safety, Tokens, IsLive, Live
      <3> QED
        BY <3>1, <3>2, <3>3, SnapshotSteps DEF Holds
    <2>5. CASE Finalize(r)
      <3>1. CASE ToFinalize(r, outcome[r]) /\ UNCHANGED <<jobs, row>>
        BY <2>1, <2>5, <3>1 DEF Finalize
      <3>2. CASE Goto(r, "notifying") /\ StillRead(r) /\ ~(ToFinalize(r, outcome[r]) /\ UNCHANGED <<jobs, row>>)
        <4>1. /\ phase'[r] = "notifying" /\ of' = of /\ jobs' \subseteq jobs
              /\ \A q \in Run \ {r} : phase'[q] = phase[q] /\ read'[q] = read[q]
          BY <2>5, <3>2 DEF Finalize, Goto, TypeOK
        <4>2. \A i \in Job : row'[i] = row[i] \/ (i = of[r] /\ row'[i].token = None)
          <5>1. /\ read[r] \in Row /\ now \in Nat
                /\ outcome[r] \in {"ok", "transient", "permanent", "missing"}
            BY <2>5 DEF TypeOK, Decided, Finalize
          <5>2. \A n \in NextRuns(of[r], now) : Finalized(read[r], outcome[r], n).token = None
            BY <5>1, FinalizedFree DEF NextRuns
          <5> QED
            BY <2>5, <3>2, <5>2 DEF Finalize, TypeOK
        <4>3. \A q \in Run : phase[q] = "writing" => of[q] \in Job
          BY DEF Safety, Tokens, IsLive, Live
        <4> QED
          BY <4>1, <4>2, <4>3, SnapshotSteps DEF Holds
      <3> QED
        BY <2>5, <3>1, <3>2 DEF Finalize
    <2> QED
      BY <1>8, <2>3, <2>4, <2>5 DEF RunStep
  <1>9. CASE Stop
    <2>1. \A q \in Run : phase'[q] = "writing" =>
            /\ phase[q] = "writing" /\ of'[q] = of[q] /\ read'[q] = read[q]
      BY <1>9 DEF Stop, IsLive, Live
    <2> QED
      BY <1>9, <2>1, SnapshotSteps DEF Stop, Holds
  <1>10. CASE Restart
    BY <1>10 DEF Restart, Snapshots
  <1>11. ASSUME NEW m \in Manual, RunJobNow(m) \/ ManualGivesUp(m) \/ \E j \in Job : ManualReserve(m, j)
         PROVE  Snapshots'
    <2>1. CASE RunJobNow(m) \/ ManualGivesUp(m)
      BY <1>1, <2>1 DEF RunJobNow, ManualGivesUp
    <2>2. ASSUME NEW j \in Job, ManualReserve(m, j) PROVE Snapshots'
      BY <1>3, <2>2 DEF ManualReserve, Reserves, Reservable, TypeOK
    <2> QED
      BY <1>11, <2>1, <2>2
  <1>12. ASSUME NEW e \in Editor, EditWrite(e) PROVE Snapshots'
    <2>1. CASE row' = row
      BY <1>1, <1>12, <2>1 DEF EditWrite
    <2>2. ASSUME NEW n \in NextRuns(edit[e].job, now), Unedited(edit[e].job, edit[e].row),
                 row' = [row EXCEPT ![edit[e].job] =
                           Edited(@, edit[e].row, Applied(edit[e].row, edit[e].cmd, n))]
          PROVE  Snapshots'
      <3> DEFINE i == edit[e].job
      <3>1. i \in Job /\ edit[e].cmd \in Command /\ edit[e].row \in Row /\ n \in Nat /\ now \in Nat
        BY <1>12, <2>2 DEF TypeOK, NextRuns, Unedited
      <3>2. Applied(edit[e].row, edit[e].cmd, n) \in Row
        BY <3>1, AppliedType
      <3>3. row[i] \in Row /\ now \in Nat
        BY <3>1 DEF TypeOK
      <3>4. /\ row'[i].token = row[i].token
            /\ row'[i].updated \in Nat /\ row[i].updated < row'[i].updated
        <4>1. row[i].updated = edit[e].row.updated
          BY <2>2 DEF Unedited
        <4>2. row'[i] \in Row /\ row'[i].token = row[i].token
              /\ edit[e].row.updated < row'[i].updated
          BY <2>2, <3>1, <3>2, <3>3, EditedParts DEF TypeOK
        <4> QED
          BY <4>1, <4>2, RowFields
      <3>6. UNCHANGED <<jobs, of, phase, read>> /\ \A k \in Job \ {i} : row'[k] = row[k]
        BY <1>12, <2>2 DEF EditWrite, TypeOK
      <3> QED
        BY <1>2, <3>1, <3>3, <3>4, <3>6
    <2> QED
      BY <1>12, <2>1, <2>2 DEF EditWrite
  <1>13. ASSUME NEW e \in Editor, NEW j \in Job, AddJob(e, j) PROVE Snapshots'
    <2>1. /\ UNCHANGED <<of, phase, read>> /\ jobs' = jobs \union {j} /\ intent[j] = "absent"
          /\ \A i \in Job \ {j} : row'[i] = row[i]
      BY <1>13, SafetyAdd DEF AddJob
    <2>2. \A q \in Run : phase[q] = "writing" => of[q] \in Job \ {j}
      BY <2>1 DEF Safety, Tokens, IsLive, Live
    <2> QED
      BY <2>1, <2>2, SnapshotSteps DEF Holds
  <1>14. ASSUME NEW e \in Editor, NEW j \in Job, DeleteJob(e, j) \/ \E c \in Command : EditRead(e, j, c)
         PROVE  Snapshots'
    BY <1>1, <1>14 DEF DeleteJob, EditRead
  <1>15. CASE UNCHANGED vars
    BY <1>1, <1>15 DEF vars
  <1> QED
    BY <1>4, <1>5, <1>6, <1>7, <1>8, <1>9, <1>10, <1>11, <1>12, <1>13, <1>14, <1>15
       DEF Next, PassStep

\* A finalizer that finds the row it has read writes the status the row has, if the user
\* has stopped the job.
LEMMA FinalizedStatus ==
    ASSUME NEW w \in Row, NEW o, NEW n, w.status = "paused"
    PROVE  Finalized(w, o, n).status = "paused"
  BY ReleasedStatus DEF Finalized, Off

\* An edit stops the job it pauses, and resumes none that it does not mean to.
LEMMA AppliedStatus ==
    ASSUME NEW w \in Row, NEW c \in Command, NEW n
    PROVE  /\ Asked(c, "on") = "off" => Applied(w, c, n).status = "paused"
           /\ Asked(c, "off") = "off" /\ w.status = "paused" => Applied(w, c, n).status = "paused"
PROOF
  <1>1. c.op \in {"pause", "resume", "disable", "enable", "every", "at"}
    BY DEF Command
  <1>2. /\ [w EXCEPT !.status = "paused"].status = "paused"
        /\ [w EXCEPT !.status = "paused", !.enabled = FALSE].status = "paused"
        /\ \A k, t : [w EXCEPT !.kind = k, !.next = t].status = w.status
    BY DEF Row
  <1>3. Reset(w) \in Row /\ Reset(w).status = w.status
    <2>1. Reset(w).status = w.status
      BY DEF Row, Reset
    <2> QED
      BY <2>1, PartsType
  <1>4. \A k, t : [Reset(w) EXCEPT !.kind = k, !.next = t].status = w.status
    BY <1>3 DEF Row
  <1> QED
    BY <1>1, <1>2, <1>4 DEF Applied, Asked

\* No write of the scheduler revives what the user stopped, and no edit but a resume.
LEMMA StopsNext ==
    TypeOK /\ Decided /\ Safety /\ Snapshots /\ UserStops /\ [Next]_vars => UserStops'
PROOF
  <1> SUFFICES ASSUME TypeOK, Decided, Safety, Snapshots, UserStops, [Next]_vars PROVE UserStops'
    OBVIOUS
  <1> USE SchedulerAssumption DEF runs, passes, history, others
  <1>1. ASSUME intent' = intent, jobs' \subseteq jobs,
               \A j \in Job : row[j].status = "paused" => row'[j].status = "paused"
        PROVE  UserStops'
    BY <1>1 DEF UserStops
  <1>2. ASSUME NEW owner, Reserves(owner), UNCHANGED jobs PROVE UserStops'
    <2>1. PICK j \in jobs, t \in Nat, p \in {"granted", "executing", "releasing"} :
            Reservable(j, t) /\ Reserve(j, NewToken, owner, t, p)
      BY <1>2 DEF Reserves
    <2>2. /\ row[j].status = "pending" /\ intent' = intent
          /\ \A i \in Job \ {j} : row'[i] = row[i]
      BY <2>1 DEF Reserve, Reservable, TypeOK
    <2> QED
      BY <1>1, <1>2, <2>2
  <1>3. CASE Start \/ Tick \/ CollectMissed \/ CatchupLaunch \/ TickLaunch \/ Started \/ Collect
    BY <1>1, <1>3 DEF Start, Tick, CollectMissed, CatchupLaunch, TickLaunch, Started, Collect
  <1>4. ASSUME NEW j \in Job, Recover(j) PROVE UserStops'
    <2>1. row' = row \/ row' = [row EXCEPT ![j] = Released(row[j], at)]
      BY <1>4 DEF Recover
    <2>2. \A i \in Job : row[i].status = "paused" => row'[i].status = "paused"
      <3>1. row[j] \in Row /\ at \in Nat
        BY DEF TypeOK
      <3>2. row[j].status = "paused" => Released(row[j], at).status = "paused"
        BY <3>1, ReleasedStatus
      <3> QED
        BY <2>1, <3>2 DEF TypeOK
    <2> QED
      BY <1>1, <1>4, <2>2 DEF Recover
  <1>5. ASSUME NEW j \in Job, CatchupReserve(j) \/ TickReserve(j) PROVE UserStops'
    <2>1. CASE UNCHANGED <<row, runs, history>>
      BY <1>1, <1>5, <2>1 DEF CatchupReserve, TickReserve
    <2>2. CASE Reserves(Timer)
      BY <1>2, <1>5, <2>2 DEF CatchupReserve, TickReserve
    <2> QED
      BY <1>5, <2>1, <2>2 DEF CatchupReserve, TickReserve, ReserveDue, Reserves, Reservable, TypeOK
  <1>6. ASSUME NEW j \in Job, FastForward(j) PROVE UserStops'
    <2>1. \A w \in Row : \A a, b : [w EXCEPT !.next = a, !.updated = b].status = w.status
      BY DEF Row
    <2>2. \A i \in Job : row'[i].status = row[i].status
      BY <1>6, <2>1 DEF FastForward, TypeOK
    <2> QED
      BY <1>1, <1>6, <2>2 DEF FastForward
  <1>7. ASSUME NEW r \in Run, RunStep(r) \/ WriteFails(r) \/ CallerLeaves(r) PROVE UserStops'
    <2>1. intent' = intent /\ jobs' \subseteq jobs
      BY <1>7 DEF RunStep, StartRun, HandlerEnds, Finalize, Notify, Release, WriteFails, CallerLeaves
    <2>2. CASE ~Finalize(r)
      <3>1. \A i \in Job : row'[i] = row[i] \/ row'[i] = Released(row[i], now)
        BY <1>7, <2>2 DEF RunStep, StartRun, HandlerEnds, Notify, Release, WriteFails, CallerLeaves,
             TypeOK
      <3>2. \A i \in Job : row[i] \in Row /\ now \in Nat
        BY DEF TypeOK
      <3>3. \A i \in Job : row[i].status = "paused" => row'[i].status = "paused"
        BY <3>1, <3>2, ReleasedStatus
      <3> QED
        BY <1>1, <2>1, <3>3
    <2>3. CASE Finalize(r)
      <3>1. CASE row' = row
        BY <1>1, <2>1, <3>1
      <3>2. ASSUME StillRead(r), NEW n \in NextRuns(of[r], now),
                   row' = [row EXCEPT ![of[r]] = Finalized(read[r], outcome[r], n)]
            PROVE  UserStops'
        <4>1. of[r] \in Job /\ Holds(r) /\ phase[r] = "writing" /\ row[of[r]] \in Row
          BY <2>3, <3>2 DEF Finalize, StillRead, Holds, TypeOK
        <4>2. read[r] = row[of[r]]
          <5>1. row[of[r]].updated = read[r].updated /\ row[of[r]].updated \in Nat
            BY <3>2, <4>1, RowFields DEF StillRead
          <5> QED
            BY <4>1, <5>1 DEF Snapshots
        <4>3. row[of[r]].status = "paused" => row'[of[r]].status = "paused"
          BY <3>2, <4>1, <4>2, FinalizedStatus DEF TypeOK
        <4>4. \A i \in Job \ {of[r]} : row'[i] = row[i]
          BY <3>2 DEF TypeOK
        <4> QED
          BY <1>1, <2>1, <4>3, <4>4
      <3> QED
        BY <2>3, <3>1, <3>2 DEF Finalize
    <2> QED
      BY <2>2, <2>3
  <1>8. CASE Stop \/ Restart \/ UNCHANGED vars
    BY <1>1, <1>8 DEF Stop, Restart, vars
  <1>9. ASSUME NEW m \in Manual, RunJobNow(m) \/ ManualGivesUp(m) \/ \E j \in Job : ManualReserve(m, j)
        PROVE  UserStops'
    <2>1. CASE RunJobNow(m) \/ ManualGivesUp(m)
      BY <1>1, <2>1 DEF RunJobNow, ManualGivesUp
    <2>2. ASSUME NEW j \in Job, ManualReserve(m, j) PROVE UserStops'
      BY <1>2, <2>2 DEF ManualReserve, Reserves, Reservable, TypeOK
    <2> QED
      BY <1>9, <2>1, <2>2
  <1>10. ASSUME NEW e \in Editor, EditWrite(e) PROVE UserStops'
    <2>1. CASE UNCHANGED <<row, intent>>
      BY <1>1, <1>10, <2>1 DEF EditWrite
    <2>2. ASSUME NEW n \in NextRuns(edit[e].job, now), Unedited(edit[e].job, edit[e].row),
                 row' = [row EXCEPT ![edit[e].job] =
                           Edited(@, edit[e].row, Applied(edit[e].row, edit[e].cmd, n))],
                 intent' = [intent EXCEPT ![edit[e].job] = Asked(edit[e].cmd, @)]
          PROVE  UserStops'
      <3> DEFINE i == edit[e].job
                 c == edit[e].cmd
                 w == edit[e].row
      <3>1. i \in Job /\ c \in Command /\ w \in Row /\ n \in Nat /\ i \in jobs
        BY <1>10, <2>2 DEF TypeOK, NextRuns, Unedited
      <3>2. Applied(w, c, n) \in Row
        BY <3>1, AppliedType
      <3>3. row[i] \in Row /\ now \in Nat
        BY <3>1 DEF TypeOK
      <3>4. row'[i].status = Applied(w, c, n).status /\ w.status = row[i].status
        <4>1. w.status = row[i].status
          BY <2>2 DEF Unedited
        <4>2. row'[i].status = Merged(row[i].status, w.status, Applied(w, c, n).status)
          BY <2>2, <3>1, <3>2, <3>3, EditedParts DEF TypeOK
        <4> QED
          BY <4>1, <4>2 DEF Merged
      <3>5. intent'[i] = Asked(c, intent[i]) /\ intent[i] \in {"on", "off"}
        BY <2>2, <3>1 DEF TypeOK, Safety, Tokens
      <3>6. intent[i] = "off" => w.status = "paused"
        BY <3>1, <3>4 DEF UserStops
      <3>7. intent'[i] = "off" => row'[i].status = "paused"
        BY <3>1, <3>4, <3>5, <3>6, AppliedStatus
      <3>8. intent'[i] # "deleted"
        BY <3>5 DEF Asked
      <3>9. jobs' = jobs /\ \A k \in Job \ {i} : row'[k] = row[k] /\ intent'[k] = intent[k]
        BY <1>10, <2>2 DEF EditWrite, TypeOK
      <3> QED
        BY <3>7, <3>8, <3>9 DEF UserStops
    <2> QED
      BY <1>10, <2>1, <2>2 DEF EditWrite
  <1>11. ASSUME NEW e \in Editor, NEW j \in Job, AddJob(e, j) PROVE UserStops'
    <2>1. /\ jobs' = jobs \union {j} /\ intent'[j] = "on"
          /\ \A i \in Job \ {j} : row'[i] = row[i] /\ intent'[i] = intent[i]
      BY <1>11, SafetyAdd DEF AddJob, TypeOK
    <2> QED
      BY <2>1 DEF UserStops
  <1>12. ASSUME NEW e \in Editor, NEW j \in Job, DeleteJob(e, j) PROVE UserStops'
    BY <1>12 DEF DeleteJob, UserStops, TypeOK
  <1>13. ASSUME NEW e \in Editor, NEW j \in Job, NEW c \in Command, EditRead(e, j, c) PROVE UserStops'
    BY <1>1, <1>13 DEF EditRead
  <1> QED
    BY <1>3, <1>4, <1>5, <1>6, <1>7, <1>8, <1>9, <1>10, <1>11, <1>12, <1>13 DEF Next, PassStep

\* What the user stopped stays stopped and what was deleted stays deleted, for any jobs,
\* tokens and owners (finalize_reserved_job, recover_reservation, fast_forward_missed_job).
THEOREM StoppedStays == Spec => []UserStops
PROOF
  <1>1. Init => Snapshots /\ UserStops
    BY DEF Init, Snapshots, UserStops
  <1>2. /\ TypeOK /\ Decided /\ Safety /\ Snapshots /\ [Next]_vars => Snapshots'
        /\ TypeOK /\ Decided /\ Safety /\ Snapshots /\ UserStops /\ [Next]_vars => UserStops'
    BY SnapshotsNext, StopsNext
  <1> QED
    BY <1>1, <1>2, Safe, PTL DEF Spec
================================================================================
