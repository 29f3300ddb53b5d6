---------------------------- MODULE FairSlotsProofs ----------------------------
(***************************************************************************)
(* The safety properties of FairSlots for every number of sessions, agents  *)
(* and slots.  Each inductive invariant is TypeOK with one named part: the   *)
(* counter (SlotsExact), the gate (GateHolds), the rotations (Rotation).     *)
(***************************************************************************)
EXTENDS FairSlots, FiniteSetTheorems, SequenceTheorems,
        WellFoundedInduction, TLAPS

--------------------------------------------------------------------------------
(* The rotations are sequences without repetition *)

NoRepeat(q) == \A i, j \in DOMAIN q : q[i] = q[j] => i = j
Members(q) == {q[i] : i \in DOMAIN q}

\* A non-empty set of naturals has a least element.
LEMMA LeastNatural ==
    ASSUME NEW H \in SUBSET Nat, H # {}
    PROVE  \E n \in H : \A m \in H : n <= m
PROOF
  <1> DEFINE R == {p \in Nat \X Nat : p[1] < p[2]}
  <1>1. IsWellFoundedOn(R, Nat)
    BY NatLessThanWellFounded DEF OpToRel
  <1>2. PICK n \in H : \A m \in H : <<m, n>> \notin R
    BY <1>1, WFMin, Zenon
  <1>3. ASSUME NEW m \in H, m < n
        PROVE  FALSE
    <2>1. m \in Nat /\ n \in Nat
      OBVIOUS
    <2>2. <<m, n>> \in R
      BY <1>3, <2>1
    <2> QED
      BY <1>2, <2>2
  <1>4. H \subseteq Nat
    OBVIOUS
  <1> HIDE DEF R
  <1> QED
    BY <1>3, <1>4

\* The position that rr.index finds exists.
LEMMA PositionProperties ==
    ASSUME NEW q \in Seq(Session), NEW s, \E i \in DOMAIN q : q[i] = s
    PROVE  Position(q, s) \in 1 .. Len(q) /\ q[Position(q, s)] = s
PROOF
  <1> DEFINE H == {i \in 1 .. Len(q) : q[i] = s}
  <1>1. DOMAIN q = 1 .. Len(q) /\ Len(q) \in Nat
    BY LenProperties
  <1>2. PICK n \in H : \A m \in H : n <= m
    <2>1. PICK i \in DOMAIN q : q[i] = s
      OBVIOUS
    <2>2. i \in H
      BY <1>1, <2>1
    <2>3. H \in SUBSET Nat
      BY <1>1
    <2> HIDE DEF H
    <2> QED
      BY <2>2, <2>3, LeastNatural
  <1>3. n \in DOMAIN q /\ q[n] = s /\ \A j \in 1 .. (n - 1) : q[j] # s
    BY <1>1, <1>2
  <1> QED
    BY <1>1, <1>3 DEF Position

\* rotate keeps the entries, each once.
LEMMA RotateProperties ==
    ASSUME NEW q \in Seq(Session), NEW s
    PROVE  /\ RotatePast(q, s) \in Seq(Session)
           /\ Members(RotatePast(q, s)) = Members(q)
           /\ NoRepeat(q) => NoRepeat(RotatePast(q, s))
PROOF
  <1>1. CASE ~ \E i \in DOMAIN q : q[i] = s
    BY <1>1 DEF RotatePast
  <1>2. CASE \E i \in DOMAIN q : q[i] = s
    <2> DEFINE k == Position(q, s)
               n == Len(q)
               u == SubSeq(q, k + 1, n)
               v == SubSeq(q, 1, k)
    <2>1. k \in 1 .. n /\ n \in Nat /\ DOMAIN q = 1 .. n
      BY <1>2, PositionProperties, LenProperties
    <2>2. \A i \in 1 .. n : q[i] \in Session
      BY <2>1, ElementOfSeq
    <2>3. RotatePast(q, s) = u \o v
      BY <1>2 DEF RotatePast
    <2> HIDE DEF k, n
    <2>4. /\ u \in Seq(Session) /\ Len(u) = n - k
          /\ \A i \in 1 .. (n - k) : u[i] = q[k + i]
      <3>1. /\ u \in Seq(Session) /\ Len(u) = IF k + 1 <= n THEN n - (k + 1) + 1 ELSE 0
            /\ \A i \in 1 .. n - (k + 1) + 1 : u[i] = q[(k + 1) + i - 1]
        BY <2>1, <2>2, SubSeqProperties
      <3>2. n - (k + 1) + 1 = n - k /\ (k + 1 <= n => n - (k + 1) + 1 = n - k)
            /\ (~(k + 1 <= n) => n - k = 0)
        BY <2>1
      <3>3. ASSUME NEW i \in 1 .. (n - k) PROVE u[i] = q[k + i]
        <4>1. (k + 1) + i - 1 = k + i
          BY <2>1
        <4> QED
          BY <3>1, <3>2, <4>1
      <3> QED
        BY <3>1, <3>2, <3>3
    <2>5. /\ v \in Seq(Session) /\ Len(v) = k
          /\ \A i \in 1 .. k : v[i] = q[i]
      <3>1. /\ v \in Seq(Session) /\ Len(v) = IF 1 <= k THEN k - 1 + 1 ELSE 0
            /\ \A i \in 1 .. k - 1 + 1 : v[i] = q[1 + i - 1]
        BY <2>1, <2>2, SubSeqProperties
      <3> QED
        BY <2>1, <3>1
    <2> DEFINE r == u \o v
    <2> HIDE DEF u, v
    <2>6. /\ r \in Seq(Session) /\ Len(r) = n /\ DOMAIN r = 1 .. n
          /\ \A i \in 1 .. n : r[i] = IF i <= n - k THEN q[k + i] ELSE q[i - (n - k)]
      <3>1. /\ r \in Seq(Session) /\ Len(r) = Len(u) + Len(v)
            /\ \A i \in 1 .. Len(u) + Len(v) :
                    r[i] = IF i <= Len(u) THEN u[i] ELSE v[i - Len(u)]
        BY <2>4, <2>5, ConcatProperties
      <3>2. DOMAIN r = 1 .. Len(r)
        BY <3>1, LenProperties
      <3> HIDE DEF r
      <3>3. Len(u) + Len(v) = n
        BY <2>1, <2>4, <2>5
      <3>4. ASSUME NEW i \in 1 .. n
            PROVE  r[i] = IF i <= n - k THEN q[k + i] ELSE q[i - (n - k)]
        <4>1. r[i] = IF i <= n - k THEN u[i] ELSE v[i - (n - k)]
          BY <2>4, <3>1, <3>3
        <4>2. i <= n - k => i \in 1 .. (n - k)
          BY <2>1
        <4>3. ~(i <= n - k) => i - (n - k) \in 1 .. k
          BY <2>1
        <4> QED
          BY <2>4, <2>5, <4>1, <4>2, <4>3
      <3> QED
        BY <3>1, <3>2, <3>3, <3>4
    <2> HIDE DEF r
    <2>7. Members(r) = Members(q)
      <3>1. ASSUME NEW i \in 1 .. n PROVE \E j \in 1 .. n : q[j] = r[i]
        <4>1. i <= n - k => k + i \in 1 .. n
          BY <2>1
        <4>2. ~(i <= n - k) => i - (n - k) \in 1 .. n
          BY <2>1
        <4> QED
          BY <2>6, <4>1, <4>2
      <3>2. ASSUME NEW j \in 1 .. n PROVE \E i \in 1 .. n : r[i] = q[j]
        <4>1. CASE j > k
          <5>1. j - k \in 1 .. n /\ j - k <= n - k /\ k + (j - k) = j
            BY <2>1, <4>1
          <5> QED
            BY <2>6, <5>1
        <4>2. CASE j <= k
          <5>1. j + (n - k) \in 1 .. n /\ ~(j + (n - k) <= n - k)
                    /\ (j + (n - k)) - (n - k) = j
            BY <2>1, <4>2
          <5> QED
            BY <2>6, <5>1
        <4> QED
          BY <2>1, <4>1, <4>2
      <3>3. Members(r) = {r[i] : i \in 1 .. n} /\ Members(q) = {q[i] : i \in 1 .. n}
        BY <2>1, <2>6 DEF Members
      <3>4. ASSUME NEW x \in Members(r) PROVE x \in Members(q)
        <4>1. PICK i \in 1 .. n : x = r[i]
          BY <3>3
        <4> QED
          BY <3>1, <3>3, <4>1
      <3>5. ASSUME NEW x \in Members(q) PROVE x \in Members(r)
        <4>1. PICK j \in 1 .. n : x = q[j]
          BY <3>3
        <4> QED
          BY <3>2, <3>3, <4>1
      <3> QED
        BY <3>4, <3>5
    <2>8. ASSUME NoRepeat(q) PROVE NoRepeat(r)
      <3>1. \A i, j \in 1 .. n : q[i] = q[j] => i = j
        BY <2>1, <2>8 DEF NoRepeat
      <3>2. ASSUME NEW i \in 1 .. n, NEW j \in 1 .. n, r[i] = r[j] PROVE i = j
        <4> DEFINE x == IF i <= n - k THEN k + i ELSE i - (n - k)
                   y == IF j <= n - k THEN k + j ELSE j - (n - k)
        <4>1. x \in 1 .. n /\ y \in 1 .. n
          BY <2>1
        <4>2. q[x] = r[i] /\ q[y] = r[j]
          BY <2>6
        <4>3. x = y
          BY <3>1, <3>2, <4>1, <4>2
        <4> QED
          BY <2>1, <4>3
      <3> QED
        BY <2>6, <3>2 DEF NoRepeat
    <2> QED
      BY <2>3, <2>6, <2>7, <2>8 DEF r
  <1> QED
    BY <1>1, <1>2

\* remove drops the only entry of s and keeps the others.
LEMMA WithoutProperties ==
    ASSUME NEW q \in Seq(Session), NEW s
    PROVE  /\ Without(q, s) \in Seq(Session)
           /\ NoRepeat(q) => /\ NoRepeat(Without(q, s))
                             /\ Members(Without(q, s)) = Members(q) \ {s}
PROOF
  <1>1. CASE ~ \E i \in DOMAIN q : q[i] = s
    BY <1>1 DEF Without, Members
  <1>2. CASE \E i \in DOMAIN q : q[i] = s
    <2> DEFINE k == Position(q, s)
               n == Len(q)
               u == SubSeq(q, 1, k - 1)
               v == SubSeq(q, k + 1, n)
    <2>1. k \in 1 .. n /\ n \in Nat /\ DOMAIN q = 1 .. n /\ q[k] = s
      BY <1>2, PositionProperties, LenProperties
    <2>2. \A i \in 1 .. n : q[i] \in Session
      BY <2>1, ElementOfSeq
    <2>3. Without(q, s) = u \o v
      BY <1>2 DEF Without
    <2> HIDE DEF k, n
    <2>4. /\ u \in Seq(Session) /\ Len(u) = k - 1
          /\ \A i \in 1 .. (k - 1) : u[i] = q[i]
      <3>1. /\ u \in Seq(Session)
            /\ Len(u) = IF 1 <= k - 1 THEN (k - 1) - 1 + 1 ELSE 0
            /\ \A i \in 1 .. (k - 1) - 1 + 1 : u[i] = q[1 + i - 1]
        BY <2>1, <2>2, SubSeqProperties
      <3>2. (k - 1) - 1 + 1 = k - 1 /\ (~(1 <= k - 1) => k - 1 = 0)
        BY <2>1
      <3> QED
        BY <3>1, <3>2
    <2>5. /\ v \in Seq(Session) /\ Len(v) = n - k
          /\ \A i \in 1 .. (n - k) : v[i] = q[k + i]
      <3>1. /\ v \in Seq(Session) /\ Len(v) = IF k + 1 <= n THEN n - (k + 1) + 1 ELSE 0
            /\ \A i \in 1 .. n - (k + 1) + 1 : v[i] = q[(k + 1) + i - 1]
        BY <2>1, <2>2, SubSeqProperties
      <3>2. n - (k + 1) + 1 = n - k /\ (~(k + 1 <= n) => n - k = 0)
        BY <2>1
      <3>3. ASSUME NEW i \in 1 .. (n - k) PROVE v[i] = q[k + i]
        <4>1. (k + 1) + i - 1 = k + i
          BY <2>1
        <4> QED
          BY <3>1, <3>2, <4>1
      <3> QED
        BY <3>1, <3>2, <3>3
    <2> DEFINE r == u \o v
               at(i) == IF i < k THEN i ELSE i + 1
    <2> HIDE DEF u, v
    <2>6. /\ r \in Seq(Session) /\ DOMAIN r = 1 .. (n - 1)
          /\ \A i \in 1 .. (n - 1) : r[i] = q[at(i)]
      <3>1. /\ r \in Seq(Session) /\ Len(r) = Len(u) + Len(v)
            /\ \A i \in 1 .. Len(u) + Len(v) :
                    r[i] = IF i <= Len(u) THEN u[i] ELSE v[i - Len(u)]
        BY <2>4, <2>5, ConcatProperties
      <3>2. DOMAIN r = 1 .. Len(r)
        BY <3>1, LenProperties
      <3> HIDE DEF r
      <3>3. Len(u) + Len(v) = n - 1
        BY <2>1, <2>4, <2>5
      <3>4. ASSUME NEW i \in 1 .. (n - 1) PROVE r[i] = q[at(i)]
        <4>1. r[i] = IF i <= k - 1 THEN u[i] ELSE v[i - (k - 1)]
          BY <2>4, <3>1, <3>3
        <4>2. i <= k - 1 => i \in 1 .. (k - 1) /\ i < k
          BY <2>1
        <4>3. ~(i <= k - 1) => i - (k - 1) \in 1 .. (n - k) /\ ~(i < k)
                                /\ k + (i - (k - 1)) = i + 1
          BY <2>1
        <4> QED
          BY <2>4, <2>5, <4>1, <4>2, <4>3
      <3> QED
        BY <3>1, <3>2, <3>3, <3>4
    <2> HIDE DEF r
    <2>7. \A i \in 1 .. (n - 1) : at(i) \in (1 .. n) \ {k}
      BY <2>1
    <2>8. ASSUME NoRepeat(q) PROVE NoRepeat(r) /\ Members(r) = Members(q) \ {s}
      <3>1. \A i, j \in 1 .. n : q[i] = q[j] => i = j
        BY <2>1, <2>8 DEF NoRepeat
      <3>2. ASSUME NEW i \in 1 .. (n - 1), NEW j \in 1 .. (n - 1), r[i] = r[j] PROVE i = j
        <4>1. at(i) = at(j)
          BY <2>6, <2>7, <3>1, <3>2
        <4> QED
          BY <2>1, <4>1
      <3>3. ASSUME NEW i \in 1 .. (n - 1)
            PROVE  r[i] # s /\ \E j \in 1 .. n : q[j] = r[i]
        BY <2>1, <2>6, <2>7, <3>1
      <3>4. ASSUME NEW j \in 1 .. n, q[j] # s PROVE \E i \in 1 .. (n - 1) : r[i] = q[j]
        <4>1. j # k
          BY <2>1, <3>4
        <4>2. CASE j < k
          <5>1. j \in 1 .. (n - 1) /\ at(j) = j
            BY <2>1, <4>2
          <5> QED
            BY <2>6, <5>1
        <4>3. CASE j > k
          <5>1. j - 1 \in 1 .. (n - 1) /\ at(j - 1) = j
            BY <2>1, <4>3
          <5> QED
            BY <2>6, <5>1
        <4> QED
          BY <2>1, <4>1, <4>2, <4>3
      <3>5. Members(r) = {r[i] : i \in 1 .. (n - 1)} /\ Members(q) = {q[i] : i \in 1 .. n}
        BY <2>1, <2>6 DEF Members
      <3> QED
        BY <2>6, <3>2, <3>3, <3>4, <3>5 DEF NoRepeat
    <2> QED
      BY <2>3, <2>6, <2>8 DEF r
  <1> QED
    BY <1>1, <1>2

\* append adds an entry at the end.
LEMMA EnrolProperties ==
    ASSUME NEW q \in Seq(Session), NEW s \in Session
    PROVE  /\ Append(q, s) \in Seq(Session)
           /\ Members(Append(q, s)) = Members(q) \union {s}
           /\ NoRepeat(q) /\ s \notin Members(q) => NoRepeat(Append(q, s))
PROOF
  <1> DEFINE r == Append(q, s)
             n == Len(q)
  <1>1. r \in Seq(Session) /\ Len(r) = n + 1 /\ n \in Nat
        /\ (\A i \in 1 .. n : r[i] = q[i]) /\ r[n + 1] = s
    BY AppendProperties, LenProperties
  <1>2. DOMAIN q = 1 .. n /\ DOMAIN r = 1 .. (n + 1)
    BY <1>1, LenProperties
  <1> HIDE DEF r, n
  <1>3. Members(r) = {r[i] : i \in 1 .. (n + 1)} /\ Members(q) = {q[i] : i \in 1 .. n}
    BY <1>2 DEF Members
  <1>4. \A i \in 1 .. (n + 1) : i \in 1 .. n \/ i = n + 1
    BY <1>1
  <1>5. \A i \in 1 .. n : i \in 1 .. (n + 1)
    BY <1>1
  <1>6. n + 1 \in 1 .. (n + 1)
    BY <1>1
  <1>7. Members(r) = Members(q) \union {s}
    BY <1>1, <1>3, <1>4, <1>5, <1>6
  <1>8. NoRepeat(q) /\ s \notin Members(q) => NoRepeat(r)
    BY <1>1, <1>2, <1>3, <1>4 DEF NoRepeat
  <1> QED
    BY <1>1, <1>7, <1>8 DEF r

--------------------------------------------------------------------------------
(* The counter *)

\* _global_in_flight is typed and equals the number of sessions that own a slot: what the
\* proofs carry from step to step.
Counter == TypeOK /\ SlotsExact

\* A new runtime has no slot in use and counts none (__init__).
LEMMA CounterInit == Init => Counter
PROOF
  <1> SUFFICES ASSUME Init PROVE Counter
    OBVIOUS
  <1>1. TypeOK
    BY EmptySeq DEF Init, TypeOK, PC
  <1>2. SlotsExact
    BY FS_EmptySet, FairSlotsAssumption DEF Init, SlotsExact
  <1> QED
    BY <1>1, <1>2 DEF Counter

\* The slots in use are finitely many, and one more or one less is counted as such.
LEMMA SlotCounting ==
    ASSUME NEW A \in SUBSET Session, NEW s \in Session
    PROVE  /\ Cardinality(A) \in Nat
           /\ s \notin A => Cardinality(A \union {s}) = Cardinality(A) + 1
           /\ Cardinality(A \ {s}) = IF s \in A THEN Cardinality(A) - 1 ELSE Cardinality(A)
           /\ Cardinality(A \ {s}) \in Nat
PROOF
  <1>1. IsFiniteSet(A) /\ IsFiniteSet(A \ {s})
    BY FairSlotsAssumption, FS_Subset
  <1> QED
    BY <1>1, FS_CardinalityType, FS_AddElement, FS_RemoveElement

\* ReleaseSlot gives the slot back once.
LEMMA ReleaseCounts ==
    ASSUME Counter, NEW s \in Session, ReleaseSlot(s)
    PROVE  inFlight' \in Nat /\ inFlight' = Cardinality(acquired')
PROOF
  <1>1. acquired \in SUBSET Session /\ inFlight = Cardinality(acquired)
    BY DEF Counter, TypeOK, SlotsExact
  <1>2. /\ Cardinality(acquired \ {s}) \in Nat
        /\ Cardinality(acquired \ {s}) = IF s \in acquired THEN Cardinality(acquired) - 1
                                          ELSE Cardinality(acquired)
    BY <1>1, SlotCounting
  <1> QED
    BY <1>1, <1>2 DEF ReleaseSlot

\* Every grant, hand-over to an external wait, refusal and release moves the counter
\* together with the ownership it counts.
LEMMA CounterNext == Counter /\ [Next]_vars => Counter'
PROOF
  <1> SUFFICES ASSUME Counter, [Next]_vars PROVE Counter'
    OBVIOUS
  <1> USE FairSlotsAssumption DEF PC
  <1>a. TypeOK /\ SlotsExact
    BY DEF Counter
  <1>b. \A s \in Session : s \in acquired <=> pc[s] \in {"granted", "running"}
    BY <1>a DEF SlotsExact, TypeOK
  <1>1. ASSUME NEW s \in Session, Submit(s) PROVE Counter'
    <2>1. rr' \in [Agent -> Seq(Session)]
      BY <1>1, <1>a, EnrolProperties DEF Submit, TypeOK
    <2> QED
      BY <1>1, <1>a, <2>1 DEF Submit, Counter, TypeOK, SlotsExact
  <1>2. ASSUME NEW s \in Session, ParkAtGate(s) PROVE Counter'
    BY <1>2, <1>a DEF ParkAtGate, Asks, Counter, TypeOK, SlotsExact
  <1>3. ASSUME NEW s \in Session, ParkFair(s) PROVE Counter'
    BY <1>3, <1>a DEF ParkFair, Asks, Counter, TypeOK, SlotsExact
  <1>4. ASSUME NEW s \in Session, TakeSlot(s) PROVE Counter'
    <2>1. rr' \in [Agent -> Seq(Session)]
      BY <1>4, <1>a, RotateProperties DEF TakeSlot, TypeOK
    <2>2. s \notin acquired
      BY <1>4, <1>b DEF TakeSlot, Asks
    <2>3. inFlight' \in Nat /\ inFlight' = Cardinality(acquired')
      <3>1. acquired \in SUBSET Session /\ inFlight = Cardinality(acquired)
        BY <1>a DEF TypeOK, SlotsExact
      <3>2. /\ Cardinality(acquired) \in Nat
            /\ Cardinality(acquired \union {s}) = Cardinality(acquired) + 1
        BY <2>2, <3>1, SlotCounting
      <3> QED
        BY <1>4, <3>1, <3>2 DEF TakeSlot
    <2>4. TypeOK'
      BY <1>4, <1>a, <2>1, <2>3 DEF TakeSlot, LeaveFair, TypeOK
    <2>5. acquired' = {z \in Session : pc'[z] \in {"granted", "running"}}
      BY <1>4, <1>a DEF TakeSlot, TypeOK, SlotsExact
    <2> QED
      BY <2>3, <2>4, <2>5 DEF Counter, SlotsExact
  <1>5. ASSUME NEW s \in Session, MarkRunning(s) PROVE Counter'
    BY <1>5, <1>a DEF MarkRunning, Counter, TypeOK, SlotsExact
  <1>6. ASSUME NEW s \in Session, EndTurn(s) PROVE Counter'
    <2>1. inFlight' \in Nat /\ inFlight' = Cardinality(acquired')
      BY <1>6, ReleaseCounts DEF EndTurn
    <2>2. TypeOK'
      BY <1>6, <1>a, <2>1 DEF EndTurn, ReleaseSlot, TypeOK
    <2>3. acquired' = {z \in Session : pc'[z] \in {"granted", "running"}}
      BY <1>6, <1>a DEF EndTurn, ReleaseSlot, TypeOK, SlotsExact
    <2> QED
      BY <2>1, <2>2, <2>3 DEF Counter, SlotsExact
  <1>7. ASSUME NEW s \in Session, Suspend(s) PROVE Counter'
    <2>1. inFlight' \in Nat /\ inFlight' = Cardinality(acquired')
      BY <1>7, ReleaseCounts DEF Suspend
    <2>2. TypeOK'
      BY <1>7, <1>a, <2>1 DEF Suspend, ReleaseSlot, TypeOK
    <2>3. acquired' = {z \in Session : pc'[z] \in {"granted", "running"}}
      BY <1>7, <1>a DEF Suspend, ReleaseSlot, TypeOK, SlotsExact
    <2> QED
      BY <2>1, <2>2, <2>3 DEF Counter, SlotsExact
  <1>8. ASSUME NEW s \in Session, Abandon(s) PROVE Counter'
    BY <1>8, <1>a DEF Abandon, Counter, TypeOK, SlotsExact
  <1>9. ASSUME NEW s \in Session, Settle(s) PROVE Counter'
    <2>1. rr' \in [Agent -> Seq(Session)]
      <3>1. rr \in [Agent -> Seq(Session)] /\ AgentOf[s] \in Agent
        BY <1>a DEF TypeOK
      <3>2. Without(rr[AgentOf[s]], s) \in Seq(Session)
        BY <3>1, WithoutProperties
      <3>3. rr' = rr \/ rr' = [rr EXCEPT ![AgentOf[s]] = Without(rr[AgentOf[s]], s)]
        BY <1>9 DEF Settle
      <3> QED
        BY <3>1, <3>2, <3>3
    <2>2. TypeOK'
      BY <1>9, <1>a, <2>1 DEF Settle, TypeOK
    <2>3. SlotsExact'
      BY <1>9, <1>a DEF Settle, TypeOK, SlotsExact
    <2> QED
      BY <2>2, <2>3 DEF Counter
  <1>10. CASE UNCHANGED vars
    BY <1>10, <1>a DEF vars, Counter, TypeOK, SlotsExact
  <1> QED
    BY <1>1, <1>2, <1>3, <1>4, <1>5, <1>6, <1>7, <1>8, <1>9, <1>10 DEF Next, Ask

\* In every reachable state _global_in_flight is typed and exact, under every
\* max_concurrency and reserve that __init__ lets through.
THEOREM CounterInvariant == Spec => []Counter
PROOF
  BY CounterInit, CounterNext, PTL DEF Spec

\* Type correctness.
THEOREM TypeCorrect == Spec => []TypeOK
PROOF
  BY CounterInvariant, PTL DEF Counter

\* _global_in_flight is the number of turns that hold a slot, whatever their number and
\* however grants, external waits, refusals and cancellations follow one another.
THEOREM SlotsAreExact == Spec => []SlotsExact
PROOF
  BY CounterInvariant, PTL DEF Counter

--------------------------------------------------------------------------------
(* The waiters *)

\* Who is enrolled, who waits where.  A subagent that is past its gate never has to wait
\* among the others: at that moment two slots were idle.
Places ==
    /\ \A a \in Agent : NoRepeat(rr[a])
    /\ \A a \in Agent, s \in Session :
            s \in Members(rr[a]) <=> AgentOf[s] = a /\ pc[s] # "idle"
    /\ \A s \in waiters \union gated \union rejoin : pc[s] = "waiting"
    /\ asleep \subseteq waiters
    /\ gated \intersect waiters = {}
    /\ \A s \in waiters \intersect Subagent : Reserved = 0

\* A new runtime has empty rotations and nobody waiting (__init__).
LEMMA PlacesInit == Init => Places
PROOF
  <1> SUFFICES ASSUME Init PROVE Places
    OBVIOUS
  <1>1. \A a \in Agent : rr[a] = <<>>
    BY DEF Init
  <1>2. NoRepeat(<<>>) /\ Members(<<>>) = {}
    BY DEF NoRepeat, Members
  <1> QED
    BY <1>1, <1>2 DEF Init, Places

\* Every step of _acquire_fair_slot, _wait_for_subagent_slot, the external wait and
\* _release_slot keeps each session where its place in the code says it is.
LEMMA PlacesNext == Counter /\ Places /\ [Next]_vars => Places'
PROOF
  <1> SUFFICES ASSUME Counter, Places, [Next]_vars PROVE Places'
    OBVIOUS
  <1> USE FairSlotsAssumption DEF PC
  <1>a. TypeOK
    BY DEF Counter
  <1>b. \A a \in Agent : rr[a] \in Seq(Session)
    BY <1>a DEF TypeOK
  <1> DEFINE Lists == /\ \A a \in Agent : NoRepeat(rr[a])
                      /\ \A a \in Agent, s \in Session :
                            s \in Members(rr[a]) <=> AgentOf[s] = a /\ pc[s] # "idle"
             Spots == /\ \A s \in waiters \union gated \union rejoin : pc[s] = "waiting"
                      /\ asleep \subseteq waiters
                      /\ gated \intersect waiters = {}
                      /\ \A s \in waiters \intersect Subagent : Reserved = 0
  <1>c. Lists /\ Spots
    BY DEF Places
  <1>d. ASSUME Lists', Spots' PROVE Places'
    BY <1>d DEF Places
  <1>e. ASSUME rr' = rr, \A z \in Session : pc'[z] = "idle" <=> pc[z] = "idle"
        PROVE  Lists'
    BY <1>c, <1>e
  <1>1. ASSUME NEW s \in Session, Submit(s) PROVE Places'
    <2> DEFINE a == AgentOf[s]
    <2>1. a \in Agent /\ s \notin Members(rr[a])
      BY <1>1, <1>c DEF Submit
    <2>2. /\ Members(rr'[a]) = Members(rr[a]) \union {s}
          /\ NoRepeat(rr'[a])
          /\ \A b \in Agent \ {a} : rr'[b] = rr[b]
      BY <1>1, <1>a, <1>b, <1>c, <2>1, EnrolProperties DEF Submit, TypeOK
    <2>3. \A z \in Session : pc'[z] # "idle" <=> z = s \/ pc[z] # "idle"
      BY <1>1, <1>a DEF Submit, TypeOK
    <2> HIDE DEF a
    <2>4. Lists'
      <3>1. \A b \in Agent : NoRepeat(rr'[b])
        BY <1>c, <2>2
      <3>2. ASSUME NEW b \in Agent, NEW z \in Session
            PROVE  z \in Members(rr'[b]) <=> AgentOf[z] = b /\ pc'[z] # "idle"
        BY <1>c, <2>1, <2>2, <2>3 DEF a
      <3> QED
        BY <3>1, <3>2
    <2>5. Spots'
      BY <1>1, <1>a, <1>c DEF Submit, TypeOK
    <2> QED
      BY <1>d, <2>4, <2>5
  <1>2. ASSUME NEW s \in Session, ParkAtGate(s) PROVE Places'
    <2>1. Lists'
      BY <1>2, <1>a, <1>e DEF ParkAtGate, Asks, TypeOK
    <2>2. Spots'
      BY <1>2, <1>a, <1>c DEF ParkAtGate, Asks, TypeOK
    <2> QED
      BY <1>d, <2>1, <2>2
  <1>3. ASSUME NEW s \in Session, ParkFair(s) PROVE Places'
    <2>1. Lists'
      BY <1>3, <1>a, <1>e DEF ParkFair, Asks, TypeOK
    <2>2. s \in Subagent => Reserved = 0
      <3>1. CASE s \in waiters
        BY <3>1, <1>c
      <3>2. CASE s \notin waiters /\ s \in Subagent /\ Reserved > 0
        <4>1. Idle > Reserved /\ inFlight \in Nat
          BY <1>3, <1>a, <3>2 DEF ParkFair, GateShut, TypeOK, Idle
        <4>2. MayTake(s, waiters \union {s})
          BY <4>1, <3>2 DEF MayTake, Idle
        <4> QED
          BY <1>3, <4>2 DEF ParkFair
      <3> QED
        BY <3>1, <3>2
    <2>3. s \notin gated
      BY <1>3, <1>c DEF ParkFair, Asks
    <2>4. Spots'
      BY <1>3, <1>a, <1>c, <2>2, <2>3 DEF ParkFair, Asks, TypeOK
    <2> QED
      BY <1>d, <2>1, <2>4
  <1>4. ASSUME NEW s \in Session, TakeSlot(s) PROVE Places'
    <2> DEFINE a == AgentOf[s]
    <2>1. a \in Agent
      OBVIOUS
    <2>2. \A b \in Agent : /\ Members(rr'[b]) = Members(rr[b])
                            /\ NoRepeat(rr'[b])
      <3>1. \A b \in Agent \ {a} : rr'[b] = rr[b]
        BY <1>4, <1>a DEF TakeSlot, TypeOK
      <3>2. rr'[a] = RotatePast(rr[a], s)
        BY <1>4, <1>a DEF TakeSlot, TypeOK
      <3>3. Members(rr'[a]) = Members(rr[a]) /\ NoRepeat(rr'[a])
        BY <1>b, <1>c, <2>1, <3>2, RotateProperties
      <3> QED
        BY <1>c, <3>1, <3>3
    <2>3. \A z \in Session : pc'[z] = "idle" <=> pc[z] = "idle"
      BY <1>4, <1>a DEF TakeSlot, Asks, TypeOK
    <2>4. Lists'
      BY <1>c, <2>2, <2>3
    <2>5. s \notin gated
      BY <1>4, <1>c DEF TakeSlot, Asks
    <2>6. Spots'
      BY <1>4, <1>a, <1>c, <2>5 DEF TakeSlot, LeaveFair, TypeOK
    <2> QED
      BY <1>d, <2>4, <2>6
  <1>5. ASSUME NEW s \in Session, MarkRunning(s) PROVE Places'
    <2>1. Lists'
      BY <1>5, <1>a, <1>e DEF MarkRunning, TypeOK
    <2>2. Spots'
      BY <1>5, <1>a, <1>c DEF MarkRunning, TypeOK
    <2> QED
      BY <1>d, <2>1, <2>2
  <1>6. ASSUME NEW s \in Session, EndTurn(s) PROVE Places'
    <2>1. Lists'
      BY <1>6, <1>a, <1>e DEF EndTurn, TypeOK
    <2>2. Spots'
      BY <1>6, <1>a, <1>c DEF EndTurn, ReleaseSlot, TypeOK
    <2> QED
      BY <1>d, <2>1, <2>2
  <1>7. ASSUME NEW s \in Session, Suspend(s) PROVE Places'
    <2>1. Lists'
      BY <1>7, <1>a, <1>e DEF Suspend, TypeOK
    <2>2. Spots'
      BY <1>7, <1>a, <1>c DEF Suspend, ReleaseSlot, TypeOK
    <2> QED
      BY <1>d, <2>1, <2>2
  <1>8. ASSUME NEW s \in Session, Abandon(s) PROVE Places'
    <2>1. Lists'
      BY <1>8, <1>a, <1>e DEF Abandon, TypeOK
    <2>2. s \notin waiters \union rejoin => s \notin asleep
      BY <1>c
    <2>3. Spots'
      BY <1>8, <1>a, <1>c, <2>2 DEF Abandon, TypeOK
    <2> QED
      BY <1>d, <2>1, <2>3
  <1>9. ASSUME NEW s \in Session, Settle(s) PROVE Places'
    <2> DEFINE a == AgentOf[s]
    <2>1. a \in Agent
      OBVIOUS
    <2>2. Lists'
      <3>1. CASE rr' = rr /\ pc' = [pc EXCEPT ![s] = "queued"]
        BY <1>9, <3>1, <1>a, <1>e DEF Settle, TypeOK
      <3>2. CASE pc' = [pc EXCEPT ![s] = "idle"]
                  /\ rr' = [rr EXCEPT ![a] = Without(rr[a], s)]
        <4>1. \A b \in Agent \ {a} : rr'[b] = rr[b]
          BY <3>2, <1>a DEF TypeOK
        <4>2. NoRepeat(rr'[a]) /\ Members(rr'[a]) = Members(rr[a]) \ {s}
          <5>1. rr'[a] = Without(rr[a], s)
            BY <3>2, <1>a DEF TypeOK
          <5> QED
            BY <1>b, <1>c, <2>1, <5>1, WithoutProperties
        <4>3. \A z \in Session : pc'[z] # "idle" <=> z # s /\ pc[z] # "idle"
          BY <3>2, <1>a DEF TypeOK
        <4>4. \A b \in Agent : NoRepeat(rr'[b])
          BY <1>c, <4>1, <4>2
        <4>5. ASSUME NEW b \in Agent, NEW z \in Session
              PROVE  z \in Members(rr'[b]) <=> AgentOf[z] = b /\ pc'[z] # "idle"
          BY <1>c, <4>1, <4>2, <4>3
        <4> QED
          BY <4>4, <4>5
      <3> QED
        BY <1>9, <3>1, <3>2 DEF Settle
    <2>3. Spots'
      BY <1>9, <1>a, <1>c DEF Settle, TypeOK
    <2> QED
      BY <1>d, <2>2, <2>3
  <1>10. CASE UNCHANGED vars
    BY <1>10, <1>c, <1>d DEF vars
  <1> QED
    BY <1>1, <1>2, <1>3, <1>4, <1>5, <1>6, <1>7, <1>8, <1>9, <1>10 DEF Next, Ask

\* No step leaves a sleeper whose predicate has become true without a signal: what opens
\* a slot or moves a rotation also notifies.
LEMMA WakeupNext == Counter /\ Places /\ NoLostWakeup /\ [Next]_vars => NoLostWakeup'
PROOF
  <1> SUFFICES ASSUME Counter, Places, NoLostWakeup, [Next]_vars PROVE NoLostWakeup'
    OBVIOUS
  <1> USE FairSlotsAssumption DEF PC
  <1>a. TypeOK
    BY DEF Counter
  <1>b. asleep \subseteq waiters /\ \A s \in waiters : s \in Session /\ pc[s] = "waiting"
    BY <1>a DEF Places, TypeOK
  <1>c. (\A z \in asleep : ~MayTake(z, waiters)) /\ (\A z \in gated : GateShut(z))
    BY DEF NoLostWakeup
  <1>1. ASSUME NEW s \in Session, Submit(s) PROVE NoLostWakeup'
    <2>1. ASSUME NEW z \in asleep, FirstWaiter(z, waiters)' PROVE FirstWaiter(z, waiters)
      <3> DEFINE a == AgentOf[z]
                 q == rr[a]
      <3>1. z \in Session /\ z # s /\ a \in Agent /\ q \in Seq(Session)
        BY <1>1, <1>a, <1>b DEF Submit, TypeOK
      <3>2. rr'[a] = q \/ rr'[a] = Append(q, s)
        BY <1>1, <1>a DEF Submit, TypeOK
      <3>3. waiters' = waiters
        BY <1>1 DEF Submit
      <3>4. /\ DOMAIN q = 1 .. Len(q) /\ Len(q) \in Nat
            /\ DOMAIN Append(q, s) = 1 .. (Len(q) + 1)
            /\ \A i \in 1 .. Len(q) : Append(q, s)[i] = q[i]
            /\ Append(q, s)[Len(q) + 1] = s
        BY <3>1, AppendProperties, LenProperties
      <3> HIDE DEF q
      <3>5. PICK i \in DOMAIN rr'[a] : /\ rr'[a][i] = z
                                       /\ \A j \in 1 .. (i - 1) : rr'[a][j] \notin waiters
        BY <2>1, <3>3 DEF FirstWaiter
      <3>6. CASE rr'[a] = q
        BY <3>5, <3>6 DEF FirstWaiter, q
      <3>7. CASE rr'[a] = Append(q, s)
        <4>1. i \in 1 .. Len(q)
          <5>1. i \in 1 .. (Len(q) + 1)
            BY <3>4, <3>5, <3>7
          <5>2. i # Len(q) + 1
            BY <3>1, <3>4, <3>5, <3>7
          <5> QED
            BY <3>4, <5>1, <5>2
        <4>2. \A j \in 1 .. (i - 1) : j \in 1 .. Len(q)
          BY <3>4, <4>1
        <4>3. q[i] = z /\ \A j \in 1 .. (i - 1) : q[j] \notin waiters
          BY <3>4, <3>5, <3>7, <4>1, <4>2
        <4> QED
          BY <3>4, <4>1, <4>3 DEF FirstWaiter, q
      <3> QED
        BY <3>2, <3>6, <3>7
    <2>2. UNCHANGED <<waiters, asleep, gated, inFlight>>
      BY <1>1 DEF Submit
    <2>3. \A z \in asleep : ~MayTake(z, waiters)'
      BY <1>c, <2>1, <2>2 DEF MayTake, Idle
    <2> QED
      BY <1>c, <2>2, <2>3 DEF NoLostWakeup, GateShut, Idle
  <1>2. ASSUME NEW s \in Session, ParkAtGate(s) PROVE NoLostWakeup'
    BY <1>2, <1>c DEF ParkAtGate, NoLostWakeup, MayTake, FirstWaiter, GateShut, Idle
  <1>3. ASSUME NEW s \in Session, ParkFair(s) PROVE NoLostWakeup'
    <2>1. UNCHANGED <<rr, inFlight, gated>> /\ waiters' = waiters \union {s}
          /\ asleep' = asleep \union {s} /\ ~MayTake(s, waiters \union {s})
      BY <1>3 DEF ParkFair
    <2>2. \A z \in asleep : ~MayTake(z, waiters \union {s})
      BY <1>c DEF MayTake, FirstWaiter
    <2>3. \A z \in asleep' : ~MayTake(z, waiters)'
      BY <2>1, <2>2 DEF MayTake, FirstWaiter, Idle
    <2> QED
      BY <1>c, <2>1, <2>3 DEF NoLostWakeup, GateShut, Idle
  <1>4. ASSUME NEW s \in Session, TakeSlot(s) PROVE NoLostWakeup'
    <2>1. asleep' = {} /\ gated' = gated /\ inFlight' = inFlight + 1 /\ inFlight \in Nat
      BY <1>4, <1>a DEF TakeSlot, LeaveFair, TypeOK
    <2> QED
      BY <1>c, <2>1 DEF NoLostWakeup, GateShut, Idle
  <1>5. ASSUME NEW s \in Session, MarkRunning(s) PROVE NoLostWakeup'
    BY <1>5, <1>c DEF MarkRunning, NoLostWakeup, MayTake, FirstWaiter, GateShut, Idle
  <1>6. ASSUME NEW s \in Session, EndTurn(s) PROVE NoLostWakeup'
    BY <1>6 DEF EndTurn, ReleaseSlot, NoLostWakeup
  <1>7. ASSUME NEW s \in Session, Suspend(s) PROVE NoLostWakeup'
    BY <1>7 DEF Suspend, ReleaseSlot, NoLostWakeup
  <1>8. ASSUME NEW s \in Session, Abandon(s) PROVE NoLostWakeup'
    <2>1. UNCHANGED <<rr, inFlight>> /\ gated' \subseteq gated
      BY <1>8 DEF Abandon
    <2>2. CASE s \in waiters \union rejoin
      <3>1. asleep' = {}
        BY <1>8, <2>2 DEF Abandon
      <3> QED
        BY <1>c, <2>1, <3>1 DEF NoLostWakeup, GateShut, Idle
    <2>3. CASE s \notin waiters \union rejoin
      <3>1. waiters' = waiters /\ asleep' = asleep
        BY <1>8, <2>3 DEF Abandon
      <3> QED
        BY <1>c, <2>1, <3>1 DEF NoLostWakeup, MayTake, FirstWaiter, GateShut, Idle
    <2> QED
      BY <2>2, <2>3
  <1>9. ASSUME NEW s \in Session, Settle(s) PROVE NoLostWakeup'
    <2>1. UNCHANGED <<waiters, gated, inFlight>>
      BY <1>9 DEF Settle
    <2>2. asleep' = {} \/ UNCHANGED <<rr, asleep>>
      BY <1>9 DEF Settle
    <2> QED
      BY <1>c, <2>1, <2>2 DEF NoLostWakeup, MayTake, FirstWaiter, GateShut, Idle
  <1>10. CASE UNCHANGED vars
    BY <1>10, <1>c DEF vars, NoLostWakeup, MayTake, FirstWaiter, GateShut, Idle
  <1> QED
    BY <1>1, <1>2, <1>3, <1>4, <1>5, <1>6, <1>7, <1>8, <1>9, <1>10 DEF Next, Ask

\* In every reachable state a session is in its agent's rotation, once, exactly while its
\* turn is somewhere in the gate, and only waiting sessions sleep.
THEOREM PlacesInvariant == Spec => []Places
PROOF
  BY PlacesInit, PlacesNext, CounterInvariant, PTL DEF Spec

\* No waiter sleeps through the moment at which it may take a slot: every change of the
\* predicate of _acquire_fair_slot and of _wait_for_subagent_slot is signalled.
THEOREM NoWakeupIsLost == Spec => []NoLostWakeup
PROOF
  <1>1. Init => NoLostWakeup
    BY DEF Init, NoLostWakeup
  <1> QED
    BY <1>1, WakeupNext, CounterInvariant, PlacesInvariant, PTL DEF Spec

\* A waiting turn is in its agent's rotation, and no session is in it twice.
THEOREM WaitersAreEnrolled == Spec => []WaitersEnrolled
PROOF
  <1>1. TypeOK /\ Places => WaitersEnrolled
    <2> SUFFICES ASSUME TypeOK, Places PROVE WaitersEnrolled
      OBVIOUS
    <2> USE FairSlotsAssumption
    <2>1. ASSUME NEW s \in waiters PROVE Enrolled(s)
      <3>1. s \in Session /\ AgentOf[s] \in Agent /\ pc[s] = "waiting"
        BY <2>1 DEF TypeOK, Places
      <3>2. s \in Members(rr[AgentOf[s]])
        BY <3>1 DEF Places
      <3> QED
        BY <3>2 DEF Members, Enrolled
    <2>2. \A a \in Agent : NoRepeat(rr[a])
      BY DEF Places
    <2> QED
      BY <2>1, <2>2 DEF WaitersEnrolled, NoRepeat
  <1> QED
    BY <1>1, TypeCorrect, PlacesInvariant, PTL

--------------------------------------------------------------------------------
(* The gate implements the slot pool *)

\* A step of the gate grants one slot within max_concurrency, gives one back, or leaves
\* the owners of the slots alone.
LEMMA StepImplementsPool == Counter /\ Places /\ [Next]_vars => [Pool!Next]_acquired
PROOF
  <1> SUFFICES ASSUME Counter, Places, [Next]_vars, acquired' # acquired
               PROVE  Pool!Next
    OBVIOUS
  <1> USE FairSlotsAssumption DEF PC
  <1>a. TypeOK /\ inFlight = Cardinality(acquired)
    BY DEF Counter, SlotsExact
  <1>b. \A s \in Session : s \in acquired <=> pc[s] \in {"granted", "running"}
    BY DEF Counter, SlotsExact
  <1>1. ASSUME NEW s \in Session, ReleaseSlot(s) PROVE Pool!Next
    BY <1>1 DEF ReleaseSlot, Pool!Next, Pool!Release
  <1>2. ASSUME NEW s \in Session, TakeSlot(s) PROVE Pool!Next
    <2>1. s \notin acquired /\ acquired' = acquired \union {s}
      BY <1>2, <1>b DEF TakeSlot, Asks
    <2>2. inFlight < MaxConcurrency /\ inFlight \in Nat
      BY <1>2, <1>a DEF TakeSlot, MayTake, TypeOK
    <2>3. s \in Subagent => inFlight + Reserved < MaxConcurrency
      <3>1. CASE s \in waiters /\ s \in Subagent
        BY <2>2, <3>1 DEF Places
      <3>2. CASE s \notin waiters /\ s \in Subagent
        BY <1>2, <2>2, <3>2 DEF TakeSlot, GateShut, Idle
      <3> QED
        BY <3>1, <3>2
    <2>4. Pool!Cardinality(acquired) = inFlight
      BY <1>a DEF Pool!Cardinality, Cardinality
    <2>5. Pool!Acquire(s)
      BY <2>1, <2>2, <2>3, <2>4 DEF Pool!Acquire
    <2> QED
      BY <2>5 DEF Pool!Next
  <1>3. ASSUME NEW s \in Session,
               Submit(s) \/ ParkAtGate(s) \/ ParkFair(s) \/ MarkRunning(s) \/ Abandon(s)
                 \/ Settle(s)
        PROVE  Pool!Next
    BY <1>3 DEF Submit, ParkAtGate, ParkFair, MarkRunning, Abandon, Settle
  <1>4. CASE UNCHANGED vars
    BY <1>4 DEF vars
  <1> QED
    BY <1>1, <1>2, <1>3, <1>4 DEF Next, Ask, EndTurn, Suspend

\* At most MaxConcurrency turns hold a slot and subagents leave the reserve alone, for
\* every configuration that __init__ lets through.
THEOREM GateImplementsPool == Spec => ImplementsPool
PROOF
  <1>1. Init => Pool!Init
    BY DEF Init, Pool!Init
  <1> QED
    BY <1>1, StepImplementsPool, CounterInvariant, PlacesInvariant, PTL
       DEF Spec, ImplementsPool, Pool!Spec

================================================================================
