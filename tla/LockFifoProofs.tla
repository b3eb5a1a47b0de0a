--------------------------- MODULE LockFifoProofs ---------------------------
(***************************************************************************)
(* Proofs about LockFifo, for any threads, priorities and size: the ring   *)
(* is never full, and it implements PriorityQueue.                         *)
(***************************************************************************)
EXTENDS LockFifo, WaitQueueProofs, FiniteSetTheorems

\* The slot d steps behind slot i, and the steps from slot i to slot j.
Onward(i, d) == IF i + d < NbThreads THEN i + d ELSE i + d - NbThreads
Steps(i, j) == IF i <= j THEN j - i ELSE j - i + NbThreads

\* The entries from slot h to the one before slot l.
Stored(h, l, b) == [i \in 1 .. Steps(h, l) |-> b[Onward(h, i - 1)]]

\* The operators of WaitQueue are the same in the instance of PriorityQueue.
LEMMA SameQueueOperators ==
  /\ \A q : Queue!Queued(q) = Queued(q)
  /\ \A q, t : Queue!Withdraw(q, t) = Withdraw(q, t)
  /\ \A q, t, p, d : Queue!EnqueueIn(q, t, p, d) = EnqueueIn(q, t, p, d)
<1>1. \A q : Queue!Queued(q) = Queued(q)
  BY DEF Queue!Queued, Queue!Range, Queued, Range
<1>2. \A q, t : Queue!Withdraw(q, t) = Withdraw(q, t)
  BY DEF Queue!Withdraw, Queue!RemoveFirst, Queue!RemoveAt,
         Queue!SelectInSeq, Queue!Min,
         Withdraw, RemoveFirst, RemoveAt, SelectInSeq, Min
<1>3. \A q, t, p, d : Queue!EnqueueIn(q, t, p, d) = EnqueueIn(q, t, p, d)
  BY DEF Queue!EnqueueIn, Queue!EnqueuePriority, Queue!InsertPosition,
         Queue!InsertAt, Queue!Min, EnqueueIn, EnqueuePriority,
         InsertPosition, InsertAt, Min
<1> QED BY <1>1, <1>2, <1>3

LEMMA TurnOnce ==
  ASSUME NEW n \in Nat, NEW i \in 0 .. n - 1, NEW j \in 0 .. n - 1
  PROVE  /\ (i + j) % n = IF i + j < n THEN i + j ELSE i + j - n
         /\ (j - i + n) % n = IF i <= j THEN j - i ELSE j - i + n
OBVIOUS

LEMMA TwoSlots ==
  ASSUME RingAssumption
  PROVE  /\ NbThreads \in Nat /\ NbThreads >= 2
         /\ IsFiniteSet(Thread) /\ Cardinality(Thread) \in Nat
         /\ Cardinality(Thread) <= NbThreads - 2
<1>1. IsFiniteSet(Thread) /\ Cardinality(Thread) <= NbThreads - 2 /\ NbThreads \in Nat
  BY DEF RingAssumption
<1>2. Cardinality(Thread) \in Nat
  BY <1>1, FS_CardinalityType
<1> QED BY <1>1, <1>2

LEMMA OnwardFacts ==
  ASSUME NbThreads \in Nat, NEW h \in Slot, NEW x \in Slot
  PROVE  /\ Onward(h, x) \in Slot
         /\ \A y \in Slot : Onward(h, x) = Onward(h, y) => x = y
         /\ \A y \in Slot : x <= y =>
              /\ Steps(Onward(h, x), Onward(h, y)) = y - x
              /\ Onward(Onward(h, x), y - x) = Onward(h, y)
BY DEF Onward, Steps, Slot

LEMMA StepsFacts ==
  ASSUME NbThreads \in Nat, NEW h \in Slot, NEW l \in Slot
  PROVE  /\ Steps(h, l) \in Slot /\ Onward(h, Steps(h, l)) = l
         /\ Onward(h, 0) = h
         /\ Steps(h, l) = 0 <=> h = l
BY DEF Onward, Steps, Slot

\* The ring's arithmetic, as steps.
LEMMA RingArithmetic ==
  ASSUME RingAssumption, NEW i \in Slot
  PROVE  /\ \A d \in Slot : (i + d) % NbThreads = Onward(i, d)
         /\ After(i) = Onward(i, 1)
         /\ \A j \in Slot : Distance(i, j) = Steps(i, j)
         /\ Before(Onward(i, 1)) = i
         /\ Onward(Before(i), 1) = i /\ Before(i) \in Slot
<1>0. NbThreads \in Nat /\ NbThreads >= 2
  BY TwoSlots
<1>3. \A d \in Slot : (i + d) % NbThreads = Onward(i, d)
  BY <1>0, TurnOnce DEF Onward, Slot
<1>4. After(i) = Onward(i, 1)
  BY <1>0, <1>3 DEF After, Slot
<1>5. \A j \in Slot : Distance(i, j) = Steps(i, j)
  BY <1>0, TurnOnce DEF Distance, Steps, Slot
<1>6. /\ Before(Onward(i, 1)) = i
      /\ Onward(Before(i), 1) = i /\ Before(i) \in Slot
  BY <1>0 DEF Before, Onward, Slot
<1> QED BY <1>3, <1>4, <1>5, <1>6

LEMMA StoredEntries ==
  ASSUME NbThreads \in Nat, NEW h \in Slot, NEW l \in Slot,
         NEW b, \A x \in Slot : b[x] \in Thread
  PROVE  /\ Stored(h, l, b) \in Seq(Thread) /\ Len(Stored(h, l, b)) = Steps(h, l)
         /\ \A i \in 1 .. Steps(h, l) : /\ i - 1 \in Slot
                                        /\ Stored(h, l, b)[i] = b[Onward(h, i - 1)]
<1>1. Steps(h, l) \in Slot
  BY StepsFacts
<1>2. Steps(h, l) \in Nat /\ \A i \in 1 .. Steps(h, l) : i - 1 \in Slot
  BY <1>1 DEF Slot
<1>3. \A i \in 1 .. Steps(h, l) : b[Onward(h, i - 1)] \in Thread
  BY <1>2, OnwardFacts
<1>4. Stored(h, l, b) \in [1 .. Steps(h, l) -> Thread]
  BY <1>3 DEF Stored
<1>5. Stored(h, l, b) \in Seq(Thread) /\ Len(Stored(h, l, b)) = Steps(h, l)
  BY <1>2, <1>4
<1> QED BY <1>2, <1>5 DEF Stored

\* The ring is empty when its ends meet, and no thread is in it twice: so the
\* threads that can block do not fill it.
RingShape ==
  /\ head \in Slot /\ last \in Slot
  /\ isEmpty = (head = last)
  /\ buffer \in [Slot -> Thread]

RingInv == RingShape /\ Distinct(Contents)

LEMMA ContentsStored ==
  ASSUME RingAssumption
  PROVE  /\ RingShape =>
              /\ Contents = Stored(head, last, buffer)
              /\ Count = Steps(head, last)
         /\ RingShape' =>
              Contents' = Stored(head', last', buffer')
<1>0. NbThreads \in Nat
  BY TwoSlots
<1>1. ASSUME NEW h \in Slot, NEW l \in Slot, NEW i \in 1 .. Steps(h, l)
      PROVE  (h + i - 1) % NbThreads = Onward(h, i - 1)
  <2>1. i - 1 \in Slot /\ h + i - 1 = h + (i - 1)
    BY <1>0, StepsFacts DEF Slot
  <2>2. (h + (i - 1)) % NbThreads = Onward(h, i - 1)
    BY <2>1, RingArithmetic
  <2> QED BY <2>1, <2>2
<1>2. ASSUME NEW h \in Slot, NEW l \in Slot, NEW b
      PROVE  [i \in 1 .. Steps(h, l) |-> b[(h + i - 1) % NbThreads]] = Stored(h, l, b)
  BY <1>1 DEF Stored
<1>3. RingShape => Count = Steps(head, last)
  BY <1>0, StepsFacts, RingArithmetic DEF RingShape, Count
<1>4. RingShape' => Count' = Steps(head', last')
  BY <1>0, StepsFacts, RingArithmetic DEF RingShape, Count, Distance
<1>5. RingShape => Contents = Stored(head, last, buffer)
  BY <1>2, <1>3 DEF RingShape, Contents
<1>6. RingShape' => Contents' = Stored(head', last', buffer')
  BY <1>2, <1>4 DEF RingShape, Contents
<1> QED BY <1>3, <1>5, <1>6

LEMMA ContentsEntries ==
  ASSUME RingAssumption, RingShape
  PROVE  /\ Contents \in Seq(Thread)
         /\ Len(Contents) = Steps(head, last)
         /\ Count = Steps(head, last)
         /\ Steps(head, last) \in Slot
         /\ \A i \in 1 .. Steps(head, last) :
              Contents[i] = buffer[Onward(head, i - 1)]
<1>1. /\ NbThreads \in Nat /\ head \in Slot /\ last \in Slot
      /\ buffer \in [Slot -> Thread]
  BY TwoSlots DEF RingShape
<1>2. /\ Contents = Stored(head, last, buffer)
      /\ Count = Steps(head, last)
  BY ContentsStored
<1>3. Steps(head, last) \in Slot
  BY <1>1, StepsFacts
<1> QED BY <1>1, <1>2, <1>3, StoredEntries

LEMMA DistinctBounded ==
  ASSUME NEW S, IsFiniteSet(S), NEW q \in Seq(S), Distinct(q)
  PROVE  Len(q) <= Cardinality(S)
<1>1. Len(q) \in Nat /\ q \in [1 .. Len(q) -> S]
  OBVIOUS
<1>2. IsFiniteSet(1 .. Len(q)) /\ Cardinality(1 .. Len(q)) = Len(q)
  BY <1>1, FS_Interval
<1>3. q \in Injection(1 .. Len(q), S)
  BY <1>1 DEF Distinct, Injection, IsInjective
<1>4. Cardinality(1 .. Len(q)) <= Cardinality(S)
  BY <1>3, FS_Injection
<1> QED BY <1>2, <1>4

LEMMA RoomForOne ==
  ASSUME NEW S, IsFiniteSet(S), NEW q \in Seq(S), Distinct(q),
         NEW t \in S, t \notin Queued(q)
  PROVE  Len(q) + 1 <= Cardinality(S)
<1>1. Len(q) \in Nat /\ 1 \in 1 .. Len(q) + 1
  OBVIOUS
<1>2. InsertAt(q, 1, t) \in Seq(S) /\ Len(InsertAt(q, 1, t)) = Len(q) + 1
  BY <1>1, InsertEntries
<1>3. Distinct(InsertAt(q, 1, t))
  BY <1>1, InsertFacts
<1> QED BY <1>2, <1>3, DistinctBounded

\* Sequences that agree everywhere.
LEMMA SameSequence ==
  ASSUME NEW S, NEW q \in Seq(S), NEW r \in Seq(S), Len(q) = Len(r),
         \A i \in 1 .. Len(q) : q[i] = r[i]
  PROVE  q = r
OBVIOUS

\* Buffer c is b with t before the k-th of the n entries from slot h: the rest
\* has moved one slot on; and b without the k-th.
Opened(h, n, b, c, k, t) ==
  \A x \in 0 .. n : c[Onward(h, x)] = IF x < k - 1 THEN b[Onward(h, x)]
                                     ELSE IF x = k - 1 THEN t ELSE b[Onward(h, x - 1)]
Closed(h, n, b, c, k) ==
  \A x \in 0 .. n - 2 : c[Onward(h, x)] = IF x < k - 1 THEN b[Onward(h, x)]
                                         ELSE b[Onward(h, x + 1)]

\* Sequence s is q without its k-th entry.
Shorter(s, q, k) ==
  /\ Len(s) = Len(q) - 1
  /\ \A i \in 1 .. Len(q) - 1 : s[i] = IF i < k THEN q[i] ELSE q[i + 1]

LEMMA StoredWithOneMore ==
  ASSUME NbThreads \in Nat, NEW h \in Slot, NEW l \in Slot,
         NEW b, \A x \in Slot : b[x] \in Thread,
         NEW c, \A x \in Slot : c[x] \in Thread,
         NEW t \in Thread, Steps(h, l) + 1 \in Slot,
         NEW k \in 1 .. Steps(h, l) + 1,
         Opened(h, Steps(h, l), b, c, k, t)
  PROVE  /\ Onward(l, 1) \in Slot /\ h # Onward(l, 1)
         /\ Stored(h, Onward(l, 1), c) = InsertAt(Stored(h, l, b), k, t)
<1> DEFINE n == Steps(h, l)
           q == Stored(h, l, b)
           m == Onward(l, 1)
           r == Stored(h, m, c)
           s == InsertAt(q, k, t)
<1>1. /\ n \in Slot /\ n \in Nat /\ n + 1 \in Slot /\ Onward(h, n) = l
      /\ Onward(h, 0) = h /\ 0 \in Slot /\ 1 \in Slot
  BY StepsFacts DEF Slot
<1>2. /\ q \in Seq(Thread) /\ Len(q) = n
      /\ \A i \in 1 .. n : q[i] = b[Onward(h, i - 1)]
  BY StoredEntries
<1>3. m = Onward(h, n + 1) /\ m \in Slot /\ Steps(h, m) = n + 1
  BY <1>1 DEF Onward, Steps, Slot
<1>4. h # m
  BY <1>1, <1>3, StepsFacts
<1>5. /\ r \in Seq(Thread) /\ Len(r) = n + 1
      /\ \A i \in 1 .. n + 1 : r[i] = c[Onward(h, i - 1)]
  BY <1>3, StoredEntries
<1>6. /\ s \in Seq(Thread) /\ Len(s) = n + 1
      /\ \A i \in 1 .. n + 1 : s[i] = IF i < k THEN q[i] ELSE IF i = k THEN t ELSE q[i - 1]
  <2>1. q \in Seq(Thread) /\ t \in Thread /\ k \in 1 .. Len(q) + 1
    BY <1>2
  <2> HIDE DEF q
  <2>2. /\ s \in Seq(Thread) /\ Len(s) = Len(q) + 1
        /\ \A i \in 1 .. Len(q) + 1 :
             s[i] = IF i < k THEN q[i] ELSE IF i = k THEN t ELSE q[i - 1]
    BY ONLY <2>1, InsertEntries
  <2> QED BY ONLY <1>2, <2>2
<1> HIDE DEF n, q, m, r, s
<1>7. ASSUME NEW i \in 1 .. n + 1
      PROVE  r[i] = s[i]
  <2>1. /\ i - 1 \in 0 .. n /\ k \in 1 .. n + 1
        /\ (i - 1 < k - 1 <=> i < k) /\ (i - 1 = k - 1 <=> i = k)
    BY <1>1 DEF n
  <2>2. r[i] = IF i < k THEN b[Onward(h, i - 1)]
               ELSE IF i = k THEN t ELSE b[Onward(h, i - 1 - 1)]
    BY <1>5, <2>1 DEF n, Opened
  <2>3. CASE i < k
    BY <1>1, <1>2, <1>6, <2>1, <2>2, <2>3
  <2>4. CASE i = k
    BY <1>6, <2>2, <2>4
  <2>5. CASE ~(i < k) /\ i # k
    <3>1. i - 1 \in 1 .. n
      BY <1>1, <2>1, <2>5
    <3>2. q[i - 1] = b[Onward(h, i - 1 - 1)]
      BY <1>2, <3>1
    <3> QED BY <1>6, <2>2, <2>5, <3>2
  <2> QED BY <2>3, <2>4, <2>5
<1>8. r = s
  BY <1>5, <1>6, <1>7, SameSequence
<1> QED BY <1>3, <1>4, <1>8 DEF m, r, s, q

LEMMA StoredWithOneLess ==
  ASSUME NbThreads \in Nat, NEW h \in Slot, NEW l \in Slot,
         NEW b, \A x \in Slot : b[x] \in Thread,
         NEW c, \A x \in Slot : c[x] \in Thread,
         NEW m \in Slot, NEW s \in Seq(Thread), NEW k \in 1 .. Steps(h, l),
         Onward(m, 1) = l, Shorter(s, Stored(h, l, b), k),
         Closed(h, Steps(h, l), b, c, k)
  PROVE  Steps(h, m) = Steps(h, l) - 1 /\ Stored(h, m, c) = s
<1> DEFINE n == Steps(h, l)
           q == Stored(h, l, b)
           r == Stored(h, m, c)
<1>1. n \in Slot /\ n \in Nat
  BY StepsFacts DEF Slot
<1>2. /\ q \in Seq(Thread) /\ Len(q) = n
      /\ \A i \in 1 .. n : q[i] = b[Onward(h, i - 1)]
  BY StoredEntries
<1>3. Steps(h, m) = n - 1
  BY <1>1 DEF Onward, Steps, Slot
<1>5. /\ r \in Seq(Thread) /\ Len(r) = n - 1
      /\ \A i \in 1 .. n - 1 : r[i] = c[Onward(h, i - 1)]
  BY <1>3, StoredEntries
<1>6. /\ Len(s) = n - 1
      /\ \A i \in 1 .. n - 1 : s[i] = IF i < k THEN q[i] ELSE q[i + 1]
      /\ \A x \in 0 .. n - 2 :
           c[Onward(h, x)] = IF x < k - 1 THEN b[Onward(h, x)] ELSE b[Onward(h, x + 1)]
  BY <1>2 DEF Shorter, Closed
<1> HIDE DEF n, q, r
<1>7. ASSUME NEW i \in 1 .. n - 1
      PROVE  r[i] = s[i]
  <2>1. /\ i - 1 \in 0 .. n - 2 /\ k \in 1 .. n /\ i \in 1 .. n /\ i + 1 \in 1 .. n
        /\ (i - 1 < k - 1 <=> i < k) /\ i - 1 + 1 = i + 1 - 1
    BY <1>1 DEF n
  <2>2. r[i] = c[Onward(h, i - 1)]
    BY <1>5
  <2>4. c[Onward(h, i - 1)] =
          IF i < k THEN b[Onward(h, i - 1)] ELSE b[Onward(h, i - 1 + 1)]
    BY <1>6, <2>1
  <2>3. q[i] = b[Onward(h, i - 1)] /\ q[i + 1] = b[Onward(h, i + 1 - 1)]
    BY <1>2, <2>1
  <2>5. s[i] = IF i < k THEN q[i] ELSE q[i + 1]
    BY <1>6
  <2>6. i - 1 + 1 = i + 1 - 1
    BY <2>1
  <2> QED BY <2>2, <2>3, <2>4, <2>5, <2>6, Zenon
<1>8. r = s
  BY <1>1, <1>5, <1>6, <1>7, SameSequence
<1> QED BY <1>3, <1>8 DEF r, n

\* The slots from the m-th entry to the last one, and where an entry moves.
LEMMA SlotsFrom ==
  ASSUME RingAssumption, NEW h \in Slot, NEW n \in Slot, NEW m \in 0 .. n
  PROVE  /\ Onward(h, m) \in Slot /\ (h + m) % NbThreads = Onward(h, m)
         /\ Distance(Onward(h, m), Onward(h, n)) = n - m
         /\ \A d \in 0 .. n - m : (Onward(h, m) + d) % NbThreads = Onward(h, m + d)
         /\ m < n => /\ After(Onward(h, m)) = Onward(h, m + 1)
                     /\ Before(Onward(h, m + 1)) = Onward(h, m)
<1>0. /\ NbThreads \in Nat /\ NbThreads >= 2 /\ m \in Slot /\ n - m \in Slot
      /\ m <= n /\ 1 \in Slot /\ n \in Nat /\ m \in Nat
  BY TwoSlots DEF Slot
<1>1. Onward(h, m) \in Slot /\ (h + m) % NbThreads = Onward(h, m)
  BY <1>0, OnwardFacts, RingArithmetic
<1>2. Distance(Onward(h, m), Onward(h, n)) = n - m
  <2>1. Onward(h, n) \in Slot
    BY <1>0, OnwardFacts
  <2>2. Steps(Onward(h, m), Onward(h, n)) = n - m
    BY <1>0, OnwardFacts
  <2> QED BY <1>1, <2>1, <2>2, RingArithmetic
<1>3. ASSUME NEW d \in 0 .. n - m
      PROVE  (Onward(h, m) + d) % NbThreads = Onward(h, m + d)
  <2>1. d \in Slot /\ m + d \in Slot /\ m <= m + d /\ m + d - m = d
    BY <1>0 DEF Slot
  <2>2. Onward(Onward(h, m), m + d - m) = Onward(h, m + d)
    BY <1>0, <2>1, OnwardFacts
  <2>3. (Onward(h, m) + d) % NbThreads = Onward(Onward(h, m), d)
    BY <1>1, <2>1, RingArithmetic
  <2> QED BY <2>1, <2>2, <2>3
<1>4. ASSUME m < n
      PROVE  /\ After(Onward(h, m)) = Onward(h, m + 1)
             /\ Before(Onward(h, m + 1)) = Onward(h, m)
  <2>1. m + 1 \in Slot /\ m <= m + 1 /\ m + 1 - m = 1
    BY <1>0, <1>4 DEF Slot
  <2>2. Onward(Onward(h, m), m + 1 - m) = Onward(h, m + 1)
    BY <1>0, <2>1, OnwardFacts
  <2> QED BY <1>1, <2>1, <2>2, RingArithmetic
<1> QED BY <1>1, <1>2, <1>3, <1>4

\* The scan stops where the entry belongs.
LEMMA ScanFinds ==
  ASSUME RingAssumption, NEW h \in Slot, NEW l \in Slot,
         NEW b, \A x \in Slot : b[x] \in Thread, NEW p, NEW ranks
  PROVE  LET n == Distance(h, l)
         IN  /\ Min({d \in 0 .. n : d = n \/ ranks[b[(h + d) % NbThreads]] < p})
                  = InsertPosition(Stored(h, l, b), p, ranks) - 1
             /\ InsertPosition(Stored(h, l, b), p, ranks) \in 1 .. Steps(h, l) + 1
<1> DEFINE n == Steps(h, l)
           q == Stored(h, l, b)
           k == InsertPosition(q, p, ranks)
           stops == {d \in 0 .. n : d = n \/ ranks[b[(h + d) % NbThreads]] < p}
<1>0. Distance(h, l) = n /\ n \in Slot /\ n \in Nat /\ NbThreads \in Nat
  <2>1. NbThreads \in Nat
    BY TwoSlots
  <2>2. n \in Slot
    BY <2>1, StepsFacts
  <2> QED BY <2>1, <2>2, RingArithmetic DEF Slot
<1>1. /\ q \in Seq(Thread) /\ Len(q) = n
      /\ \A i \in 1 .. n : q[i] = b[Onward(h, i - 1)]
  BY <1>0, StoredEntries
<1>2. /\ k \in 1 .. n + 1
      /\ k # n + 1 => ranks[q[k]] < p
      /\ \A i \in 1 .. n : i < k => ~(ranks[q[i]] < p)
  BY <1>1, InsertPositionFacts
<1> HIDE DEF n, q, k
<1>3. ASSUME NEW d \in 0 .. n, d < n
      PROVE  /\ d + 1 \in 1 .. n
             /\ ranks[b[(h + d) % NbThreads]] = ranks[q[d + 1]]
  <2>1. (h + d) % NbThreads = Onward(h, d)
    BY <1>0, SlotsFrom
  <2>2. d + 1 \in 1 .. n /\ d + 1 - 1 = d
    BY <1>0, <1>3
  <2> QED BY <1>1, <2>1, <2>2
<1>4. k - 1 \in stops
  <2>1. k - 1 \in 0 .. n /\ (k - 1 # n => k - 1 < n /\ k # n + 1) /\ k - 1 + 1 = k
    BY <1>0, <1>2
  <2> QED BY <1>2, <1>3, <2>1
<1>5. ASSUME NEW d \in stops PROVE k - 1 <= d
  <2>1. SUFFICES ASSUME d < k - 1 PROVE FALSE
    BY <1>0, <1>2
  <2>2. d \in 0 .. n /\ d < n /\ d + 1 < k /\ d # n
    BY <1>0, <1>2, <2>1
  <2> QED BY <1>2, <1>3, <2>2
<1>6. /\ Min(stops) \in stops /\ stops \in SUBSET Nat
      /\ \A d \in stops : Min(stops) <= d
  <2>1. stops \in SUBSET Nat /\ stops # {}
    BY <1>0, <1>4
  <2> HIDE DEF stops
  <2> QED BY <2>1, MinBelongs
<1>7. Min(stops) = k - 1
  <2> HIDE DEF stops
  <2>1. Min(stops) \in Nat
    BY <1>6
  <2>3. k - 1 \in Nat
    BY <1>0, <1>2
  <2>2. k - 1 <= Min(stops) /\ Min(stops) <= k - 1
    BY <1>4, <1>5, <1>6
  <2> QED BY <2>1, <2>2, <2>3
<1> QED BY <1>0, <1>2, <1>7 DEF n, k, q

\* What an insertion does to the ring, for either discipline.
Entered(t, k) ==
  /\ k \in 1 .. Steps(head, last) + 1
  /\ EnqueueIn(Contents, t, priority, discipline)
       = InsertAt(Contents, k, t)
  /\ last' = Onward(last, 1) /\ isEmpty' = FALSE /\ result' = "OK"
  /\ buffer' \in [Slot -> Thread]
  /\ Opened(head, Steps(head, last), buffer, buffer', k, t)

\* The types that the proofs of the steps use.
LEMMA RingTypes ==
  ASSUME RingAssumption, RingShape
  PROVE  /\ NbThreads \in Nat /\ NbThreads >= 2
         /\ head \in Slot /\ last \in Slot
         /\ \A x \in Slot : buffer[x] \in Thread
         /\ Steps(head, last) \in Slot /\ Steps(head, last) \in Nat
         /\ Onward(head, Steps(head, last)) = last
         /\ Onward(head, 0) = head
         /\ \A x \in 0 .. Steps(head, last) :
              x \in Slot /\ Onward(head, x) \in Slot
<1>1. /\ NbThreads \in Nat /\ NbThreads >= 2
      /\ head \in Slot /\ last \in Slot
      /\ \A x \in Slot : buffer[x] \in Thread
  BY TwoSlots DEF RingShape
<1>2. /\ Steps(head, last) \in Slot
      /\ Onward(head, Steps(head, last)) = last
      /\ Onward(head, 0) = head
  BY <1>1, StepsFacts
<1>3. \A x \in 0 .. Steps(head, last) : x \in Slot
  BY <1>1, <1>2 DEF Slot
<1>4. \A x \in 0 .. Steps(head, last) : Onward(head, x) \in Slot
  BY <1>1, <1>3, OnwardFacts
<1> QED BY <1>1, <1>2, <1>3, <1>4 DEF Slot

LEMMA AppendInserts ==
  ASSUME NEW S, NEW q \in Seq(S), NEW t \in S
  PROVE  Append(q, t) = InsertAt(q, Len(q) + 1, t)
<1> DEFINE k == Len(q) + 1
<1>1. k \in Nat /\ k \in 1 .. Len(q) + 1 /\ Len(q) + 1 = k
  OBVIOUS
<1>2. /\ Append(q, t) \in Seq(S) /\ Len(Append(q, t)) = k
      /\ \A i \in 1 .. k : Append(q, t)[i] = IF i = k THEN t ELSE q[i]
  OBVIOUS
<1> HIDE DEF k
<1>3. /\ InsertAt(q, k, t) \in Seq(S) /\ Len(InsertAt(q, k, t)) = k
      /\ \A i \in 1 .. k : InsertAt(q, k, t)[i] =
           IF i < k THEN q[i] ELSE IF i = k THEN t ELSE q[i - 1]
  BY <1>1, InsertEntries
<1>4. \A i \in 1 .. k : Append(q, t)[i] = InsertAt(q, k, t)[i]
  BY <1>1, <1>2, <1>3
<1>5. Append(q, t) = InsertAt(q, k, t)
  BY <1>2, <1>3, <1>4, SameSequence
<1> QED BY <1>5 DEF k

LEMMA FifoEnters ==
  ASSUME RingAssumption, RingShape, NEW t \in Thread,
         discipline = "FIFO", EnqueueFifo(t)
  PROVE  Entered(t, Steps(head, last) + 1)
<1> DEFINE n == Steps(head, last)
<1>1. /\ buffer' = [buffer EXCEPT ![last] = t]
      /\ last' = After(last) /\ isEmpty' = FALSE /\ result' = "OK"
  BY DEF RingShape, EnqueueFifo
<1>2. /\ buffer' \in [Slot -> Thread]
      /\ \A x \in Slot : buffer'[x] = IF x = last THEN t ELSE buffer[x]
  BY <1>1 DEF RingShape
<1>3. ASSUME NEW x \in 0 .. n
      PROVE  buffer'[Onward(head, x)] =
               IF x = n THEN t ELSE buffer[Onward(head, x)]
  <2>1. /\ Onward(head, x) \in Slot /\ x \in Slot /\ n \in Slot
        /\ Onward(head, n) = last /\ head \in Slot /\ NbThreads \in Nat
    BY RingTypes
  <2>2. Onward(head, x) = last <=> x = n
    <3> HIDE DEF n
    <3> QED BY <2>1, OnwardFacts
  <2> QED BY <1>2, <2>1, <2>2
<1>4. last' = Onward(last, 1)
  BY <1>1, RingTypes, RingArithmetic
<1>5. EnqueueIn(Contents, t, priority, discipline)
        = InsertAt(Contents, n + 1, t)
  <2>1. Contents \in Seq(Thread) /\ Len(Contents) = n
    BY ContentsEntries
  <2> QED BY <2>1, AppendInserts DEF EnqueueIn
<1>6. n \in Nat /\ n + 1 \in 1 .. n + 1 /\ n + 1 - 1 = n
  BY RingTypes
<1>7. \A x \in 0 .. n : ~(x < n) => x = n
  BY <1>6
<1>8. \A x \in 0 .. n : buffer'[Onward(head, x)] =
         IF x < n + 1 - 1 THEN buffer[Onward(head, x)]
         ELSE IF x = n + 1 - 1 THEN t ELSE buffer[Onward(head, x - 1)]
  BY <1>3, <1>6, <1>7
<1> QED BY <1>1, <1>2, <1>4, <1>5, <1>6, <1>8 DEF Entered, Opened

\* A shift along the ring, seen from the head: entries from the m-th to the one
\* before the k-th move on.
LEMMA ShiftOn ==
  ASSUME RingAssumption, NEW h \in Slot, NEW n \in Slot, NEW m \in 0 .. n,
         NEW x \in 0 .. n
  PROVE  LET moved == {After((Onward(h, m) + d) % NbThreads) : d \in 0 .. n - m - 1}
         IN /\ Onward(h, x) \in moved <=> m < x
            /\ m < x => Before(Onward(h, x)) = Onward(h, x - 1)
<1> DEFINE moved == {After((Onward(h, m) + d) % NbThreads) : d \in 0 .. n - m - 1}
<1>0. /\ NbThreads \in Nat /\ n \in Nat /\ m \in Nat /\ x \in Nat /\ m <= n /\ x <= n
      /\ \A y \in 0 .. n : y \in Slot
  BY TwoSlots DEF Slot
<1>1. ASSUME NEW d \in 0 .. n - m - 1
      PROVE  After((Onward(h, m) + d) % NbThreads) = Onward(h, m + d + 1)
  <2>1. d \in 0 .. n - m /\ m + d \in 0 .. n /\ m + d < n
    BY <1>0
  <2>2. (Onward(h, m) + d) % NbThreads = Onward(h, m + d)
    BY <2>1, SlotsFrom
  <2> QED BY <2>1, <2>2, SlotsFrom
<1>2. ASSUME m < x PROVE Onward(h, x) \in moved
  <2>1. x - 1 - m \in 0 .. n - m - 1 /\ m + (x - 1 - m) + 1 = x
    BY <1>0, <1>2
  <2>2. After((Onward(h, m) + (x - 1 - m)) % NbThreads) = Onward(h, x)
    BY <1>1, <2>1
  <2> QED BY <2>1, <2>2
<1>3. ASSUME Onward(h, x) \in moved PROVE m < x
  <2>1. PICK d \in 0 .. n - m - 1 : Onward(h, x) = Onward(h, m + d + 1)
    BY <1>1, <1>3
  <2>2. m + d + 1 \in 0 .. n
    BY <1>0
  <2>3. x = m + d + 1
    BY <1>0, <2>1, <2>2, OnwardFacts
  <2> QED BY <1>0, <2>3
<1>4. ASSUME m < x PROVE Before(Onward(h, x)) = Onward(h, x - 1)
  <2>1. x - 1 \in 0 .. n /\ x - 1 < n /\ x - 1 + 1 = x
    BY <1>0, <1>4
  <2> QED BY <2>1, SlotsFrom
<1> QED BY <1>2, <1>3, <1>4

LEMMA PriorityEnters ==
  ASSUME RingAssumption, RingShape, NEW t \in Thread,
         discipline # "FIFO", EnqueueByPriority(t)
  PROVE  \E k : Entered(t, k)
<1> DEFINE n == Steps(head, last)
           q == Contents
           k == InsertPosition(q, priority[t], priority)
           i == ScanStop(priority[t])
           moved == {After((i + d) % NbThreads) : d \in 0 .. Distance(i, last) - 1}
<1>1. /\ buffer' = [j \in Slot |-> IF j = i THEN t
                                            ELSE IF j \in moved THEN buffer[Before(j)]
                                            ELSE buffer[j]]
      /\ last' = After(last) /\ isEmpty' = FALSE /\ result' = "OK"
  BY DEF EnqueueByPriority
<1>2. /\ NbThreads \in Nat /\ NbThreads >= 2
      /\ head \in Slot /\ last \in Slot
      /\ \A x \in Slot : buffer[x] \in Thread
      /\ n \in Slot /\ n \in Nat /\ Onward(head, n) = last
      /\ \A x \in 0 .. n : x \in Slot /\ Onward(head, x) \in Slot
  BY RingTypes
<1>3. q = Stored(head, last, buffer)
  BY ContentsStored
<1>4. k \in 1 .. n + 1 /\ i = Onward(head, k - 1)
  <2> DEFINE stops == {d \in 0 .. Distance(head, last) :
                         \/ d = Distance(head, last)
                         \/ priority[buffer[(head + d) % NbThreads]]
                              < priority[t]}
  <2>1. i = (head + Min(stops)) % NbThreads
    BY DEF ScanStop
  <2>2. Min(stops) = k - 1 /\ k \in 1 .. n + 1
    BY <1>2, <1>3, ScanFinds
  <2> HIDE DEF stops, k, n
  <2>3. k - 1 \in 0 .. n
    BY <1>2, <2>2
  <2> QED BY <1>2, <2>1, <2>2, <2>3, SlotsFrom
<1> HIDE DEF n, q, k, i
<1>5. k - 1 \in 0 .. n /\ k \in Nat
  BY <1>2, <1>4
<1>6. Distance(i, last) = n - (k - 1)
  BY <1>2, <1>4, <1>5, SlotsFrom
<1>7. ASSUME NEW x \in 0 .. n
      PROVE  /\ Onward(head, x) \in moved <=> k - 1 < x
             /\ k - 1 < x => Before(Onward(head, x)) = Onward(head, x - 1)
             /\ Onward(head, x) = i <=> x = k - 1
  <2>1. moved = {After((Onward(head, k - 1) + d) % NbThreads) : d \in 0 .. n - (k - 1) - 1}
    BY <1>4, <1>6
  <2>2. /\ Onward(head, x) \in moved <=> k - 1 < x
        /\ k - 1 < x => Before(Onward(head, x)) = Onward(head, x - 1)
    <3> DEFINE m == k - 1
    <3>1. m \in 0 .. n
      BY <1>5
    <3> HIDE DEF m
    <3>2. /\ Onward(head, x) \in {After((Onward(head, m) + d) % NbThreads) :
                                        d \in 0 .. n - m - 1} <=> m < x
          /\ m < x => Before(Onward(head, x)) = Onward(head, x - 1)
      BY <1>2, <3>1, ShiftOn
    <3> QED BY <2>1, <3>2 DEF m
  <2>3. Onward(head, x) = i <=> x = k - 1
    BY <1>2, <1>4, <1>5, OnwardFacts
  <2> QED BY <2>2, <2>3
<1>9. \A x \in 0 .. n :
        buffer'[Onward(head, x)] =
          IF x < k - 1 THEN buffer[Onward(head, x)]
          ELSE IF x = k - 1 THEN t ELSE buffer[Onward(head, x - 1)]
  <2> SUFFICES ASSUME NEW x \in 0 .. n
      PROVE buffer'[Onward(head, x)] =
              IF x < k - 1 THEN buffer[Onward(head, x)]
              ELSE IF x = k - 1 THEN t ELSE buffer[Onward(head, x - 1)]
    OBVIOUS
  <2> HIDE DEF moved
  <2>1. buffer'[Onward(head, x)] =
          IF Onward(head, x) = i THEN t
          ELSE IF Onward(head, x) \in moved
               THEN buffer[Before(Onward(head, x))]
               ELSE buffer[Onward(head, x)]
    BY <1>1, <1>2
  <2>2. ~(x < k - 1 /\ k - 1 < x) /\ (x < k - 1 \/ x = k - 1 \/ k - 1 < x)
        /\ ~(x < k - 1 /\ x = k - 1) /\ ~(x = k - 1 /\ k - 1 < x)
    BY <1>2, <1>5
  <2> QED BY <1>7, <2>1, <2>2
<1>10. buffer' \in [Slot -> Thread]
  <2>1. \A j \in Slot : Before(j) \in Slot
    BY RingArithmetic
  <2> HIDE DEF moved
  <2> QED BY <1>1, <1>2, <2>1
<1>11. last' = Onward(last, 1)
  BY <1>1, <1>2, RingArithmetic
<1>12. EnqueueIn(q, t, priority, discipline) = InsertAt(q, k, t)
  BY DEF EnqueueIn, EnqueuePriority, k
<1> QED BY <1>1, <1>4, <1>9, <1>10, <1>11, <1>12 DEF Entered, Opened, n, q

LEMMA RingEnqueue ==
  ASSUME RingAssumption, RingInv, NEW t \in Thread, Enqueue(t)
  PROVE  RingInv' /\ Queue!Enqueue(t)
<1> DEFINE n == Steps(head, last)
           q == Contents
<1>0. RingShape /\ Distinct(q)
  BY DEF RingInv
<1>1. t \notin Queued(q)
  BY DEF Enqueue, Queued
<1>2. PICK k : Entered(t, k)
  <2>1. CASE discipline = "FIFO"
    BY <1>0, <2>1, FifoEnters DEF Enqueue
  <2>2. CASE discipline # "FIFO"
    BY <1>0, <2>2, PriorityEnters DEF Enqueue
  <2> QED BY <2>1, <2>2
<1>3. /\ NbThreads \in Nat /\ head \in Slot /\ last \in Slot
      /\ \A x \in Slot : buffer[x] \in Thread
      /\ n \in Slot
  BY <1>0, RingTypes
<1>4. q \in Seq(Thread) /\ Len(q) = n
  BY <1>0, ContentsEntries
<1>5. n + 1 \in Slot
  <2>1. /\ IsFiniteSet(Thread) /\ Cardinality(Thread) \in Nat
        /\ Cardinality(Thread) <= NbThreads - 2
    BY TwoSlots
  <2>2. n + 1 <= Cardinality(Thread)
    BY <1>0, <1>1, <1>4, <2>1, RoomForOne
  <2> HIDE DEF n
  <2> QED BY <1>3, <2>1, <2>2 DEF Slot
<1>6. head' = head
  BY DEF Enqueue
<1>7. \A x \in Slot : buffer'[x] \in Thread
  BY <1>2 DEF Entered
<1>8. /\ last' \in Slot /\ head # last'
      /\ Stored(head, last', buffer')
           = InsertAt(Stored(head, last, buffer), k, t)
  <2> DEFINE c == buffer'
  <2>1. /\ NbThreads \in Nat /\ head \in Slot /\ last \in Slot
        /\ \A x \in Slot : buffer[x] \in Thread
        /\ \A x \in Slot : c[x] \in Thread
        /\ t \in Thread /\ Steps(head, last) + 1 \in Slot
    BY <1>3, <1>5, <1>7
  <2>2. /\ k \in 1 .. Steps(head, last) + 1
        /\ Opened(head, Steps(head, last), buffer, c, k, t)
    BY <1>2 DEF Entered
  <2>3. last' = Onward(last, 1)
    BY <1>2 DEF Entered
  <2> HIDE DEF c
  <2>4. /\ Onward(last, 1) \in Slot /\ head # Onward(last, 1)
        /\ Stored(head, Onward(last, 1), c)
             = InsertAt(Stored(head, last, buffer), k, t)
    BY ONLY <2>1, <2>2, StoredWithOneMore
  <2> QED BY <2>3, <2>4 DEF c
<1>9. RingShape'
  BY <1>2, <1>3, <1>6, <1>8 DEF RingShape, Entered
<1>10. Contents' = InsertAt(q, k, t)
  BY <1>0, <1>6, <1>8, <1>9, ContentsStored
<1>11. Distinct(Contents)'
  <2>1. k \in 1 .. Len(q) + 1
    BY <1>2, <1>4 DEF Entered
  <2>2. Distinct(InsertAt(q, k, t))
    BY <1>0, <1>1, <1>4, <2>1, InsertFacts
  <2> QED BY <1>10, <2>2 DEF Distinct
<1>12. Queue!Enqueue(t)
  <2>1. Contents' = Queue!EnqueueIn(q, t, priority, discipline)
    BY <1>2, <1>10, SameQueueOperators DEF Entered
  <2>2. t \notin Queue!Queued(q)
    BY <1>1, SameQueueOperators
  <2> QED BY <1>2, <2>1, <2>2 DEF Queue!Enqueue, Enqueue, Entered
<1> QED BY <1>9, <1>11, <1>12 DEF RingInv

LEMMA StoredTail ==
  ASSUME NbThreads \in Nat, NbThreads >= 2, NEW h \in Slot, NEW l \in Slot,
         NEW b, \A x \in Slot : b[x] \in Thread, h # l
  PROVE  /\ Stored(h, l, b) # <<>> /\ Head(Stored(h, l, b)) = b[h]
         /\ Onward(h, 1) \in Slot
         /\ Stored(Onward(h, 1), l, b) = Tail(Stored(h, l, b))
<1> DEFINE n == Steps(h, l)
           q == Stored(h, l, b)
           g == Onward(h, 1)
           r == Stored(g, l, b)
<1>1. n \in Nat /\ n > 0 /\ n \in Slot /\ Onward(h, 0) = h
  <2>1. n \in Slot /\ n # 0 /\ Onward(h, 0) = h
    BY StepsFacts
  <2> QED BY <2>1 DEF Slot
<1>2. g \in Slot /\ Steps(g, l) = n - 1
  BY DEF Onward, Steps, Slot
<1>3. /\ q \in Seq(Thread) /\ Len(q) = n
      /\ \A i \in 1 .. n : q[i] = b[Onward(h, i - 1)]
  BY StoredEntries
<1>4. /\ r \in Seq(Thread) /\ Len(r) = n - 1
      /\ \A i \in 1 .. n - 1 : r[i] = b[Onward(g, i - 1)]
  BY <1>2, StoredEntries
<1>5. \A i \in 1 .. n - 1 : Onward(g, i - 1) = Onward(h, i)
  BY <1>1 DEF Onward, Slot
<1> HIDE DEF n, q, r, g
<1>6. q # <<>> /\ Head(q) = b[h]
  <2>1. q # <<>> /\ Head(q) = q[1]
    BY <1>1, <1>3
  <2>2. 1 \in 1 .. n /\ 1 - 1 = 0
    BY <1>1
  <2> QED BY <1>1, <1>3, <2>1, <2>2
<1>7. /\ Tail(q) \in Seq(Thread) /\ Len(Tail(q)) = n - 1
      /\ \A i \in 1 .. n - 1 : Tail(q)[i] = q[i + 1]
  BY <1>1, <1>3, <1>6
<1>8. \A i \in 1 .. n - 1 : r[i] = Tail(q)[i]
  <2> SUFFICES ASSUME NEW i \in 1 .. n - 1 PROVE r[i] = Tail(q)[i]
    OBVIOUS
  <2>1. i + 1 \in 1 .. n /\ i + 1 - 1 = i
    BY <1>1
  <2>2. r[i] = b[Onward(h, i)]
    BY <1>4, <1>5
  <2>3. q[i + 1] = b[Onward(h, i)]
    BY <1>3, <2>1
  <2> QED BY <1>7, <2>2, <2>3
<1>9. r = Tail(q)
  BY <1>1, <1>4, <1>7, <1>8, SameSequence
<1> QED BY <1>2, <1>6, <1>9 DEF q, r, g

LEMMA RingDequeue ==
  ASSUME RingAssumption, RingInv, Dequeue
  PROVE  RingInv' /\ Queue!Dequeue
<1> DEFINE q == Contents
<1>0. RingShape /\ Distinct(q)
  BY DEF RingInv
<1>1. /\ NbThreads \in Nat /\ NbThreads >= 2
      /\ head \in Slot /\ last \in Slot
      /\ \A x \in Slot : buffer[x] \in Thread
  BY <1>0, RingTypes
<1>2. /\ q = Stored(head, last, buffer)
      /\ q \in Seq(Thread) /\ Len(q) = Steps(head, last)
  BY <1>0, ContentsStored, ContentsEntries
<1>3. CASE isEmpty
  <2>1. q = <<>>
    <3>1. head = last
      BY <1>0, <1>3 DEF RingShape
    <3>2. Steps(head, last) = 0
      BY <1>1, <3>1, StepsFacts
    <3> HIDE DEF q
    <3> QED BY <1>2, <3>2
  <2>2. RingShape' /\ result' = "EMPTY"
    BY <1>0, <1>3 DEF Dequeue, RingShape
  <2>3. Contents' = q
    BY <1>0, <1>2, <1>3, <2>2, ContentsStored DEF Dequeue
  <2>4. Distinct(Contents)'
    BY <1>0, <2>3 DEF Distinct
  <2> QED BY <2>1, <2>2, <2>3, <2>4 DEF RingInv, Dequeue, Queue!Dequeue
<1>4. CASE ~isEmpty
  <2>1. head # last
    BY <1>0, <1>4 DEF RingShape
  <2>2. /\ q # <<>> /\ Head(q) = buffer[head]
        /\ Onward(head, 1) \in Slot
        /\ Stored(Onward(head, 1), last, buffer) = Tail(q)
    BY <1>1, <1>2, <2>1, StoredTail
  <2>3. head' = Onward(head, 1)
    BY <1>1, <1>4, RingArithmetic DEF Dequeue
  <2>4. /\ last' = last /\ buffer' = buffer
        /\ isEmpty' = (head' = last') /\ result' = buffer[head]
        /\ priority' = priority /\ discipline' = discipline
    BY <1>4 DEF Dequeue
  <2>5. RingShape'
    BY <1>0, <2>2, <2>3, <2>4 DEF RingShape
  <2>6. Contents' = Tail(q)
    BY <2>2, <2>3, <2>4, <2>5, ContentsStored
  <2>7. Distinct(Contents)'
    <3>1. Distinct(Tail(q))
      BY <1>0, <1>2, <2>2, TailFacts
    <3> QED BY <2>6, <3>1 DEF Distinct
  <2>8. Queue!Dequeue
    BY <2>2, <2>4, <2>6 DEF Queue!Dequeue
  <2> QED BY <2>5, <2>7, <2>8 DEF RingInv
<1> QED BY <1>3, <1>4

\* The same seen from the head: entries behind the m-th one move back.
LEMMA ShiftBack ==
  ASSUME RingAssumption, NEW h \in Slot, NEW n \in Slot, n > 0,
         NEW m \in 0 .. n - 1, NEW x \in 0 .. n - 2
  PROVE  /\ Onward(h, x) \in {(Onward(h, m) + d) % NbThreads : d \in 0 .. n - 1 - m - 1}
              <=> m <= x
         /\ After(Onward(h, x)) = Onward(h, x + 1)
<1> DEFINE moved == {(Onward(h, m) + d) % NbThreads : d \in 0 .. n - 1 - m - 1}
<1>0. /\ NbThreads \in Nat /\ n \in Nat /\ m \in Nat /\ x \in Nat /\ m <= n - 1
      /\ x <= n - 2 /\ m \in 0 .. n /\ x \in 0 .. n /\ x < n
      /\ \A y \in 0 .. n : y \in Slot
  BY TwoSlots DEF Slot
<1>1. ASSUME NEW d \in 0 .. n - 1 - m - 1
      PROVE  (Onward(h, m) + d) % NbThreads = Onward(h, m + d)
  <2>1. d \in 0 .. n - m
    BY <1>0
  <2> QED BY <1>0, <2>1, SlotsFrom
<1>2. ASSUME m <= x PROVE Onward(h, x) \in moved
  <2>1. x - m \in 0 .. n - 1 - m - 1 /\ m + (x - m) = x
    BY <1>0, <1>2
  <2>2. (Onward(h, m) + (x - m)) % NbThreads = Onward(h, x)
    BY <1>1, <2>1
  <2> QED BY <2>1, <2>2
<1>3. ASSUME Onward(h, x) \in moved PROVE m <= x
  <2>1. PICK d \in 0 .. n - 1 - m - 1 : Onward(h, x) = Onward(h, m + d)
    BY <1>1, <1>3
  <2>2. m + d \in 0 .. n
    BY <1>0
  <2>3. x = m + d
    BY <1>0, <2>1, <2>2, OnwardFacts
  <2> QED BY <1>0, <2>3
<1>4. After(Onward(h, x)) = Onward(h, x + 1)
  BY <1>0, SlotsFrom
<1> QED BY <1>2, <1>3, <1>4

LEMMA RingRemoves ==
  ASSUME RingAssumption, RingInv, NEW t \in Thread, RemoveThread(t),
         t \in Queued(Contents)
  PROVE  /\ RingInv' /\ result' = "OK"
         /\ Contents' = Withdraw(Contents, t)
<1> DEFINE n == Steps(head, last)
           q == Contents
           found == {d \in 0 .. Count - 1 : buffer[(head + d) % NbThreads] = t}
           at == (head + Min(found)) % NbThreads
           end == Before(last)
           moved == {(at + d) % NbThreads : d \in 0 .. Distance(at, end) - 1}
<1>0. RingShape /\ Distinct(q)
  BY DEF RingInv
<1>1. /\ NbThreads \in Nat /\ NbThreads >= 2
      /\ head \in Slot /\ last \in Slot
      /\ \A x \in Slot : buffer[x] \in Thread
      /\ n \in Slot /\ n \in Nat /\ Onward(head, n) = last
      /\ \A x \in 0 .. n : x \in Slot /\ Onward(head, x) \in Slot
      /\ Onward(head, 0) = head
  BY <1>0, RingTypes
<1>2. /\ q = Stored(head, last, buffer)
      /\ q \in Seq(Thread) /\ Len(q) = n /\ Count = n
      /\ \A i \in 1 .. n : q[i] = buffer[Onward(head, i - 1)]
      /\ t \in Queued(q)
  BY <1>0, ContentsStored, ContentsEntries
<1>4. /\ found # {} => /\ last' = end
                       /\ buffer' = [j \in Slot |->
                            IF j \in moved THEN buffer[After(j)] ELSE buffer[j]]
                       /\ isEmpty' = (end = head)
                       /\ result' = "OK"
      /\ head' = head
  BY DEF RemoveThread
<1> HIDE DEF n, q
<1>3. PICK k \in 1 .. n :
        /\ q[k] = t
        /\ Withdraw(q, t) \in Seq(Thread) /\ Len(Withdraw(q, t)) = n - 1
        /\ \A i \in 1 .. n - 1 : Withdraw(q, t)[i] = IF i < k THEN q[i] ELSE q[i + 1]
  <2>0. q \in Seq(Thread) /\ t \in Queued(q)
    BY <1>2
  <2>1. PICK k \in 1 .. Len(q) :
          /\ q[k] = t
          /\ Withdraw(q, t) \in Seq(Thread) /\ Len(Withdraw(q, t)) = Len(q) - 1
          /\ \A i \in 1 .. Len(q) - 1 :
               Withdraw(q, t)[i] = IF i < k THEN q[i] ELSE q[i + 1]
    BY <2>0, WithdrawEntries
  <2> QED BY <1>2, <2>1
<1>5. ASSUME NEW d \in 0 .. n - 1
      PROVE  /\ d + 1 \in 1 .. n /\ (head + d) % NbThreads = Onward(head, d)
             /\ buffer[Onward(head, d)] = q[d + 1]
  <2>1. d \in 0 .. n /\ d + 1 \in 1 .. n /\ d + 1 - 1 = d
    BY <1>1
  <2>2. (head + d) % NbThreads = Onward(head, d)
    BY <1>1, <2>1, SlotsFrom
  <2> QED BY <1>2, <2>1, <2>2
<1>6. k - 1 \in 0 .. n - 1 /\ k - 1 + 1 = k /\ n > 0 /\ k \in Nat
  BY <1>1
<1>7. k - 1 \in found
  BY <1>2, <1>3, <1>5, <1>6
<1>8. Min(found) = k - 1
  <2>1. Min(found) \in found
    <3>1. found \in SUBSET Nat
      BY <1>1
    <3> HIDE DEF found
    <3>2. found # {}
      BY <1>7
    <3> QED BY <3>1, <3>2, MinBelongs
  <2>2. ASSUME NEW d \in found PROVE d = k - 1
    <3>1. d \in 0 .. n - 1 /\ q[d + 1] = t /\ d + 1 \in 1 .. n
      BY <1>2, <1>5
    <3>2. d + 1 = k
      BY <1>0, <1>2, <1>3, <3>1 DEF Distinct
    <3> QED BY <3>1, <3>2
  <2> HIDE DEF found
  <2> QED BY <2>1, <2>2
<1>9. at = Onward(head, k - 1)
  BY <1>5, <1>6, <1>8
<1>10. end = Onward(head, n - 1) /\ n - 1 \in Slot /\ end \in Slot
  <2>1. n - 1 \in 0 .. n /\ n - 1 < n /\ n - 1 + 1 = n
    BY <1>1, <1>6
  <2> QED BY <1>1, <2>1, SlotsFrom
<1>11. Distance(at, end) = n - 1 - (k - 1)
  BY <1>1, <1>6, <1>9, <1>10, SlotsFrom
<1> HIDE DEF end, at, found
<1>13. ASSUME NEW x \in 0 .. n - 2
       PROVE  buffer'[Onward(head, x)] =
                IF x < k - 1 THEN buffer[Onward(head, x)]
                             ELSE buffer[Onward(head, x + 1)]
  <2> DEFINE m == k - 1
  <2>1. m \in 0 .. n - 1
    BY <1>6
  <2>2. moved = {(Onward(head, m) + d) % NbThreads : d \in 0 .. n - 1 - m - 1}
    BY <1>9, <1>11
  <2>3. x < m <=> ~(m <= x)
    BY <1>1, <1>6
  <2> HIDE DEF m
  <2>4. /\ Onward(head, x) \in {(Onward(head, m) + d) % NbThreads : d \in 0 .. n - 1 - m - 1}
              <=> m <= x
        /\ After(Onward(head, x)) = Onward(head, x + 1)
    BY <1>1, <1>6, <2>1, ShiftBack
  <2>5. Onward(head, x) \in moved <=> m <= x
    BY <2>2, <2>4
  <2> HIDE DEF moved
  <2>6. Onward(head, x) \in Slot
    BY <1>1
  <2>7. buffer'[Onward(head, x)] =
          IF Onward(head, x) \in moved
          THEN buffer[After(Onward(head, x))]
          ELSE buffer[Onward(head, x)]
    BY <1>4, <1>7, <2>6
  <2> QED BY <2>3, <2>4, <2>5, <2>7 DEF m
<1>14. buffer' \in [Slot -> Thread]
  <2>1. \A j \in Slot : After(j) \in Slot
    <3>1. 1 \in Slot
      BY <1>1 DEF Slot
    <3> QED BY <1>1, <3>1, OnwardFacts, RingArithmetic
  <2> HIDE DEF moved
  <2> QED BY <1>1, <1>4, <1>7, <2>1
<1>15. /\ Steps(head, end) = n - 1
       /\ Stored(head, end, buffer') = Withdraw(q, t)
  <2>1. Onward(end, 1) = last
    BY <1>1, RingArithmetic DEF end
  <2>2. \A x \in Slot : buffer'[x] \in Thread
    BY <1>14
  <2> DEFINE s == Withdraw(q, t)
             c == buffer'
  <2>3. s \in Seq(Thread) /\ Shorter(s, q, k)
    BY <1>2, <1>3 DEF Shorter
  <2>4. (\A x \in Slot : c[x] \in Thread) /\ Closed(head, n, buffer, c, k)
    BY <1>13, <2>2 DEF Closed
  <2> HIDE DEF s, c
  <2>5. /\ s \in Seq(Thread) /\ Shorter(s, Stored(head, last, buffer), k)
        /\ Closed(head, Steps(head, last), buffer, c, k)
        /\ k \in 1 .. Steps(head, last)
    BY <1>2, <2>3, <2>4 DEF n
  <2>6. /\ Steps(head, end) = Steps(head, last) - 1
        /\ Stored(head, end, c) = s
    <3>1. /\ NbThreads \in Nat /\ head \in Slot /\ last \in Slot
          /\ end \in Slot /\ \A x \in Slot : buffer[x] \in Thread
      BY <1>1, <1>10
    <3>2. \A x \in Slot : c[x] \in Thread
      BY <2>4
    <3> QED BY ONLY <2>1, <2>5, <3>1, <3>2, StoredWithOneLess
  <2> QED BY <2>6 DEF s, c, n
<1>16. RingShape'
  BY <1>1, <1>4, <1>7, <1>10, <1>14 DEF RingShape
<1>17. Contents' = Withdraw(q, t)
  BY <1>4, <1>7, <1>15, <1>16, ContentsStored
<1>18. Distinct(Contents)'
  <2>1. Distinct(Withdraw(q, t))
    BY <1>0, <1>2, WithdrawFacts
  <2> QED BY <1>17, <2>1 DEF Distinct
<1> QED BY <1>4, <1>7, <1>16, <1>17, <1>18 DEF RingInv, q

LEMMA RingRemoveThread ==
  ASSUME RingAssumption, RingInv, NEW t \in Thread, RemoveThread(t)
  PROVE  RingInv' /\ Queue!RemoveThread(t)
<1> DEFINE q == Contents
<1>0. /\ RingShape /\ Distinct(q)
      /\ q \in Seq(Thread) /\ Len(q) = Steps(head, last)
      /\ priority' = priority /\ discipline' = discipline
  BY ContentsEntries DEF RingInv, RemoveThread
<1>1. CASE t \in Queued(q)
  <2>1. RingInv' /\ result' = "OK" /\ q' = Withdraw(q, t)
    BY <1>1, RingRemoves
  <2> QED BY <1>0, <1>1, <2>1, SameQueueOperators DEF Queue!RemoveThread
<1>2. CASE t \notin Queued(q)
  <2> DEFINE found == {d \in 0 .. Count - 1 :
                         buffer[(head + d) % NbThreads] = t}
  <2>1. ~ \E i \in 1 .. Len(q) : q[i] = t
    BY <1>0, <1>2, QueuedEntries
  <2>2. Withdraw(q, t) = q
    BY <2>1 DEF Withdraw, RemoveFirst
  <2>3. ASSUME NEW d \in found PROVE FALSE
    <3>1. /\ Count = Steps(head, last)
          /\ \A i \in 1 .. Steps(head, last) :
               q[i] = buffer[Onward(head, i - 1)]
      BY <1>0, ContentsEntries
    <3>2. /\ Steps(head, last) \in Slot /\ Steps(head, last) \in Nat
          /\ head \in Slot
      BY <1>0, RingTypes
    <3>3. /\ d \in 0 .. Steps(head, last) /\ d + 1 \in 1 .. Steps(head, last)
          /\ d + 1 - 1 = d
      BY <3>1, <3>2
    <3>4. (head + d) % NbThreads = Onward(head, d)
      BY <3>2, <3>3, SlotsFrom
    <3>5. q[d + 1] = t
      BY <3>1, <3>3, <3>4
    <3> QED BY <1>0, <2>1, <3>3, <3>5
  <2>4. found = {}
    BY <2>3
  <2>5. /\ result' = "NOTFOUND"
        /\ UNCHANGED <<head, last, isEmpty, buffer>>
    BY <2>4 DEF RemoveThread
  <2>6. RingShape' /\ q' = q
    BY <1>0, <2>5, ContentsStored DEF RingShape
  <2>7. Distinct(Contents)'
    BY <1>0, <2>6 DEF Distinct
  <2>8. Queue!RemoveThread(t)
    BY <1>0, <1>2, <2>2, <2>5, <2>6, SameQueueOperators DEF Queue!RemoveThread
  <2> QED BY <2>6, <2>7, <2>8 DEF RingInv
<1> QED BY <1>1, <1>2

\* Steps that leave the ring alone.
LEMMA RingStays ==
  ASSUME RingAssumption, RingInv,
         UNCHANGED <<head, last, isEmpty, buffer>>
  PROVE  RingInv' /\ Contents' = Contents
<1>1. RingShape'
  BY DEF RingInv, RingShape
<1>2. Contents' = Contents
  BY <1>1, ContentsStored DEF RingInv
<1>3. Distinct(Contents)'
  BY <1>2 DEF RingInv, Distinct
<1> QED BY <1>1, <1>2, <1>3 DEF RingInv

LEMMA RingStarts ==
  ASSUME RingAssumption, Init
  PROVE  RingInv /\ Queue!Init
<1>1. /\ NbThreads \in Nat /\ NbThreads >= 2 /\ 0 \in Slot
  BY TwoSlots DEF Slot
<1>2. RingShape
  BY <1>1, RingArithmetic DEF Init, RingShape
<1>3. Len(Contents) = 0 /\ Contents \in Seq(Thread)
  <2>1. Steps(head, last) = 0
    BY <1>1, StepsFacts DEF Init
  <2> QED BY <1>2, <2>1, ContentsEntries
<1>4. Contents = <<>>
  BY <1>3
<1>5. Distinct(Contents)
  BY <1>4 DEF Distinct
<1> QED BY <1>2, <1>4, <1>5
        DEF RingInv, Init, Queue!Init, Queue!Disciplines

LEMMA RingStep ==
  ASSUME RingAssumption, RingInv, [Next]_vars
  PROVE  RingInv' /\ [Queue!Next]_(Queue!vars)
<1>1. ASSUME NEW t \in Thread, Enqueue(t)
      PROVE  RingInv' /\ Queue!Next
  BY <1>1, RingEnqueue DEF Queue!Next
<1>2. ASSUME NEW t \in Thread, RemoveThread(t)
      PROVE  RingInv' /\ Queue!Next
  BY <1>2, RingRemoveThread DEF Queue!Next
<1>3. ASSUME Dequeue
      PROVE  RingInv' /\ Queue!Next
  BY <1>3, RingDequeue DEF Queue!Next
<1>4. ASSUME NEW t \in Thread, NEW p \in Priority, SetPriority(t, p)
      PROVE  RingInv' /\ Queue!Next
  <2>1. RingInv' /\ Contents' = Contents
    BY <1>4, RingStays DEF SetPriority
  <2>2. Queue!SetPriority(t, p)
    BY <1>4, <2>1 DEF SetPriority, Queue!SetPriority
  <2> QED BY <2>1, <2>2 DEF Queue!Next
<1>5. CASE UNCHANGED vars
  BY <1>5, RingStays DEF vars, Queue!vars
<1> QED BY <1>1, <1>2, <1>3, <1>4, <1>5 DEF Next

\* The ring has room for every thread that can block: it is never full.
THEOREM RingNeverFull ==
  ASSUME RingAssumption
  PROVE  Spec => []NeverFull
<1>1. Init => RingInv
  BY RingStarts
<1>2. RingInv /\ [Next]_vars => RingInv'
  BY RingStep
<1>3. RingInv => NeverFull
  <2> SUFFICES ASSUME RingInv PROVE NeverFull
    OBVIOUS
  <2>1. /\ Contents \in Seq(Thread) /\ Distinct(Contents)
        /\ Len(Contents) = Count
    BY ContentsEntries DEF RingInv
  <2>2. /\ IsFiniteSet(Thread) /\ Cardinality(Thread) \in Nat
        /\ Cardinality(Thread) <= NbThreads - 2 /\ NbThreads \in Nat
    BY TwoSlots
  <2>3. Count <= Cardinality(Thread)
    BY <2>1, <2>2, DistinctBounded
  <2>4. Count \in Nat
    BY <2>1
  <2> QED BY <2>2, <2>3, <2>4 DEF NeverFull
<1> QED BY <1>1, <1>2, <1>3, PTL DEF Spec

\* Every call on the ring does to its contents what the queue promises, and
\* returns what it promises.
THEOREM RingIsQueue ==
  ASSUME RingAssumption
  PROVE  Spec => ImplementsQueue
<1>1. Init => RingInv /\ Queue!Init
  BY RingStarts
<1>2. RingInv /\ [Next]_vars
        => RingInv' /\ [Queue!Next]_(Queue!vars)
  BY RingStep
<1> QED BY <1>1, <1>2, PTL DEF Spec, ImplementsQueue, Queue!Spec

=============================================================================
