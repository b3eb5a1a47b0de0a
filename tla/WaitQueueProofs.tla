--------------------------- MODULE WaitQueueProofs ---------------------------
(***************************************************************************)
(* What the operations of WaitQueue do to the threads that are queued, to  *)
(* their order and to the absence of duplicates.                           *)
(***************************************************************************)
EXTENDS WaitQueue, SequenceTheorems, WellFoundedInduction, TLAPS

\* No thread is queued twice.
Distinct(queue) == \A i, j \in 1..Len(queue) : queue[i] = queue[j] => i = j

LEMMA MinBelongs ==
  ASSUME NEW S \in SUBSET Nat, S # {}
  PROVE  Min(S) \in S /\ \A y \in S : Min(S) <= y
<1>1. PICK x \in S : \A y \in S : ~ (<<y, x>> \in OpToRel(<, Nat))
  <2> HIDE DEF OpToRel
  <2> QED BY NatLessThanWellFounded, WFMin
<1>2. \A y \in S : x <= y
  <2> SUFFICES ASSUME NEW y \in S, y < x PROVE FALSE
    OBVIOUS
  <2>1. <<y, x>> \in OpToRel(<, Nat)
    BY DEF OpToRel
  <2> QED BY <1>1, <2>1
<1> QED BY <1>2 DEF Min

LEMMA QueuedEntries ==
  ASSUME NEW S, NEW q \in Seq(S)
  PROVE  Queued(q) = {q[i] : i \in 1..Len(q)}
BY RangeEquality DEF Queued

\* Putting e into q anywhere: who stands where.
LEMMA InsertEntries ==
  ASSUME NEW S, NEW q \in Seq(S), NEW e \in S, NEW k \in 1 .. Len(q) + 1
  PROVE  /\ InsertAt(q, k, e) \in Seq(S) /\ Len(InsertAt(q, k, e)) = Len(q) + 1
         /\ \A i \in 1 .. Len(q) + 1 :
              InsertAt(q, k, e)[i] = IF i < k THEN q[i] ELSE IF i = k THEN e ELSE q[i - 1]
<1> DEFINE r == InsertAt(q, k, e)
           front == SubSeq(q, 1, k - 1)
           back == SubSeq(q, k, Len(q))
<1>1. /\ front \in Seq(S) /\ Len(front) = k - 1
      /\ \A i \in 1 .. k - 1 : front[i] = q[i]
  BY SubSeqProperties
<1>2. /\ back \in Seq(S) /\ Len(back) = Len(q) - k + 1
      /\ \A i \in 1 .. Len(q) - k + 1 : back[i] = q[k + i - 1]
  BY SubSeqProperties
<1> HIDE DEF front, back
<1>3. /\ front \o <<e>> \in Seq(S) /\ Len(front \o <<e>>) = k
      /\ \A i \in 1 .. k : (front \o <<e>>)[i] = IF i < k THEN q[i] ELSE e
  BY <1>1, ConcatProperties
<1>4. /\ r \in Seq(S) /\ Len(r) = Len(q) + 1
      /\ \A i \in 1 .. Len(q) + 1 :
           r[i] = IF i < k THEN q[i] ELSE IF i = k THEN e ELSE q[i - 1]
  <2> DEFINE start == front \o <<e>>
  <2>1. r = start \o back
    BY DEF InsertAt, front, back
  <2>0. /\ start \in Seq(S) /\ Len(start) = k
        /\ \A i \in 1 .. k : start[i] = IF i < k THEN q[i] ELSE e
    BY <1>3
  <2> HIDE DEF r, start
  <2>2. /\ r \in Seq(S) /\ Len(r) = Len(start) + Len(back)
        /\ \A i \in 1 .. Len(start) + Len(back) :
             r[i] = IF i <= Len(start) THEN start[i] ELSE back[i - Len(start)]
    BY <2>0, <2>1, <1>2, ConcatProperties
  <2>3. Len(q) \in Nat /\ k + (Len(q) - k + 1) = Len(q) + 1
    BY LenProperties
  <2>4. /\ Len(r) = Len(q) + 1
        /\ \A i \in 1 .. Len(q) + 1 :
             r[i] = IF i <= k THEN start[i] ELSE back[i - k]
    BY <2>0, <2>2, <2>3, <1>2
  <2>5. ASSUME NEW i \in 1 .. Len(q) + 1, i > k
        PROVE  back[i - k] = q[i - 1]
    <3>1. i - k \in 1 .. Len(q) - k + 1 /\ k + (i - k) - 1 = i - 1
      BY <2>3, <2>5
    <3> QED BY <3>1, <1>2
  <2>6. ASSUME NEW i \in 1 .. Len(q) + 1
        PROVE  r[i] = IF i < k THEN q[i] ELSE IF i = k THEN e ELSE q[i - 1]
    <3>1. CASE i <= k
      BY <3>1, <2>4, <2>0
    <3>2. CASE i > k
      BY <3>2, <2>4, <2>5
    <3> QED BY <3>1, <3>2
  <2> QED BY <2>2, <2>4, <2>6
<1> QED BY <1>4

\* Putting e into q anywhere.
LEMMA InsertFacts ==
  ASSUME NEW S, NEW q \in Seq(S), NEW e \in S, NEW k \in 1 .. Len(q) + 1
  PROVE  /\ InsertAt(q, k, e) \in Seq(S)
         /\ Queued(InsertAt(q, k, e)) = Queued(q) \cup {e}
         /\ Distinct(q) /\ e \notin Queued(q) => Distinct(InsertAt(q, k, e))
<1> DEFINE r == InsertAt(q, k, e)
<1>4. /\ r \in Seq(S) /\ Len(r) = Len(q) + 1
      /\ \A i \in 1 .. Len(q) + 1 :
           r[i] = IF i < k THEN q[i] ELSE IF i = k THEN e ELSE q[i - 1]
  BY InsertEntries
<1> HIDE DEF r
<1>5. Queued(r) = Queued(q) \cup {e}
  <2>1. Queued(r) \subseteq Queued(q) \cup {e}
    BY <1>4, QueuedEntries
  <2>2. ASSUME NEW i \in 1..Len(q) PROVE q[i] \in Queued(r)
    <3>1. CASE i < k
      <4>1. i \in 1 .. Len(q) + 1 /\ r[i] = q[i]
        BY <3>1, <1>4, LenProperties
      <4> QED BY <4>1, <1>4, QueuedEntries
    <3>2. CASE ~(i < k)
      <4>1. i + 1 \in 1 .. Len(q) + 1 /\ ~(i + 1 < k) /\ i + 1 # k /\ i + 1 - 1 = i
        BY <3>2, LenProperties
      <4>2. r[i + 1] = q[i]
        BY <4>1, <1>4
      <4> QED BY <4>1, <4>2, <1>4, QueuedEntries
    <3> QED BY <3>1, <3>2
  <2>3. e \in Queued(r)
    <3>1. k \in 1..Len(r) /\ r[k] = e
      BY <1>4, LenProperties
    <3>2. Queued(r) = {r[i] : i \in 1..Len(r)}
      BY <1>4, QueuedEntries
    <3> QED BY <3>1, <3>2
  <2> QED BY <2>1, <2>2, <2>3, QueuedEntries
<1>6. ASSUME Distinct(q), e \notin Queued(q) PROVE Distinct(r)
  <2>1. \A i \in 1..Len(q) : q[i] # e
    BY <1>6, QueuedEntries
  <2> SUFFICES ASSUME NEW i \in 1..Len(r), NEW j \in 1..Len(r), r[i] = r[j]
               PROVE  i = j
    BY DEF Distinct
  <2>2. ASSUME NEW a \in 1 .. Len(q) + 1
        PROVE  \/ a < k /\ a \in 1..Len(q) /\ r[a] = q[a]
               \/ a = k /\ r[a] = e
               \/ a > k /\ a - 1 \in 1..Len(q) /\ r[a] = q[a - 1]
    BY <1>4, LenProperties
  <2>3. i \in 1 .. Len(q) + 1 /\ j \in 1 .. Len(q) + 1
    BY <1>4
  <2>4. i = k <=> j = k
    BY <2>1, <2>2, <2>3
  <2>5. CASE i # k
    BY <1>6, <2>2, <2>3, <2>4, <2>5 DEF Distinct
  <2> QED BY <2>4, <2>5
<1> QED BY <1>4, <1>5, <1>6 DEF r

\* The position is behind every entry of at least the thread's priority up to
\* the first one of a lower.
LEMMA InsertPositionFacts ==
  ASSUME NEW S, NEW q \in Seq(S), NEW p, NEW priority
  PROVE  LET k == InsertPosition(q, p, priority)
         IN /\ k \in 1 .. Len(q) + 1
            /\ k # Len(q) + 1 => priority[q[k]] < p
            /\ \A i \in 1 .. Len(q) : i < k => ~(priority[q[i]] < p)
<1> DEFINE places == {i \in 1..Len(q) : priority[q[i]] < p} \cup {Len(q) + 1}
<1>1. places \in SUBSET Nat /\ places # {} /\ places \subseteq 1 .. Len(q) + 1
  OBVIOUS
<1>2. Min(places) \in places /\ \A y \in places : Min(places) <= y
  <2> HIDE DEF places
  <2> QED BY <1>1, MinBelongs
<1> DEFINE k == Min(places)
<1>3. k = InsertPosition(q, p, priority)
  BY DEF InsertPosition
<1>4. \A i \in 1 .. Len(q) : i < k => ~(priority[q[i]] < p)
  <2> SUFFICES ASSUME NEW i \in 1 .. Len(q), i < k, priority[q[i]] < p PROVE FALSE
    OBVIOUS
  <2>1. i \in places
    OBVIOUS
  <2>2. k <= i /\ k \in Nat
    BY <1>1, <1>2, <2>1
  <2> HIDE DEF k
  <2> QED BY <2>2
<1>5. k # Len(q) + 1 => priority[q[k]] < p
  BY <1>2
<1> QED BY <1>1, <1>2, <1>3, <1>4, <1>5

\* Blocking adds the thread and nothing else, in either discipline.
LEMMA EnqueueFacts ==
  ASSUME NEW S, NEW q \in Seq(S), NEW e \in S, NEW priority, NEW discipline
  PROVE  /\ EnqueueIn(q, e, priority, discipline) \in Seq(S)
         /\ Queued(EnqueueIn(q, e, priority, discipline)) = Queued(q) \cup {e}
         /\ Distinct(q) /\ e \notin Queued(q)
              => Distinct(EnqueueIn(q, e, priority, discipline))
<1>1. InsertPosition(q, priority[e], priority) \in 1 .. Len(q) + 1
  BY InsertPositionFacts
<1>2. Append(q, e) = InsertAt(q, Len(q) + 1, e)
  <2>1. SubSeq(q, 1, Len(q) + 1 - 1) = q
    BY SubSeqFull
  <2>2. SubSeq(q, Len(q) + 1, Len(q)) = <<>>
    BY SubSeqEmpty
  <2>3. Append(q, e) = q \o <<e>> /\ q \o <<e>> \in Seq(S)
    BY AppendIsConcat, AppendProperties
  <2> QED BY <2>1, <2>2, <2>3, ConcatEmptySeq DEF InsertAt
<1>3. \E k \in 1 .. Len(q) + 1 :
        EnqueueIn(q, e, priority, discipline) = InsertAt(q, k, e)
  BY <1>1, <1>2 DEF EnqueueIn, EnqueuePriority
<1> QED BY <1>3, InsertFacts

\* Waking the first thread takes it out for good.
LEMMA TailFacts ==
  ASSUME NEW S, NEW q \in Seq(S), q # <<>>
  PROVE  /\ Head(q) \in Queued(q) /\ Head(q) \in S
         /\ Tail(q) \in Seq(S)
         /\ Queued(q) = {Head(q)} \cup Queued(Tail(q))
         /\ Distinct(q) => Head(q) \notin Queued(Tail(q)) /\ Distinct(Tail(q))
<1>1. /\ Head(q) \in S /\ Head(q) = q[1] /\ Len(q) \in Nat \ {0}
      /\ Tail(q) \in Seq(S) /\ Len(Tail(q)) = Len(q) - 1
      /\ \A i \in 1 .. Len(q) - 1 : Tail(q)[i] = q[i + 1]
  BY HeadTailProperties
<1>2. Queued(q) = {q[i] : i \in 1..Len(q)}
  BY QueuedEntries
<1>3. Queued(Tail(q)) = {q[i + 1] : i \in 1 .. Len(q) - 1}
  <2>1. Queued(Tail(q)) = {Tail(q)[i] : i \in 1 .. Len(q) - 1}
    BY <1>1, QueuedEntries
  <2> QED BY <2>1, <1>1
<1>4. ASSUME Distinct(q) PROVE Head(q) \notin Queued(Tail(q)) /\ Distinct(Tail(q))
  <2>1. Head(q) \notin Queued(Tail(q))
    BY <1>1, <1>3, <1>4 DEF Distinct
  <2>2. Distinct(Tail(q))
    BY <1>1, <1>4 DEF Distinct
  <2> QED BY <2>1, <2>2
<1>5. Queued(q) = {Head(q)} \cup Queued(Tail(q))
  <2>1. ASSUME NEW i \in 1..Len(q), i # 1
        PROVE  q[i] \in Queued(Tail(q))
    <3>1. i - 1 \in 1 .. Len(q) - 1 /\ (i - 1) + 1 = i
      BY <1>1, <2>1
    <3> QED BY <1>3, <3>1
  <2>2. Queued(Tail(q)) \subseteq Queued(q)
    BY <1>1, <1>2, <1>3
  <2>3. 1 \in 1..Len(q)
    BY <1>1
  <2> QED BY <1>1, <1>2, <2>1, <2>2, <2>3
<1> QED BY <1>1, <1>2, <1>4, <1>5

\* Withdrawing a thread that is queued: the threads behind it move up.
LEMMA WithdrawEntries ==
  ASSUME NEW S, NEW q \in Seq(S), NEW e \in Queued(q)
  PROVE  \E k \in 1..Len(q) :
           /\ q[k] = e
           /\ Withdraw(q, e) \in Seq(S) /\ Len(Withdraw(q, e)) = Len(q) - 1
           /\ \A i \in 1 .. Len(q) - 1 :
                Withdraw(q, e)[i] = IF i < k THEN q[i] ELSE q[i + 1]
<1> DEFINE r == Withdraw(q, e)
           places == {i \in 1..Len(q) : q[i] = e}
<1>1. places # {} /\ places \in SUBSET Nat
  BY QueuedEntries
<1>2. PICK k \in 1..Len(q) : q[k] = e /\ r = RemoveAt(q, k)
  <2>1. Min(places) \in places
    <3> HIDE DEF places
    <3> QED BY <1>1, MinBelongs
  <2> QED BY <1>1, <2>1 DEF Withdraw, RemoveFirst, SelectInSeq
<1> DEFINE front == SubSeq(q, 1, k - 1)
           back == SubSeq(q, k + 1, Len(q))
<1>3. /\ front \in Seq(S) /\ Len(front) = k - 1
      /\ \A i \in 1 .. k - 1 : front[i] = q[i]
  BY SubSeqProperties
<1>4. /\ back \in Seq(S) /\ Len(back) = Len(q) - k
      /\ \A i \in 1 .. Len(q) - k : back[i] = q[k + i]
  BY SubSeqProperties
<1>5. r = front \o back
  BY <1>2 DEF RemoveAt
<1> HIDE DEF front, back, r
<1>6. /\ r \in Seq(S) /\ Len(r) = Len(q) - 1
      /\ \A i \in 1 .. Len(q) - 1 : r[i] = IF i < k THEN q[i] ELSE q[i + 1]
  <2>1. /\ r \in Seq(S) /\ Len(r) = Len(front) + Len(back)
        /\ \A i \in 1 .. Len(front) + Len(back) :
             r[i] = IF i <= Len(front) THEN front[i] ELSE back[i - Len(front)]
    BY <1>3, <1>4, <1>5, ConcatProperties
  <2>2. Len(q) \in Nat /\ (k - 1) + (Len(q) - k) = Len(q) - 1
    BY LenProperties
  <2>3. /\ Len(r) = Len(q) - 1
        /\ \A i \in 1 .. Len(q) - 1 :
             r[i] = IF i <= k - 1 THEN front[i] ELSE back[i - (k - 1)]
    BY <2>1, <2>2, <1>3, <1>4
  <2>4. ASSUME NEW i \in 1 .. Len(q) - 1
        PROVE  r[i] = IF i < k THEN q[i] ELSE q[i + 1]
    <3>1. CASE i < k
      BY <3>1, <2>3, <1>3
    <3>2. CASE ~(i < k)
      <4>1. i - (k - 1) \in 1 .. Len(q) - k /\ k + (i - (k - 1)) = i + 1
        BY <3>2, <2>2
      <4>2. r[i] = back[i - (k - 1)]
        BY <3>2, <2>3
      <4>3. back[i - (k - 1)] = q[k + (i - (k - 1))]
        BY <4>1, <1>4
      <4> QED BY <3>2, <4>1, <4>2, <4>3
    <3> QED BY <3>1, <3>2
  <2> QED BY <2>1, <2>3, <2>4
<1> QED BY <1>2, <1>6 DEF r

\* Withdrawing a thread takes it out for good, and nobody else.
LEMMA WithdrawFacts ==
  ASSUME NEW S, NEW q \in Seq(S), NEW e
  PROVE  /\ Withdraw(q, e) \in Seq(S)
         /\ Queued(Withdraw(q, e)) \subseteq Queued(q)
         /\ Distinct(q) => /\ Distinct(Withdraw(q, e))
                           /\ Queued(Withdraw(q, e)) = Queued(q) \ {e}
         /\ q = <<>> => Withdraw(q, e) = <<>>
<1> DEFINE r == Withdraw(q, e)
<1>1. CASE e \notin Queued(q)
  <2>1. ~ \E i \in 1..Len(q) : q[i] = e
    BY <1>1, QueuedEntries
  <2>2. r = q
    BY <2>1 DEF Withdraw, RemoveFirst
  <2> QED BY <1>1, <2>2
<1>2. CASE e \in Queued(q)
  <2>2. PICK k \in 1..Len(q) :
          /\ q[k] = e
          /\ r \in Seq(S) /\ Len(r) = Len(q) - 1
          /\ \A i \in 1 .. Len(q) - 1 : r[i] = IF i < k THEN q[i] ELSE q[i + 1]
    BY <1>2, WithdrawEntries
  <2> HIDE DEF r
  <2>6. /\ r \in Seq(S) /\ Len(r) = Len(q) - 1
        /\ \A i \in 1 .. Len(q) - 1 : r[i] = IF i < k THEN q[i] ELSE q[i + 1]
    BY <2>2
  <2>7. Queued(r) \subseteq Queued(q)
    BY <2>6, QueuedEntries
  <2>8. ASSUME Distinct(q) PROVE Distinct(r) /\ Queued(r) = Queued(q) \ {e}
    <3>1. Distinct(r)
      BY <2>6, <2>8 DEF Distinct
    <3>2. e \notin Queued(r)
      <4>1. ASSUME NEW i \in 1..Len(r) PROVE r[i] # e
        BY <2>2, <2>6, <2>8 DEF Distinct
      <4> QED BY <4>1, <2>6, QueuedEntries
    <3>3. ASSUME NEW i \in 1..Len(q), q[i] # e PROVE q[i] \in Queued(r)
      <4>1. CASE i < k
        BY <4>1, <2>6, QueuedEntries
      <4>2. CASE i > k
        <5>1. i - 1 \in 1..Len(r) /\ r[i - 1] = q[i]
          BY <4>2, <2>6
        <5> QED BY <5>1, <2>6, QueuedEntries
      <4> QED BY <4>1, <4>2, <3>3, <2>2
    <3> QED BY <3>1, <3>2, <3>3, <2>7, QueuedEntries
  <2>9. q # <<>>
    BY <1>2, QueuedEntries
  <2> QED BY <2>6, <2>7, <2>8, <2>9 DEF r
<1> QED BY <1>1, <1>2

-----------------------------------------------------------------------------
\* A priority queue: nobody stands before a thread of higher priority.
Sorted(queue, priority) ==
  \A i, j \in 1..Len(queue) : i <= j => priority[queue[j]] <= priority[queue[i]]

\* The linear search of pok_lockobj_enqueue keeps a priority queue sorted.
LEMMA EnqueueSorted ==
  ASSUME NEW S, NEW q \in Seq(S), NEW e \in S, NEW priority,
         \A x \in S : priority[x] \in Nat, Sorted(q, priority)
  PROVE  Sorted(EnqueuePriority(q, e, priority), priority)
<1> DEFINE k == InsertPosition(q, priority[e], priority)
           r == EnqueuePriority(q, e, priority)
<1>1. /\ k \in 1 .. Len(q) + 1
      /\ k # Len(q) + 1 => priority[q[k]] < priority[e]
      /\ \A i \in 1 .. Len(q) : i < k => ~(priority[q[i]] < priority[e])
  BY InsertPositionFacts
<1>2. r = InsertAt(q, k, e)
  BY DEF EnqueuePriority
<1> HIDE DEF k, r
<1>3. /\ Len(r) = Len(q) + 1
      /\ \A i \in 1 .. Len(q) + 1 :
           r[i] = IF i < k THEN q[i] ELSE IF i = k THEN e ELSE q[i - 1]
  <2>1. ASSUME NEW m \in 1 .. Len(q) + 1
        PROVE  /\ InsertAt(q, m, e) \in Seq(S) /\ Len(InsertAt(q, m, e)) = Len(q) + 1
               /\ \A i \in 1 .. Len(q) + 1 :
                    InsertAt(q, m, e)[i] = IF i < m THEN q[i] ELSE IF i = m THEN e ELSE q[i - 1]
    BY InsertEntries
  <2> QED BY <1>1, <1>2, <2>1
<1>4. Len(q) \in Nat /\ \A i \in 1..Len(q) : priority[q[i]] \in Nat
  BY ElementOfSeq, LenProperties
<1>5. priority[e] \in Nat
  OBVIOUS
<1>6. ASSUME NEW i \in 1..Len(q), i >= k PROVE priority[q[i]] < priority[e]
  <2>1. k \in 1..Len(q) /\ k # Len(q) + 1
    BY <1>1, <1>4, <1>6
  <2>2. priority[q[i]] <= priority[q[k]]
    BY <1>6, <2>1 DEF Sorted
  <2> QED BY <1>1, <1>4, <1>5, <2>1, <2>2
<1> SUFFICES ASSUME NEW i \in 1 .. Len(q) + 1, NEW j \in 1 .. Len(q) + 1, i < j
             PROVE  priority[r[j]] <= priority[r[i]]
  <2>1. \A i \in 1 .. Len(q) + 1 : priority[r[i]] \in Nat
    <3> SUFFICES ASSUME NEW i \in 1 .. Len(q) + 1 PROVE priority[r[i]] \in Nat
      OBVIOUS
    <3>1. CASE i < k
      BY <1>1, <1>3, <1>4, <3>1
    <3>2. CASE i = k
      BY <1>3, <1>5, <3>2
    <3>3. CASE i > k
      <4>1. i - 1 \in 1..Len(q) /\ r[i] = q[i - 1]
        BY <1>1, <1>3, <1>4, <3>3
      <4> QED BY <1>4, <4>1
    <3>4. i < k \/ i = k \/ i > k
      <4>1. i \in Int /\ k \in Int
        BY <1>1, <1>4
      <4> QED BY <4>1
    <3> QED BY <3>1, <3>2, <3>3, <3>4
  <2>2. Len(r) = Len(q) + 1 /\ Len(q) \in Nat
    BY <1>3, <1>4
  <2> SUFFICES ASSUME NEW i \in 1..Len(r), NEW j \in 1..Len(r), i <= j
               PROVE  priority[r[j]] <= priority[r[i]]
    BY DEF Sorted, r
  <2>3. CASE i < j
    BY <2>2, <2>3
  <2>4. CASE i = j
    BY <2>1, <2>2, <2>4
  <2>5. i < j \/ i = j
    BY <2>2
  <2> QED BY <2>3, <2>4, <2>5
<1>7. CASE j < k
  <2>1. i \in 1..Len(q) /\ j \in 1..Len(q) /\ i <= j /\ r[i] = q[i] /\ r[j] = q[j]
    BY <1>1, <1>3, <1>4, <1>7
  <2> QED BY <2>1 DEF Sorted
<1>8. CASE j = k
  <2>1. i \in 1..Len(q) /\ r[i] = q[i] /\ r[j] = e /\ ~(priority[q[i]] < priority[e])
    BY <1>1, <1>3, <1>4, <1>8
  <2> QED BY <1>4, <1>5, <2>1
<1>9. CASE j > k
  <2>1. j - 1 \in 1..Len(q) /\ r[j] = q[j - 1] /\ j - 1 >= k
    BY <1>1, <1>3, <1>4, <1>9
  <2>2. CASE i < k
    <3>1. i \in 1..Len(q) /\ r[i] = q[i] /\ i <= j - 1
      BY <1>1, <1>3, <1>4, <1>9, <2>2
    <3> QED BY <2>1, <3>1 DEF Sorted
  <2>3. CASE i = k
    <3>1. r[i] = e /\ priority[q[j - 1]] < priority[e]
      BY <1>3, <1>6, <2>1, <2>3
    <3> QED BY <1>4, <1>5, <2>1, <3>1
  <2>4. CASE i > k
    <3>1. i - 1 \in 1..Len(q) /\ r[i] = q[i - 1] /\ i - 1 <= j - 1
      BY <1>1, <1>3, <1>4, <2>4
    <3> QED BY <2>1, <3>1 DEF Sorted
  <2> QED BY <1>1, <2>2, <2>3, <2>4
<1> QED BY <1>1, <1>7, <1>8, <1>9

\* The first of a priority queue has the highest priority of all, and the rest
\* is sorted without it.
LEMMA TailSorted ==
  ASSUME NEW S, NEW q \in Seq(S), q # <<>>, NEW priority, Sorted(q, priority)
  PROVE  /\ Sorted(Tail(q), priority)
         /\ \A u \in Queued(q) : priority[u] <= priority[Head(q)]
<1>1. /\ Head(q) = q[1] /\ Len(q) \in Nat \ {0}
      /\ Len(Tail(q)) = Len(q) - 1
      /\ \A i \in 1 .. Len(q) - 1 : Tail(q)[i] = q[i + 1]
  BY HeadTailProperties
<1>2. Sorted(Tail(q), priority)
  BY <1>1 DEF Sorted
<1>3. \A i \in 1..Len(q) : priority[q[i]] <= priority[q[1]]
  BY <1>1 DEF Sorted
<1> QED BY <1>1, <1>2, <1>3, QueuedEntries

\* A thread that gives up leaves its queue sorted.
LEMMA WithdrawSorted ==
  ASSUME NEW S, NEW q \in Seq(S), NEW e, NEW priority, Sorted(q, priority)
  PROVE  Sorted(Withdraw(q, e), priority)
<1>1. CASE e \notin Queued(q)
  <2>1. ~ \E i \in 1..Len(q) : q[i] = e
    BY <1>1, QueuedEntries
  <2> QED BY <2>1 DEF Withdraw, RemoveFirst
<1>2. CASE e \in Queued(q)
  <2>1. PICK k \in 1..Len(q) :
          /\ Len(Withdraw(q, e)) = Len(q) - 1
          /\ \A i \in 1 .. Len(q) - 1 :
               Withdraw(q, e)[i] = IF i < k THEN q[i] ELSE q[i + 1]
    BY <1>2, WithdrawEntries
  <2>2. Len(q) \in Nat
    BY LenProperties
  <2> QED BY <2>1, <2>2 DEF Sorted
<1> QED BY <1>1, <1>2
=============================================================================
