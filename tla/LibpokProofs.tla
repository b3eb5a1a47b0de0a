---------------------------- MODULE LibpokProofs ----------------------------
(***************************************************************************)
(* Proofs about what libpok keeps in a partition; Allocator and Buffers    *)
(* share no variable.                                                      *)
(*                                                                         *)
(* Allocator, for any memory, any size of the table and any sizes asked    *)
(* for: the spaces of the table share no memory, and a program that frees  *)
(* in reverse order keeps its blocks and gets all of the memory back.      *)
(*                                                                         *)
(* Buffers, for any number of threads and of messages of any length: one   *)
(* thread at a time is inside the monitor and the lock is not lost, none   *)
(* sleeps on what has come true, and a reader of a blackboard gets one     *)
(* message; and a buffer of messages of its own length implements          *)
(* BoundedBuffer.  A call with timeout 0 of receive gives the lock back    *)
(* and goes on without it: it is left out.                                 *)
(***************************************************************************)
EXTENDS Allocator, Buffers, WaitQueueProofs

-----------------------------------------------------------------------------
\* Allocator

\* What is behind the table reads as an entry that starts at 0, or as one that
\* is empty as well.
StartsAtZero == \A last \in Beyond : last.start = 0
ReadsAsEmpty == \A last \in Beyond : last.start = 0 /\ last.size = 0

Entry == [start : Nat, size : Nat, allocated : BOOLEAN]
Index == 0 .. NbSpaces

TableTypes ==
  /\ order \in Orders
  /\ spaces \in [Index -> Entry]
  /\ used \in 1 .. NbSpaces - 1
  /\ merging \in Index
  /\ live \in Seq([start : Nat, size : Nat])

\* The spaces of the table have a size and share no memory; the entries
\* behind them start at 0.
DisjointInv ==
  /\ \A i \in 0 .. used - 1 : spaces[i].size > 0
  /\ \A i \in used .. NbSpaces : spaces[i].start = 0
  /\ SpacesDisjoint

\* A program that frees in reverse order has its blocks at the beginning of the
\* table, one behind the other in memory, and free space behind them: one entry,
\* or two until they are merged.
StackShape ==
  LET m == Len(live)
  IN /\ \A i \in used .. NbSpaces : spaces[i].size = 0
     /\ spaces[0].start = 0
     /\ \A i \in 0 .. used - 2 : End(spaces[i]) = spaces[i + 1].start
     /\ End(spaces[used - 1]) = MemorySize
     /\ \A k \in 1 .. m : /\ live[k].start = spaces[k - 1].start
                          /\ live[k].size = spaces[k - 1].size
                          /\ spaces[k - 1].allocated
     /\ \A i \in m .. used - 1 : ~spaces[i].allocated
     /\ m <= used
     /\ merging = Nothing => used <= m + 1
     /\ merging # Nothing => \/ merging = m /\ used \in {m + 1, m + 2}
                             \/ merging = m + 1 /\ used = m + 1

StackInv == order = "STACK" => StackShape

LEMMA TableSize == NbSpaces \in Nat /\ NbSpaces >= 3 /\ MemorySize \in Nat /\ MemorySize > 0
BY AllocatorAssumption

LEMMA EntryFacts ==
  ASSUME NEW table \in [Index -> Entry], NEW i \in Index
  PROVE  /\ table[i].start \in Nat /\ table[i].size \in Nat
         /\ table[i].allocated \in BOOLEAN /\ End(table[i]) \in Nat
         /\ End(table[i]) = table[i].start + table[i].size
BY DEF Entry, End

\* What an allocation leaves in the table: entry i is allocated, with size n;
\* what it had more is a free space behind it.
Allocated(i, n) ==
  /\ i \in 0 .. used - 1 /\ ~spaces[i].allocated
  /\ live' = Append(live, [start |-> spaces[i].start, size |-> n])
  /\ spaces' \in [Index -> Entry]
  /\ \A j \in Index \ {i, used} : spaces'[j] = spaces[j]
  /\ spaces'[i].start = spaces[i].start /\ spaces'[i].size = n /\ spaces'[i].allocated
  /\ \/ spaces[i].size = n /\ used' = used /\ spaces'[used] = spaces[used]
     \/ /\ spaces[i].size > n /\ used' = used + 1 /\ used < NbSpaces - 1
        /\ spaces'[used].start = spaces[i].start + n
        /\ spaces'[used].size = spaces[i].size - n
        /\ ~spaces'[used].allocated

LEMMA AllocateFacts ==
  ASSUME TableTypes, NEW n \in Sizes, Allocate(n)
  PROVE  \E i \in 0 .. used - 1 : Allocated(i, n)
<1> DEFINE fitting == {i \in 0 .. used - 1 : ~spaces[i].allocated /\ spaces[i].size >= n}
           i == Min(fitting)
<1>1. /\ used \in 1 .. NbSpaces - 1 /\ used < NbSpaces - 1 /\ n \in Nat /\ n > 0
      /\ spaces \in [Index -> Entry]
  BY TableSize, AllocatorAssumption DEF TableTypes, Allocate, TableFull
<1>2. i \in 0 .. used - 1 /\ ~spaces[i].allocated /\ spaces[i].size >= n
  <2>1. fitting # {}
    BY DEF Allocate
  <2>2. fitting \in SUBSET Nat
    BY <1>1
  <2>3. i \in fitting
    <3> HIDE DEF fitting
    <3> QED BY <2>1, <2>2, MinBelongs
  <2> QED BY <2>3
<1>3. /\ live' = Append(live, [start |-> spaces[i].start, size |-> n])
      /\ IF spaces[i].size = n
         THEN spaces' = [spaces EXCEPT ![i].allocated = TRUE] /\ used' = used
         ELSE spaces' = Split(i, n) /\ used' = used + 1
  BY DEF Allocate
<1> HIDE DEF fitting, i
<1>4. /\ i \in Index /\ used \in Index /\ i # used
      /\ spaces[i] \in Entry /\ spaces[i].start \in Nat /\ spaces[i].size \in Nat
  BY <1>1, <1>2, TableSize, EntryFacts DEF Index
<1>5. CASE spaces[i].size = n
  <2>1. spaces' = [spaces EXCEPT ![i].allocated = TRUE] /\ used' = used
    BY <1>3, <1>5
  <2>2. spaces' \in [Index -> Entry]
    BY <1>1, <1>4, <2>1 DEF Entry
  <2>3. \A j \in Index \ {i} : spaces'[j] = spaces[j]
    BY <1>1, <2>1
  <2>4. spaces'[i].start = spaces[i].start /\ spaces'[i].size = n /\ spaces'[i].allocated
    BY <1>1, <1>4, <1>5, <2>1 DEF Entry
  <2> QED BY <1>2, <1>3, <1>4, <1>5, <2>1, <2>2, <2>3, <2>4 DEF Allocated
<1>6. CASE spaces[i].size # n
  <2> DEFINE r == [start |-> spaces[i].start + n, size |-> spaces[i].size - n,
                   allocated |-> FALSE]
             b == [spaces[i] EXCEPT !.size = n, !.allocated = TRUE]
  <2>1. spaces' = [spaces EXCEPT ![i] = b, ![used] = r] /\ used' = used + 1
    BY <1>3, <1>6 DEF Split
  <2>2. spaces[i].size > n
    BY <1>1, <1>2, <1>4, <1>6
  <2>3. b \in Entry /\ r \in Entry
    <3>1. b \in Entry
      BY <1>1, <1>4 DEF Entry
    <3>2. spaces[i].start + n \in Nat /\ spaces[i].size - n \in Nat
      BY <1>1, <1>4, <2>2
    <3>3. r \in Entry
      BY <3>2 DEF Entry
    <3> QED BY <3>1, <3>3
  <2>4. b.start = spaces[i].start /\ b.size = n /\ b.allocated
    BY <1>4 DEF Entry
  <2>5. /\ r.start = spaces[i].start + n /\ r.size = spaces[i].size - n /\ ~r.allocated
    OBVIOUS
  <2> HIDE DEF b, r
  <2>6. /\ spaces' \in [Index -> Entry] /\ spaces'[i] = b /\ spaces'[used] = r
        /\ \A j \in Index \ {i, used} : spaces'[j] = spaces[j]
    BY <1>1, <1>4, <2>1, <2>3
  <2> QED BY <1>1, <1>2, <1>3, <2>1, <2>2, <2>4, <2>5, <2>6 DEF Allocated
<1> QED BY <1>2, <1>5, <1>6

\* What a merge leaves: entry k has the memory of entry d, which is deleted.
Merged(k, d) ==
  /\ k \in 0 .. NbSpaces - 1 /\ d \in 0 .. NbSpaces - 1 /\ k # d
  /\ End(spaces[k]) = spaces[d].start
  /\ spaces' \in [Index -> Entry]
  /\ \A j \in Index :
       LET old == IF d <= j /\ j < NbSpaces THEN j + 1 ELSE j
       IN /\ spaces'[j].start = spaces[old].start
          /\ spaces'[j].allocated = spaces[old].allocated
          /\ spaces'[j].size = IF old = k THEN spaces[k].size + spaces[d].size
                                          ELSE spaces[old].size
  /\ used' = used - 1

LEMMA DeleteGrow ==
  ASSUME TableTypes, NEW k \in 0 .. NbSpaces - 1, NEW d \in 0 .. NbSpaces - 1, k # d,
         End(spaces[k]) = spaces[d].start, used' = used - 1,
         spaces' = Delete(Grow(k, spaces[d].size), d)
  PROVE  Merged(k, d)
<1> DEFINE g == Grow(k, spaces[d].size)
<1>1. /\ spaces \in [Index -> Entry] /\ k \in Index /\ d \in Index
      /\ NbSpaces \in Nat /\ spaces[k] \in Entry
      /\ spaces[k].size + spaces[d].size \in Nat
  <2>1. k \in Index /\ d \in Index /\ NbSpaces \in Nat /\ spaces \in [Index -> Entry]
    BY TableSize DEF Index, TableTypes
  <2>2. spaces[k].size \in Nat /\ spaces[d].size \in Nat
    BY <2>1, EntryFacts
  <2> QED BY <2>1, <2>2
<1>2. g = [spaces EXCEPT ![k] = [spaces[k] EXCEPT !.size = spaces[k].size + spaces[d].size]]
  BY DEF Grow
<1>3. /\ g \in [Index -> Entry]
      /\ \A j \in Index : /\ g[j].start = spaces[j].start
                          /\ g[j].allocated = spaces[j].allocated
                          /\ g[j].size = IF j = k THEN spaces[k].size + spaces[d].size
                                                  ELSE spaces[j].size
  <2> DEFINE m == [spaces[k] EXCEPT !.size = spaces[k].size + spaces[d].size]
  <2>1. /\ m \in Entry /\ m.start = spaces[k].start /\ m.allocated = spaces[k].allocated
        /\ m.size = spaces[k].size + spaces[d].size
    BY <1>1 DEF Entry
  <2>2. g = [spaces EXCEPT ![k] = m]
    BY <1>2
  <2> HIDE DEF g, m
  <2>3. g \in [Index -> Entry] /\ \A j \in Index : g[j] = IF j = k THEN m ELSE spaces[j]
    BY <1>1, <2>1, <2>2
  <2> QED BY <2>1, <2>3
<1>4. spaces' = [j \in Index |-> IF d <= j /\ j < NbSpaces THEN g[j + 1] ELSE g[j]]
  BY DEF Delete, Index
<1> HIDE DEF g
<1>5. \A j \in Index : j < NbSpaces => j + 1 \in Index
  BY <1>1 DEF Index
<1>6. spaces' \in [Index -> Entry]
  BY <1>3, <1>4, <1>5
<1> QED BY <1>1, <1>3, <1>4, <1>5, <1>6 DEF Merged

LEMMA MergeFacts ==
  ASSUME TableTypes, Merge
  PROVE  /\ merging # Nothing /\ live' = live
         /\ \/ /\ used = 1 \/ Touching(merging) = {}
               /\ merging' = Nothing /\ spaces' = spaces /\ used' = used
            \/ /\ used > 1 /\ merging' \in Touching(merging)
               /\ \/ Merged(merging', merging)
                  \/ /\ Merged(merging, merging')
                     /\ End(spaces[merging']) # spaces[merging].start
<1> DEFINE i == merging
           j == Min(Touching(i))
<1>1. /\ merging # Nothing /\ live' = live
      /\ IF used = 1 \/ Touching(i) = {}
         THEN merging' = Nothing /\ spaces' = spaces /\ used' = used
         ELSE /\ spaces' = IF End(spaces[j]) = spaces[i].start
                           THEN Delete(Grow(j, spaces[i].size), i)
                           ELSE Delete(Grow(i, spaces[j].size), j)
              /\ used' = used - 1 /\ merging' = j
  BY DEF Merge
<1>2. CASE ~(used = 1 \/ Touching(i) = {})
  <2>1. /\ used \in 1 .. NbSpaces - 1 /\ NbSpaces \in Nat
        /\ i \in 0 .. NbSpaces - 1
    BY <1>1, TableSize DEF TableTypes, Index, Nothing
  <2>2. Touching(i) \in SUBSET Nat
    BY <2>1 DEF Touching
  <2>3. j \in Touching(i)
    BY <1>2, <2>2, MinBelongs
  <2>4. /\ j \in 0 .. NbSpaces - 1 /\ j # i
        /\ End(spaces[j]) = spaces[i].start \/ End(spaces[i]) = spaces[j].start
    BY <2>1, <2>3 DEF Touching
  <2>5. used' = used - 1 /\ merging' = j /\ used > 1
    BY <1>1, <1>2, <2>1
  <2>6. CASE End(spaces[j]) = spaces[i].start
    <3>1. spaces' = Delete(Grow(j, spaces[i].size), i)
      BY <1>1, <1>2, <2>6
    <3>2. Merged(j, i)
      <4> HIDE DEF i, j
      <4> QED BY <2>1, <2>4, <2>5, <2>6, <3>1, DeleteGrow
    <3> QED BY <1>1, <2>3, <2>5, <3>2
  <2>7. CASE End(spaces[j]) # spaces[i].start
    <3>1. spaces' = Delete(Grow(i, spaces[j].size), j)
      BY <1>1, <1>2, <2>7
    <3>2. Merged(i, j)
      <4> HIDE DEF i, j
      <4> QED BY <2>1, <2>4, <2>5, <2>7, <3>1, DeleteGrow
    <3> QED BY <1>1, <2>3, <2>5, <2>7, <3>2
  <2> QED BY <2>6, <2>7
<1> QED BY <1>1, <1>2

\* What pok_allocator_free leaves before the merge: at most one entry, that
\* starts where the block does, is no longer allocated.
LEMMA FreeFacts ==
  ASSUME TableTypes, NEW k \in DOMAIN live, Free(k)
  PROVE  /\ merging = Nothing /\ used' = used /\ (order = "STACK" => k = Len(live))
         /\ live' = RemoveAt(live, k)
         /\ \/ /\ \A i \in 0 .. used - 1 : spaces[i].start # live[k].start
               /\ spaces' = spaces /\ merging' = merging
            \/ \E i \in 0 .. used - 1 :
                 /\ spaces[i].start = live[k].start /\ merging' = i
                 /\ spaces' \in [Index -> Entry]
                 /\ \A j \in Index : /\ spaces'[j].start = spaces[j].start
                                     /\ spaces'[j].size = spaces[j].size
                                     /\ spaces'[j].allocated <=> spaces[j].allocated /\ j # i
<1> DEFINE found == {i \in 0 .. used - 1 : spaces[i].start = live[k].start}
           i == Min(found)
<1>1. /\ merging = Nothing /\ used' = used /\ (order = "STACK" => k = Len(live))
      /\ live' = RemoveAt(live, k)
      /\ IF found = {} THEN spaces' = spaces /\ merging' = merging
         ELSE spaces' = [spaces EXCEPT ![i].allocated = FALSE] /\ merging' = i
  BY DEF Free
<1>2. CASE found # {}
  <2>1. used \in 1 .. NbSpaces - 1 /\ NbSpaces \in Nat /\ spaces \in [Index -> Entry]
    BY TableSize DEF TableTypes
  <2>2. i \in found
    <3>1. found \in SUBSET Nat
      BY <2>1
    <3> HIDE DEF found
    <3> QED BY <1>2, <3>1, MinBelongs
  <2>3. i \in 0 .. used - 1 /\ spaces[i].start = live[k].start
    BY <2>2
  <2>4. spaces' = [spaces EXCEPT ![i] = [spaces[i] EXCEPT !.allocated = FALSE]] /\ merging' = i
    BY <1>1, <1>2
  <2> HIDE DEF found, i
  <2>5. i \in Index /\ spaces[i] \in Entry
    BY <2>1, <2>3 DEF Index
  <2> DEFINE b == [spaces[i] EXCEPT !.allocated = FALSE]
  <2>6. b \in Entry /\ b.start = spaces[i].start /\ b.size = spaces[i].size /\ ~b.allocated
    BY <2>5 DEF Entry
  <2>7. spaces' = [spaces EXCEPT ![i] = b]
    BY <2>4
  <2> HIDE DEF b
  <2>8. spaces' \in [Index -> Entry] /\ \A j \in Index : spaces'[j] = IF j = i THEN b ELSE spaces[j]
    BY <2>1, <2>5, <2>6, <2>7
  <2> QED BY <1>1, <2>3, <2>4, <2>6, <2>8
<1> QED BY <1>1, <1>2

LEMMA RemoveAtEntries ==
  ASSUME NEW S, NEW q \in Seq(S), NEW k \in 1 .. Len(q)
  PROVE  /\ RemoveAt(q, k) \in Seq(S) /\ Len(RemoveAt(q, k)) = Len(q) - 1
         /\ \A i \in 1 .. Len(q) - 1 :
              RemoveAt(q, k)[i] = IF i < k THEN q[i] ELSE q[i + 1]
<1> DEFINE front == SubSeq(q, 1, k - 1)
           back == SubSeq(q, k + 1, Len(q))
           r == RemoveAt(q, k)
<1>1. Len(q) \in Nat
  OBVIOUS
<1>2. /\ front \in Seq(S) /\ Len(front) = k - 1
      /\ \A i \in 1 .. k - 1 : front[i] = q[i]
  BY SubSeqProperties
<1>3. /\ back \in Seq(S) /\ Len(back) = Len(q) - k
      /\ \A i \in 1 .. Len(q) - k : back[i] = q[i + k]
  BY SubSeqProperties
<1>4. r = front \o back
  BY DEF RemoveAt
<1> HIDE DEF front, back, r
<1>5. /\ r \in Seq(S) /\ Len(r) = Len(front) + Len(back)
      /\ \A i \in 1 .. Len(front) + Len(back) :
           r[i] = IF i <= Len(front) THEN front[i] ELSE back[i - Len(front)]
  BY <1>2, <1>3, <1>4, ConcatProperties
<1>6. r \in Seq(S) /\ Len(r) = Len(q) - 1
  BY <1>1, <1>2, <1>3, <1>5
<1>7. ASSUME NEW i \in 1 .. Len(q) - 1
      PROVE  r[i] = IF i < k THEN q[i] ELSE q[i + 1]
  <2>1. r[i] = IF i <= k - 1 THEN front[i] ELSE back[i - (k - 1)]
    BY <1>1, <1>2, <1>3, <1>5
  <2>2. CASE i < k
    BY <1>1, <1>2, <2>1, <2>2
  <2>3. CASE i >= k
    <3>1. i - (k - 1) \in 1 .. Len(q) - k /\ i - (k - 1) + k = i + 1 /\ ~(i <= k - 1)
      BY <1>1, <2>3
    <3> QED BY <1>3, <2>1, <2>3, <3>1
  <2> QED BY <1>1, <2>2, <2>3
<1> QED BY <1>6, <1>7 DEF r

-----------------------------------------------------------------------------
LEMMA TableStarts ==
  ASSUME AllocatorInit, StartsAtZero
  PROVE  TableTypes /\ DisjointInv /\ (ReadsAsEmpty => StackInv)
<1>1. PICK last \in Beyond :
        spaces = [i \in Index |->
                    IF i = 0 THEN [Unused EXCEPT !.size = MemorySize]
                    ELSE IF i = NbSpaces THEN last ELSE Unused]
  BY DEF AllocatorInit, Index
<1>2. used = 1 /\ merging = Nothing /\ live = <<>> /\ order \in Orders
  BY DEF AllocatorInit
<1>3. NbSpaces \in Nat /\ NbSpaces >= 3 /\ MemorySize \in Nat /\ MemorySize > 0
  BY TableSize
<1> DEFINE whole == [Unused EXCEPT !.size = MemorySize]
<1>4. /\ whole \in Entry /\ whole.start = 0 /\ whole.size = MemorySize
      /\ ~whole.allocated
      /\ Unused \in Entry /\ Unused.start = 0 /\ Unused.size = 0
  BY <1>3 DEF Entry, Unused
<1>5. last \in Entry /\ last.start = 0 /\ (ReadsAsEmpty => last.size = 0)
  <2>1. last \in Space
    BY AllocatorAssumption
  <2> QED BY <1>3, <2>1 DEF StartsAtZero, ReadsAsEmpty, Space, Entry
<1> HIDE DEF whole
<1>6. /\ spaces \in [Index -> Entry] /\ spaces[0] = whole
      /\ \A i \in 1 .. NbSpaces : spaces[i] = Unused \/ spaces[i] = last
  <2>1. \A i \in 1 .. NbSpaces : i \in Index /\ i # 0
    BY <1>3 DEF Index
  <2>2. 0 \in Index
    BY <1>3 DEF Index
  <2>3. spaces = [i \in Index |-> IF i = 0 THEN whole ELSE IF i = NbSpaces THEN last ELSE Unused]
    BY <1>1 DEF whole
  <2> QED BY <1>4, <1>5, <2>1, <2>2, <2>3
<1>7. TableTypes
  <2>1. merging \in Index /\ used \in 1 .. NbSpaces - 1
    BY <1>2, <1>3 DEF Index, Nothing
  <2> QED BY <1>2, <1>6, <2>1 DEF TableTypes
<1>8. DisjointInv
  <2>1. \A i \in 0 .. used - 1 : i = 0
    BY <1>2
  <2> QED BY <1>2, <1>3, <1>4, <1>5, <1>6, <2>1 DEF DisjointInv, SpacesDisjoint
<1>9. ReadsAsEmpty => StackInv
  <2> SUFFICES ASSUME ReadsAsEmpty PROVE StackInv
    OBVIOUS
  <2>1. \A i \in used .. NbSpaces : spaces[i].size = 0
    BY <1>2, <1>4, <1>5, <1>6
  <2>2. Len(live) = 0
    BY <1>2
  <2>3. spaces[used - 1].size = MemorySize /\ spaces[used - 1].start = 0
        /\ End(spaces[used - 1]) = MemorySize /\ ~spaces[used - 1].allocated
    BY <1>2, <1>3, <1>4, <1>6 DEF End
  <2> QED BY <1>2, <1>3, <1>4, <1>6, <2>1, <2>2, <2>3 DEF StackInv, StackShape
<1> QED BY <1>7, <1>8, <1>9

LEMMA TypesStay ==
  ASSUME TableTypes, [AllocatorNext]_allocatorVars
  PROVE  TableTypes' /\ order' = order
<1> DEFINE Block == [start : Nat, size : Nat]
<1>0. /\ used \in 1 .. NbSpaces - 1 /\ NbSpaces \in Nat /\ NbSpaces >= 3
      /\ spaces \in [Index -> Entry] /\ live \in Seq(Block)
      /\ merging \in Index /\ order \in Orders
  BY TableSize DEF TableTypes
<1>1. order' = order
  BY DEF AllocatorNext, allocatorVars
<1>2. ASSUME NEW n \in Sizes, Allocate(n) PROVE TableTypes'
  <2>1. PICK i \in 0 .. used - 1 : Allocated(i, n)
    BY <1>2, AllocateFacts
  <2>2. merging' = merging
    BY <1>2 DEF Allocate
  <2>3. used' \in 1 .. NbSpaces - 1 /\ spaces' \in [Index -> Entry]
    BY <1>0, <2>1 DEF Allocated
  <2>4. live' \in Seq(Block)
    <3>1. n \in Nat /\ spaces[i].start \in Nat
      <4>1. n \in Nat
        BY AllocatorAssumption
      <4>2. i \in Index
        BY <1>0 DEF Index
      <4> QED BY <1>0, <4>1, <4>2, EntryFacts
    <3>2. [start |-> spaces[i].start, size |-> n] \in Block
      BY <3>1
    <3>3. live' = Append(live, [start |-> spaces[i].start, size |-> n])
      BY <2>1 DEF Allocated
    <3> HIDE DEF Block
    <3> QED BY <1>0, <3>2, <3>3, AppendProperties
  <2> QED BY <1>0, <1>1, <2>2, <2>3, <2>4 DEF TableTypes
<1>3. ASSUME NEW k \in DOMAIN live, Free(k) PROVE TableTypes'
  <2>1. used' = used /\ live' = RemoveAt(live, k) /\ k \in 1 .. Len(live)
    <3>1. used' = used /\ live' = RemoveAt(live, k)
      BY <1>3, FreeFacts
    <3>2. DOMAIN live = 1 .. Len(live)
      <4> HIDE DEF Block
      <4> QED BY <1>0
    <3> QED BY <3>1, <3>2
  <2>2. live' \in Seq(Block)
    <3> HIDE DEF Block
    <3> QED BY <1>0, <2>1, RemoveAtEntries
  <2>3. merging' \in Index /\ spaces' \in [Index -> Entry]
    <3>1. \/ spaces' = spaces /\ merging' = merging
          \/ \E i \in 0 .. used - 1 : merging' = i /\ spaces' \in [Index -> Entry]
      BY <1>3, FreeFacts
    <3>2. \A i \in 0 .. used - 1 : i \in Index
      BY <1>0 DEF Index
    <3> QED BY <1>0, <3>1, <3>2
  <2> QED BY <1>0, <1>1, <2>1, <2>2, <2>3 DEF TableTypes
<1>4. ASSUME Merge PROVE TableTypes'
  <2>1. live' = live
    BY <1>4, MergeFacts
  <2>2. spaces' \in [Index -> Entry] /\ used' \in 1 .. NbSpaces - 1
    <3>1. \/ spaces' = spaces /\ used' = used
          \/ used > 1 /\ used' = used - 1 /\ spaces' \in [Index -> Entry]
      BY <1>4, MergeFacts DEF Merged
    <3> QED BY <1>0, <3>1
  <2>3. merging' \in Index
    <3>1. merging' = Nothing \/ merging' \in Touching(merging)
      BY <1>4, MergeFacts
    <3> QED BY <1>0, <3>1 DEF Index, Touching, Nothing
  <2> QED BY <1>0, <1>1, <2>1, <2>2, <2>3 DEF TableTypes
<1>5. CASE UNCHANGED allocatorVars
  BY <1>5 DEF allocatorVars, TableTypes
<1> QED BY <1>1, <1>2, <1>3, <1>4, <1>5 DEF AllocatorNext

LEMMA DisjointStays ==
  ASSUME TableTypes, DisjointInv, [AllocatorNext]_allocatorVars
  PROVE  DisjointInv'
<1>0. /\ used \in 1 .. NbSpaces - 1 /\ NbSpaces \in Nat /\ NbSpaces >= 3
      /\ spaces \in [Index -> Entry]
  BY TableSize DEF TableTypes
<1>1. \A j \in Index : /\ spaces[j].start \in Nat /\ spaces[j].size \in Nat
                       /\ End(spaces[j]) = spaces[j].start + spaces[j].size
  BY <1>0, EntryFacts
<1>2. \A j \in 0 .. NbSpaces : j \in Index
  BY DEF Index
<1>3. /\ \A i \in 0 .. used - 1 : spaces[i].size > 0
      /\ \A i \in used .. NbSpaces : spaces[i].start = 0
      /\ \A i, j \in 0 .. used - 1 : i # j =>
           \/ End(spaces[i]) <= spaces[j].start
           \/ End(spaces[j]) <= spaces[i].start
  BY DEF DisjointInv, SpacesDisjoint
<1>4. ASSUME NEW n \in Sizes, Allocate(n) PROVE DisjointInv'
  <2>1. PICK i \in 0 .. used - 1 : Allocated(i, n)
    BY <1>4, AllocateFacts
  <2>2. n \in Nat /\ n > 0
    BY AllocatorAssumption
  <2>3. /\ \A j \in Index \ {i, used} : spaces'[j] = spaces[j]
        /\ spaces'[i].start = spaces[i].start /\ spaces'[i].size = n
        /\ spaces' \in [Index -> Entry]
    BY <2>1 DEF Allocated
  <2>4. \A j \in Index : End(spaces'[j]) = spaces'[j].start + spaces'[j].size
    BY DEF End
  <2>5. CASE spaces[i].size = n /\ used' = used /\ spaces'[used] = spaces[used]
    <3>1. \A j \in Index : /\ spaces'[j].start = spaces[j].start
                           /\ spaces'[j].size = spaces[j].size
      BY <2>3, <2>5
    <3> QED BY <1>0, <1>1, <1>2, <1>3, <2>4, <2>5, <3>1
            DEF DisjointInv, SpacesDisjoint
  <2>6. CASE /\ spaces[i].size > n /\ used' = used + 1 /\ used < NbSpaces - 1
             /\ spaces'[used].start = spaces[i].start + n
             /\ spaces'[used].size = spaces[i].size - n
    <3>1. \A j \in 0 .. used : IF j = used THEN /\ spaces'[j].start = spaces[i].start + n
                                                /\ spaces'[j].size = spaces[i].size - n
                               ELSE IF j = i THEN /\ spaces'[j].start = spaces[i].start
                                                  /\ spaces'[j].size = n
                               ELSE /\ spaces'[j].start = spaces[j].start
                                    /\ spaces'[j].size = spaces[j].size
      BY <1>0, <1>2, <2>3, <2>6
    <3>2. \A j \in 0 .. used : j \in Index /\ (j # used => j \in 0 .. used - 1)
      BY <1>0, <1>2
    <3>3. \A j \in 0 .. used : spaces'[j].size > 0
      BY <1>0, <1>1, <1>2, <1>3, <2>2, <2>6, <3>1, <3>2
    <3>4. \A j \in used + 1 .. NbSpaces : spaces'[j].start = 0
      BY <1>0, <1>2, <1>3, <2>3
    <3>5. \A j, l \in 0 .. used : j # l =>
            \/ End(spaces'[j]) <= spaces'[l].start
            \/ End(spaces'[l]) <= spaces'[j].start
      <4> SUFFICES ASSUME NEW j \in 0 .. used, NEW l \in 0 .. used, j # l
                   PROVE  \/ End(spaces'[j]) <= spaces'[l].start
                          \/ End(spaces'[l]) <= spaces'[j].start
        OBVIOUS
      <4>0. /\ End(spaces'[j]) = spaces'[j].start + spaces'[j].size
            /\ End(spaces'[l]) = spaces'[l].start + spaces'[l].size
            /\ j \in Index /\ l \in Index /\ i \in Index
        BY <1>0, <1>2, <2>4, <3>2
      <4>1. CASE j # used /\ l # used
        BY <1>1, <1>3, <2>2, <2>6, <3>1, <3>2, <4>0, <4>1
      <4>2. CASE j = used
        BY <1>1, <1>3, <2>2, <2>6, <3>1, <3>2, <4>0, <4>2
      <4>3. CASE l = used
        BY <1>1, <1>3, <2>2, <2>6, <3>1, <3>2, <4>0, <4>3
      <4> QED BY <4>1, <4>2, <4>3
    <3>6. used' - 1 = used
      BY <1>0, <2>6
    <3> QED BY <2>6, <3>3, <3>4, <3>5, <3>6 DEF DisjointInv, SpacesDisjoint
  <2> QED BY <2>1, <2>5, <2>6 DEF Allocated
<1>5. ASSUME NEW k \in DOMAIN live, Free(k) PROVE DisjointInv'
  <2>1. used' = used /\ \A j \in Index : /\ spaces'[j].start = spaces[j].start
                                         /\ spaces'[j].size = spaces[j].size
    BY <1>5, FreeFacts
  <2>2. \A j \in Index : End(spaces'[j]) = End(spaces[j])
    BY <2>1 DEF End
  <2> QED BY <1>0, <1>2, <1>3, <2>1, <2>2 DEF DisjointInv, SpacesDisjoint
<1>6. ASSUME NEW k, NEW d, Merged(k, d), used > 1, k \in 0 .. used - 1 \/ d \in 0 .. used - 1
      PROVE  DisjointInv'
  <2>1. /\ k \in 0 .. NbSpaces - 1 /\ d \in 0 .. NbSpaces - 1 /\ k # d
        /\ End(spaces[k]) = spaces[d].start
        /\ used' = used - 1
    BY <1>6 DEF Merged
  <2>2. k \in Index /\ d \in Index
    BY <1>0, <2>1 DEF Index
  <2>3. d \in 0 .. used - 1
    <3>1. SUFFICES ASSUME d \notin 0 .. used - 1 PROVE FALSE
      OBVIOUS
    <3>2. d \in used .. NbSpaces /\ k \in 0 .. used - 1
      BY <1>0, <1>6, <2>1, <3>1
    <3>3. spaces[d].start = 0 /\ spaces[k].size > 0
      BY <1>3, <3>2
    <3> QED BY <1>1, <2>1, <2>2, <3>3
  <2> DEFINE old(j) == IF d <= j /\ j < NbSpaces THEN j + 1 ELSE j
             size(j) == IF j = k THEN spaces[k].size + spaces[d].size ELSE spaces[j].size
  <2>4. \A j \in Index : spaces'[j].start = spaces[old(j)].start /\ spaces'[j].size = size(old(j))
    BY <1>6 DEF Merged
  <2>5. \A j \in 0 .. used - 2 : /\ j \in Index /\ old(j) \in 0 .. used - 1 /\ old(j) # d
                                 /\ \A l \in 0 .. used - 2 : l # j => old(l) # old(j)
    BY <1>0, <1>2, <2>3
  <2>6. \A j \in used - 1 .. NbSpaces : j \in Index /\ old(j) \in used .. NbSpaces
    BY <1>0, <1>2, <2>3
  <2>7. /\ \A j \in 0 .. used - 1 : size(j) > 0
        /\ \A i, j \in 0 .. used - 1 : i # j /\ i # d /\ j # d =>
           \/ spaces[i].start + size(i) <= spaces[j].start
           \/ spaces[j].start + size(j) <= spaces[i].start
    <3>1. \A j \in 0 .. used - 1 : j \in Index /\ size(j) > 0
      BY <1>0, <1>1, <1>2, <1>3, <2>2, <2>3
    <3>2. ASSUME NEW i \in 0 .. used - 1, NEW j \in 0 .. used - 1, i # j, i # d, j # d
          PROVE  \/ spaces[i].start + size(i) <= spaces[j].start
                 \/ spaces[j].start + size(j) <= spaces[i].start
      <4>1. CASE i # k /\ j # k
        BY <1>1, <1>3, <3>1, <3>2, <4>1
      <4>2. CASE i = k
        BY <1>1, <1>3, <2>1, <2>2, <2>3, <3>1, <3>2, <4>2
      <4>3. CASE j = k
        BY <1>1, <1>3, <2>1, <2>2, <2>3, <3>1, <3>2, <4>3
      <4> QED BY <4>1, <4>2, <4>3
    <3> QED BY <3>1, <3>2
  <2> HIDE DEF old, size
  <2>8. \A j \in 0 .. used - 2 : /\ spaces'[j].start = spaces[old(j)].start
                                 /\ spaces'[j].size = size(old(j))
                                 /\ End(spaces'[j]) = spaces[old(j)].start + size(old(j))
    BY <2>4, <2>5 DEF End
  <2>9. used' - 1 = used - 2
    BY <1>0, <2>1
  <2>10. \A j \in 0 .. used' - 1 : spaces'[j].size > 0
    BY <2>5, <2>7, <2>8, <2>9
  <2>11. \A j \in used' .. NbSpaces : spaces'[j].start = 0
    BY <1>3, <2>1, <2>4, <2>6
  <2>12. SpacesDisjoint'
    BY <2>5, <2>7, <2>8, <2>9 DEF SpacesDisjoint
  <2> QED BY <2>10, <2>11, <2>12 DEF DisjointInv
<1>7. ASSUME Merge PROVE DisjointInv'
  <2>1. CASE spaces' = spaces /\ used' = used
    BY <2>1 DEF DisjointInv, SpacesDisjoint
  <2>2. CASE /\ used > 1 /\ merging' \in Touching(merging)
             /\ Merged(merging', merging) \/ Merged(merging, merging')
    <3>1. merging' \in 0 .. used - 1
      BY <2>2 DEF Touching
    <3> QED BY <1>6, <2>2, <3>1
  <2> QED BY <1>7, <2>1, <2>2, MergeFacts
<1>8. CASE UNCHANGED allocatorVars
  BY <1>8 DEF allocatorVars, DisjointInv, SpacesDisjoint
<1> QED BY <1>4, <1>5, <1>7, <1>8 DEF AllocatorNext

\* No two spaces of the table share memory, whatever is freed in which order.
THEOREM SpacesStayDisjoint ==
  ASSUME StartsAtZero
  PROVE  AllocatorSpec => []SpacesDisjoint
<1>1. AllocatorInit => TableTypes /\ DisjointInv
  BY TableStarts
<1>2. TableTypes /\ DisjointInv /\ [AllocatorNext]_allocatorVars
        => (TableTypes /\ DisjointInv)'
  BY TypesStay, DisjointStays
<1>3. DisjointInv => SpacesDisjoint
  BY DEF DisjointInv
<1> QED BY <1>1, <1>2, <1>3, PTL DEF AllocatorSpec

LEMMA StackAllocate ==
  ASSUME TableTypes, DisjointInv, StackShape, NEW n \in Sizes, Allocate(n)
  PROVE  StackShape'
<1> DEFINE m == Len(live)
<1>0. /\ used \in 1 .. NbSpaces - 1 /\ NbSpaces \in Nat /\ NbSpaces >= 3
      /\ spaces \in [Index -> Entry] /\ m \in Nat
      /\ \A j \in 0 .. NbSpaces : j \in Index
  BY TableSize DEF TableTypes, Index
<1>1. PICK i \in 0 .. used - 1 : Allocated(i, n)
  BY AllocateFacts
<1>2. merging = Nothing /\ merging' = merging /\ n \in Nat /\ n > 0
  BY AllocatorAssumption DEF Allocate
<1>3. /\ \A j \in Index \ {i, used} : spaces'[j] = spaces[j]
      /\ spaces'[i].start = spaces[i].start /\ spaces'[i].size = n
      /\ spaces'[i].allocated /\ ~spaces[i].allocated
      /\ live' = Append(live, [start |-> spaces[i].start, size |-> n])
  BY <1>1 DEF Allocated
<1>4. /\ \A j \in used .. NbSpaces : spaces[j].size = 0
      /\ spaces[0].start = 0
      /\ \A j \in 0 .. used - 2 : End(spaces[j]) = spaces[j + 1].start
      /\ End(spaces[used - 1]) = MemorySize
      /\ \A k \in 1 .. m : /\ live[k].start = spaces[k - 1].start
                           /\ live[k].size = spaces[k - 1].size
                           /\ spaces[k - 1].allocated
      /\ \A j \in m .. used - 1 : ~spaces[j].allocated
      /\ m <= used /\ used <= m + 1
  BY <1>2 DEF StackShape
<1>5. i = m /\ used = m + 1
  <2>1. ~(i < m)
    <3>1. SUFFICES ASSUME i < m PROVE FALSE
      OBVIOUS
    <3>2. i + 1 \in 1 .. m /\ i + 1 - 1 = i
      BY <1>0, <3>1
    <3> QED BY <1>3, <1>4, <3>2
  <2> QED BY <1>0, <1>4, <2>1
<1>6. /\ Len(live') = m + 1
      /\ \A k \in 1 .. m : live'[k] = live[k]
      /\ live'[m + 1].start = spaces[i].start /\ live'[m + 1].size = n
  <2> DEFINE b == [start |-> spaces[i].start, size |-> n]
             Block == [start : Nat, size : Nat]
  <2>1. b.start = spaces[i].start /\ b.size = n
    OBVIOUS
  <2>2. b \in Block
    BY <1>0, <1>2, EntryFacts
  <2>3. live \in Seq(Block) /\ live' = Append(live, b)
    BY <1>3 DEF TableTypes
  <2> HIDE DEF b, Block
  <2>4. /\ Len(live') = Len(live) + 1 /\ live'[Len(live) + 1] = b
        /\ \A k \in 1 .. Len(live) : live'[k] = live[k]
    BY <2>2, <2>3, AppendProperties
  <2> QED BY <2>1, <2>4
<1> HIDE DEF m
<1>7. \A k \in 1 .. m : k - 1 \in Index /\ k - 1 # i /\ k - 1 # used /\ k - 1 < m
  BY <1>0, <1>4, <1>5
<1>8. \A k \in 1 .. m + 1 : /\ live'[k].start = spaces'[k - 1].start
                            /\ live'[k].size = spaces'[k - 1].size
                            /\ spaces'[k - 1].allocated
  <2> SUFFICES ASSUME NEW k \in 1 .. m + 1
               PROVE  /\ live'[k].start = spaces'[k - 1].start
                      /\ live'[k].size = spaces'[k - 1].size
                      /\ spaces'[k - 1].allocated
    OBVIOUS
  <2>1. CASE k \in 1 .. m
    <3>1. spaces'[k - 1] = spaces[k - 1] /\ live'[k] = live[k]
      BY <1>3, <1>6, <1>7, <2>1
    <3> QED BY <1>4, <2>1, <3>1
  <2>2. CASE k = m + 1
    <3>1. k - 1 = i
      BY <1>0, <1>5, <2>2
    <3> QED BY <1>3, <1>6, <2>2, <3>1
  <2> QED BY <1>0, <2>1, <2>2
<1>9. \A j \in 0 .. used - 2 : j \in Index /\ j < i /\ spaces'[j] = spaces[j]
  BY <1>0, <1>3, <1>5
<1>10. \A j \in 0 .. used - 1 : spaces'[j].start = spaces[j].start
  BY <1>0, <1>3, <1>5, <1>9
<1>11. \A j \in 0 .. used - 2 : End(spaces'[j]) = spaces'[j + 1].start
  <2>1. \A j \in 0 .. used - 2 : j + 1 \in 0 .. used - 1
    BY <1>0
  <2> QED BY <1>4, <1>9, <1>10, <2>1
<1>12. /\ spaces'[0].start = 0 /\ i \in Index
       /\ End(spaces[i]) = spaces[i].start + spaces[i].size
       /\ spaces[i].start \in Nat /\ spaces[i].size \in Nat
       /\ End(spaces[i]) = MemorySize
  <2>1. 0 \in 0 .. used - 1 /\ i \in Index
    BY <1>0
  <2>2. used - 1 = i
    BY <1>0, <1>5
  <2> QED BY <1>0, <1>4, <1>10, <2>1, <2>2, EntryFacts
<1>13. CASE spaces[i].size = n /\ used' = used /\ spaces'[used] = spaces[used]
  <2>1. \A j \in used .. NbSpaces : spaces'[j].size = 0
    <3>1. \A j \in used .. NbSpaces : j \in Index /\ j # i
      BY <1>0, <1>5
    <3> QED BY <1>3, <1>4, <1>13, <3>1
  <2>2. End(spaces'[used - 1]) = MemorySize
    <3>1. used - 1 = i
      BY <1>0, <1>5
    <3> QED BY <1>3, <1>12, <1>13, <3>1 DEF End
  <2>3. /\ m + 1 <= used /\ used <= m + 1 + 1
        /\ \A j \in m + 1 .. used - 1 : ~spaces'[j].allocated
    BY <1>0, <1>5
  <2> QED BY <1>2, <1>6, <1>8, <1>11, <1>12, <1>13, <2>1, <2>2, <2>3 DEF StackShape, Nothing
<1>14. CASE /\ spaces[i].size > n /\ used' = used + 1 /\ used < NbSpaces - 1
            /\ spaces'[used].start = spaces[i].start + n
            /\ spaces'[used].size = spaces[i].size - n
            /\ ~spaces'[used].allocated
  <2>1. \A j \in used' .. NbSpaces : spaces'[j].size = 0
    <3>1. \A j \in used + 1 .. NbSpaces : j \in Index /\ j # i /\ j # used /\ j \in used .. NbSpaces
      BY <1>0, <1>5
    <3> QED BY <1>3, <1>4, <1>14, <3>1
  <2>2. End(spaces'[used' - 1]) = MemorySize
    <3>1. used' - 1 = used
      BY <1>0, <1>14
    <3>2. End(spaces'[used]) = (spaces[i].start + n) + (spaces[i].size - n)
      BY <1>14 DEF End
    <3> QED BY <1>2, <1>12, <3>1, <3>2
  <2>3. \A j \in 0 .. used' - 2 : End(spaces'[j]) = spaces'[j + 1].start
    <3>1. \A j \in 0 .. used' - 2 : j \in 0 .. used - 2 \/ (j = i /\ j + 1 = used)
      BY <1>0, <1>5, <1>14
    <3>2. End(spaces'[i]) = spaces'[used].start
      BY <1>3, <1>14 DEF End
    <3> QED BY <1>11, <3>1, <3>2
  <2>4. /\ m + 1 <= used' /\ used' <= m + 1 + 1
        /\ \A j \in m + 1 .. used' - 1 : j = used
    BY <1>0, <1>5, <1>14
  <2> QED BY <1>2, <1>6, <1>8, <1>12, <1>14, <2>1, <2>2, <2>3, <2>4 DEF StackShape, Nothing
<1> QED BY <1>1, <1>13, <1>14 DEF Allocated

LEMMA StackFree ==
  ASSUME TableTypes, DisjointInv, StackShape, order = "STACK",
         NEW k \in DOMAIN live, Free(k)
  PROVE  StackShape'
<1> DEFINE m == Len(live)
<1>0. /\ used \in 1 .. NbSpaces - 1 /\ NbSpaces \in Nat /\ NbSpaces >= 3
      /\ spaces \in [Index -> Entry] /\ m \in Nat
      /\ \A j \in 0 .. NbSpaces : j \in Index
  BY TableSize DEF TableTypes, Index
<1>1. /\ merging = Nothing /\ used' = used /\ k = m
      /\ live' = RemoveAt(live, k)
  BY FreeFacts
<1>2. /\ k \in 1 .. Len(live)
      /\ Len(live') = m - 1 /\ \A l \in 1 .. m - 1 : live'[l] = live[l]
  <2> DEFINE Block == [start : Nat, size : Nat]
  <2>1. live \in Seq(Block)
    BY DEF TableTypes
  <2> HIDE DEF Block
  <2>2. k \in 1 .. Len(live)
    BY <2>1
  <2>3. /\ Len(live') = Len(live) - 1
        /\ \A l \in 1 .. Len(live) - 1 : live'[l] = IF l < k THEN live[l] ELSE live[l + 1]
    BY <1>1, <2>1, <2>2, RemoveAtEntries
  <2> QED BY <1>0, <1>1, <2>2, <2>3
<1>3. /\ \A j \in used .. NbSpaces : spaces[j].size = 0
      /\ spaces[0].start = 0
      /\ \A j \in 0 .. used - 2 : End(spaces[j]) = spaces[j + 1].start
      /\ End(spaces[used - 1]) = MemorySize
      /\ \A l \in 1 .. m : /\ live[l].start = spaces[l - 1].start
                           /\ live[l].size = spaces[l - 1].size
                           /\ spaces[l - 1].allocated
      /\ \A j \in m .. used - 1 : ~spaces[j].allocated
      /\ m <= used /\ used <= m + 1
  BY <1>1 DEF StackShape
<1> HIDE DEF m
<1>4. /\ m >= 1 /\ m - 1 \in 0 .. used - 1 /\ m - 1 \in Index
      /\ m - 1 \in Nat /\ m - 1 < NbSpaces
      /\ live[k].start = spaces[m - 1].start
  BY <1>0, <1>1, <1>2, <1>3 DEF m
<1>5. PICK i \in 0 .. used - 1 :
        /\ spaces[i].start = live[k].start /\ merging' = i
        /\ \A j \in Index : /\ spaces'[j].start = spaces[j].start
                            /\ spaces'[j].size = spaces[j].size
                            /\ spaces'[j].allocated <=> spaces[j].allocated /\ j # i
  BY <1>4, FreeFacts
<1>6. i = m - 1
  <2>1. SUFFICES ASSUME i # m - 1 PROVE FALSE
    OBVIOUS
  <2>2. \/ End(spaces[i]) <= spaces[m - 1].start
        \/ End(spaces[m - 1]) <= spaces[i].start
    BY <1>4, <2>1 DEF DisjointInv, SpacesDisjoint
  <2>3. spaces[i].size > 0 /\ spaces[m - 1].size > 0
    BY <1>4 DEF DisjointInv
  <2>4. i \in Index
    BY <1>0
  <2>5. /\ End(spaces[i]) = spaces[i].start + spaces[i].size
        /\ End(spaces[m - 1]) = spaces[m - 1].start + spaces[m - 1].size
        /\ spaces[i].start \in Nat /\ spaces[i].size \in Nat /\ spaces[m - 1].size \in Nat
    BY <1>0, <1>4, <2>4, EntryFacts
  <2> QED BY <1>4, <1>5, <2>2, <2>3, <2>5
<1>7. \A j \in Index : End(spaces'[j]) = End(spaces[j])
  BY <1>5 DEF End
<1>8. /\ \A j \in used .. NbSpaces : spaces'[j].size = 0
      /\ spaces'[0].start = 0
      /\ End(spaces'[used - 1]) = MemorySize
  <2>1. /\ \A j \in used .. NbSpaces : j \in Index
        /\ 0 \in Index /\ used - 1 \in Index
    BY <1>0
  <2> QED BY <1>3, <1>5, <1>7, <2>1
<1>9. \A j \in 0 .. used - 2 : End(spaces'[j]) = spaces'[j + 1].start
  <2>1. \A j \in 0 .. used - 2 : j \in Index /\ j + 1 \in Index
    BY <1>0
  <2> QED BY <1>3, <1>5, <1>7, <2>1
<1>10. \A l \in 1 .. m - 1 : /\ live'[l].start = spaces'[l - 1].start
                             /\ live'[l].size = spaces'[l - 1].size
                             /\ spaces'[l - 1].allocated
  <2>1. \A l \in 1 .. m - 1 : l \in 1 .. m /\ l - 1 \in Index /\ l - 1 # i
    BY <1>0, <1>3, <1>4, <1>6
  <2> QED BY <1>2, <1>3, <1>5, <2>1
<1>11. \A j \in m - 1 .. used - 1 : ~spaces'[j].allocated
  <2>1. \A j \in m - 1 .. used - 1 : j \in Index /\ (j = i \/ j \in m .. used - 1)
    BY <1>0, <1>4, <1>6
  <2> QED BY <1>3, <1>5, <2>1
<1>12. /\ m - 1 <= used /\ merging' # Nothing /\ merging' = m - 1
       /\ used \in {m - 1 + 1, m - 1 + 2}
  BY <1>0, <1>3, <1>4, <1>5, <1>6 DEF Nothing
<1>13. Nothing' = Nothing
  BY DEF Nothing
<1> QED BY <1>1, <1>2, <1>8, <1>9, <1>10, <1>11, <1>12, <1>13 DEF StackShape

\* The space just freed merges with the free one behind it; the merge goes on
\* with the entry behind the table, which touches nothing.
LEMMA StackMerge ==
  ASSUME TableTypes, DisjointInv, StackShape, Merge
  PROVE  StackShape'
<1> DEFINE m == Len(live)
<1>0. /\ used \in 1 .. NbSpaces - 1 /\ NbSpaces \in Nat /\ NbSpaces >= 3
      /\ MemorySize \in Nat /\ MemorySize > 0
      /\ spaces \in [Index -> Entry] /\ m \in Nat
      /\ \A j \in 0 .. NbSpaces : j \in Index
  BY TableSize DEF TableTypes, Index
<1>1. merging # Nothing /\ live' = live
  BY MergeFacts
<1>2. /\ \A j \in used .. NbSpaces : spaces[j].size = 0
      /\ spaces[0].start = 0
      /\ \A j \in 0 .. used - 2 : End(spaces[j]) = spaces[j + 1].start
      /\ End(spaces[used - 1]) = MemorySize
      /\ \A l \in 1 .. m : /\ live[l].start = spaces[l - 1].start
                           /\ live[l].size = spaces[l - 1].size
                           /\ spaces[l - 1].allocated
      /\ \A j \in m .. used - 1 : ~spaces[j].allocated
      /\ m <= used
      /\ \/ merging = m /\ used \in {m + 1, m + 2}
         \/ merging = m + 1 /\ used = m + 1
  BY <1>1 DEF StackShape
<1> HIDE DEF m
<1>3. \A j \in Index : /\ spaces[j].start \in Nat /\ spaces[j].size \in Nat
                       /\ End(spaces[j]) = spaces[j].start + spaces[j].size
  BY <1>0, EntryFacts
<1>4. \A j \in 0 .. used - 1 : ~spaces[j].allocated => j >= m
  <2> SUFFICES ASSUME NEW j \in 0 .. used - 1, j < m PROVE spaces[j].allocated
    BY <1>0
  <2>1. j + 1 \in 1 .. m /\ j + 1 - 1 = j
    BY <1>0
  <2> QED BY <1>2, <2>1
<1>5. CASE used = m + 1
  <2>1. used = 1 \/ Touching(merging) = {}
    <3>1. SUFFICES ASSUME used # 1, NEW j \in Touching(merging) PROVE FALSE
      OBVIOUS
    <3>2. /\ j \in 0 .. used - 1 /\ j # merging /\ ~spaces[j].allocated
          /\ \/ End(spaces[j]) = spaces[merging].start
             \/ End(spaces[merging]) = spaces[j].start
      BY DEF Touching
    <3>3. j = m /\ merging = m + 1 /\ m >= 1 /\ merging = used
      BY <1>0, <1>2, <1>4, <1>5, <3>1, <3>2
    <3>4. End(spaces[j]) = MemorySize
      <4>1. used - 1 = j
        BY <1>0, <1>5, <3>3
      <4> QED BY <1>2, <4>1
    <3>5. spaces[merging].start = 0 /\ spaces[merging].size = 0 /\ merging \in Index
      <4>1. merging \in used .. NbSpaces
        BY <1>0, <3>3
      <4> QED BY <1>0, <1>2, <4>1 DEF DisjointInv
    <3>6. spaces[j].start > 0
      <4>1. m - 1 \in 0 .. used - 2 /\ m - 1 + 1 = j /\ m - 1 \in 0 .. used - 1 /\ m - 1 \in Index
        BY <1>0, <1>5, <3>3
      <4>2. End(spaces[m - 1]) = spaces[j].start /\ spaces[m - 1].size > 0
        BY <1>2, <4>1 DEF DisjointInv
      <4> QED BY <1>3, <4>1, <4>2
    <3> QED BY <1>0, <1>3, <3>2, <3>4, <3>5, <3>6
  <2>2. merging' = Nothing /\ spaces' = spaces /\ used' = used
    <3>1. used > 1 /\ merging' \in Touching(merging) => FALSE
      BY <2>1
    <3> QED BY <3>1, MergeFacts
  <2>3. Nothing' = Nothing
    BY DEF Nothing
  <2> QED BY <1>0, <1>1, <1>2, <1>5, <2>2, <2>3 DEF StackShape, m
<1>6. CASE used # m + 1
  <2>1. /\ used = m + 2 /\ merging = m /\ m + 1 \in 0 .. used - 1
        /\ m \in 0 .. used - 2 /\ m \in Index /\ m + 1 \in Index /\ m \in 0 .. used - 1
    BY <1>0, <1>2, <1>6
  <2>2. /\ End(spaces[m]) = spaces[m + 1].start
        /\ spaces[m].size > 0 /\ spaces[m + 1].size > 0
        /\ End(spaces[m + 1]) = MemorySize
    <3>1. used - 1 = m + 1
      BY <1>0, <2>1
    <3> QED BY <1>2, <2>1, <3>1 DEF DisjointInv
  <2>3. Touching(merging) # {}
    <3>1. m + 1 \in m .. used - 1 /\ m + 1 # m
      BY <1>0, <2>1
    <3>2. m + 1 \in Touching(merging)
      BY <1>2, <2>1, <2>2, <3>1 DEF Touching
    <3> QED BY <3>2
  <2>4. \A j \in Touching(merging) : j = m + 1
    <3> SUFFICES ASSUME NEW j \in Touching(merging) PROVE j = m + 1
      OBVIOUS
    <3>1. j \in 0 .. used - 1 /\ j # m /\ ~spaces[j].allocated
      BY <2>1 DEF Touching
    <3> QED BY <1>0, <1>4, <2>1, <3>1
  <2>5. /\ merging' = m + 1
        /\ \/ Merged(m + 1, m)
           \/ Merged(m, m + 1)
    <3>1. ~(used = 1 \/ Touching(merging) = {})
      BY <1>0, <2>1, <2>3
    <3> QED BY <2>1, <2>4, <3>1, MergeFacts
  <2>6. Merged(m, m + 1)
    <3>1. ~Merged(m + 1, m)
      <4>1. End(spaces[m + 1]) # spaces[m].start
        BY <1>3, <2>1, <2>2
      <4> QED BY <4>1 DEF Merged
    <3> QED BY <2>5, <3>1
  <2> DEFINE old(j) == IF m + 1 <= j /\ j < NbSpaces THEN j + 1 ELSE j
  <2>7. /\ used' = used - 1
        /\ \A j \in Index :
             /\ spaces'[j].start = spaces[old(j)].start
             /\ spaces'[j].allocated = spaces[old(j)].allocated
             /\ spaces'[j].size = IF old(j) = m THEN spaces[m].size + spaces[m + 1].size
                                                ELSE spaces[old(j)].size
    BY <2>6 DEF Merged
  <2>8. \A j \in 0 .. m : j \in Index /\ old(j) = j
    BY <1>0, <2>1
  <2>9. \A j \in m + 1 .. NbSpaces : /\ j \in Index /\ old(j) # m
                                     /\ old(j) \in used .. NbSpaces
    BY <1>0, <2>1
  <2> HIDE DEF old
  <2>10. \A j \in 0 .. m : /\ spaces'[j].start = spaces[j].start
                           /\ spaces'[j].allocated = spaces[j].allocated
                           /\ j # m => spaces'[j].size = spaces[j].size
    BY <2>7, <2>8
  <2>11. used' = m + 1 /\ 0 \in 0 .. m /\ m \in 0 .. m /\ used' - 1 = m
    BY <1>0, <2>1, <2>7
  <2>12. End(spaces'[m]) = MemorySize
    <3>1. spaces'[m].size = spaces[m].size + spaces[m + 1].size
      BY <2>7, <2>8, <2>11
    <3> QED BY <1>3, <2>1, <2>2, <2>10, <2>11, <3>1 DEF End
  <2>13. \A j \in used' .. NbSpaces : spaces'[j].size = 0
    BY <1>2, <2>7, <2>9, <2>11
  <2>14. \A j \in 0 .. used' - 2 : End(spaces'[j]) = spaces'[j + 1].start
    <3>1. \A j \in 0 .. m - 1 : /\ j \in 0 .. m /\ j + 1 \in 0 .. m /\ j # m
                                /\ j \in 0 .. used - 2
      BY <1>0, <2>1
    <3>2. used' - 2 = m - 1
      BY <1>0, <2>11
    <3> QED BY <1>2, <2>10, <3>1, <3>2 DEF End
  <2>15. \A l \in 1 .. m : /\ live[l].start = spaces'[l - 1].start
                           /\ live[l].size = spaces'[l - 1].size
                           /\ spaces'[l - 1].allocated
    <3>1. \A l \in 1 .. m : l - 1 \in 0 .. m /\ l - 1 # m
      BY <1>0
    <3> QED BY <1>2, <2>10, <3>1
  <2>16. \A j \in m .. used' - 1 : ~spaces'[j].allocated
    <3>1. \A j \in m .. used' - 1 : j = m
      BY <1>0, <2>11
    <3>2. ~spaces[m].allocated
      BY <1>0, <1>2, <2>1
    <3> QED BY <2>10, <2>11, <3>1, <3>2
  <2>17. m <= used' /\ merging' # Nothing' /\ merging' = m + 1 /\ spaces'[0].start = 0
    BY <1>0, <1>2, <2>1, <2>5, <2>10, <2>11 DEF Nothing
  <2> QED BY <1>1, <2>11, <2>12, <2>13, <2>14, <2>15, <2>16, <2>17 DEF StackShape, m
<1> QED BY <1>5, <1>6

LEMMA StackStays ==
  ASSUME TableTypes, DisjointInv, StackInv, [AllocatorNext]_allocatorVars
  PROVE  StackInv'
<1> SUFFICES ASSUME order = "STACK", StackShape PROVE StackShape'
  BY TypesStay DEF StackInv
<1>1. ASSUME NEW n \in Sizes, Allocate(n) PROVE StackShape'
  BY <1>1, StackAllocate
<1>2. ASSUME NEW k \in DOMAIN live, Free(k) PROVE StackShape'
  BY <1>2, StackFree
<1>3. ASSUME Merge PROVE StackShape'
  BY <1>3, StackMerge
<1>4. CASE UNCHANGED allocatorVars
  BY <1>4 DEF allocatorVars, StackShape, Nothing
<1> QED BY <1>1, <1>2, <1>3, <1>4 DEF AllocatorNext

LEMMA StackAlways ==
  ASSUME ReadsAsEmpty
  PROVE  AllocatorSpec => [](TableTypes /\ StackInv)
<1>0. StartsAtZero
  BY DEF StartsAtZero, ReadsAsEmpty
<1>1. AllocatorInit => TableTypes /\ DisjointInv /\ StackInv
  BY <1>0, TableStarts
<1>2. TableTypes /\ DisjointInv /\ StackInv /\ [AllocatorNext]_allocatorVars
        => (TableTypes /\ DisjointInv /\ StackInv)'
  BY TypesStay, DisjointStays, StackStays
<1> QED BY <1>1, <1>2, PTL DEF AllocatorSpec

\* The blocks of a program that frees in reverse order are allocated spaces of
\* just their size until it frees them.
THEOREM BlocksStayAllocated ==
  ASSUME ReadsAsEmpty
  PROVE  AllocatorSpec => []LiveIsAllocated
<1>1. TableTypes /\ StackInv => LiveIsAllocated
  <2> SUFFICES ASSUME TableTypes, StackInv, order = "STACK", NEW k \in DOMAIN live
               PROVE  [start |-> live[k].start, size |-> live[k].size, allocated |-> TRUE]
                        \in UsedSpaces
    BY DEF LiveIsAllocated
  <2>1. used \in 1 .. NbSpaces - 1 /\ NbSpaces \in Nat /\ spaces \in [Index -> Entry]
    BY TableSize DEF TableTypes
  <2>2. k \in 1 .. Len(live) /\ Len(live) \in Nat
    <3> DEFINE Block == [start : Nat, size : Nat]
    <3>1. live \in Seq(Block)
      BY DEF TableTypes
    <3> HIDE DEF Block
    <3> QED BY <3>1
  <2>3. /\ live[k].start = spaces[k - 1].start /\ live[k].size = spaces[k - 1].size
        /\ spaces[k - 1].allocated /\ Len(live) <= used
    BY <2>2 DEF StackInv, StackShape
  <2>4. k - 1 \in 0 .. used - 1 /\ k - 1 \in Index
    BY <2>1, <2>2, <2>3 DEF Index
  <2>5. spaces[k - 1] \in Entry
    BY <2>1, <2>4
  <2>6. spaces[k - 1] = [start |-> live[k].start, size |-> live[k].size, allocated |-> TRUE]
    BY <2>3, <2>5 DEF Entry
  <2> QED BY <2>4, <2>6 DEF UsedSpaces
<1> QED BY <1>1, StackAlways, PTL

\* A program that has freed everything, the last block first, has the whole
\* memory in one free space again.
THEOREM MemoryWholeAgain ==
  ASSUME ReadsAsEmpty
  PROVE  AllocatorSpec => []WholeAgain
<1>1. TableTypes /\ StackInv => WholeAgain
  <2> SUFFICES ASSUME TableTypes, StackInv, order = "STACK", live = <<>>, merging = Nothing
               PROVE  [start |-> 0, size |-> MemorySize, allocated |-> FALSE] \in UsedSpaces
    BY DEF WholeAgain
  <2>1. /\ used \in 1 .. NbSpaces - 1 /\ NbSpaces \in Nat /\ spaces \in [Index -> Entry]
        /\ 0 \in Index
    BY TableSize DEF TableTypes, Index
  <2>2. Len(live) = 0
    OBVIOUS
  <2>3. used = 1
    BY <2>1, <2>2 DEF StackInv, StackShape
  <2>4. /\ spaces[0].start = 0 /\ End(spaces[0]) = MemorySize /\ ~spaces[0].allocated
        /\ spaces[0] \in Entry /\ 0 \in 0 .. used - 1
    BY <2>1, <2>2, <2>3 DEF StackInv, StackShape
  <2>5. spaces[0].size = MemorySize
    <3>1. spaces[0].start + spaces[0].size = MemorySize /\ spaces[0].size \in Nat
      BY <2>1, <2>4, EntryFacts
    <3> QED BY <2>4, <3>1
  <2>6. spaces[0] = [start |-> 0, size |-> MemorySize, allocated |-> FALSE]
    <3>1. spaces[0].allocated = FALSE
      BY <2>4 DEF Entry
    <3> QED BY <2>4, <2>5, <3>1 DEF Entry
  <2> QED BY <2>4, <2>6 DEF UsedSpaces
<1> QED BY <1>1, StackAlways, PTL

-----------------------------------------------------------------------------
\* Buffers

Place == {"user", "test", "sleep", "timeout", "copy", "update", "unlock", "broadcast"}
Held == {"test", "timeout", "copy", "update", "unlock"}
Q == Queued(waiters)
Inside(t) == pc[t] \in Held /\ t \notin Q

LockTypeOK ==
  /\ value \in 0..1 /\ waiters \in Seq(Thread)
  /\ pc \in [Thread -> Place] /\ sleeping \subseteq Thread
  /\ DOMAIN call = Thread

\* Whoever is queued asked for the lock on its way in, and holds nothing.
LockInv ==
  /\ LockTypeOK
  /\ Distinct(waiters)
  /\ \A t \in Q : pc[t] \in {"test", "copy", "timeout"}
  /\ \A t, u \in Thread : Inside(t) /\ Inside(u) => t = u
  /\ value = 1 => waiters = <<>> /\ \A t \in Thread : ~Inside(t)
  /\ value = 0 => \E t \in Thread : Inside(t)
  /\ \A t \in sleeping : pc[t] = "sleep"
  /\ \A t \in Thread : call[t].poll => call[t].op = "send"

LEMMA EmptyQueue == Queued(<<>>) = {}
BY QueuedEntries DEF Queued, Range

\* What a lock and an unlock do, the order of the queue left out.
Gets(t) == value = 1 /\ value' = 0 /\ Q' = {} /\ Q = {}
Joins(t) == value = 0 /\ value' = 0 /\ Q' = Q \cup {t}
Frees == value = 0 /\ value' = 1 /\ waiters' = <<>> /\ Q = {} /\ Q' = {}
Passes == value = 0 /\ value' = 0 /\ \E u \in Q : Q' = Q \ {u}

LEMMA LockFacts ==
  ASSUME LockInv, NEW t \in Thread, t \notin Q, Lock(t)
  PROVE  /\ waiters' \in Seq(Thread) /\ Distinct(waiters')
         /\ Gets(t) \/ Joins(t)
<1>1. CASE value = 1
  <2>1. value' = 0 /\ waiters' = waiters /\ waiters = <<>>
    BY <1>1 DEF Lock, LockInv, LockTypeOK
  <2> QED BY <1>1, <2>1, EmptyQueue DEF LockInv, LockTypeOK, Gets, Q
<1>2. CASE value = 0
  <2>1. value' = 0 /\ waiters' = EnqueueIn(waiters, t, Priority, "PRIORITY")
    BY <1>2 DEF Lock, EnqueueIn
  <2>2. waiters \in Seq(Thread) /\ Distinct(waiters) /\ t \notin Queued(waiters)
    BY DEF LockInv, LockTypeOK, Q
  <2>3. /\ waiters' \in Seq(Thread) /\ Distinct(waiters')
        /\ Queued(waiters') = Queued(waiters) \cup {t}
    BY <2>1, <2>2, EnqueueFacts
  <2> QED BY <1>2, <2>1, <2>3 DEF Joins, Q
<1> QED BY <1>1, <1>2 DEF LockInv, LockTypeOK

LEMMA TailQueue ==
  ASSUME NEW S, NEW q \in Seq(S), q # <<>>, Distinct(q)
  PROVE  /\ Tail(q) \in Seq(S) /\ Distinct(Tail(q)) /\ Head(q) \in Queued(q)
         /\ Queued(Tail(q)) = Queued(q) \ {Head(q)}
<1>1. /\ Head(q) \in Queued(q) /\ Tail(q) \in Seq(S)
      /\ Queued(Tail(q)) \subseteq Queued(q)
      /\ Head(q) \notin Queued(Tail(q)) /\ Distinct(Tail(q))
  BY TailFacts
<1>2. ASSUME NEW e \in Queued(q), e # Head(q)
      PROVE  e \in Queued(Tail(q))
  <2>1. PICK n \in 1..Len(q) : q[n] = e
    BY <1>2, QueuedEntries
  <2>2. n # 1
    BY <1>2, <2>1
  <2>3. n - 1 \in 1..Len(Tail(q)) /\ Tail(q)[n - 1] = e
    BY <2>1, <2>2
  <2>4. Queued(Tail(q)) = {Tail(q)[m] : m \in 1..Len(Tail(q))}
    BY <1>1, QueuedEntries
  <2> QED BY <2>3, <2>4
<1> QED BY <1>1, <1>2

LEMMA UnlockFacts ==
  ASSUME LockInv, NEW t \in Thread, Inside(t), Unlock
  PROVE  /\ waiters' \in Seq(Thread) /\ Distinct(waiters')
         /\ Frees \/ Passes
<1>1. value = 0 /\ waiters \in Seq(Thread) /\ Distinct(waiters)
  BY DEF LockInv, LockTypeOK
<1>2. CASE waiters = <<>>
  <2>1. value' = 1 /\ waiters' = <<>>
    BY <1>2 DEF Unlock
  <2> QED BY <1>1, <1>2, <2>1, EmptyQueue DEF Frees, Q
<1>3. CASE waiters # <<>>
  <2>1. value' = 0 /\ waiters' = Tail(waiters)
    BY <1>1, <1>3 DEF Unlock
  <2>2. /\ waiters' \in Seq(Thread) /\ Distinct(waiters')
        /\ Head(waiters) \in Q /\ Q' = Q \ {Head(waiters)}
    BY <1>1, <1>3, <2>1, TailQueue DEF Q
  <2> QED BY <1>1, <2>1, <2>2 DEF Passes
<1> QED BY <1>2, <1>3

\* A step of t, seen from the lock: t goes in or queues, goes on inside, or
\* gives the lock back; or it is outside and stays there.
Moves(t, to) == /\ pc' \in [Thread -> Place] /\ pc'[t] = to
                /\ \A u \in Thread : u # t => pc'[u] = pc[u]
LockKept == value' = value /\ waiters' = waiters

LockSteps(t) ==
  /\ waiters' \in Seq(Thread) /\ Distinct(waiters') /\ value' \in 0..1
  /\ \/ \E to \in {"test", "copy", "timeout"} :
          /\ pc[t] \notin Held /\ t \notin Q /\ Moves(t, to) /\ (Gets(t) \/ Joins(t))
     \/ \E to \in Held : Inside(t) /\ Moves(t, to) /\ LockKept
     \/ \E to \in Place \ Held : Inside(t) /\ Moves(t, to) /\ (Frees \/ Passes)
     \/ \E to \in Place \ Held :
          t \notin Q /\ pc[t] \notin Held /\ Moves(t, to) /\ LockKept

LEMMA LockStep ==
  ASSUME LockInv, NEW t \in Thread, LockSteps(t)
  PROVE  /\ Distinct(waiters')
         /\ \A u \in Q' : pc'[u] \in {"test", "copy", "timeout"}
         /\ \A u, v \in Thread : Inside(u)' /\ Inside(v)' => u = v
         /\ value' = 1 => waiters' = <<>> /\ \A u \in Thread : ~Inside(u)'
         /\ value' = 0 => \E u \in Thread : Inside(u)'
<1>0. /\ value \in 0..1 /\ Q \subseteq Thread
      /\ \A u \in Q : pc[u] \in {"test", "copy", "timeout"}
      /\ {"test", "copy", "timeout"} \subseteq Held
  <2>1. Q \subseteq Thread
    BY QueuedEntries DEF LockInv, LockTypeOK, Q
  <2> QED BY <2>1 DEF LockInv, LockTypeOK, Held
<1>1. Distinct(waiters')
  BY DEF LockSteps
<1>2. ASSUME NEW to \in {"test", "copy", "timeout"}, pc[t] \notin Held, t \notin Q,
             Moves(t, to), Gets(t) \/ Joins(t)
      PROVE  /\ \A u \in Q' : pc'[u] \in {"test", "copy", "timeout"}
             /\ \A u, v \in Thread : Inside(u)' /\ Inside(v)' => u = v
             /\ value' = 0 /\ \E u \in Thread : Inside(u)'
  <2>1. CASE Gets(t)
    <3>1. \A u \in Thread : ~Inside(u)
      BY <2>1 DEF Gets, LockInv
    <3>2. \A u \in Thread : Inside(u)' <=> u = t
      BY <1>0, <1>2, <2>1, <3>1 DEF Inside, Moves, Gets
    <3> QED BY <2>1, <3>2 DEF Gets
  <2>2. CASE Joins(t)
    <3>1. \A u \in Thread : Inside(u)' <=> Inside(u)
      BY <1>2, <2>2 DEF Inside, Moves, Joins
    <3> QED BY <1>0, <1>2, <2>2, <3>1 DEF LockInv, Moves, Joins
  <2> QED BY <1>2, <2>1, <2>2
<1>3. ASSUME NEW to \in Held, Inside(t), Moves(t, to), LockKept
      PROVE  /\ \A u \in Q' : pc'[u] \in {"test", "copy", "timeout"}
             /\ \A u \in Thread : Inside(u)' <=> Inside(u)
             /\ value' = value /\ waiters' = waiters
  BY <1>0, <1>3 DEF Inside, Moves, LockKept, Q
<1>4. ASSUME NEW to \in Place \ Held, Inside(t), Moves(t, to), Frees \/ Passes
      PROVE  /\ \A u \in Q' : pc'[u] \in {"test", "copy", "timeout"}
             /\ \A u, v \in Thread : Inside(u)' /\ Inside(v)' => u = v
             /\ value' = 1 => waiters' = <<>> /\ \A u \in Thread : ~Inside(u)'
             /\ value' = 0 => \E u \in Thread : Inside(u)'
  <2>1. \A u \in Thread : Inside(u) <=> u = t
    BY <1>4 DEF LockInv
  <2>2. CASE Frees
    <3>1. \A u \in Thread : ~Inside(u)'
      BY <1>4, <2>1, <2>2 DEF Frees, Inside, Moves
    <3> QED BY <1>0, <2>2, <3>1 DEF Frees
  <2>3. CASE Passes
    <3>1. PICK w \in Q : Q' = Q \ {w}
      BY <2>3 DEF Passes
    <3>2. \A u \in Thread : Inside(u)' <=> u = w
      BY <1>0, <1>4, <2>1, <3>1 DEF Inside, Moves
    <3>3. \A u \in Q' : pc'[u] \in {"test", "copy", "timeout"}
      BY <1>0, <1>4, <3>1 DEF Inside, Moves
    <3> QED BY <1>0, <2>3, <3>1, <3>2, <3>3 DEF Passes
  <2> QED BY <1>4, <2>2, <2>3
<1>5. ASSUME NEW to \in Place \ Held, t \notin Q, pc[t] \notin Held, Moves(t, to), LockKept
      PROVE  /\ \A u \in Q' : pc'[u] \in {"test", "copy", "timeout"}
             /\ \A u \in Thread : Inside(u)' <=> Inside(u)
             /\ value' = value /\ waiters' = waiters
  BY <1>0, <1>5 DEF Inside, Moves, LockKept, Q
<1>6. ASSUME \A u \in Thread : Inside(u)' <=> Inside(u), value' = value, waiters' = waiters
      PROVE  /\ \A u, v \in Thread : Inside(u)' /\ Inside(v)' => u = v
             /\ value' = 1 => waiters' = <<>> /\ \A u \in Thread : ~Inside(u)'
             /\ value' = 0 => \E u \in Thread : Inside(u)'
  BY <1>6 DEF LockInv
<1> QED BY <1>1, <1>2, <1>3, <1>4, <1>5, <1>6 DEF LockSteps

LEMMA PlaceSet ==
  /\ Held \subseteq Place
  /\ Place \ Held = {"user", "sleep", "broadcast"}
BY DEF Place, Held

LEMMA MovesTo ==
  ASSUME LockTypeOK, NEW t \in Thread, NEW to \in Place, pc' = [pc EXCEPT ![t] = to]
  PROVE  Moves(t, to)
BY DEF LockTypeOK, Moves

\* Every step is one of these to the lock.
LEMMA WorkLocks ==
  ASSUME LockInv, NEW t \in Thread, Work(t)
  PROVE  LockSteps(t)
<1>0. LockTypeOK /\ value' \in 0..1 /\ (t \notin Q <=> t \notin Queued(waiters))
  BY DEF LockInv, LockTypeOK, Work, Test, Wake, GiveUp, Copy, Update, Leave, Broadcast,
         Lock, Unlock, lockVars, Q
<1>1. ASSUME NEW from \in Held, At(t, from)
      PROVE  Inside(t)
  BY <1>1 DEF At, Inside, Q
<1>2. ASSUME UNCHANGED <<value, waiters>>, NEW from \in Held, NEW to \in Held, At(t, from),
             pc' = [pc EXCEPT ![t] = to] \/ (to = from /\ pc' = pc)
      PROVE  LockSteps(t)
  <2>1. Moves(t, to)
    <3>1. CASE pc' = [pc EXCEPT ![t] = to]
      BY <1>0, <3>1, PlaceSet, MovesTo
    <3>2. CASE to = from /\ pc' = pc
      BY <1>0, <1>2, <3>2 DEF Moves, LockTypeOK, At
    <3> QED BY <1>2, <3>1, <3>2
  <2> QED BY <1>0, <1>1, <1>2, <2>1 DEF LockSteps, LockKept, LockInv, LockTypeOK
<1>3. ASSUME Unlock, NEW from \in Held, NEW to \in {"user", "sleep", "broadcast"},
             At(t, from), pc' = [pc EXCEPT ![t] = to]
      PROVE  LockSteps(t)
  <2>1. Moves(t, to) /\ to \in Place \ Held
    BY <1>0, <1>3, PlaceSet, MovesTo
  <2>2. Inside(t)
    BY <1>1, <1>3
  <2>3. waiters' \in Seq(Thread) /\ Distinct(waiters') /\ (Frees \/ Passes)
    BY <1>3, <2>2, UnlockFacts
  <2> QED BY <1>0, <2>1, <2>2, <2>3 DEF LockSteps
<1>4. CASE Test(t)
  <2>1. "test" \in Held /\ "copy" \in Held
    BY DEF Held
  <2>2. ~(call[t].poll /\ call[t].op # "send")
    BY DEF LockInv
  <2>3. At(t, "test")
    BY <1>4 DEF Test
  <2>4. \/ pc' = [pc EXCEPT ![t] = "copy"] /\ UNCHANGED <<value, waiters>>
        \/ Unlock /\ pc' = [pc EXCEPT ![t] = "user"]
        \/ Unlock /\ pc' = [pc EXCEPT ![t] = "sleep"]
    BY <1>4, <2>2 DEF Test, GoTo, Return, lockVars
  <2> QED BY <1>2, <1>3, <2>1, <2>3, <2>4
<1>5. CASE Wake(t)
  <2>1. pc[t] = "sleep" /\ t \notin Q /\ Lock(t)
    BY <1>5 DEF Wake, At, Q
  <2>2. \E to \in {"test", "copy", "timeout"} : Moves(t, to)
    BY <1>0, <1>5, MovesTo DEF Wake, GoTo, Place
  <2> QED BY <1>0, <2>1, <2>2, LockFacts DEF LockSteps, Held
<1>6. CASE GiveUp(t)
  BY <1>3, <1>6 DEF GiveUp, Return, Held
<1>7. CASE Copy(t)
  <2>1. At(t, "copy") /\ UNCHANGED <<value, waiters>>
    BY <1>7 DEF Copy, lockVars
  <2>2. \E to \in {"copy", "update", "unlock"} :
          pc' = [pc EXCEPT ![t] = to] \/ (to = "copy" /\ pc' = pc)
    BY <1>7 DEF Copy
  <2> QED BY <1>2, <2>1, <2>2 DEF Held
<1>8. CASE Update(t)
  BY <1>2, <1>8 DEF Update, GoTo, Held, lockVars
<1>9. CASE Leave(t)
  BY <1>3, <1>9 DEF Leave, GoTo, Return, Held
<1>10. CASE Broadcast(t)
  <2>1. pc[t] = "broadcast" /\ t \notin Q /\ UNCHANGED <<value, waiters>>
    BY <1>10 DEF Broadcast, At, Q
  <2>2. Moves(t, "user") /\ "user" \in Place \ Held
    BY <1>0, <1>10, PlaceSet, MovesTo DEF Broadcast, Return
  <2> QED BY <1>0, <2>1, <2>2, PlaceSet
          DEF LockSteps, LockKept, LockInv, LockTypeOK, Held
<1> QED BY <1>4, <1>5, <1>6, <1>7, <1>8, <1>9, <1>10 DEF Work

LEMMA EnterLocks ==
  ASSUME LockInv, NEW t \in Thread, NEW c \in Calls, NEW m \in Message, Enter(t, c, m)
  PROVE  LockSteps(t)
<1>1. pc[t] = "user" /\ t \notin Q /\ Lock(t)
  BY DEF Enter, At, Q
<1>2. LockTypeOK /\ value' \in 0..1
  BY <1>1 DEF LockInv, LockTypeOK, Lock
<1>3. \E to \in {"test", "copy", "timeout"} : Moves(t, to)
  BY <1>2, MovesTo DEF Enter, Place
<1> QED BY <1>1, <1>2, <1>3, LockFacts DEF LockSteps, Held

LEMMA LockInvStep ==
  ASSUME "receive" \notin Polls, LockInv, [Next]_vars
  PROVE  LockInv'
<1>1. ASSUME NEW t \in Thread, LockSteps(t),
             \/ call' = call
             \/ \E c : call' = [call EXCEPT ![t] = c] /\ (c.poll => c.op = "send"),
             \/ sleeping' \subseteq sleeping /\ (t \in sleeping' => pc'[t] = "sleep")
             \/ sleeping' = sleeping \cup {t} /\ pc'[t] = "sleep"
      PROVE  LockInv'
  <2>1. /\ DOMAIN call' = Thread
        /\ \A u \in Thread : call'[u].poll => call'[u].op = "send"
    BY <1>1 DEF LockInv, LockTypeOK
  <2>2. /\ pc' \in [Thread -> Place] /\ \A u \in Thread : u # t => pc'[u] = pc[u]
        /\ waiters' \in Seq(Thread) /\ value' \in 0..1
    BY <1>1 DEF LockSteps, Moves
  <2>3. sleeping' \subseteq Thread /\ \A u \in sleeping' : pc'[u] = "sleep"
    BY <1>1, <2>2 DEF LockInv, LockTypeOK
  <2> QED BY <1>1, <2>1, <2>2, <2>3, LockStep DEF LockInv, LockTypeOK
<1>2. ASSUME NEW t \in Thread, NEW c \in Calls, NEW m \in Message, Enter(t, c, m)
      PROVE  LockInv'
  <2>1. call' = [call EXCEPT ![t] = c] /\ (c.poll => c.op = "send")
    BY <1>2, BuffersAssumption DEF Enter
  <2>2. sleeping' \subseteq sleeping /\ t \notin sleeping
    BY <1>2 DEF Enter, At, LockInv
  <2> QED BY <1>1, <1>2, <2>1, <2>2, EnterLocks
<1>3. ASSUME NEW t \in Thread, Work(t)
      PROVE  LockInv'
  <2>1. LockSteps(t)
    BY <1>3, WorkLocks
  <2>2. \/ call' = call
        \/ \E c : call' = [call EXCEPT ![t] = c] /\ (c.poll => c.op = "send")
    <3>1. NoCall.poll = FALSE
      BY DEF NoCall
    <3> QED BY <1>3, <3>1 DEF Work, Test, Wake, GiveUp, Copy, Update, Leave, Broadcast, GoTo,
                      Return, callVars
  <2>3. \/ sleeping' \subseteq sleeping /\ (t \in sleeping' => pc'[t] = "sleep")
        \/ sleeping' = sleeping \cup {t} /\ pc'[t] = "sleep"
    <3>1. CASE Test(t) /\ sleeping' = sleeping \cup {t} /\ GoTo(t, "sleep")
      BY <3>1 DEF GoTo, LockInv, LockTypeOK
    <3>2. ASSUME sleeping' = sleeping, pc[t] # "sleep"
          PROVE  sleeping' \subseteq sleeping /\ (t \in sleeping' => pc'[t] = "sleep")
      BY <3>2 DEF LockInv
    <3>3. CASE Wake(t) \/ Broadcast(t)
      BY <3>3 DEF Wake, Broadcast
    <3>4. CASE Test(t)
      BY <3>1, <3>2, <3>4 DEF Test, At, lockVars
    <3>5. CASE GiveUp(t) \/ Copy(t) \/ Update(t) \/ Leave(t)
      BY <3>2, <3>5 DEF GiveUp, Copy, Update, Leave, At, lockVars
    <3> QED BY <1>3, <3>3, <3>4, <3>5 DEF Work
  <2> QED BY <1>1, <2>1, <2>2, <2>3
<1>4. CASE UNCHANGED vars
  BY <1>4 DEF LockInv, LockTypeOK, Q, Inside, vars, lockVars, callVars
<1> QED BY <1>2, <1>3, <1>4 DEF Next

LEMMA LockInvStart == Init => LockInv
<1> SUFFICES ASSUME Init
             PROVE  LockInv
  OBVIOUS
<1>1. waiters = <<>> /\ Q = {} /\ waiters \in Seq(Thread) /\ Distinct(waiters)
  BY EmptyQueue DEF Init, Q, Distinct
<1>2. /\ value = 1 /\ sleeping = {} /\ DOMAIN call = Thread
      /\ \A t \in Thread : pc[t] = "user" /\ ~call[t].poll
  BY DEF Init, NoCall
<1>3. pc \in [Thread -> Place]
  BY DEF Init, Place
<1> QED BY <1>1, <1>2, <1>3 DEF LockInv, LockTypeOK, Inside, Held

\* The lock of the event is with one thread at a time, and with one whenever
\* it is taken: every way out of the calls gives it back, the wait for the
\* event and its timeout included.
OneInside ==
  /\ \A t, u \in Thread : Inside(t) /\ Inside(u) => t = u
  /\ value = 0 <=> \E t \in Thread : Inside(t)

THEOREM MonitorExclusive ==
  ASSUME "receive" \notin Polls
  PROVE  Spec => []OneInside
<1>1. LockInv => OneInside
  BY DEF LockInv, LockTypeOK, OneInside
<1> QED BY <1>1, LockInvStart, LockInvStep, PTL DEF Spec

\* Nobody sleeps at a blackboard.
KindInv ==
  kind # "buffer" => sleeping = {} /\ \A t \in Thread : pc[t] \in {"user", "copy", "unlock"}

LEMMA KindStep ==
  ASSUME LockInv, KindInv, [Next]_vars
  PROVE  KindInv'
<1>0. DOMAIN pc = Thread
  BY DEF LockInv, LockTypeOK
<1>1. ASSUME kind # "buffer", NEW t \in Thread,
             Work(t) \/ \E c \in Calls, m \in Message : Enter(t, c, m)
      PROVE  sleeping' = {} /\ \A u \in Thread : pc'[u] \in {"user", "copy", "unlock"}
  <2>0. sleeping = {} /\ \A u \in Thread : pc[u] \in {"user", "copy", "unlock"}
    BY <1>1 DEF KindInv
  <2>1. CASE \E c \in Calls, m \in Message : Enter(t, c, m)
    BY <1>0, <1>1, <2>0, <2>1 DEF Enter
  <2>2. CASE Copy(t)
    BY <1>0, <1>1, <2>0, <2>2 DEF Copy, lockVars
  <2>3. CASE Leave(t)
    BY <1>0, <1>1, <2>0, <2>3 DEF Leave, Return
  <2> QED BY <1>1, <2>0, <2>1, <2>2, <2>3
          DEF Work, Test, Wake, GiveUp, Update, Broadcast, At
<1>2. UNCHANGED kind
  BY DEF Next, Enter, Work, Test, Wake, GiveUp, Copy, Update, Leave, Broadcast, vars
<1>3. CASE UNCHANGED vars
  BY <1>3 DEF KindInv, vars, lockVars
<1> QED BY <1>1, <1>2, <1>3 DEF Next, KindInv

LEMMA WakeupStep ==
  ASSUME LockInv, KindInv, NoMissedWakeup, NEW t \in Thread,
         Work(t) \/ \E c \in Calls, m \in Message : Enter(t, c, m)
  PROVE  NoMissedWakeup'
<1>0. DOMAIN pc = Thread /\ DOMAIN call = Thread /\ \A s \in sleeping : pc[s] = "sleep"
  BY DEF LockInv, LockTypeOK
<1>1. ASSUME UNCHANGED ringVars, \A u \in Thread : u # t => pc'[u] = pc[u] /\ call'[u] = call[u],
             pc[t] \in {"unlock", "broadcast"} =>
               pc'[t] \in {"unlock", "broadcast"} \/ sleeping = {},
             \A s \in sleeping' : \/ s \in sleeping /\ s # t
                                  \/ s = t /\ MustWait(t) /\ call' = call
      PROVE  NoMissedWakeup'
  <2> SUFFICES ASSUME NEW s \in sleeping', ~MustWait(s)'
               PROVE  \E u \in Thread : pc'[u] \in {"unlock", "broadcast"}
    BY DEF NoMissedWakeup
  <2>1. s \in sleeping /\ s # t /\ ~MustWait(s)
    BY <1>0, <1>1 DEF MustWait, ringVars, LockInv, LockTypeOK
  <2>2. PICK u \in Thread : pc[u] \in {"unlock", "broadcast"}
    BY <2>1 DEF NoMissedWakeup
  <2> QED BY <1>1, <2>1, <2>2
<1>2. t \in sleeping => pc[t] = "sleep"
  BY <1>0
<1>3. CASE Broadcast(t)
  BY <1>3 DEF Broadcast, NoMissedWakeup
<1>4. CASE Update(t)
  <2>1. pc'[t] = "unlock"
    BY <1>0, <1>4 DEF Update, GoTo
  <2> QED BY <2>1 DEF NoMissedWakeup
<1>5. CASE \E c \in Calls, m \in Message : Enter(t, c, m)
  BY <1>0, <1>1, <1>2, <1>5 DEF Enter, At
<1>6. CASE Test(t)
  <2>1. /\ UNCHANGED ringVars /\ pc[t] = "test"
        /\ \A u \in Thread : u # t => pc'[u] = pc[u] /\ call'[u] = call[u]
    BY <1>0, <1>6 DEF Test, At, GoTo, Return, callVars
  <2>2. \/ sleeping' = sleeping
        \/ sleeping' = sleeping \cup {t} /\ MustWait(t) /\ call' = call
    BY <1>6 DEF Test, GoTo, lockVars, callVars
  <2> QED BY <1>1, <1>2, <2>1, <2>2
<1>7. CASE Wake(t)
  <2>1. /\ UNCHANGED ringVars /\ pc[t] = "sleep" /\ sleeping' = sleeping \ {t}
        /\ \A u \in Thread : u # t => pc'[u] = pc[u] /\ call'[u] = call[u]
    BY <1>0, <1>7 DEF Wake, At, GoTo, callVars
  <2> QED BY <1>1, <2>1
<1>8. CASE GiveUp(t)
  BY <1>0, <1>1, <1>2, <1>8 DEF GiveUp, At, Return
<1>9. CASE Copy(t)
  <2>1. /\ UNCHANGED ringVars /\ pc[t] = "copy" /\ sleeping' = sleeping /\ call' = call
        /\ \A u \in Thread : u # t => pc'[u] = pc[u]
    BY <1>0, <1>9 DEF Copy, At, lockVars
  <2> QED BY <1>1, <1>2, <2>1
<1>10. CASE Leave(t)
  <2>1. /\ UNCHANGED ringVars /\ pc[t] = "unlock" /\ sleeping' = sleeping
        /\ \A u \in Thread : u # t => pc'[u] = pc[u] /\ call'[u] = call[u]
        /\ kind = "buffer" => pc'[t] = "broadcast"
    BY <1>0, <1>10 DEF Leave, At, GoTo, Return, callVars
  <2> QED BY <1>1, <1>2, <2>1 DEF KindInv
<1> QED BY <1>3, <1>4, <1>5, <1>6, <1>7, <1>8, <1>9, <1>10 DEF Work

LEMMA KindInvariant ==
  ASSUME "receive" \notin Polls
  PROVE  Spec => [](LockInv /\ KindInv)
<1>1. Init => KindInv
  BY DEF Init, KindInv
<1> QED BY <1>1, LockInvStart, LockInvStep, KindStep, PTL DEF Spec

\* No thread sleeps while there is what it waits for and no other on its way to
\* wake it (the loops of pok_buffer_send and pok_buffer_receive against the
\* broadcasts at their ends), whatever the number of threads and of messages.
THEOREM WakeupsReach ==
  ASSUME "receive" \notin Polls
  PROVE  Spec => []NoMissedWakeup
<1>1. Init => NoMissedWakeup
  BY DEF Init, NoMissedWakeup
<1>2. ASSUME LockInv, KindInv, NoMissedWakeup, [Next]_vars
      PROVE  NoMissedWakeup'
  <2>1. CASE UNCHANGED vars
    BY <1>2, <2>1 DEF NoMissedWakeup, MustWait, vars, ringVars, lockVars, callVars
  <2> QED BY <1>2, <2>1, WakeupStep DEF Next
<1> QED BY <1>1, <1>2, KindInvariant, PTL DEF Spec

\* A blackboard holds one message, but while a writer is in the midst of it.
Uniform(t) == \A w \in Words : local[t][w] = local[t][0]
Steady == \A v, w \in Words : data[v] = data[w]
Copies(t, op) == Inside(t) /\ pc[t] = "copy" /\ call[t].op = op

BoardTypeOK ==
  /\ DOMAIN call = Thread /\ DOMAIN copied = Thread /\ DOMAIN local = Thread
  /\ \A t \in Thread : DOMAIN local[t] = Words
  /\ Words \subseteq DOMAIN data

CallInv ==
  \A t \in Thread : pc[t] # "user" =>
    IF kind = "buffer" THEN call[t].op # "read"
    ELSE /\ call[t].len = MsgSize /\ call[t].op \in {"display", "read"}
         /\ call[t].op = "display" => Uniform(t)
         /\ pc[t] = "copy" => copied[t] \in Words
         /\ t \in Q => copied[t] = 0
         /\ pc[t] = "unlock" /\ call[t].op = "read" => Uniform(t)

BoardInv ==
  /\ BoardTypeOK
  /\ CallInv
  /\ kind # "buffer" =>
       /\ Steady \/ \E t \in Thread : Copies(t, "display") /\ copied[t] > 0
       /\ \A t \in Thread : Copies(t, "display") =>
            \A w \in Words : w < copied[t] => data[w] = local[t][0]
       /\ \A t \in Thread : Copies(t, "read") =>
            \A w \in Words : w < copied[t] => local[t][w] = data[w]

LEMMA WordFacts ==
  /\ MsgSize \in Nat \ {0} /\ 0 \in Words
  /\ Words \subseteq 0 .. Size + MsgSize - 1
  /\ \A w \in Words : w \in Nat /\ (w + 1 < MsgSize => w + 1 \in Words)
<1>1. \A a, b \in Nat : a * b \in Nat
  BY SMT
<1>2. Size \in Nat /\ MsgSize \in Nat \ {0}
  BY <1>1, BuffersAssumption DEF Size
<1> QED BY <1>2 DEF Words

LEMMA BoardTypeStep ==
  ASSUME BoardTypeOK, [Next]_vars
  PROVE  BoardTypeOK'
<1>1. ASSUME NEW t \in Thread, NEW l, local' = [local EXCEPT ![t] = l], DOMAIN l = Words
      PROVE  DOMAIN local' = Thread /\ \A u \in Thread : DOMAIN local'[u] = Words
  BY <1>1 DEF BoardTypeOK
<1>2. ASSUME NEW t \in Thread
      PROVE  /\ Return(t) => BoardTypeOK' \/ data' # data
             /\ UNCHANGED <<callVars, data>> => BoardTypeOK'
  <2>1. DOMAIN NoMessage = Words
    BY DEF NoMessage
  <2> QED BY <1>1, <2>1 DEF Return, BoardTypeOK, callVars
<1>3. ASSUME NEW t \in Thread, NEW c \in Calls, NEW m \in Message, Enter(t, c, m)
      PROVE  BoardTypeOK'
  BY <1>1, <1>3 DEF Enter, BoardTypeOK
<1>4. ASSUME NEW t \in Thread, Copy(t)
      PROVE  BoardTypeOK'
  <2>1. DOMAIN local' = Thread /\ \A u \in Thread : DOMAIN local'[u] = Words
    BY <1>4 DEF Copy, BoardTypeOK
  <2> QED BY <1>4, <2>1 DEF Copy, BoardTypeOK
<1>5. ASSUME NEW t \in Thread, Work(t), ~Copy(t)
      PROVE  BoardTypeOK'
  <2>1. data' = data
    BY <1>5 DEF Work, Test, Wake, GiveUp, Update, Leave, Broadcast
  <2>2. Return(t) \/ UNCHANGED callVars
    BY <1>5 DEF Work, Test, Wake, GiveUp, Update, Leave, Broadcast, GoTo
  <2> QED BY <1>2, <2>1, <2>2
<1>6. CASE UNCHANGED vars
  BY <1>6 DEF vars, callVars, BoardTypeOK
<1> QED BY <1>3, <1>4, <1>5, <1>6 DEF Next

\* What a step of t leaves of the other threads.
Aside(t) ==
  \A u \in Thread : u # t =>
    /\ pc'[u] = pc[u] /\ call'[u] = call[u]
    /\ copied'[u] = copied[u] /\ local'[u] = local[u]

LEMMA BoardEnter ==
  ASSUME Lengths = {MsgSize}, LockInv, KindInv, BoardInv, kind # "buffer", NEW t \in Thread,
         NEW c \in Calls, NEW m \in Message, Enter(t, c, m), BoardTypeOK'
  PROVE  BoardInv'
<1>0. /\ Aside(t) /\ UNCHANGED <<kind, data>> /\ t \notin Q /\ pc'[t] = "copy"
      /\ call'[t] = c /\ copied'[t] = 0 /\ local'[t] = [w \in Words |-> m]
  BY DEF Enter, At, Aside, LockInv, LockTypeOK, BoardInv, BoardTypeOK, Q
<1>1. \A u \in Thread : u # t => (u \in Q' <=> u \in Q)
  <2>1. Gets(t) \/ Joins(t)
    BY <1>0, LockFacts DEF Enter
  <2> QED BY <2>1 DEF Gets, Joins
<1>2. c.len = MsgSize /\ c.op \in {"display", "read"}
  BY DEF Enter
<1>3. Uniform(t)'
  BY <1>0, WordFacts DEF Uniform
<1>4. CallInv'
  <2>1. ASSUME NEW u \in Thread, u # t
        PROVE  Uniform(u)' <=> Uniform(u)
    BY <1>0, <2>1 DEF Aside, Uniform
  <2>2. ASSUME NEW u \in Thread, pc'[u] # "user"
        PROVE  /\ call'[u].len = MsgSize /\ call'[u].op \in {"display", "read"}
               /\ call'[u].op = "display" => Uniform(u)'
               /\ pc'[u] = "copy" => copied'[u] \in Words
               /\ u \in Q' => copied'[u] = 0
               /\ pc'[u] = "unlock" /\ call'[u].op = "read" => Uniform(u)'
    <3>1. CASE u = t
      BY <1>0, <1>2, <1>3, <3>1, WordFacts
    <3>2. CASE u # t
      BY <1>0, <1>1, <2>1, <2>2, <3>2 DEF Aside, BoardInv, CallInv
    <3> QED BY <3>1, <3>2
  <2> QED BY <1>0, <2>2 DEF CallInv
<1>5. ASSUME NEW u \in Thread, NEW op
      PROVE  /\ u # t => (Copies(u, op)' <=> Copies(u, op))
             /\ Copies(t, op)' => \A w \in Words : ~(w < copied'[t])
             /\ ~Copies(t, op)
  <2>1. pc[t] = "user"
    BY DEF Enter, At
  <2> QED BY <1>0, <1>1, <2>1, WordFacts DEF Copies, Inside, Aside
<1>6. Steady' \/ \E u \in Thread : Copies(u, "display")' /\ copied'[u] > 0
  BY <1>0, <1>5 DEF Steady, BoardInv, Aside
<1>7. ASSUME NEW u \in Thread, NEW w \in Words, w < copied'[u]
      PROVE  /\ Copies(u, "display")' => data'[w] = local'[u][0]
             /\ Copies(u, "read")' => local'[u][w] = data'[w]
  BY <1>0, <1>5, <1>7 DEF BoardInv, Aside
<1> QED BY <1>4, <1>6, <1>7 DEF BoardInv

LEMMA BoardLeave ==
  ASSUME LockInv, KindInv, BoardInv, kind # "buffer", NEW t \in Thread,
         Leave(t), BoardTypeOK'
  PROVE  BoardInv'
<1>0. /\ Aside(t) /\ UNCHANGED <<kind, data>> /\ Inside(t) /\ pc[t] = "unlock"
      /\ pc'[t] = "user"
  BY DEF Leave, Return, At, Aside, Inside, Held, LockInv, LockTypeOK, BoardInv, BoardTypeOK, Q
<1>1. \A u \in Thread : Inside(u) => u = t
  BY <1>0 DEF LockInv
<1>2. Q' \subseteq Q
  <2>1. Frees \/ Passes
    BY <1>0, UnlockFacts DEF Leave
  <2> QED BY <2>1 DEF Frees, Passes
<1>3. \A u \in Thread : Uniform(u)' <=> Uniform(u) \/ u = t
  <2>1. local'[t] = NoMessage
    BY DEF Leave, Return, BoardInv, BoardTypeOK
  <2> QED BY <1>0, <2>1, WordFacts DEF Aside, Uniform, NoMessage
<1>4. CallInv'
  BY <1>0, <1>2, <1>3 DEF CallInv, BoardInv, Aside
<1>5. Steady'
  BY <1>0, <1>1 DEF BoardInv, Copies, Steady
<1>6. ASSUME NEW u \in Thread, pc'[u] = "copy", Inside(u)'
      PROVE  copied'[u] = 0
  <2>1. u # t /\ pc[u] = "copy" /\ u \in Q
    BY <1>0, <1>1, <1>6 DEF Aside, Inside, Held
  <2> QED BY <1>0, <2>1 DEF BoardInv, CallInv, Aside
<1>7. \A u \in Thread, op \in {"display", "read"} : Copies(u, op)' =>
        \A w \in Words : ~(w < copied'[u])
  BY <1>6, WordFacts DEF Copies
<1> QED BY <1>4, <1>5, <1>7 DEF BoardInv

LEMMA BoardCopy ==
  ASSUME LockInv, KindInv, BoardInv, kind # "buffer", kind = "blackboard", NEW t \in Thread,
         Copy(t), BoardTypeOK'
  PROVE  BoardInv'
<1> DEFINE k == copied[t]
<1>0. /\ Inside(t) /\ pc[t] = "copy" /\ k \in Words /\ call[t].len = MsgSize
      /\ call[t].op \in {"display", "read"} /\ UNCHANGED <<kind, call, waiters>> /\ Q' = Q
      /\ copied'[t] = k + 1
      /\ IF k + 1 < MsgSize THEN pc' = pc ELSE pc' = [pc EXCEPT ![t] = "unlock"]
  <2>1. pc[t] = "copy" /\ Inside(t)
    BY DEF Copy, At, Inside, Held, Q
  <2>2. k \in Words /\ call[t].len = MsgSize /\ call[t].op \in {"display", "read"}
    BY <2>1 DEF BoardInv, CallInv
  <2> QED BY <2>1, <2>2 DEF Copy, lockVars, Q, BoardInv, BoardTypeOK
<1>1. \A u \in Thread : Inside(u) => u = t
  BY <1>0 DEF LockInv
<1>2. \/ /\ call[t].op = "display" /\ local' = local
         /\ data'[k] = local[t][k] /\ \A w \in Words : w # k => data'[w] = data[w]
      \/ /\ call[t].op = "read" /\ data' = data
         /\ \A u \in Thread : u # t => local'[u] = local[u]
         /\ local'[t][k] = data[k]
         /\ \A w \in Words : w # k => local'[t][w] = local[t][w]
  <2>1. DOMAIN local = Thread /\ DOMAIN local[t] = Words /\ Words \subseteq DOMAIN data
    BY DEF BoardInv, BoardTypeOK
  <2>2. k + (IF kind = "blackboard" THEN 0 ELSE IF Writes(t) THEN off_e ELSE off_b) = k
    <3>1. k \in Nat
      BY <1>0, WordFacts
    <3> HIDE DEF k
    <3>2. k + 0 = k
      BY <3>1
    <3> QED BY <3>2
  <2>3. CASE call[t].op = "display"
    <3>1. Writes(t)
      BY <2>3 DEF Writes
    <3>2. data' = [data EXCEPT ![k] = local[t][k]] /\ local' = local
      BY <2>2, <3>1 DEF Copy
    <3> QED BY <1>0, <2>1, <2>3, <3>2
  <2>4. CASE call[t].op = "read"
    <3>1. ~Writes(t)
      BY <2>4 DEF Writes
    <3>2. local' = [local EXCEPT ![t][k] = data[k]] /\ data' = data
      BY <2>2, <3>1 DEF Copy
    <3> QED BY <1>0, <2>1, <2>4, <3>2
  <2> QED BY <1>0, <2>3, <2>4
<1>3. Aside(t)
  BY <1>0, <1>2 DEF Copy, Aside, LockInv, LockTypeOK, BoardInv, BoardTypeOK
<1>4. pc'[t] = IF k + 1 < MsgSize THEN "copy" ELSE "unlock"
  BY <1>0 DEF LockInv, LockTypeOK
<1> HIDE DEF k
<1>5. /\ k \in Nat /\ (k + 1 < MsgSize => k + 1 \in Words)
      /\ \A w \in Words : w \in Nat /\ (w < k + 1 <=> w < k \/ w = k)
      /\ (~(k + 1 < MsgSize) => \A w \in Words : w < k + 1)
  BY <1>0, WordFacts DEF Words
<1>6. CASE call[t].op = "display"
  <2>1. Uniform(t) /\ local' = local
    BY <1>0, <1>2, <1>6 DEF BoardInv, CallInv
  <2>2. \A w \in Words : w < k + 1 => data'[w] = local[t][0]
    <3>1. \A w \in Words : w < k => data[w] = local[t][0]
      BY <1>0, <1>6 DEF BoardInv, Copies, k
    <3>2. local[t][k] = local[t][0]
      BY <1>0, <2>1 DEF Uniform
    <3> QED BY <1>2, <1>5, <1>6, <3>1, <3>2
  <2>3. CallInv'
    <3>1. \A u \in Thread : Uniform(u)' <=> Uniform(u)
      BY <2>1 DEF Uniform
    <3>2. ASSUME NEW u \in Thread, pc'[u] # "user"
          PROVE  /\ call'[u].len = MsgSize /\ call'[u].op \in {"display", "read"}
                 /\ call'[u].op = "display" => Uniform(u)'
                 /\ pc'[u] = "copy" => copied'[u] \in Words
                 /\ u \in Q' => copied'[u] = 0
                 /\ pc'[u] = "unlock" /\ call'[u].op = "read" => Uniform(u)'
      <4>1. CASE u = t
        BY <1>0, <1>4, <1>5, <1>6, <2>1, <3>1, <4>1 DEF Inside
      <4>2. CASE u # t
        BY <1>0, <1>3, <3>1, <3>2, <4>2 DEF Aside, BoardInv, CallInv
      <4> QED BY <4>1, <4>2
    <3> QED BY <1>0, <3>2 DEF CallInv
  <2>4. \A u \in Thread : Inside(u)' => u = t
    BY <1>0, <1>1, <1>3 DEF Inside, Aside
  <2>5. Steady' \/ \E u \in Thread : Copies(u, "display")' /\ copied'[u] > 0
    <3>1. CASE k + 1 < MsgSize
      <4>1. Copies(t, "display")' /\ copied'[t] > 0
        BY <1>0, <1>4, <1>5, <1>6, <3>1 DEF Copies, Inside, Held, k
      <4> QED BY <4>1
    <3>2. CASE ~(k + 1 < MsgSize)
      BY <1>5, <2>2, <3>2 DEF Steady
    <3> QED BY <3>1, <3>2
  <2>6. ASSUME NEW u \in Thread, NEW w \in Words, w < copied'[u]
        PROVE  /\ Copies(u, "display")' => data'[w] = local'[u][0]
               /\ Copies(u, "read")' => local'[u][w] = data'[w]
    BY <1>0, <1>6, <2>1, <2>2, <2>4, <2>6 DEF Copies, k
  <2> QED BY <2>3, <2>5, <2>6 DEF BoardInv
<1>7. CASE call[t].op = "read"
  <2>1. Steady /\ data' = data
    BY <1>0, <1>1, <1>2, <1>7 DEF BoardInv, Copies
  <2>2. \A w \in Words : w < k + 1 => local'[t][w] = data[w]
    <3>1. \A w \in Words : w < k => local[t][w] = data[w]
      BY <1>0, <1>7 DEF BoardInv, Copies, k
    <3> QED BY <1>2, <1>5, <1>7, <3>1
  <2>3. ~(k + 1 < MsgSize) => Uniform(t)'
    <3>1. ASSUME ~(k + 1 < MsgSize), NEW w \in Words
          PROVE  local'[t][w] = local'[t][0]
      BY <1>5, <2>1, <2>2, <3>1, WordFacts DEF Steady
    <3> QED BY <3>1 DEF Uniform
  <2>4. CallInv'
    <3>1. \A u \in Thread : u # t => (Uniform(u)' <=> Uniform(u))
      BY <1>3 DEF Uniform, Aside
    <3>2. ASSUME NEW u \in Thread, pc'[u] # "user"
          PROVE  /\ call'[u].len = MsgSize /\ call'[u].op \in {"display", "read"}
                 /\ call'[u].op = "display" => Uniform(u)'
                 /\ pc'[u] = "copy" => copied'[u] \in Words
                 /\ u \in Q' => copied'[u] = 0
                 /\ pc'[u] = "unlock" /\ call'[u].op = "read" => Uniform(u)'
      <4>1. CASE u = t
        BY <1>0, <1>4, <1>5, <1>7, <2>3, <4>1 DEF Inside
      <4>2. CASE u # t
        BY <1>0, <1>3, <3>1, <3>2, <4>2 DEF Aside, BoardInv, CallInv
      <4> QED BY <4>1, <4>2
    <3> QED BY <1>0, <3>2 DEF CallInv
  <2>5. Steady'
    BY <2>1 DEF Steady
  <2>6. \A u \in Thread : Inside(u)' => u = t
    BY <1>0, <1>1, <1>3 DEF Inside, Aside
  <2>7. ASSUME NEW u \in Thread, NEW w \in Words, w < copied'[u]
        PROVE  /\ Copies(u, "display")' => data'[w] = local'[u][0]
               /\ Copies(u, "read")' => local'[u][w] = data'[w]
    BY <1>0, <1>7, <2>1, <2>2, <2>6, <2>7 DEF Copies, k
  <2> QED BY <2>4, <2>5, <2>7 DEF BoardInv
<1> QED BY <1>0, <1>6, <1>7

KindOK == kind \in {"buffer", "blackboard"}

LEMMA BoardStep ==
  ASSUME Lengths = {MsgSize}, KindOK, LockInv, KindInv, BoardInv,
         [Next]_vars
  PROVE  BoardInv'
<1>0. BoardTypeOK'
  BY BoardTypeStep DEF BoardInv
<1>1. CASE UNCHANGED vars
  BY <1>1 DEF BoardInv, BoardTypeOK, CallInv, Steady, Uniform, Copies, Inside, Q, vars,
             lockVars, callVars
<1>2. ASSUME kind # "buffer", NEW t \in Thread, Work(t)
      PROVE  BoardInv'
  <2>1. pc[t] \in {"user", "copy", "unlock"}
    BY <1>2 DEF KindInv
  <2>2. Copy(t) \/ Leave(t)
    BY <1>2, <2>1 DEF Work, Test, Wake, GiveUp, Update, Broadcast, At
  <2> QED BY <1>0, <1>2, <2>2, BoardCopy, BoardLeave DEF KindOK
<1>3. ASSUME kind = "buffer", NEW t \in Thread,
             Work(t) \/ \E c \in Calls, m \in Message : Enter(t, c, m)
      PROVE  BoardInv'
  <2>1. kind' = kind /\ DOMAIN pc = Thread /\ DOMAIN call = Thread
    BY <1>3 DEF Enter, Work, Test, Wake, GiveUp, Copy, Update, Leave, Broadcast, BoardInv,
               BoardTypeOK, LockInv, LockTypeOK
  <2>2. \A u \in Thread : u # t => pc'[u] = pc[u] /\ call'[u] = call[u]
    BY <1>3, <2>1
       DEF Enter, Work, Test, Wake, GiveUp, Copy, Update, Leave, Broadcast, GoTo, Return,
           callVars
  <2>3. pc'[t] # "user" => call'[t].op # "read"
    <3>1. CASE \E c \in Calls, m \in Message : Enter(t, c, m)
      BY <1>3, <2>1, <3>1 DEF Enter
    <3>2. CASE Work(t)
      <4>1. pc[t] # "user"
        BY <3>2 DEF Work, Test, Wake, GiveUp, Copy, Update, Leave, Broadcast, At
      <4>2. pc'[t] = "user" \/ call' = call
        BY <2>1, <3>2
           DEF Work, Test, Wake, GiveUp, Copy, Update, Leave, Broadcast, GoTo, Return,
               callVars
      <4> QED BY <1>3, <4>1, <4>2 DEF BoardInv, CallInv
    <3> QED BY <1>3, <3>1, <3>2
  <2> QED BY <1>0, <1>3, <2>1, <2>2, <2>3 DEF BoardInv, CallInv
<1> QED BY <1>0, <1>1, <1>2, <1>3, BoardEnter DEF Next

\* A reader of a blackboard of any length gets one message as it was displayed
\* (pok_blackboard_read against pok_blackboard_display), when all are displayed
\* in the blackboard's whole length.
THEOREM ReadsAlwaysWhole ==
  ASSUME "receive" \notin Polls, Lengths = {MsgSize}
  PROVE  Spec => []BoardReadWhole
<1>1. Init => KindOK /\ BoardInv
  <2> SUFFICES ASSUME Init
               PROVE  KindOK /\ BoardInv
    OBVIOUS
  <2>1. kind \in {"buffer", "blackboard"}
    BY BuffersAssumption DEF Init
  <2>2. BoardTypeOK
    BY WordFacts DEF Init, BoardTypeOK, NoMessage
  <2>3. Steady /\ \A t \in Thread : pc[t] = "user"
    BY WordFacts DEF Init, Steady
  <2> QED BY <2>1, <2>2, <2>3 DEF BoardInv, CallInv, Copies, KindOK
<1>2. KindOK /\ [Next]_vars => KindOK'
  BY DEF KindOK, Next, Enter, Work, Test, Wake, GiveUp, Copy, Update, Leave, Broadcast, vars
<1>3. ASSUME BoardInv
      PROVE  BoardReadWhole
  <2>1. ASSUME NEW t \in Thread, call[t].op = "read", pc[t] = "unlock"
        PROVE  Uniform(t)
    <3>1. kind # "buffer"
      BY <1>3, <2>1 DEF BoardInv, CallInv
    <3> QED BY <1>3, <2>1, <3>1 DEF BoardInv, CallInv
  <2> QED BY <2>1 DEF BoardReadWhole, Uniform
<1> QED BY <1>1, <1>2, <1>3, BoardStep, KindInvariant, PTL DEF Spec

-----------------------------------------------------------------------------
\* The ring of a buffer in slots of one message: the offsets are those of
\* slots, and Nth is the slot of the k-th message from slot b on.
Slots == 0 .. MaxMessages - 1
After(s) == IF s + 1 = MaxMessages THEN 0 ELSE s + 1
Nth(b, k) == IF b + k - 1 < MaxMessages THEN b + k - 1 ELSE b + k - 1 - MaxMessages
Between(b, e) == IF e < b THEN e - b + MaxMessages ELSE e - b

\* The message at an offset of memory d, and the n messages from slot b on.
Text(d, x) == IF \A w \in Words : d[x + w] = d[x + 0] THEN d[x + 0] ELSE Blank
Ring(d, b, n) == [k \in 1..n |-> Text(d, MsgSize * Nth(b, k))]

LEMMA OffsetFacts ==
  ASSUME NEW b \in Slots, NEW e \in Slots, NEW k \in 1..MaxMessages
  PROVE  /\ (MsgSize * b + MsgSize) % Size = MsgSize * After(b)
         /\ ((MsgSize * e - MsgSize * b + Size) % Size) \div MsgSize = Between(b, e)
         /\ (MsgSize * b + (k - 1) * MsgSize) % Size = MsgSize * Nth(b, k)
<1>1. /\ MsgSize \in Nat \ {0} /\ MaxMessages \in Nat \ {0}
      /\ b \in Nat /\ b < MaxMessages /\ e \in Nat /\ e < MaxMessages
  BY BuffersAssumption DEF Slots
<1> DEFINE m == MsgSize
           n == MaxMessages
<1> HIDE DEF m, n
<1>2. /\ m \in Nat \ {0} /\ n \in Nat \ {0} /\ k \in 1..n
      /\ b \in Nat /\ b < n /\ e \in Nat /\ e < n
  BY <1>1 DEF m, n
<1>3. /\ (m * b + m) % (m * n) = m * (IF b + 1 = n THEN 0 ELSE b + 1)
      /\ ((m * e - m * b + m * n) % (m * n)) \div m = IF e < b THEN e - b + n ELSE e - b
      /\ (m * b + (k - 1) * m) % (m * n)
         = m * (IF b + k - 1 < n THEN b + k - 1 ELSE b + k - 1 - n)
  <2>1. (m * b + m) % (m * n) = m * (IF b + 1 = n THEN 0 ELSE b + 1)
    BY ONLY <1>2
  <2>2. ((m * e - m * b + m * n) % (m * n)) \div m = IF e < b THEN e - b + n ELSE e - b
    BY ONLY <1>2
  <2>3. (m * b + (k - 1) * m) % (m * n)
        = m * (IF b + k - 1 < n THEN b + k - 1 ELSE b + k - 1 - n)
    BY ONLY <1>2
  <2> QED BY <2>1, <2>2, <2>3
<1>4. Size = m * n
  BY DEF Size, m, n
<1>5. (m * b + m) % Size = m * After(b)
  BY <1>3, <1>4 DEF After, n
<1>6. ((m * e - m * b + Size) % Size) \div m = Between(b, e)
  BY <1>3, <1>4 DEF Between, n
<1>7. (m * b + (k - 1) * m) % Size = m * Nth(b, k)
  BY <1>3, <1>4 DEF Nth, n
<1> QED BY <1>5, <1>6, <1>7 DEF m

LEMMA SlotFacts ==
  /\ MaxMessages \in Nat \ {0} /\ 0 \in Slots
  /\ \A s \in Slots : s \in Nat /\ After(s) \in Slots
  /\ \A b, e \in Slots : Between(b, e) \in 0 .. MaxMessages - 1
  /\ \A b \in Slots, k \in 1..MaxMessages : Nth(b, k) \in Slots
BY BuffersAssumption DEF Slots, After, Between, Nth

\* Words of two slots do not overlap, and all are in memory.
LEMMA SlotsApart ==
  /\ \A s \in Slots, w \in Words : MsgSize * s + w \in 0 .. Size + MsgSize - 1
  /\ \A s, u \in Slots, v, w \in Words : MsgSize * s + v = MsgSize * u + w => s = u /\ v = w
<1> DEFINE M == MsgSize
           N == MaxMessages
<1>0. M \in Nat \ {0} /\ N \in Nat \ {0} /\ Size = M * N
  BY BuffersAssumption DEF Size
<1>1. /\ \A s \in Slots : s \in Nat /\ s < N
      /\ \A w \in Words : w \in Nat /\ w < M
  BY <1>0 DEF Slots, Words
<1> HIDE DEF M, N
<1>2. ASSUME NEW s \in Slots, NEW w \in Words
      PROVE  M * s + w \in Nat /\ M * s + w < M * N
  BY <1>0, <1>1
<1>3. ASSUME NEW s \in Slots, NEW u \in Slots, NEW v \in Words, NEW w \in Words,
             M * s + v = M * u + w
      PROVE  s = u /\ v = w
  <2>1. s = u
    BY <1>0, <1>1, <1>3
  <2>2. v = w
    BY <1>0, <1>1, <1>3, <2>1
  <2> QED BY <2>1, <2>2
<1>4. \A s \in Slots, w \in Words : M * s + w \in 0 .. M * N + M - 1
  BY <1>0, <1>2
<1> QED BY <1>0, <1>3, <1>4 DEF M

LEMMA SameSlot == \A b, e \in Slots : MsgSize * b = MsgSize * e => b = e
<1>1. ASSUME NEW m \in Nat \ {0}, NEW b \in Nat, NEW e \in Nat, m * b = m * e
      PROVE  b = e
  BY <1>1
<1> QED BY <1>1, SlotFacts, WordFacts

\* The two ends of a ring, one message put in or taken out of it.
LEMMA RingEnds ==
  ASSUME NEW b \in Slots, NEW e \in Slots
  PROVE  /\ \A k \in 1 .. Between(b, e) : Nth(b, k) # e
         /\ Nth(b, Between(b, e) + 1) = e /\ Nth(b, 1) = b
         /\ IF After(e) = b THEN Between(b, e) + 1 = MaxMessages
            ELSE Between(b, After(e)) = Between(b, e) + 1
         /\ b # e => Between(After(b), e) = Between(b, e) - 1 /\ Between(b, e) > 0
         /\ b = e => (After(b) = e <=> MaxMessages = 1)
         /\ b = e /\ After(b) # e => Between(After(b), e) = MaxMessages - 1
         /\ \A k \in 1 .. MaxMessages - 1 : Nth(After(b), k) = Nth(b, k + 1)
BY BuffersAssumption DEF Slots, After, Between, Nth

\* The offsets, the flags and memory agree; a blackboard uses none of them.
RingInv ==
  /\ \E b, e \in Slots : off_b = MsgSize * b /\ off_e = MsgSize * e
  /\ full => ~empty /\ off_e = off_b
  /\ empty => off_e = off_b
  /\ off_e = off_b => full \/ empty
  /\ kind # "buffer" => empty
  /\ DOMAIN data = 0 .. Size + MsgSize - 1
  /\ Contents \in Seq(Message)

Filled(f, b, e) == IF f THEN MaxMessages ELSE Between(b, e)

LEMMA ContentsFacts ==
  ASSUME NEW b \in Slots, NEW e \in Slots
  PROVE  off_b = MsgSize * b /\ off_e = MsgSize * e =>
           /\ Count = Filled(full, b, e) /\ Count \in 0..MaxMessages
           /\ Contents = Ring(data, b, Count)
<1> SUFFICES ASSUME off_b = MsgSize * b, off_e = MsgSize * e
             PROVE  /\ Count = Filled(full, b, e) /\ Count \in 0..MaxMessages
                    /\ Contents = Ring(data, b, Count)
  OBVIOUS
<1>1. Count = Filled(full, b, e)
  <2>1. 1 \in 1..MaxMessages
    BY BuffersAssumption
  <2>2. ((off_e - off_b + Size) % Size) \div MsgSize = Between(b, e)
    BY <2>1, OffsetFacts
  <2> QED BY <2>2 DEF Count, Filled
<1>2. Count \in 0..MaxMessages
  BY <1>1, SlotFacts DEF Filled
<1>3. \A k \in 1..Count : (off_b + (k - 1) * MsgSize) % Size = MsgSize * Nth(b, k)
  <2> SUFFICES ASSUME NEW k \in 1..Count
               PROVE  (MsgSize * b + (k - 1) * MsgSize) % Size = MsgSize * Nth(b, k)
    OBVIOUS
  <2>1. k \in 1..MaxMessages
    BY <1>2, SlotFacts
  <2> QED BY <2>1, OffsetFacts
<1>4. Contents = [k \in 1..Count |-> Text(data, (off_b + (k - 1) * MsgSize) % Size)]
  BY DEF Contents, Text
<1> QED BY <1>1, <1>2, <1>3, <1>4 DEF Ring

LEMMA ContentsNext ==
  ASSUME NEW b \in Slots, NEW e \in Slots
  PROVE  off_b' = MsgSize * b /\ off_e' = MsgSize * e =>
           /\ Count' = Filled(full', b, e) /\ Count' \in 0..MaxMessages
           /\ Contents' = Ring(data', b, Count')
<1>1. off_b = MsgSize * b /\ off_e = MsgSize * e =>
        /\ Count = Filled(full, b, e) /\ Count \in 0..MaxMessages
        /\ Contents = Ring(data, b, Count)
  BY ContentsFacts
<1>2. (off_b = MsgSize * b /\ off_e = MsgSize * e =>
        /\ Count = Filled(full, b, e) /\ Count \in 0..MaxMessages
        /\ Contents = Ring(data, b, Count))'
  BY <1>1, PTL
<1> QED BY <1>2

LEMMA RingKept ==
  ASSUME RingInv, UNCHANGED <<ringVars, kind>>, DOMAIN data' = DOMAIN data,
         \A b \in Slots, k \in 1..Count : off_b = MsgSize * b =>
           Text(data', MsgSize * Nth(b, k)) = Text(data, MsgSize * Nth(b, k))
  PROVE  RingInv' /\ Contents' = Contents
<1>1. PICK b \in Slots, e \in Slots : off_b = MsgSize * b /\ off_e = MsgSize * e
  BY DEF RingInv
<1>2. Count' = Count
  BY DEF Count, ringVars
<1>3. Contents = Ring(data, b, Count)
  BY <1>1, ContentsFacts
<1>4. off_b' = MsgSize * b /\ off_e' = MsgSize * e
  BY <1>1 DEF ringVars
<1>5. Contents' = Ring(data', b, Count')
  BY <1>4, ContentsNext
<1>6. Contents' = Contents
  BY <1>1, <1>2, <1>3, <1>5 DEF Ring
<1> QED BY <1>1, <1>4, <1>6 DEF RingInv, ringVars

\* How far each call of a buffer is.  What it has copied is in the slot it
\* copies to or from, and the slot is its own: there is room, or a message.
Where(t) == IF call[t].op = "send" THEN off_e ELSE off_b

Passing(t) ==
  /\ call[t].len = MsgSize /\ call[t].op \in {"send", "receive"}
  /\ t \in Q => pc[t] # "copy"
  /\ call[t].op = "send" => \E m \in Message : \A w \in Words : local[t][w] = m
  /\ pc[t] \in {"test", "sleep", "timeout"} => copied[t] = 0
  /\ pc[t] = "copy" => copied[t] \in Words
  /\ pc[t] = "update" => copied[t] = MsgSize
  /\ pc[t] \in {"copy", "update"} =>
       ~MustWait(t) /\ \A w \in Words : w < copied[t] => data[Where(t) + w] = local[t][w]

PassInv == kind = "buffer" => \A t \in Thread : pc[t] # "user" => Passing(t)

LEMMA PassAside ==
  ASSUME kind = "buffer", UNCHANGED kind, LockInv, PassInv, NEW t \in Thread, LockSteps(t),
         Aside(t), UNCHANGED <<data, ringVars>> \/ Inside(t), pc'[t] # "user" => Passing(t)'
  PROVE  PassInv'
<1> SUFFICES ASSUME NEW u \in Thread, u # t, pc'[u] # "user"
             PROVE  Passing(u)'
  BY DEF PassInv
<1>1. Passing(u) /\ pc'[u] = pc[u] /\ call'[u] = call[u] /\ copied'[u] = copied[u]
      /\ local'[u] = local[u]
  BY DEF Aside, PassInv
<1>2. u \in Q' => u \in Q
  BY DEF LockSteps, Gets, Joins, Frees, Passes, LockKept, Q
<1>3. ASSUME pc[u] \in {"copy", "update"}
      PROVE  UNCHANGED <<data, ringVars>>
  <2>1. u \notin Q
    BY <1>1, <1>3 DEF Passing, LockInv
  <2>2. Inside(u)
    BY <1>3, <2>1 DEF Inside, Held
  <2> QED BY <2>2 DEF LockInv
<1>4. ASSUME pc[u] \in {"copy", "update"}
      PROVE  ~MustWait(u)' /\ \A w \in Words : w < copied'[u] =>
                                data'[Where(u)' + w] = local'[u][w]
  <2>1. ~MustWait(u) /\ \A w \in Words : w < copied[u] => data[Where(u) + w] = local[u][w]
    BY <1>1, <1>4 DEF Passing
  <2>2. Where(u)' = Where(u) /\ (MustWait(u)' <=> MustWait(u)) /\ data' = data
    BY <1>1, <1>3, <1>4 DEF Where, MustWait, ringVars
  <2> QED BY <1>1, <2>1, <2>2
<1> QED BY <1>1, <1>2, <1>4 DEF Passing

LEMMA CallsAside ==
  ASSUME LockInv, BoardTypeOK, NEW t \in Thread,
         Work(t) \/ \E c \in Calls, m \in Message : Enter(t, c, m)
  PROVE  Aside(t) /\ UNCHANGED kind /\ LockSteps(t)
<1>1. LockSteps(t)
  BY WorkLocks, EnterLocks
<1>2. CASE Copy(t)
  BY <1>1, <1>2 DEF Copy, Aside, BoardTypeOK, LockInv, LockTypeOK
<1>3. ASSUME Work(t), ~Copy(t)
      PROVE  Aside(t) /\ UNCHANGED kind
  <2>1. Return(t) \/ UNCHANGED callVars
    BY <1>3 DEF Work, Test, Wake, GiveUp, Update, Leave, Broadcast, GoTo
  <2>2. \A u \in Thread : u # t => pc'[u] = pc[u]
    BY <1>1 DEF LockSteps, Moves
  <2>3. UNCHANGED kind
    BY <1>3 DEF Work, Test, Wake, GiveUp, Update, Leave, Broadcast
  <2> QED BY <2>1, <2>2, <2>3 DEF Aside, Return, callVars, BoardTypeOK
<1>4. ASSUME NEW c \in Calls, NEW m \in Message, Enter(t, c, m)
      PROVE  Aside(t) /\ UNCHANGED kind
  <2>1. /\ UNCHANGED kind /\ call' = [call EXCEPT ![t] = c] /\ copied' = [copied EXCEPT ![t] = 0]
        /\ local' = [local EXCEPT ![t] = [w \in Words |-> m]]
    BY <1>4 DEF Enter
  <2>2. \A u \in Thread : u # t => pc'[u] = pc[u]
    BY <1>1 DEF LockSteps, Moves
  <2> QED BY <2>1, <2>2 DEF Aside, BoardTypeOK
<1> QED BY <1>1, <1>2, <1>3, <1>4

\* The steps that leave the ring as it is.
LEMMA PassElse ==
  ASSUME kind = "buffer", Lengths = {MsgSize}, LockInv, BoardTypeOK, RingInv, PassInv,
         NEW t \in Thread, Work(t) \/ \E c \in Calls, m \in Message : Enter(t, c, m),
         ~Copy(t), ~Update(t)
  PROVE  /\ UNCHANGED <<data, ringVars, taken>>
         /\ pc'[t] # "user" => Passing(t)'
<1>0. Aside(t) /\ UNCHANGED kind /\ LockSteps(t)
  BY CallsAside
<1>1. CASE \E c \in Calls, m \in Message : Enter(t, c, m)
  <2>1. PICK c \in Calls, m \in Message : Enter(t, c, m)
    BY <1>1
  <2>2. /\ c.len = MsgSize /\ c.op \in {"send", "receive"}
        /\ call'[t] = c /\ copied'[t] = 0 /\ local'[t] = [w \in Words |-> m]
        /\ pc'[t] = "test" /\ UNCHANGED <<data, ringVars, taken>>
    BY <2>1 DEF Enter, LockInv, LockTypeOK, BoardTypeOK
  <2> QED BY <2>2 DEF Passing
<1>2. CASE Test(t)
  <2>0. pc[t] = "test" /\ t \notin Q /\ UNCHANGED <<data, ringVars, taken>> /\ Passing(t)
    BY <1>2 DEF Test, At, PassInv, Q
  <2>1. t \notin Q'
    BY <1>2, <2>0, <1>0 DEF LockSteps, Inside, Held, Frees, Passes, LockKept, Q, Test, At
  <2>2. \/ ~MustWait(t) /\ pc'[t] = "copy" /\ UNCHANGED callVars
        \/ pc'[t] = "user"
        \/ pc'[t] \in {"test", "sleep"} /\ UNCHANGED callVars
    BY <1>2, <2>0 DEF Test, GoTo, Return, LockInv, LockTypeOK
  <2>3. ASSUME UNCHANGED callVars
        PROVE  MustWait(t)' <=> MustWait(t)
    BY <2>0, <2>3 DEF MustWait, ringVars, callVars
  <2>4. 0 \in Words /\ \A w \in Words : ~(w < 0)
    BY WordFacts
  <2>5. CASE ~MustWait(t) /\ pc'[t] = "copy" /\ UNCHANGED callVars
    BY <2>0, <2>1, <2>3, <2>4, <2>5 DEF Passing, callVars
  <2>6. CASE pc'[t] \in {"test", "sleep"} /\ UNCHANGED callVars
    BY <2>0, <2>1, <2>6 DEF Passing, callVars
  <2> QED BY <2>0, <2>2, <2>5, <2>6
<1>3. CASE Wake(t)
  <2>1. /\ pc[t] = "sleep" /\ UNCHANGED <<data, ringVars, taken>> /\ UNCHANGED callVars
        /\ pc'[t] \in {"test", "timeout"} /\ Passing(t)
    BY <1>3 DEF Wake, At, GoTo, PassInv, LockInv, LockTypeOK
  <2> QED BY <2>1 DEF Passing, callVars
<1>4. CASE GiveUp(t) \/ Broadcast(t)
  BY <1>4 DEF GiveUp, Broadcast, Return, LockInv, LockTypeOK
<1>5. CASE Leave(t)
  <2>1. /\ pc[t] = "unlock" /\ UNCHANGED <<data, ringVars, taken>> /\ UNCHANGED callVars
        /\ pc'[t] = "broadcast" /\ Passing(t)
    BY <1>5 DEF Leave, At, GoTo, PassInv, LockInv, LockTypeOK
  <2> QED BY <2>1 DEF Passing, callVars
<1> QED BY <1>1, <1>2, <1>3, <1>4, <1>5 DEF Work

LEMMA PassCopy ==
  ASSUME kind = "buffer", LockInv, BoardTypeOK, RingInv, PassInv, NEW t \in Thread, Copy(t)
  PROVE  /\ UNCHANGED <<kind, ringVars, taken>> /\ Inside(t) /\ Passing(t)'
         /\ RingInv' /\ Contents' = Contents
<1> DEFINE k == copied[t]
           x == Where(t)
<1>1. /\ pc[t] = "copy" /\ Inside(t) /\ UNCHANGED <<kind, ringVars, taken, call>>
      /\ Passing(t) /\ k \in Words /\ copied'[t] = k + 1 /\ Q' = Q /\ t \notin Q
      /\ pc'[t] = IF k + 1 < MsgSize THEN "copy" ELSE "update"
  BY DEF Copy, At, Inside, Held, PassInv, Passing, LockInv, LockTypeOK, BoardTypeOK, lockVars, Q
<1>2. PICK b \in Slots, e \in Slots : off_b = MsgSize * b /\ off_e = MsgSize * e
  BY DEF RingInv
<1>3. PICK s \in Slots : /\ x = MsgSize * s
                        /\ IF call[t].op = "send" THEN s = e ELSE s = b
  BY <1>2 DEF Where
<1>4. /\ k \in Nat /\ x \in Nat /\ k + x = x + k /\ x + k \in DOMAIN data
      /\ (k + 1 < MsgSize => k + 1 \in Words) /\ (~(k + 1 < MsgSize) => k + 1 = MsgSize)
      /\ \A w \in Words : w \in Nat /\ (w < k + 1 <=> w < k \/ w = k)
      /\ \A w \in Words : w # k => x + w # x + k
  <2>1. x + k \in DOMAIN data
    BY <1>1, <1>3, SlotsApart DEF RingInv
  <2>2. k \in Nat /\ x \in Nat /\ k < MsgSize
    <3>1. \A a, c \in Nat : a * c \in Nat
      OBVIOUS
    <3>2. x \in Nat
      BY <1>3, <3>1, SlotFacts, WordFacts
    <3> HIDE DEF k, x
    <3> QED BY <1>1, <3>2, WordFacts DEF Words
  <2> HIDE DEF k, x
  <2> QED BY <2>1, <2>2, WordFacts DEF Words
<1>5. /\ DOMAIN data' = DOMAIN data
      /\ data'[x + k] = local'[t][k]
      /\ \A w \in Words : w # k => /\ data'[x + w] = data[x + w]
                                 /\ local'[t][w] = local[t][w]
      /\ call[t].op = "send" => local' = local
      /\ \/ data' = data
         \/ call[t].op = "send" /\ data' = [data EXCEPT ![x + k] = local[t][k]]
  <2>1. DOMAIN local = Thread /\ DOMAIN local[t] = Words
    BY DEF BoardTypeOK
  <2>2. CASE call[t].op = "send"
    <3>1. data' = [data EXCEPT ![k + x] = local[t][k]] /\ local' = local
      BY <2>2 DEF Copy, Writes, Where
    <3>2. data' = [data EXCEPT ![x + k] = local[t][k]]
      BY <1>4, <3>1
    <3> HIDE DEF k, x
    <3>3. data'[x + k] = local[t][k] /\ DOMAIN data' = DOMAIN data
      BY <1>4, <3>2
    <3>4. \A w \in Words : w # k => data'[x + w] = data[x + w]
      <4>1. \A i \in DOMAIN data : i # x + k => data'[i] = data[i]
        BY <3>2
      <4>2. \A w \in Words : x + w \in DOMAIN data
        BY <1>3, SlotsApart DEF RingInv
      <4> QED BY <1>4, <4>1, <4>2
    <3> QED BY <2>2, <3>1, <3>2, <3>3, <3>4
  <2>3. CASE call[t].op # "send"
    <3>0. ~Writes(t)
      BY <1>1, <2>3 DEF Writes, Passing
    <3>1. local' = [local EXCEPT ![t][k] = data[k + x]] /\ data' = data
      BY <2>3, <3>0 DEF Copy, Where
    <3> HIDE DEF k, x
    <3>2. local'[t][k] = data[k + x] /\ \A w \in Words : w # k => local'[t][w] = local[t][w]
      BY <1>1, <2>1, <3>1
    <3> QED BY <1>4, <2>3, <3>1, <3>2
  <2> QED BY <2>2, <2>3
<1>6. Passing(t)'
  <2>1. Where(t)' = x /\ (MustWait(t)' <=> MustWait(t))
    BY <1>1 DEF Where, MustWait, ringVars
  <2>2. \A w \in Words : w < k => data[x + w] = local[t][w]
    BY <1>1 DEF Passing
  <2>3. \A w \in Words : w < copied'[t] => data'[x + w] = local'[t][w]
    <3> HIDE DEF k, x
    <3> QED BY <1>1, <1>4, <1>5, <2>2
  <2>4. call[t].op = "send" => \E m \in Message : \A w \in Words : local'[t][w] = m
    BY <1>1, <1>5 DEF Passing
  <2> QED BY <1>1, <1>4, <2>1, <2>3, <2>4 DEF Passing
<1>7. ASSUME NEW c \in Slots, NEW j \in 1..Count, off_b = MsgSize * c
      PROVE  Text(data', MsgSize * Nth(c, j)) = Text(data, MsgSize * Nth(c, j))
  <2>1. CASE data' = data
    BY <2>1
  <2>2. CASE call[t].op = "send" /\ data' = [data EXCEPT ![x + k] = local[t][k]]
    <3>1. ~full /\ s = e
      BY <1>1, <1>3, <2>2 DEF Passing, MustWait
    <3>2. j \in 1..Between(c, e) /\ j \in 1..MaxMessages
      BY <1>2, <1>7, <3>1, ContentsFacts, SlotFacts DEF Filled
    <3>3. Nth(c, j) \in Slots /\ Nth(c, j) # e
      BY <3>2, RingEnds, SlotFacts
    <3>4. \A w \in Words : /\ MsgSize * Nth(c, j) + w \in DOMAIN data
                           /\ MsgSize * Nth(c, j) + w # x + k
      BY <1>1, <1>3, <3>1, <3>3, SlotsApart DEF RingInv
    <3>5. \A w \in Words : data'[MsgSize * Nth(c, j) + w] = data[MsgSize * Nth(c, j) + w]
      BY <2>2, <3>4
    <3> QED BY <3>5, WordFacts DEF Text
  <2> QED BY <1>5, <2>1, <2>2
<1>8. RingInv' /\ Contents' = Contents
  BY <1>1, <1>5, <1>7, RingKept
<1> QED BY <1>1, <1>6, <1>8

LEMMA RingLength ==
  ASSUME NEW d, NEW b, NEW n \in Nat
  PROVE  Len(Ring(d, b, n)) = n /\ (n = 0 => Ring(d, b, n) = <<>>)
BY DEF Ring

LEMMA RingAppend ==
  ASSUME NEW d, NEW b, NEW n \in Nat, Ring(d, b, n) \in Seq(Message),
         NEW m \in Message, m = Text(d, MsgSize * Nth(b, n + 1))
  PROVE  Ring(d, b, n + 1) = Append(Ring(d, b, n), m) /\ Ring(d, b, n + 1) \in Seq(Message)
<1> DEFINE r == Ring(d, b, n)
           q == Ring(d, b, n + 1)
<1>1. Len(r) = n /\ r \in Seq(Message) /\ \A k \in 1..n : r[k] = q[k]
  BY RingLength DEF Ring
<1>2. q = [k \in 1 .. n + 1 |-> q[k]] /\ q[n + 1] = m
  BY DEF Ring
<1>3. \A k \in 1 .. n + 1 : q[k] \in Message
  BY <1>1, <1>2, ElementOfSeq
<1> HIDE DEF r, q
<1>4. q \in Seq(Message) /\ Len(q) = n + 1
  BY <1>2, <1>3
<1>5. /\ Append(r, m) \in Seq(Message) /\ Len(Append(r, m)) = n + 1
      /\ \A k \in 1..n : Append(r, m)[k] = r[k]
      /\ Append(r, m)[n + 1] = m
  BY <1>1, AppendProperties
<1>6. ASSUME NEW k \in 1 .. n + 1
      PROVE  q[k] = Append(r, m)[k]
  <2>1. k = n + 1 \/ k \in 1..n
    OBVIOUS
  <2> QED BY <1>1, <1>2, <1>5, <2>1
<1>7. q = Append(r, m)
  BY <1>4, <1>5, <1>6, SeqEqual
<1> QED BY <1>4, <1>7 DEF r, q

LEMMA RingTail ==
  ASSUME NEW d, NEW b \in Slots, NEW n \in 1..MaxMessages, Ring(d, b, n) \in Seq(Message)
  PROVE  /\ Ring(d, b, n) # <<>> /\ Head(Ring(d, b, n)) = Text(d, MsgSize * b)
         /\ Tail(Ring(d, b, n)) = Ring(d, After(b), n - 1)
         /\ Ring(d, After(b), n - 1) \in Seq(Message)
<1> DEFINE r == Ring(d, b, n)
           q == Ring(d, After(b), n - 1)
<1>0. n \in Nat \ {0} /\ n - 1 \in Nat /\ n - 1 \in 0 .. MaxMessages - 1
  BY SlotFacts
<1>1. Len(r) = n /\ Len(q) = n - 1 /\ r \in Seq(Message)
  BY <1>0, RingLength
<1>2. r[1] = Text(d, MsgSize * b)
  <2>1. Nth(b, 1) = b
    BY RingEnds
  <2> QED BY <1>0, <2>1 DEF Ring
<1>3. \A k \in 1 .. n - 1 : q[k] = r[k + 1]
  <2> SUFFICES ASSUME NEW k \in 1 .. n - 1
               PROVE  q[k] = r[k + 1]
    OBVIOUS
  <2>1. k \in 1 .. MaxMessages - 1 /\ k + 1 \in 1..n
    <3>1. n \in Nat /\ n <= MaxMessages /\ MaxMessages \in Nat
      BY SlotFacts
    <3> QED BY <3>1
  <2>2. Nth(After(b), k) = Nth(b, k + 1)
    BY <2>1, RingEnds
  <2> QED BY <1>0, <2>1, <2>2 DEF Ring
<1>4. q = [k \in 1 .. n - 1 |-> q[k]]
  BY DEF Ring
<1> HIDE DEF r, q
<1>5. r # <<>>
  BY <1>0, <1>1
<1>6. /\ Head(r) = r[1] /\ Tail(r) \in Seq(Message) /\ Len(Tail(r)) = n - 1
      /\ \A k \in 1 .. n - 1 : Tail(r)[k] = r[k + 1]
  BY <1>0, <1>1, <1>5, HeadTailProperties
<1>7. \A k \in 1 .. n - 1 : q[k] \in Message
  BY <1>0, <1>1, <1>3, ElementOfSeq
<1>8. q \in Seq(Message)
  BY <1>0, <1>4, <1>7
<1>9. q = Tail(r)
  BY <1>1, <1>3, <1>6, <1>8, SeqEqual
<1> QED BY <1>2, <1>5, <1>6, <1>8, <1>9 DEF r, q

\* What the update of a send and of a receive does to the contents.
LEMMA PutRing ==
  ASSUME kind = "buffer", LockInv, BoardTypeOK, RingInv, PassInv,
         NEW t \in Thread, Update(t), Put(t)
  PROVE  RingInv' /\ \E m \in Message : Queue!Put(m)
<1>1. /\ pc[t] = "update" /\ Passing(t) /\ call[t].op = "send" /\ ~full
      /\ call[t].len = MsgSize /\ UNCHANGED <<kind, data>>
  BY DEF Update, At, Put, PassInv, Passing, MustWait
<1>2. PICK b \in Slots, e \in Slots : off_b = MsgSize * b /\ off_e = MsgSize * e
  BY DEF RingInv
<1>3. /\ off_b' = MsgSize * b /\ off_e' = MsgSize * After(e) /\ After(e) \in Slots
      /\ ~empty' /\ (full' <=> full \/ off_e' = off_b) /\ taken' = taken
  <2>1. 1 \in 1..MaxMessages
    BY BuffersAssumption
  <2>2. off_e' = MsgSize * After(e) /\ off_b' = MsgSize * b
    BY <1>1, <1>2, <2>1, OffsetFacts DEF Put, Past
  <2> QED BY <2>2, SlotFacts DEF Put
<1>4. off_e' = off_b' <=> After(e) = b
  BY <1>2, <1>3, SameSlot
<1>5. /\ Count = Between(b, e) /\ Count \in 0 .. MaxMessages - 1
      /\ Contents = Ring(data, b, Count)
  BY <1>1, <1>2, ContentsFacts, SlotFacts DEF Filled
<1>6. Count' = Count + 1 /\ Contents' = Ring(data, b, Count + 1)
  <2>1. Count' = Filled(full', b, After(e)) /\ Contents' = Ring(data', b, Count')
    BY <1>3, ContentsNext
  <2>2. Filled(full', b, After(e)) = Between(b, e) + 1
    BY <1>1, <1>3, <1>4, <1>2, RingEnds DEF Filled
  <2> QED BY <1>1, <1>5, <2>1, <2>2
<1>7. PICK m \in Message : \A w \in Words : local[t][w] = m
  BY <1>1 DEF Passing
<1>8. Text(data, MsgSize * Nth(b, Count + 1)) = m
  <2>1. \A w \in Words : data[off_e + w] = m
    <3>1. Where(t) = off_e /\ \A w \in Words : w < copied[t]
      BY <1>1, WordFacts DEF Passing, Where, Words
    <3> QED BY <1>1, <1>7, <3>1 DEF Passing
  <2>2. MsgSize * Nth(b, Count + 1) = off_e
    BY <1>2, <1>5, RingEnds
  <2> QED BY <2>1, <2>2, WordFacts DEF Text
<1>9. Contents' = Append(Contents, m) /\ Contents' \in Seq(Message) /\ Len(Contents) = Count
  BY <1>5, <1>6, <1>8, RingAppend, RingLength DEF RingInv
<1>10. Queue!Put(m)
  BY <1>3, <1>5, <1>9, SlotFacts DEF Queue!Put
<1>11. RingInv'
  <2>1. /\ full' => ~empty' /\ off_e' = off_b'
        /\ empty' => off_e' = off_b'
        /\ off_e' = off_b' => full' \/ empty'
    BY <1>1, <1>2, <1>3
  <2>2. kind' = "buffer" /\ DOMAIN data' = 0 .. Size + MsgSize - 1
    BY <1>1 DEF RingInv
  <2> QED BY <1>3, <1>9, <2>1, <2>2 DEF RingInv
<1> QED BY <1>10, <1>11

LEMMA TakeRing ==
  ASSUME kind = "buffer", LockInv, BoardTypeOK, RingInv, PassInv,
         NEW t \in Thread, Update(t), Take(t)
  PROVE  RingInv' /\ Queue!Take
<1>1. /\ pc[t] = "update" /\ Passing(t) /\ call[t].op = "receive" /\ ~empty
      /\ call[t].len = MsgSize /\ UNCHANGED <<kind, data>>
  BY DEF Update, At, Take, PassInv, Passing, MustWait
<1>2. PICK b \in Slots, e \in Slots : off_b = MsgSize * b /\ off_e = MsgSize * e
  BY DEF RingInv
<1>3. /\ off_e' = MsgSize * e /\ off_b' = MsgSize * After(b) /\ After(b) \in Slots
      /\ ~full' /\ (empty' <=> empty \/ off_b' = off_e) /\ taken' = local[t][0]
  <2>1. 1 \in 1..MaxMessages
    BY BuffersAssumption
  <2>2. off_b' = MsgSize * After(b) /\ off_e' = MsgSize * e
    BY <1>1, <1>2, <2>1, OffsetFacts DEF Take, Past
  <2> QED BY <2>2, SlotFacts DEF Take
<1>4. (off_b' = off_e' <=> After(b) = e) /\ (off_b = off_e <=> b = e)
  BY <1>2, <1>3, SameSlot
<1>5. /\ Count = Filled(full, b, e) /\ Count \in 0..MaxMessages
      /\ Contents = Ring(data, b, Count)
  BY <1>2, ContentsFacts
<1>6. Count \in 1..MaxMessages /\ Count' = Count - 1
      /\ Contents' = Ring(data, After(b), Count - 1)
  <2>1. Count' = Filled(full', After(b), e) /\ Contents' = Ring(data', After(b), Count')
    BY <1>3, ContentsNext
  <2>2. full <=> b = e
    BY <1>1, <1>4 DEF RingInv
  <2>3. Filled(full, b, e) > 0 /\ Between(After(b), e) = Filled(full, b, e) - 1
    <3>1. CASE b # e
      BY <2>2, <3>1, RingEnds DEF Filled
    <3>2. CASE b = e /\ After(b) # e
      BY <2>2, <3>2, RingEnds, SlotFacts DEF Filled
    <3>3. CASE b = e /\ After(b) = e
      <4>1. MaxMessages = 1 /\ Between(e, e) = 0
        BY <3>3, RingEnds, SlotFacts DEF Between
      <4> QED BY <2>2, <3>3, <4>1 DEF Filled
    <3> QED BY <3>1, <3>2, <3>3
  <2> QED BY <1>1, <1>3, <1>5, <2>1, <2>3 DEF Filled
<1>7. Contents # <<>> /\ Contents' = Tail(Contents) /\ Contents' \in Seq(Message)
      /\ Head(Contents) = Text(data, off_b) /\ Head(Contents) \in Message
  <2>1. Contents \in Seq(Message)
    BY DEF RingInv
  <2>2. /\ Contents # <<>> /\ Contents' = Tail(Contents)
        /\ Head(Contents) = Text(data, off_b)
    BY <1>2, <1>5, <1>6, <2>1, RingTail
  <2>3. Contents' \in Seq(Message) /\ Head(Contents) \in Message
    BY <2>1, <2>2, HeadTailProperties
  <2> QED BY <2>2, <2>3
<1>8. taken' = Head(Contents)
  <2>1. Text(data, off_b) = data[off_b + 0]
    BY <1>7, BuffersAssumption DEF Text
  <2>2. data[off_b + 0] = local[t][0]
    <3>1. Where(t) = off_b /\ 0 \in Words /\ 0 < copied[t]
      BY <1>1, WordFacts DEF Passing, Where
    <3> QED BY <1>1, <3>1 DEF Passing
  <2> QED BY <1>3, <1>7, <2>1, <2>2
<1>9. RingInv'
  <2>1. /\ full' => ~empty' /\ off_e' = off_b'
        /\ empty' => off_e' = off_b'
        /\ off_e' = off_b' => full' \/ empty'
    BY <1>1, <1>2, <1>3
  <2>2. kind' = "buffer" /\ DOMAIN data' = 0 .. Size + MsgSize - 1
    BY <1>1 DEF RingInv
  <2> QED BY <1>3, <1>7, <2>1, <2>2 DEF RingInv
<1> QED BY <1>7, <1>8, <1>9 DEF Queue!Take

LEMMA UpdateDone ==
  ASSUME kind = "buffer", LockInv, BoardTypeOK, PassInv, NEW t \in Thread, Update(t)
  PROVE  Inside(t) /\ Passing(t)'
<1>1. /\ pc[t] = "update" /\ pc'[t] = "unlock" /\ t \notin Q /\ Passing(t)
      /\ UNCHANGED callVars /\ Q' = Q
  BY DEF Update, At, GoTo, PassInv, LockInv, LockTypeOK, lockVars, Q
<1> QED BY <1>1 DEF Passing, Inside, Held, callVars

\* At a blackboard the ring is never touched, and holds nothing.
LEMMA BoardRing ==
  ASSUME kind # "buffer", LockInv, KindInv, RingInv, BoardTypeOK, NEW t \in Thread,
         Work(t) \/ \E c \in Calls, m \in Message : Enter(t, c, m)
  PROVE  RingInv' /\ Contents' = Contents /\ UNCHANGED <<kind, taken>>
<1>1. pc[t] \in {"user", "copy", "unlock"}
  BY DEF KindInv
<1>2. \/ Copy(t) \/ Leave(t) \/ \E c \in Calls, m \in Message : Enter(t, c, m)
  BY <1>1 DEF Work, Test, Wake, GiveUp, Update, Broadcast, At
<1>3. UNCHANGED <<ringVars, kind, taken>> /\ DOMAIN data' = DOMAIN data
  <2>1. CASE Copy(t)
    BY <2>1 DEF Copy
  <2> QED BY <1>2, <2>1 DEF Leave, Enter
<1>4. PICK b \in Slots, e \in Slots : off_b = MsgSize * b /\ off_e = MsgSize * e
  BY DEF RingInv
<1>5. Count = 0
  <2>1. empty /\ ~full /\ off_e = off_b
    BY DEF RingInv
  <2>2. b = e
    BY <1>4, <2>1, SameSlot
  <2>3. Between(b, e) = 0
    <3>1. b \in Nat
      BY SlotFacts
    <3> QED BY <2>2, <3>1 DEF Between
  <2> QED BY <1>4, <2>1, <2>3, ContentsFacts DEF Filled
<1>6. 1..Count = {}
  BY <1>5
<1>7. RingInv' /\ Contents' = Contents
  BY <1>3, <1>6, RingKept
<1> QED BY <1>3, <1>7

RingStep == RingInv' /\ (Queue!Next \/ UNCHANGED <<Contents, taken>>)

LEMMA BufferStep ==
  ASSUME Lengths = {MsgSize}, LockInv, KindInv, BoardTypeOK, RingInv, PassInv, [Next]_vars
  PROVE  PassInv' /\ RingStep
<1>1. CASE UNCHANGED vars
  <2>1. UNCHANGED <<ringVars, kind, data, taken>>
    BY <1>1 DEF vars
  <2>2. RingInv' /\ Contents' = Contents
    BY <2>1, RingKept
  <2>3. PassInv'
    BY <1>1 DEF PassInv, Passing, MustWait, Where, Q, vars, ringVars, lockVars, callVars
  <2> QED BY <2>1, <2>2, <2>3 DEF RingStep
<1>2. ASSUME kind = "buffer", NEW t \in Thread,
             Work(t) \/ \E c \in Calls, m \in Message : Enter(t, c, m)
      PROVE  PassInv' /\ RingStep
  <2>1. Aside(t) /\ UNCHANGED kind /\ LockSteps(t)
    BY <1>2, CallsAside
  <2>2. CASE Copy(t)
    <3>1. /\ UNCHANGED taken /\ Inside(t) /\ Passing(t)' /\ RingInv' /\ Contents' = Contents
      BY <1>2, <2>2, PassCopy
    <3> QED BY <1>2, <2>1, <3>1, PassAside DEF RingStep
  <2>3. CASE Update(t)
    <3>1. Inside(t) /\ Passing(t)'
      BY <1>2, <2>3, UpdateDone
    <3>2. PassInv'
      BY <1>2, <2>1, <3>1, PassAside
    <3>3. Put(t) \/ Take(t)
      BY <2>3 DEF Update
    <3>4. CASE Put(t)
      <4>1. RingInv' /\ \E m \in Message : Queue!Put(m)
        BY <1>2, <2>3, <3>4, PutRing
      <4>2. Queue!Next
        BY <4>1 DEF Queue!Next, Queue!Put
      <4> QED BY <3>2, <4>1, <4>2 DEF RingStep
    <3>5. CASE Take(t)
      <4>1. RingInv' /\ Queue!Take
        BY <1>2, <2>3, <3>5, TakeRing
      <4>2. Queue!Next
        BY <4>1 DEF Queue!Next, Queue!Take
      <4> QED BY <3>2, <4>1, <4>2 DEF RingStep
    <3> QED BY <3>3, <3>4, <3>5
  <2>4. CASE ~Copy(t) /\ ~Update(t)
    <3>1. UNCHANGED <<data, ringVars, taken>> /\ (pc'[t] # "user" => Passing(t)')
      BY <1>2, <2>4, PassElse
    <3>2. PassInv'
      BY <1>2, <2>1, <3>1, PassAside
    <3>3. RingInv' /\ Contents' = Contents
      BY <2>1, <3>1, RingKept
    <3> QED BY <3>1, <3>2, <3>3 DEF RingStep
  <2> QED BY <2>2, <2>3, <2>4
<1>3. ASSUME kind # "buffer", NEW t \in Thread,
             Work(t) \/ \E c \in Calls, m \in Message : Enter(t, c, m)
      PROVE  PassInv' /\ RingStep
  BY <1>3, BoardRing DEF PassInv, RingStep
<1> QED BY <1>1, <1>2, <1>3 DEF Next

LEMMA RingStart ==
  ASSUME Init
  PROVE  RingInv /\ PassInv /\ Queue!Init
<1>1. off_b = MsgSize * 0 /\ off_e = MsgSize * 0 /\ 0 \in Slots /\ empty /\ ~full
  <2>1. MsgSize * 0 = 0
    BY WordFacts
  <2> QED BY <2>1, SlotFacts DEF Init
<1>2. Count = 0
  <2>1. Between(0, 0) = 0
    BY SlotFacts DEF Between
  <2> QED BY <1>1, <2>1, ContentsFacts DEF Filled
<1>3. Contents = <<>>
  BY <1>1, <1>2, ContentsFacts, RingLength
<1>4. Contents \in Seq(Message)
  BY <1>3
<1>5. off_e = off_b /\ DOMAIN data = 0 .. Size + MsgSize - 1 /\ \A t \in Thread : pc[t] = "user"
  BY DEF Init
<1> QED BY <1>1, <1>3, <1>4, <1>5 DEF RingInv, PassInv, Queue!Init

\* A buffer of any length, written to and read by any number of threads, is a
\* bounded queue (pok_buffer_send and pok_buffer_receive): what is sent comes
\* out whole, once and in the order it was sent, and nothing is overwritten.
THEOREM BufferIsQueue ==
  ASSUME "receive" \notin Polls, Lengths = {MsgSize}
  PROVE  Spec => ImplementsBuffer
<1>1. Init => BoardTypeOK
  BY WordFacts DEF Init, BoardTypeOK, NoMessage
<1>2. RingStep => RingInv' /\ [Queue!Next]_Queue!vars
  BY DEF RingStep, Queue!vars
<1> QED BY <1>1, <1>2, RingStart, BufferStep, BoardTypeStep, KindInvariant, PTL
        DEF Spec, ImplementsBuffer, Queue!Spec

=============================================================================
