------------------------------ MODULE Allocator ------------------------------
(***************************************************************************)
(* The memory allocator of the user library, libpok/core/allocator.c: a    *)
(* table of spaces, in no order, that split when memory is allocated and   *)
(* merge with their neighbours when it is freed.  One thread calls it at a *)
(* time.  A call that returns NULL, or finds nothing to free, changes      *)
(* nothing and is left out.  A merge is a step per space it merges with.   *)
(***************************************************************************)
EXTENDS Integers, Sequences, SequencesExt

CONSTANTS
  MemorySize,   \* POK_CONFIG_ALLOCATOR_MEMORY_SIZE
  NbSpaces,     \* POK_CONFIG_ALLOCATOR_NB_SPACES
  Sizes,        \* the sizes the program asks for
  Orders,       \* "STACK" for a program that frees what it allocated last,
                \* "ANY" for one that frees in any order
  MaxLive,      \* bound: the blocks the program has at a time
  Beyond        \* what the word behind the table may read as, see Delete

Space == [start : 0..MemorySize, size : 0..MemorySize, allocated : BOOLEAN]
Unused == [start |-> 0, size |-> 0, allocated |-> FALSE]
Nothing == NbSpaces   \* no entry is merged

ASSUME AllocatorAssumption ==
  /\ MemorySize \in Nat \ {0}
  /\ NbSpaces \in Nat \ {0, 1, 2}
  /\ Sizes \subseteq Nat \ {0}
  /\ Orders \subseteq {"STACK", "ANY"}
  /\ MaxLive \in Nat
  /\ Beyond \subseteq Space

VARIABLES
  order,    \* the order the program frees its blocks in
  spaces,   \* pok_allocator_spaces, and the entry that would follow it
  used,     \* pok_allocator_used_spaces
  merging,  \* the entry pok_allocator_merge_space is called with, if it is
  live      \* history: the blocks the program has, in the order it got them

allocatorVars == <<order, spaces, used, merging, live>>

End(space) == space.start + space.size

\* POK_ALLOCATOR_CHECK_INIT, which the first call does.
AllocatorInit ==
  /\ order \in Orders
  /\ \E last \in Beyond :
       spaces = [i \in 0..NbSpaces |->
                   IF i = 0 THEN [Unused EXCEPT !.size = MemorySize]
                   ELSE IF i = NbSpaces THEN last ELSE Unused]
  /\ used = 1
  /\ merging = Nothing
  /\ live = <<>>

-----------------------------------------------------------------------------
SplitAtStart(i, n) ==   \* mutant: the rest starts where the block does
  [spaces EXCEPT ![i] = [@ EXCEPT !.size = n, !.allocated = TRUE],
                 ![used] = [start |-> spaces[i].start, size |-> spaces[i].size - n,
                            allocated |-> FALSE]]

\* The first n bytes of space i are allocated; the rest is a space of its own.
Split(i, n) ==
  [spaces EXCEPT ![i] = [@ EXCEPT !.size = n, !.allocated = TRUE],
                 ![used] = [start |-> spaces[i].start + n,
                            size |-> spaces[i].size - n, allocated |-> FALSE]]

TableFull == used >= NbSpaces - 1

\* pok_allocator_allocate: the first space that is large enough.
Allocate(n) ==
  LET fitting == {i \in 0 .. used - 1 : ~spaces[i].allocated /\ spaces[i].size >= n}
      i == Min(fitting)
  IN /\ Len(live) < MaxLive
     /\ merging = Nothing
     /\ ~TableFull
     /\ fitting # {}
     /\ live' = Append(live, [start |-> spaces[i].start, size |-> n])
     /\ IF spaces[i].size = n
        THEN /\ spaces' = [spaces EXCEPT ![i].allocated = TRUE]
             /\ UNCHANGED used
        ELSE /\ spaces' = Split(i, n)
             /\ used' = used + 1
     /\ UNCHANGED merging

\* pok_allocator_delete_space: the entries behind i move up, and the last one
\* takes what is read behind the table.
Delete(table, i) ==
  [j \in 0..NbSpaces |-> IF i <= j /\ j < NbSpaces THEN table[j + 1] ELSE table[j]]

GrowNothing(i, n) == spaces   \* mutant: the merged space is dropped

Grow(i, n) == [spaces EXCEPT ![i].size = @ + n]

TouchingAny(i) ==   \* mutant: allocated spaces merge as well
  {j \in 0 .. used - 1 :
     /\ j # i
     /\ \/ End(spaces[j]) = spaces[i].start
        \/ End(spaces[i]) = spaces[j].start}

\* The free spaces next to entry i.
Touching(i) ==
  {j \in 0 .. used - 1 :
     /\ j # i /\ ~spaces[j].allocated
     /\ \/ End(spaces[j]) = spaces[i].start
        \/ End(spaces[i]) = spaces[j].start}

\* One call of pok_allocator_merge_space: entry i merges with the first free
\* one, j, that it touches, and the merge goes on with entry j, whatever the
\* deletion has moved there.
Merge ==
  LET i == merging
      j == Min(Touching(i))
  IN /\ merging # Nothing
     /\ IF used = 1 \/ Touching(i) = {}
        THEN /\ merging' = Nothing
             /\ UNCHANGED <<spaces, used>>
        ELSE /\ spaces' = IF End(spaces[j]) = spaces[i].start
                          THEN Delete(Grow(j, spaces[i].size), i)
                          ELSE Delete(Grow(i, spaces[j].size), j)
             /\ used' = used - 1
             /\ merging' = j
     /\ UNCHANGED live

\* pok_allocator_free of the k-th block of the program, up to the merge.
Free(k) ==
  LET found == {i \in 0 .. used - 1 : spaces[i].start = live[k].start}
      i == Min(found)
  IN /\ merging = Nothing
     /\ order = "STACK" => k = Len(live)
     /\ live' = RemoveAt(live, k)
     /\ IF found = {}
        THEN UNCHANGED <<spaces, merging>>
        ELSE /\ spaces' = [spaces EXCEPT ![i].allocated = FALSE]
             /\ merging' = i
     /\ UNCHANGED used

AllocatorNext ==
  /\ UNCHANGED order
  /\ \/ \E n \in Sizes : Allocate(n)
     \/ \E k \in DOMAIN live : Free(k)
     \/ Merge

AllocatorSpec == AllocatorInit /\ [][AllocatorNext]_allocatorVars

-----------------------------------------------------------------------------
UsedSpaces == {spaces[i] : i \in 0 .. used - 1}

\* No two spaces of the table share memory, whatever was freed in which order.
SpacesDisjoint ==
  \A i, j \in 0 .. used - 1 :
    i # j => End(spaces[i]) <= spaces[j].start \/ End(spaces[j]) <= spaces[i].start

\* Every block of a program that frees in reverse order is an allocated space
\* of just its size: it is not given away again before the program frees it.
LiveIsAllocated ==
  order = "STACK" =>
    \A k \in DOMAIN live :
      [start |-> live[k].start, size |-> live[k].size, allocated |-> TRUE] \in UsedSpaces

\* A program that frees everything, the last block first, gets the whole memory
\* back in one piece.
WholeAgain ==
  order = "STACK" /\ live = <<>> /\ merging = Nothing =>
    [start |-> 0, size |-> MemorySize, allocated |-> FALSE] \in UsedSpaces
=============================================================================
