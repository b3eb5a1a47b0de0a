------------------------------- MODULE LockFifo ------------------------------
(***************************************************************************)
(* pok_lockobj_fifo_t (kernel/include/core/lockobj.h): the ring of         *)
(* POK_CONFIG_NB_THREADS entries that holds the threads blocked on a lock  *)
(* object, with the operations of kernel/core/lockobj.c on it.  Each       *)
(* action is one call, made under the object's spin lock.  The threads     *)
(* that can block are all but the kernel thread and the idle thread, and   *)
(* one that blocks is not in the queue: so the ring always has two free    *)
(* entries, which the priority discipline relies on without a check.       *)
(***************************************************************************)
EXTENDS Integers, FiniteSets, FiniteSetsExt, Functions

CONSTANTS Thread, Priority,
          NbThreads    \* POK_CONFIG_NB_THREADS

ASSUME RingAssumption ==
  /\ NbThreads \in Nat
  /\ IsFiniteSet(Thread)
  /\ Cardinality(Thread) <= NbThreads - 2

VARIABLES head, last, isEmpty, buffer,   \* the fields of the ring
          discipline,                    \* queueing_policy of the object
          priority,                      \* pok_threads[].priority
          result                         \* what the last call returned

vars == <<head, last, isEmpty, buffer, discipline, priority, result>>

Slot == 0 .. NbThreads - 1
After(i) == (i + 1) % NbThreads
Before(i) == IF i = 0 THEN NbThreads - 1 ELSE i - 1

\* The number of steps from slot i to slot j, going forward.
Distance(i, j) == (j - i + NbThreads) % NbThreads

Count == IF isEmpty THEN 0
         ELSE IF head = last THEN NbThreads ELSE Distance(head, last)

Contents == [i \in 1..Count |-> buffer[(head + i - 1) % NbThreads]]

\* pok_lockobj_fifo_init leaves the entries as they are.
Init ==
  /\ head = 0 /\ last = 0 /\ isEmpty = TRUE
  /\ \E t \in Thread : buffer = [i \in Slot |-> t]
  /\ discipline \in {"FIFO", "PRIORITY"}
  /\ priority \in [Thread -> Priority]
  /\ result = "OK"

ScanStopBehind(p) ==   \* mutant: an entry of equal priority stops the scan
  LET stops == {d \in 0 .. Distance(head, last) :
                  \/ d = Distance(head, last)
                  \/ priority[buffer[(head + d) % NbThreads]] <= p}
  IN (head + Min(stops)) % NbThreads

\* The entries a forward scan from head to last visits before it stops: all
\* those of priority at least p, up to the first that has less.
ScanStop(p) ==
  LET stops == {d \in 0 .. Distance(head, last) :
                  \/ d = Distance(head, last)
                  \/ priority[buffer[(head + d) % NbThreads]] < p}
  IN (head + Min(stops)) % NbThreads

EnqueueFifo(t) ==
  IF ~isEmpty /\ last = head
  THEN /\ result' = "FULL"
       /\ UNCHANGED <<last, isEmpty, buffer>>
  ELSE /\ buffer' = [buffer EXCEPT ![last] = t]
       /\ last' = After(last)
       /\ isEmpty' = FALSE
       /\ result' = "OK"

\* The entries from i to the end move one slot on, to make room for t at i.
EnqueueByPriority(t) ==
  LET i == ScanStop(priority[t])
      moved == {After((i + d) % NbThreads) : d \in 0 .. Distance(i, last) - 1}
  IN /\ buffer' = [j \in Slot |-> IF j = i THEN t
                                  ELSE IF j \in moved THEN buffer[Before(j)]
                                  ELSE buffer[j]]
     /\ last' = After(last)
     /\ isEmpty' = FALSE
     /\ result' = "OK"

Enqueue(t) ==
  /\ t \notin Range(Contents)
  /\ IF discipline = "FIFO" THEN EnqueueFifo(t) ELSE EnqueueByPriority(t)
  /\ UNCHANGED <<head, discipline, priority>>

DequeueForgetful ==   \* mutant: the ring is never marked empty
  /\ result' = IF isEmpty THEN "EMPTY" ELSE buffer[head]
  /\ head' = IF isEmpty THEN head ELSE After(head)
  /\ UNCHANGED <<last, isEmpty, buffer, discipline, priority>>

\* pok_lockobj_get_head, then pok_lockobj_dequeue.
Dequeue ==
  /\ IF isEmpty
     THEN /\ result' = "EMPTY"
          /\ UNCHANGED <<head, isEmpty>>
     ELSE /\ result' = buffer[head]
          /\ head' = After(head)
          /\ isEmpty' = (last = After(head))
  /\ UNCHANGED <<last, buffer, discipline, priority>>

\* The entries behind the one found close the gap.
RemoveThread(t) ==
  LET found == {d \in 0 .. Count - 1 : buffer[(head + d) % NbThreads] = t}
      at == (head + Min(found)) % NbThreads
      end == Before(last)
      moved == {(at + d) % NbThreads : d \in 0 .. Distance(at, end) - 1}
  IN /\ IF found = {}
        THEN /\ result' = "NOTFOUND"
             /\ UNCHANGED <<last, isEmpty, buffer>>
        ELSE /\ last' = end
             /\ buffer' = [j \in Slot |-> IF j \in moved THEN buffer[After(j)]
                                                         ELSE buffer[j]]
             /\ isEmpty' = (end = head)
             /\ result' = "OK"
     /\ UNCHANGED <<head, discipline, priority>>

\* pok_thread_set_priority does not look at the queues its thread is in.
SetPriority(t, p) ==
  /\ priority' = [priority EXCEPT ![t] = p]
  /\ UNCHANGED <<head, last, isEmpty, buffer, discipline, result>>

Next ==
  \/ \E t \in Thread : Enqueue(t) \/ RemoveThread(t)
  \/ Dequeue
  \/ \E t \in Thread, p \in Priority : SetPriority(t, p)

Spec == Init /\ [][Next]_vars

-----------------------------------------------------------------------------

\* The ring is never full: the refusal of the FIFO discipline is never met and
\* the insertion of the PRIORITY discipline, which has none, never overwrites
\* the thread at the head.
NeverFull == Count <= NbThreads - 2

\* The ring implements the abstract queue: every call, with its wrap-around
\* arithmetic and shifts, changes the contents as the sequence operators say
\* and returns the same result.
Queue == INSTANCE PriorityQueue WITH queue <- Contents
ImplementsQueue == Queue!Spec

=============================================================================
