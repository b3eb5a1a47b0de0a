------------------------------ MODULE WaitQueue ------------------------------
(***************************************************************************)
(* The queues of blocked threads of a lock object, as sequences: what      *)
(* pok_lockobj_enqueue, pok_lockobj_dequeue and pok_lockobj_remove_thread  *)
(* (kernel/core/lockobj.c) do to the contents of a queue, whatever the     *)
(* ring buffer below it looks like.  LockFifo models that ring and is      *)
(* shown to implement these operators.                                     *)
(***************************************************************************)
EXTENDS Integers, Sequences, SequencesExt

\* pok_queueing_discipline_t
Disciplines == {"FIFO", "PRIORITY"}

\* Where a thread of priority p enters a priority queue: before the first
\* entry of strictly lower priority, hence behind its equals.
InsertPosition(queue, p, priority) ==
  Min({i \in 1..Len(queue) : priority[queue[i]] < p} \cup {Len(queue) + 1})

EnqueuePriority(queue, thread, priority) ==
  InsertAt(queue, InsertPosition(queue, priority[thread], priority), thread)

EnqueueInFifo(queue, thread, priority, discipline) ==   \* mutant
  Append(queue, thread)

EnqueueIn(queue, thread, priority, discipline) ==
  IF discipline = "FIFO" THEN Append(queue, thread)
                         ELSE EnqueuePriority(queue, thread, priority)

\* The queue without the first occurrence of thread, when there is one.
Withdraw(queue, thread) == RemoveFirst(queue, thread)

Queued(queue) == Range(queue)

=============================================================================
