---------------------------- MODULE PriorityQueue ----------------------------
(***************************************************************************)
(* What a lock object's queue promises: a bounded sequence of distinct     *)
(* blocked threads.  The queue, its discipline, the priorities its entries *)
(* are ranked by and the result of the last operation are all there is to  *)
(* see.                                                                    *)
(***************************************************************************)
EXTENDS WaitQueue

CONSTANTS Thread,      \* the threads that may block
          Priority     \* the priority levels

VARIABLES queue, priority, discipline, result

vars == <<queue, priority, discipline, result>>

Init ==
  /\ queue = <<>>
  /\ priority \in [Thread -> Priority]
  /\ discipline \in Disciplines
  /\ result = "OK"

\* A running thread is about to block, so it is not in the queue yet.
Enqueue(t) ==
  /\ t \notin Queued(queue)
  /\ queue' = EnqueueIn(queue, t, priority, discipline)
  /\ result' = "OK"
  /\ UNCHANGED <<priority, discipline>>

Dequeue ==
  /\ IF queue = <<>> THEN UNCHANGED queue ELSE queue' = Tail(queue)
  /\ result' = IF queue = <<>> THEN "EMPTY" ELSE Head(queue)
  /\ UNCHANGED <<priority, discipline>>

RemoveThread(t) ==
  /\ queue' = Withdraw(queue, t)
  /\ result' = IF t \in Queued(queue) THEN "OK" ELSE "NOTFOUND"
  /\ UNCHANGED <<priority, discipline>>

SetPriority(t, p) ==
  /\ priority' = [priority EXCEPT ![t] = p]
  /\ UNCHANGED <<queue, discipline, result>>

Next ==
  \/ \E t \in Thread : Enqueue(t) \/ RemoveThread(t)
  \/ Dequeue
  \/ \E t \in Thread, p \in Priority : SetPriority(t, p)

Spec == Init /\ [][Next]_vars

=============================================================================
