------------------------------ MODULE MCLockObj ------------------------------
(***************************************************************************)
(* One small partition for LockObj: main, three threads and a lock object. *)
(* An event is a mutex that threads also wait for the event of, so it      *)
(* stands for both.                                                        *)
(***************************************************************************)
EXTENDS LockObj, TLC

MCObject == {"event", "semaphore"}
MCKind == "event" :> "EVENT" @@ "semaphore" :> "SEMAPHORE"
MCDiscipline == "event" :> "PRIORITY" @@ "semaphore" :> "FIFO"
MCInitialValue == [o \in MCObject |-> 1]
MCMaxValue == "event" :> 1 @@ "semaphore" :> 2
Unlimited == [t \in Thread |-> Infinite]

\* Each behaviour uses one of the objects; waits for the semaphore have no
\* timeouts.
Used == waitingFor[Main]

\* The threads are numbered by priority, of which the stopped main thread has
\* the lowest.  The next activations of threads without a period or a budget
\* play no part.
MCInit ==
  /\ Init
  /\ \A p \in Priority : priority[Main] <= p
  /\ \A t, u \in Thread : t <= u => priority[t] <= priority[u]
  /\ \A t \in Thread : Period[t] = Infinite => nextActivation[t] = Never

MCNext ==
  /\ Next
  /\ \A o \in Object \ {Used} :
       /\ value'[o] = value[o] /\ taken'[o] = taken[o]
       /\ waiters'[o] = waiters[o] /\ eventWaiters'[o] = eventWaiters[o]
  /\ Used = "semaphore" => deadline' = deadline

MCSpec == MCInit /\ [][MCNext]_vars
=============================================================================
