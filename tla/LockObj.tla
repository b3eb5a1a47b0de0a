------------------------------- MODULE LockObj -------------------------------
(***************************************************************************)
(* The lock objects of kernel/core/lockobj.c, by which the threads of a    *)
(* partition block one another: mutexes, counting semaphores and events    *)
(* with their mutex.  Each operation is the whole system call, up to the   *)
(* switch to another thread when it blocks or wakes one; a thread that     *)
(* blocked finishes its call (LockReturn, EventReturn) when the scheduler  *)
(* elects it again.  Threads are scheduled as in Threads.                  *)
(*                                                                         *)
(* The objects exist and are initialised: they are created before the      *)
(* partition enters NORMAL mode and never destroyed.  Their queues are     *)
(* sequences, which the ring of LockFifo implements.                       *)
(***************************************************************************)
EXTENDS Threads, WaitQueue

CONSTANTS
  Object,
  Kind,          \* of each object: "MUTEX", "SEMAPHORE" or "EVENT"
  Discipline,    \* of each object's queue: always "PRIORITY" for an event
  InitialValue,  \* of each object: 1 unless it is a semaphore
  MaxValue,      \* of each object: 1 unless it is a semaphore
  Timeouts,      \* the timeouts threads give, 0 for none
  OwnerReleases  \* the objects the program unlocks, or waits for the event of,
                 \* only after it locked them; the kernel does not check it

Kinds == {"MUTEX", "SEMAPHORE", "EVENT"}

ASSUME LockAssumption ==
  /\ Kind \in [Object -> Kinds]
  /\ Discipline \in [Object -> Disciplines]
  /\ InitialValue \in [Object -> Nat]
  /\ MaxValue \in [Object -> Nat \ {0}]
  /\ \A o \in Object : /\ InitialValue[o] <= MaxValue[o]
                       /\ Kind[o] # "SEMAPHORE" => InitialValue[o] = 1 /\ MaxValue[o] = 1
                       /\ Kind[o] = "EVENT" => Discipline[o] = "PRIORITY"
  /\ Timeouts \subseteq Nat
  /\ OwnerReleases \subseteq Object

VARIABLES
  value,         \* current_value: the number of available resources
  waiters,       \* fifo: the threads blocked on the object
  eventWaiters,  \* event_fifo: the threads waiting for the event
  pc,            \* where a thread is: in "user" code, or in the kernel behind
                 \* the pok_sched_thread of pok_lockobj_lock or _eventwait
  waitingFor,    \* the object of the call it is or was last in
  deadline,      \* the local variable of that call, 0 for none
  \* History:
  holders,       \* the threads whose lock returned OK and that did not unlock
  taken,         \* of each object: locks that returned OK less resources given
                 \* back, negative when the program gives more than it took
  owed,          \* the threads an unlock handed a resource, still in the call
  lost           \* of each object: resources handed to a thread that then found
                 \* its time to be over

callVars == <<pc, waitingFor, deadline>>
historyVars == <<holders, taken, owed, lost>>
lockVars == <<value, waiters, eventWaiters, callVars, historyVars>>
vars == <<threadVars, lockVars>>

InUser == Running /\ pc[current] = "user"

MayRelease(o) == o \in OwnerReleases => current \in holders[o]

ExpiredNever(t) == FALSE   \* mutant: the end of the wait is not looked at

Expired(t) == deadline[t] # 0 /\ now >= deadline[t]

Owed(o) == {t \in owed : waitingFor[t] = o}

Init ==
  /\ ThreadInit
  /\ value = InitialValue
  /\ waiters = [o \in Object |-> <<>>]
  /\ eventWaiters = [o \in Object |-> <<>>]
  /\ pc = [t \in Thread |-> "user"]
  /\ waitingFor \in {[t \in Thread |-> o] : o \in Object}
  /\ deadline = [t \in Thread |-> 0]
  /\ holders = [o \in Object |-> {}]
  /\ taken = [o \in Object |-> 0]
  /\ owed = {}
  /\ lost = [o \in Object |-> 0]

-----------------------------------------------------------------------------
\* The running thread enters the kernel's wait at where, for object o, with
\* timeout d, in a partition whose threads are otherwise in the states st.
Block(o, d, where, st) ==
  /\ pc' = [pc EXCEPT ![current] = where]
  /\ waitingFor' = [waitingFor EXCEPT ![current] = o]
  /\ deadline' = [deadline EXCEPT ![current] = IF d > 0 THEN now + d ELSE 0]
  /\ wakeup' = IF d > 0 THEN [wakeup EXCEPT ![current] = now + d] ELSE wakeup
  /\ UNCHANGED <<clockVars, priority>>
  /\ Reschedule([st EXCEPT ![current] = IF d > 0 THEN "WAITING" ELSE "LOCK"],
                remaining)

\* The running thread has locked o: what pok_lockobj_lock's OK means to it.
Acquire(o) ==
  /\ holders' = [holders EXCEPT ![o] = @ \cup {current}]
  /\ taken' = [taken EXCEPT ![o] = @ + 1]

\* pok_lockobj_lock, to the end or to the switch.
Lock(o, d) ==
  IF value[o] > 0
  THEN /\ value' = [value EXCEPT ![o] = @ - 1]
       /\ Acquire(o)
       /\ UNCHANGED <<threadVars, waiters, eventWaiters, callVars, owed, lost>>
  ELSE /\ waiters' = [waiters EXCEPT
                        ![o] = EnqueueIn(@, current, priority, Discipline[o])]
       /\ Block(o, d, "lock", state)
       /\ UNCHANGED <<value, eventWaiters, historyVars>>

\* pok_lockobj_lock behind its pok_sched_thread.  The clock decides, not the
\* reason the thread was made runnable for.
LockReturn ==
  LET o == waitingFor[current]
  IN /\ Running /\ pc[current] = "lock"
     /\ pc' = [pc EXCEPT ![current] = "user"]
     /\ deadline' = [deadline EXCEPT ![current] = 0]
     /\ owed' = owed \ {current}
     /\ IF Expired(current)
        THEN /\ waiters' = [waiters EXCEPT ![o] = Withdraw(@, current)]
             /\ lost' = IF current \in owed THEN [lost EXCEPT ![o] = @ + 1] ELSE lost
             /\ UNCHANGED <<holders, taken>>
        ELSE /\ Acquire(o)
             /\ UNCHANGED <<waiters, lost>>
     /\ UNCHANGED <<threadVars, value, eventWaiters, waitingFor>>

HandsOver(o) == value[o] = 0 /\ waiters[o] # <<>>

\* A semaphore at its maximum ignores the unlock.
Full(o) == value[o] = MaxValue[o]

ReleaseTwice(o) ==   \* mutant: handed over and available as well
  /\ IF HandsOver(o)
     THEN /\ waiters' = [waiters EXCEPT ![o] = Tail(@)]
          /\ owed' = owed \cup {Head(waiters[o])}
     ELSE UNCHANGED <<waiters, owed>>
  /\ value' = [value EXCEPT ![o] = IF Full(o) THEN @ ELSE @ + 1]
  /\ holders' = [holders EXCEPT ![o] = @ \ {current}]
  /\ taken' = [taken EXCEPT ![o] = IF Full(o) THEN @ ELSE @ - 1]
  /\ UNCHANGED lost

\* pok_lockobj_unlock but for its reschedule: a resource goes to the first
\* waiter, or becomes available.
Release(o) ==
  /\ IF HandsOver(o)
     THEN /\ waiters' = [waiters EXCEPT ![o] = Tail(@)]
          /\ owed' = owed \cup {Head(waiters[o])}
          /\ UNCHANGED value
     ELSE /\ value' = [value EXCEPT ![o] = IF Full(o) THEN @ ELSE @ + 1]
          /\ UNCHANGED <<waiters, owed>>
  /\ holders' = [holders EXCEPT ![o] = @ \ {current}]
  /\ taken' = [taken EXCEPT ![o] = IF Full(o) THEN @ ELSE @ - 1]
  /\ UNCHANGED lost

StateAfterRelease(o) ==
  IF HandsOver(o) THEN [state EXCEPT ![Head(waiters[o])] = "RUNNABLE"] ELSE state

Unlock(o) ==
  /\ MayRelease(o)
  /\ Release(o)
  /\ UNCHANGED <<clockVars, priority, wakeup, eventWaiters, callVars>>
  /\ IF HandsOver(o) THEN Reschedule(StateAfterRelease(o), remaining)
                     ELSE UNCHANGED electVars

\* pok_lockobj_eventwait, to the switch: the unlock it starts with does not
\* reschedule, as eventspin is held.
EventWait(o, d) ==
  /\ Kind[o] = "EVENT"
  /\ MayRelease(o)
  /\ Release(o)
  /\ eventWaiters' = [eventWaiters EXCEPT
                        ![o] = EnqueuePriority(@, current, priority)]
  /\ Block(o, d, "event", StateAfterRelease(o))

EventReturnHasty ==   \* mutant: the object is not locked again
  /\ Running /\ pc[current] = "event"
  /\ pc' = [pc EXCEPT ![current] = "user"]
  /\ deadline' = [deadline EXCEPT ![current] = 0]
  /\ Acquire(waitingFor[current])
  /\ UNCHANGED <<threadVars, value, waiters, eventWaiters, waitingFor, owed, lost>>

\* pok_lockobj_eventwait behind its pok_sched_thread: whatever woke the
\* thread, it locks the object again, without a timeout.
EventReturn ==
  LET o == waitingFor[current]
  IN /\ Running /\ pc[current] = "event"
     /\ eventWaiters' = IF Expired(current)
                        THEN [eventWaiters EXCEPT ![o] = Withdraw(@, current)]
                        ELSE eventWaiters
     /\ UNCHANGED <<owed, lost>>
     /\ IF value[o] > 0
        THEN /\ value' = [value EXCEPT ![o] = @ - 1]
             /\ Acquire(o)
             /\ pc' = [pc EXCEPT ![current] = "user"]
             /\ deadline' = [deadline EXCEPT ![current] = 0]
             /\ UNCHANGED <<threadVars, waiters, waitingFor>>
        ELSE /\ waiters' = [waiters EXCEPT
                              ![o] = EnqueueIn(@, current, priority, Discipline[o])]
             /\ Block(o, 0, "lock", state)
             /\ UNCHANGED <<value, holders, taken>>

\* pok_lockobj_eventsignal: NOTFOUND, and nothing done, when nobody waits.
EventSignal(o) ==
  /\ eventWaiters[o] # <<>>
  /\ eventWaiters' = [eventWaiters EXCEPT ![o] = Tail(@)]
  /\ UNCHANGED <<clockVars, priority, wakeup, value, waiters, callVars,
                 historyVars>>
  /\ Reschedule([state EXCEPT ![Head(eventWaiters[o])] = "RUNNABLE"], remaining)

EventBroadcastFirst(o) ==   \* mutant: the queue is emptied, its head readied
  /\ eventWaiters[o] # <<>>
  /\ eventWaiters' = [eventWaiters EXCEPT ![o] = <<>>]
  /\ UNCHANGED <<clockVars, priority, wakeup, value, waiters, callVars,
                 historyVars>>
  /\ Reschedule([state EXCEPT ![Head(eventWaiters[o])] = "RUNNABLE"], remaining)

\* pok_lockobj_eventbroadcast
EventBroadcast(o) ==
  /\ eventWaiters[o] # <<>>
  /\ eventWaiters' = [eventWaiters EXCEPT ![o] = <<>>]
  /\ UNCHANGED <<clockVars, priority, wakeup, value, waiters, callVars,
                 historyVars>>
  /\ Reschedule([t \in Thread |-> IF t \in Queued(eventWaiters[o])
                                  THEN "RUNNABLE" ELSE state[t]], remaining)

LockCall(o) ==
  \/ \E d \in Timeouts : Lock(o, d) \/ EventWait(o, d)
  \/ Unlock(o)
  \/ EventSignal(o)
  \/ EventBroadcast(o)

\* A thread that was switched to in the middle of a call finishes it with
\* interrupts disabled, before a timer interrupt is served.
Next ==
  \/ (current # Idle => pc[current] = "user") /\ Tick /\ UNCHANGED lockVars
  \/ EnterNormal /\ UNCHANGED lockVars
  \/ InUser /\ Call /\ UNCHANGED lockVars
  \/ InUser /\ \E o \in Object : LockCall(o)
  \/ LockReturn
  \/ EventReturn

Spec == Init /\ [][Next]_vars

-----------------------------------------------------------------------------
\* No semaphore exceeds its maximum, no other object the value 1.
LockTypeOK ==
  /\ ThreadTypeOK
  /\ value \in [Object -> Nat]
  /\ \A o \in Object : value[o] <= MaxValue[o]
  /\ waiters \in [Object -> Seq(Thread)]
  /\ eventWaiters \in [Object -> Seq(Thread)]
  /\ pc \in [Thread -> {"user", "lock", "event"}]
  /\ waitingFor \in [Thread -> Object]
  /\ deadline \in [Thread -> Nat]
  /\ holders \in [Object -> SUBSET Thread]
  /\ taken \in [Object -> Int]
  /\ owed \subseteq Thread
  /\ lost \in [Object -> Nat]

\* No thread is queued for an object that has resources available: the two
\* assertions of pok_lockobj_lock and pok_lockobj_unlock, across time-outs,
\* hand-overs and events that lock again.
FreeImpliesNoWaiter == \A o \in Object : value[o] > 0 => waiters[o] = <<>>

\* A mutex, or an event's mutex, that the program unlocks only while holding
\* it, is held by or on its way to at most one thread, and to none while it
\* is available, however its waiters time out.
MutualExclusion ==
  \A o \in OwnerReleases :
    Kind[o] # "SEMAPHORE" =>
      LET having == holders[o] \cup Owed(o)
      IN /\ \A t, u \in having : t = u
         /\ value[o] > 0 => having = {}

\* The resources of an object are available, taken, or on their way to a
\* thread an unlock chose, and none is created or lost, one way apart: one
\* that is handed to a thread whose time is over when it runs again.
Conservation ==
  \A o \in Object :
    value[o] + taken[o] + Cardinality(Owed(o)) + lost[o] = InitialValue[o]

\* A blocked thread is in exactly the queue that the unlock or signal it waits
\* for takes it from, once, whatever timed out or was broadcast in between:
\* no wake-up can miss it.
BlockedIsQueued ==
  \A t \in Thread, o \in Object :
    pc[t] # "user" /\ waitingFor[t] = o /\ state[t] \in {"LOCK", "WAITING"} =>
      LET queue == IF pc[t] = "lock" THEN waiters[o] ELSE eventWaiters[o]
      IN Cardinality({i \in 1..Len(queue) : queue[i] = t}) = 1

\* Every queued thread is in the call that queued it, so that no unlock or
\* signal is spent on a thread that does not wait any more.
QueuedIsWaiting ==
  \A o \in Object :
    /\ \A t \in Queued(waiters[o]) : pc[t] = "lock" /\ waitingFor[t] = o /\ t \notin owed
    /\ \A t \in Queued(eventWaiters[o]) : pc[t] = "event" /\ waitingFor[t] = o

\* An unlock hands the resource of an object with priority queueing, and a
\* signal gives the event, to a thread of the highest priority among those
\* that wait.  It takes priorities that do not change meanwhile.
GrantOrder ==
  [][/\ \A t \in owed' \ owed : Discipline[waitingFor[t]] = "PRIORITY" =>
          \A u \in Queued(waiters[waitingFor[t]]) : priority[u] <= priority[t]
     /\ \A o \in Object : \A t \in Queued(eventWaiters[o]) \ Queued(eventWaiters'[o]) :
          \A u \in Queued(eventWaiters'[o]) : priority[u] <= priority[t]
            \/ t = current]_vars

\* A mutex that is not available is held, or on its way to its holder: value 0
\* means locked.
LockedMeansHeld ==
  \A o \in OwnerReleases :
    Kind[o] # "SEMAPHORE" /\ value[o] = 0 => holders[o] \cup Owed(o) # {}
=============================================================================
