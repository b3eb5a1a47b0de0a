--------------------------- MODULE PartitionModes ---------------------------
(***************************************************************************)
(* The life of one partition: the initialisation modes, in which its main  *)
(* thread creates the others, the NORMAL mode, the error thread that       *)
(* handles faults, may stop or restart threads, and may stop the partition *)
(* or restart it: kernel/core/partition.c, error.c and thread.c, with the  *)
(* election of sched.c in every mode.                                      *)
(*                                                                         *)
(* System calls, faults and interrupts run with interrupts disabled: each  *)
(* is one action, up to the thread it switches to.  The time other         *)
(* partitions use passes in Tick.  Threads have no budgets (Threads has    *)
(* them) and no lock objects (LockObj has them); they are numbered from 1, *)
(* the partition not being the first of the system, because a partition    *)
(* whose main thread has number 0 takes it for its error thread.           *)
(***************************************************************************)
EXTENDS Integers, FiniteSets

CONSTANTS
  NThreads,     \* nthreads of the partition
  Policies,     \* the policies it may have: "RR" or "STATIC"
  PriorityOf,   \* of each thread, in the attributes it is created with
  PeriodOf,     \* likewise, or Infinite
  Delays,       \* the delays of sleeps and delayed starts
  MajorFrame,   \* POK_CONFIG_SCHEDULING_MAJOR_FRAME
  MaxLives,     \* bound: restarts of the partition
  MaxTime       \* bound: the clock stops there

Thread == 1..NThreads
Main == 1
NoThread == 0           \* thread_error without an error thread
Idle == NThreads + 1    \* IDLE_THREAD
Infinite == -1          \* INFINITE_TIME_VALUE
MaxPriority == 200      \* POK_THREAD_MAX_PRIORITY
ErrorPriority == 255    \* pok_sched_get_priority_max
ErrorPeriod == 100
Never == MaxTime + 1    \* a time no clock reaches: 2^64 - 1 or just below

ASSUME ModesAssumption ==
  /\ NThreads \in Nat \ {0}
  /\ Policies \subseteq {"RR", "STATIC"}
  /\ PriorityOf \in [Thread -> 1..MaxPriority]
  /\ PeriodOf \in [Thread -> {Infinite} \cup (Nat \ {0})]
  /\ PeriodOf[Main] = Infinite
  /\ Delays \subseteq Nat /\ MajorFrame \in Nat
  /\ MaxLives \in Nat /\ MaxTime \in Nat

VARIABLES
  policy,          \* sched_func of the partition
  mode,
  threadIndex,     \* thread_index: the threads created in this life
  errorThread,     \* thread_error
  current, prev,   \* current_thread and prev_thread of the partition
  running,         \* POK_SCHED_CURRENT_THREAD: the error thread is switched to
                   \* without becoming current
  state, priority, basePriority, period, wakeup, nextActivation,
                   \* fields of pok_threads
  now,
  \* History:
  lives,           \* restarts so far
  life,            \* of each thread: the life it was created in
  most,            \* the most threads created in a former life
  notBefore        \* of each thread: its start was delayed until then

electVars == <<current, prev, running, state, nextActivation>>
fieldVars == <<priority, basePriority, period, wakeup>>
configVars == <<policy, mode, threadIndex, errorThread>>
historyVars == <<lives, life, most, notBefore>>
vars == <<configVars, electVars, fieldVars, now, historyVars>>

InitModes == {"INIT_COLD", "INIT_WARM"}
Modes == InitModes \cup {"NORMAL", "STOPPED"}
ThreadStates == {"STOPPED", "RUNNABLE", "WAITING", "WAIT_NEXT_ACTIVATION",
                 "DELAYED_START"}

\* pok_partition_init and pok_thread_init, the main thread being the first one
\* the partition's first slot elects.
Init ==
  /\ policy \in Policies
  /\ mode = "INIT_WARM"
  /\ threadIndex = 1
  /\ errorThread = NoThread
  /\ current = Main /\ prev = Idle /\ running = Main
  /\ state = [t \in Thread |-> IF t = Main THEN "RUNNABLE" ELSE "STOPPED"]
  /\ priority = [t \in Thread |-> IF t = Main THEN 1 ELSE 0]
  /\ basePriority = priority
  /\ period = [t \in Thread |-> Infinite]
  /\ wakeup = [t \in Thread |-> 0]
  /\ nextActivation = [t \in Thread |-> IF t = Main THEN Never ELSE 0]
  /\ now = 0
  /\ lives = 0
  /\ life = [t \in Thread |-> 0]
  /\ most = 0
  /\ notBefore = [t \in Thread |-> 0]

-----------------------------------------------------------------------------
\* pok_elect_thread, on the states st and release times na its caller leaves.

Released(st, na) ==
  {t \in Thread : st[t] = "WAIT_NEXT_ACTIVATION" /\ na[t] <= now'}

Awake(st, na) ==
  [t \in Thread |-> IF \/ st[t] = "WAITING" /\ wakeup'[t] <= now'
                       \/ t \in Released(st, na)
                    THEN "RUNNABLE" ELSE st[t]]

NextRelease(t, time) == IF period'[t] = Infinite THEN Never ELSE time + period'[t]

\* Going forward from thread i, how far each thread is, i coming first or last.
Ahead(i) == [j \in Thread |-> (j - i + NThreads) % NThreads]
Behind(i) == [j \in Thread |-> (j - i - 1 + NThreads) % NThreads]

Nearest(ready, t, rank) == t \in ready /\ \A u \in ready : rank[t] <= rank[u]

\* Mutant: the scan ends before the thread it started from.
ElectsRRShort(t, ready, cur, prv) ==
  LET from == IF cur # Idle THEN cur ELSE IF prv # Idle THEN prv ELSE Main
  IN IF cur \in ready THEN t = cur
     ELSE IF ready \subseteq {from} THEN t = Idle
     ELSE Nearest(ready, t, Behind(from))

\* pok_sched_part_rr: without budgets a thread stays while it can run.
ElectsRR(t, ready, cur, prv) ==
  LET from == IF cur # Idle THEN cur ELSE IF prv # Idle THEN prv ELSE Main
  IN IF cur \in ready THEN t = cur
     ELSE IF ready = {} THEN t = Idle
     ELSE Nearest(ready, t, Behind(from))

\* pok_sched_part_static: the highest priority, the first one met on ties.
ElectsStatic(t, ready, cur, prv) ==
  LET from == IF prv = Idle THEN Main ELSE IF cur # Idle THEN cur ELSE prv
      best == {u \in ready : \A v \in ready : priority'[v] <= priority'[u]}
  IN IF ready = {} THEN t = Idle ELSE Nearest(best, t, Ahead(from))

\* Mutant: the policy elects in the initialisation modes as well.
ElectsAlways(t, ready, cur, prv) ==
  \/ mode' = "STOPPED" /\ t = Idle
  \/ mode' # "STOPPED" /\ policy = "RR" /\ ElectsRR(t, ready, cur, prv)
  \/ mode' # "STOPPED" /\ policy = "STATIC" /\ ElectsStatic(t, ready, cur, prv)

\* In the initialisation modes the main thread is elected, runnable or not.
Elects(t, ready, cur, prv) ==
  CASE mode' \in InitModes -> t = Main
    [] mode' = "NORMAL" ->
         IF cur = errorThread' /\ cur \in ready THEN t = cur
         ELSE IF policy = "RR" THEN ElectsRR(t, ready, cur, prv)
         ELSE ElectsStatic(t, ready, cur, prv)
    [] mode' = "STOPPED" -> t = Idle

\* pok_global_sched_thread, pok_sched_thread: the elected thread becomes
\* current and runs.
Reschedule(st, na, cur, prv) ==
  LET awake == Awake(st, na)
      ready == {t \in Thread : awake[t] = "RUNNABLE"}
  IN /\ state' = awake
     /\ nextActivation' = [t \in Thread |-> IF t \in Released(st, na)
                                            THEN NextRelease(t, na[t]) ELSE na[t]]
     /\ \E t \in Thread \cup {Idle} :
          /\ Elects(t, ready, cur, prv)
          /\ current' = t /\ running' = t
          /\ prev' = IF cur # t /\ cur # Idle THEN cur ELSE prv

\* The running thread's call leaves the states st and reschedules.
Leaving(st) ==
  /\ UNCHANGED <<configVars, now>>
  /\ Reschedule(st, nextActivation, current, prev)

Runs == running # Idle

\* The threads a program names in its calls: those it created in this life.
\* The identifier of the error thread was not returned to it.
Created == (1..threadIndex) \ {errorThread}

-----------------------------------------------------------------------------
\* pok_partition_thread_create, in the states it is called in: the attributes
\* go into the next free entry.
Create(t, per) ==
  /\ Runs
  /\ mode \in InitModes /\ t <= NThreads
  /\ threadIndex' = t
  /\ state' = [state EXCEPT ![t] = "RUNNABLE"]
  /\ period' = [period EXCEPT ![t] = per]
  /\ wakeup' = [wakeup EXCEPT ![t] = 0]
  /\ life' = [life EXCEPT ![t] = lives]
  /\ notBefore' = [notBefore EXCEPT ![t] = 0]
  /\ UNCHANGED <<policy, mode, current, prev, now, lives, most>>

CreateThread ==
  LET t == threadIndex + 1
  IN /\ Create(t, PeriodOf[t])
     /\ priority' = [priority EXCEPT ![t] = PriorityOf[t]]
     /\ basePriority' = [basePriority EXCEPT ![t] = PriorityOf[t]]
     /\ nextActivation' = [nextActivation EXCEPT ![t] = NextRelease(t, 0)]
     /\ UNCHANGED <<errorThread, running>>

\* pok_error_thread_create, which activates the new thread at once.  The period
\* among the attributes is not set; activation overwrites what came of it.
CreateErrorThread ==
  LET t == threadIndex + 1
  IN /\ errorThread = NoThread
     /\ Create(t, ErrorPeriod)
     /\ errorThread' = t /\ running' = t
     /\ priority' = [priority EXCEPT ![t] = ErrorPriority]
     /\ basePriority' = [basePriority EXCEPT ![t] = MaxPriority]
     /\ nextActivation' = [nextActivation EXCEPT ![t] = 0]

ActivatedPriority == MaxPriority   \* mutant: one that other threads may have

\* pok_sched_get_priority_max: above all others.
TopPriority == ErrorPriority

\* A thread raises an application error, faults, or makes a call that does not
\* exist: pok_sched_activate_error_thread switches to the error thread, past
\* the election.  Without an error thread nothing happens.
Raise ==
  /\ Runs /\ errorThread # NoThread
  /\ priority' = [priority EXCEPT ![errorThread] = TopPriority]
  /\ period' = [period EXCEPT ![errorThread] = ErrorPeriod]
  /\ nextActivation' = [nextActivation EXCEPT ![errorThread] = 0]
  /\ state' = [state EXCEPT ![errorThread] = "RUNNABLE"]
  /\ running' = errorThread
  /\ notBefore' = [notBefore EXCEPT ![errorThread] = 0]
  /\ UNCHANGED <<configVars, current, prev, basePriority, wakeup, now, lives, life, most>>

-----------------------------------------------------------------------------
\* Thread services; a call that gives a thread a new start, or the chance to
\* run, ends the delay it may have had.

StartTimeAbsolute(d) == d   \* mutant: the delay is taken for a time

StartTime(d) == now + d

\* pok_thread_delayed_start.  In NORMAL mode an aperiodic thread starts, or
\* waits; of a periodic one only the release time is set.  In the other modes
\* the delay is kept in wakeup.
DelayedStart(t, d) ==
  LET aperiodic == period[t] = Infinite
      normal == mode = "NORMAL"
      delayed == normal /\ aperiodic /\ d > 0
  IN /\ Runs
     /\ priority' = [priority EXCEPT ![t] = basePriority[t]]
     /\ wakeup' = [wakeup EXCEPT ![t] =
          IF delayed THEN StartTime(d) ELSE IF normal THEN @ ELSE d]
     /\ notBefore' = [notBefore EXCEPT ![t] = IF delayed THEN now + d ELSE 0]
     /\ UNCHANGED <<basePriority, period, lives, life, most>>
     /\ \/ /\ normal /\ aperiodic
           /\ Leaving([state EXCEPT ![t] = IF delayed THEN "WAITING" ELSE "RUNNABLE"])
        \/ /\ normal /\ ~aperiodic
           /\ nextActivation' = [nextActivation EXCEPT ![t] = StartTime(d)]
           /\ UNCHANGED <<configVars, now, current, prev, running, state>>
        \/ /\ ~normal
           /\ state' = [state EXCEPT ![t] = "DELAYED_START"]
           /\ UNCHANGED <<configVars, now, current, prev, running, nextActivation>>

\* pok_thread_suspend
Suspend ==
  /\ Runs
  /\ UNCHANGED <<fieldVars, historyVars>>
  /\ Leaving([state EXCEPT ![running] = "STOPPED"])

\* pok_thread_suspend_target: nothing is rescheduled.
SuspendTarget(t) ==
  /\ Runs /\ t # running
  /\ state' = [state EXCEPT ![t] = "STOPPED"]
  /\ UNCHANGED <<configVars, current, prev, running, nextActivation, fieldVars, now,
                 historyVars>>

\* pok_thread_resume
Resume(t) ==
  /\ Runs
  /\ wakeup' = [wakeup EXCEPT ![t] = now]
  /\ notBefore' = [notBefore EXCEPT ![t] = 0]
  /\ UNCHANGED <<priority, basePriority, period, lives, life, most>>
  /\ Leaving([state EXCEPT ![t] = "RUNNABLE"])

\* pok_thread_sleep
Sleep(d) ==
  /\ Runs
  /\ wakeup' = [wakeup EXCEPT ![running] = now + d]
  /\ UNCHANGED <<priority, basePriority, period, historyVars>>
  /\ Leaving([state EXCEPT ![running] = "WAITING"])

\* pok_sched_end_period
EndPeriod ==
  /\ Runs
  /\ UNCHANGED <<fieldVars, historyVars>>
  /\ Leaving([state EXCEPT ![running] = "WAIT_NEXT_ACTIVATION"])

\* pok_partition_stop_thread and pok_partition_restart_thread
StopThread(t) ==
  /\ Runs /\ running = errorThread
  /\ UNCHANGED <<fieldVars, historyVars>>
  /\ Leaving([state EXCEPT ![t] = "STOPPED"])

RestartThread(t) ==
  /\ Runs /\ running = errorThread
  /\ wakeup' = [wakeup EXCEPT ![t] = 0]
  /\ notBefore' = [notBefore EXCEPT ![t] = 0]
  /\ UNCHANGED <<priority, basePriority, period, lives, life, most>>
  /\ Leaving([state EXCEPT ![t] = "WAIT_NEXT_ACTIVATION"])

-----------------------------------------------------------------------------
\* pok_partition_set_mode_current, which only the main thread and the error
\* thread may call.

\* A delayed start ends at the change to NORMAL mode: a periodic thread with a
\* delay is released then, at a time counted from the start of the system;
\* the other threads start, an aperiodic one behind its delay.
SetNormal ==
  LET starting == {t \in Thread : state[t] = "DELAYED_START"}
      released == {t \in starting : period[t] # Infinite /\ wakeup[t] > 0}
      waiting == {t \in starting \ released : wakeup[t] > 0}
  IN /\ running = Main
     /\ mode' = "NORMAL"
     /\ wakeup' = [t \in Thread |-> IF t \in starting \ released
                                    THEN StartTime(wakeup[t]) ELSE wakeup[t]]
     /\ notBefore' = [t \in Thread |-> IF t \in waiting
                                       THEN now + wakeup[t] ELSE notBefore[t]]
     /\ UNCHANGED <<policy, threadIndex, errorThread, priority, basePriority, period,
                    now, lives, life, most>>
     /\ Reschedule([t \in Thread |->
                      IF t = Main THEN "STOPPED"
                      ELSE IF t \in released THEN "WAIT_NEXT_ACTIVATION"
                      ELSE IF t \in waiting THEN "WAITING"
                      ELSE IF t \in starting THEN "RUNNABLE" ELSE state[t]],
                   [t \in Thread |-> IF t \in released THEN wakeup[t] + MajorFrame
                                     ELSE nextActivation[t]],
                   current, prev)

SetStopped ==
  /\ Runs /\ running = errorThread
  /\ mode' = "STOPPED"
  /\ UNCHANGED <<policy, threadIndex, errorThread, fieldVars, now, historyVars>>
  /\ Reschedule(state, nextActivation, current, prev)

FirstIndexKept == threadIndex   \* mutant: thread_index is not reset

\* Of the new life: the main thread gets the first entry.
FirstIndex == 1

\* A restart, with pok_partition_reinit: the threads but main keep what they
\* have from the former life, and the error thread is none any more.
Restart(m) ==
  /\ Runs /\ running = errorThread
  /\ ~(mode = "INIT_COLD" /\ m = "INIT_WARM")
  /\ lives < MaxLives
  /\ mode' = m
  /\ threadIndex' = FirstIndex
  /\ errorThread' = NoThread
  /\ priority' = [priority EXCEPT ![Main] = 1]
  /\ basePriority' = [basePriority EXCEPT ![Main] = 1]
  /\ period' = [period EXCEPT ![Main] = Infinite]
  /\ wakeup' = [wakeup EXCEPT ![Main] = 0]
  /\ lives' = lives + 1
  /\ life' = [life EXCEPT ![Main] = lives + 1]
  /\ most' = IF threadIndex > most THEN threadIndex ELSE most
  /\ notBefore' = [t \in Thread |-> 0]
  /\ UNCHANGED <<policy, now>>
  /\ Reschedule([state EXCEPT ![Main] = "RUNNABLE"],
                [nextActivation EXCEPT ![Main] = Never], Main, Idle)

\* Time passes, a timer interrupt comes or the partition's next slot begins.
Tick ==
  /\ now < MaxTime
  /\ now' = now + 1
  /\ UNCHANGED <<configVars, fieldVars, historyVars>>
  /\ Reschedule(state, nextActivation, current, prev)

Next ==
  \/ CreateThread \/ CreateErrorThread \/ Raise
  \/ \E t \in Created : \/ SuspendTarget(t) \/ Resume(t)
                        \/ StopThread(t) \/ RestartThread(t)
                        \/ \E d \in Delays : DelayedStart(t, d)
  \/ Suspend \/ EndPeriod
  \/ \E d \in Delays : Sleep(d)
  \/ SetNormal \/ SetStopped
  \/ \E m \in InitModes : Restart(m)
  \/ Tick

Spec == Init /\ [][Next]_vars

-----------------------------------------------------------------------------
\* While the partition is initialised, after a restart too, only its main
\* thread runs, or the error thread, whatever other threads a former life left
\* runnable; once it is stopped nothing of it runs.
ModeRuns ==
  /\ mode \in InitModes => running \in {Main, errorThread}
  /\ mode = "STOPPED" => running = Idle

\* In NORMAL mode the running thread may run, and the processor idles only when
\* no thread may: through faults, stops and restarts of threads and a switch to
\* the error thread that the scheduler does not know of.
ReadyRuns ==
  mode = "NORMAL" =>
    IF Runs THEN state[running] = "RUNNABLE"
    ELSE \A t \in Thread : state[t] # "RUNNABLE"

\* An aperiodic thread whose start is delayed does not run before: the delay
\* counts from the change to NORMAL mode, or from the call in that mode.
DelayHonoured == mode = "NORMAL" /\ Runs => now >= notBefore[running]

\* The threads of all former lives were replaced: this life created as many as
\* any before.
AllReplaced == threadIndex >= most

\* After a restart that replaced all threads, no thread of a former life runs
\* in NORMAL mode.
FromScratch == mode = "NORMAL" /\ Runs /\ AllReplaced => life[running] = lives

\* Under the static policy, once it was activated in NORMAL mode, the error
\* thread keeps the processor until it gives it up itself: no interrupt brings
\* back the thread that failed.  The error thread of a former life must have
\* been replaced; it has the same priority.
ErrorKeepsProcessor ==
  [][/\ policy = "STATIC" /\ mode = "NORMAL" /\ AllReplaced
     /\ running = errorThread /\ now' # now
     => running' = errorThread]_vars
=============================================================================
