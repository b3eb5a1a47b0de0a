------------------------------- MODULE Threads -------------------------------
(***************************************************************************)
(* The threads of one partition in NORMAL mode on one processor, and the   *)
(* scheduler that elects the one that runs: pok_elect_thread,              *)
(* pok_sched_thread and the three policies of kernel/core/sched.c, the     *)
(* thread services of kernel/core/thread.c that a partition calls, and the *)
(* timer interrupt of kernel/arch/x86/x86-qemu/pit.c.                      *)
(*                                                                         *)
(* System calls and interrupt handlers run with interrupts disabled, so    *)
(* each is one action; a call that blocks ends with the switch to the      *)
(* elected thread.  Threads are numbered from the partition's              *)
(* thread_index_low, which is 0; thread 0 is the main thread, stopped when *)
(* the partition entered NORMAL mode.                                      *)
(***************************************************************************)
EXTENDS Integers, FiniteSets

CONSTANTS
  NThreads,       \* nthreads of the partition, the main thread included
  Policies,       \* the policies a partition may have: "RR", "STATIC", "RMS"
  Priority,       \* the priority levels in use
  Capacity,       \* time_capacity of each thread, or Infinite
  Period,         \* period of each thread, or Infinite
  Delays,         \* the delays threads ask for
  Services,       \* the calls the program makes, sleeping apart
  Quantum,        \* timer interrupts between two scheduling points
  MaxTime         \* bound: the run stops there

Thread == 0 .. NThreads - 1
Main == 0
Idle == NThreads          \* IDLE_THREAD, always runnable, in no partition
ErrorThread == 0          \* no error handler was created: the field is 0
Infinite == -1            \* INFINITE_TIME_VALUE
Never == MaxTime + 1      \* next_activation after adding an infinite period:
                          \* 2^64 - 1 or just below, which no clock reaches

ASSUME ThreadAssumption ==
  /\ NThreads \in Nat \ {0}
  /\ Policies \subseteq {"RR", "STATIC", "RMS"}
  /\ Priority \subseteq Nat
  /\ Capacity \in [Thread -> {Infinite} \cup (Nat \ {0})]
  /\ Period \in [Thread -> {Infinite} \cup (Nat \ {0})]
  /\ Delays \subseteq Nat
  /\ Quantum \in Nat \ {0}
  /\ MaxTime \in Nat

\* Of two periods, as unsigned numbers: the infinite one is the longest.
NoLonger(p, q) == q = Infinite \/ (p # Infinite /\ p <= q)

PeriodsSorted(p, low, high) == \A t, u \in low .. high : t < u => NoLonger(p[t], p[u])

\* pok_thread_insert_sort, on the periods: the thread at high goes in front of
\* those just below it that have a longer one.
InsertSort(p, low, high) ==
  LET stop == CHOOSE j \in low - 1 .. high - 1 :
                /\ j < low \/ NoLonger(p[j], p[high])
                /\ \A k \in j + 1 .. high - 1 : ~NoLonger(p[k], p[high])
  IN [t \in DOMAIN p |-> IF t \in stop + 2 .. high THEN p[t - 1]
                         ELSE IF t = stop + 1 THEN p[high] ELSE p[t]]

\* Under the rate-monotonic policy each thread that was created behind the main
\* thread, and before the partition entered NORMAL mode, was inserted so.
ASSUME SortAssumption == "RMS" \in Policies => PeriodsSorted(Period, Main + 1, NThreads - 1)

VARIABLES
  policy,          \* sched_func of the partition, set up at boot
  now,             \* pok_tick_counter
  elapsed,         \* quantum_counter
  state, priority, remaining, wakeup, nextActivation,  \* fields of pok_threads
  current,         \* the running thread, current_thread of the partition
  prev             \* prev_thread of the partition

\* What no call changes.
clockVars == <<policy, now, elapsed>>
electVars == <<state, remaining, nextActivation, current, prev>>
threadVars == <<policy, now, elapsed, state, priority, remaining, wakeup,
                nextActivation, current, prev>>

ThreadStates == {"STOPPED", "RUNNABLE", "WAITING", "LOCK",
                 "WAIT_NEXT_ACTIVATION"}

ReleaseAfter(time, period) == IF period = Infinite THEN Never ELSE time + period

-----------------------------------------------------------------------------
\* pok_elect_thread, on the thread states st and budgets rem its caller leaves.

WokenLate(st) ==    \* mutant: a wait that ends now goes on
  {t \in Thread : st[t] = "WAITING" /\ wakeup'[t] < now'}
WokenEarly(st) ==   \* mutant: the wait ends a timer interrupt early
  {t \in Thread : st[t] = "WAITING" /\ wakeup'[t] <= now' + 1}

Woken(st) == {t \in Thread : st[t] = "WAITING" /\ wakeup'[t] <= now'}

Released(st) ==
  {t \in Thread : st[t] = "WAIT_NEXT_ACTIVATION" /\ nextActivation[t] <= now'}

Awake(st) == [t \in Thread |-> IF t \in Woken(st) \cup Released(st)
                               THEN "RUNNABLE" ELSE st[t]]

Refilled(st, rem) == [t \in Thread |-> IF t \in Released(st)
                                       THEN Capacity[t] ELSE rem[t]]

\* With thread_error at 0, a runnable thread 0 passes for the error thread and
\* keeps the processor.
KeepsProcessor(st) == current = ErrorThread /\ st[current] = "RUNNABLE"

\* The running thread pays for the time it had, or has overrun its budget.
Charged(st) == IF KeepsProcessor(st) THEN {}
               ELSE {current} \ {Idle, Main, ErrorThread}

Pay(st, rem) ==
  [t \in Thread |-> IF t \in Charged(st) /\ rem[t] > 0 THEN rem[t] - 1 ELSE rem[t]]

ExhaustNever(st, rem) == st   \* mutant: an exhausted thread stays runnable

Exhaust(st, rem) ==
  [t \in Thread |-> IF t \in Charged(st) /\ rem[t] <= 0 /\ Capacity[t] > 0
                    THEN "WAIT_NEXT_ACTIVATION" ELSE st[t]]

\* Going forward from thread i, how far each thread is; and the same when i
\* comes last instead of first.
Ahead(i) == [j \in Thread |-> IF j >= i THEN j - i ELSE j - i + NThreads]
Behind(i) == [j \in Thread |-> IF j > i THEN j - i - 1 ELSE j - i - 1 + NThreads]

Nearest(ready, t, rank) == \A u \in ready : rank[t] <= rank[u]

ElectsRRFromMain(t, ready, rem) ==   \* mutant: the scan starts at main
  IF current \in ready /\ (rem[current] > 0 \/ Capacity[current] = Infinite)
  THEN t = current
  ELSE Nearest(ready, t, Behind(Main))

\* pok_sched_part_rr: a runnable thread with budget left stays.
ElectsRR(t, ready, rem) ==
  LET from == IF current # Idle THEN current
              ELSE IF prev # Idle THEN prev ELSE Main
  IN IF /\ current \in ready
        /\ rem[current] > 0 \/ Capacity[current] = Infinite
     THEN t = current
     ELSE Nearest(ready, t, Behind(from))

\* pok_sched_part_static: the highest priority, the first one met on ties.
ElectsStatic(t, ready) ==
  LET from == IF prev = Idle THEN Main
              ELSE IF current # Idle THEN current ELSE prev
      best == {u \in ready : \A v \in ready : priority'[v] <= priority'[u]}
  IN t \in best /\ Nearest(best, t, Ahead(from))

ElectsRMSFromCurrent(t, ready) ==   \* mutant: the scan starts at the running one
  Nearest(ready, t, Behind(current))

\* pok_sched_part_rms: creation left the threads sorted by period behind the
\* main thread, which comes last.
ElectsRMS(t, ready) == Nearest(ready, t, Behind(Main))

ElectsBeforeWakeup(t, st, rem) ==   \* mutant: elected before the wake-ups
  LET ready == {u \in Thread : state[u] = "RUNNABLE" /\ st[u] = "RUNNABLE"}
  IN IF ready = {} THEN t = Idle ELSE t \in ready /\ Nearest(ready, t, Behind(Main))

Elects(t, st, rem) ==
  LET ready == {u \in Thread : st[u] = "RUNNABLE"}
  IN IF KeepsProcessor(st) THEN t = ErrorThread
     ELSE IF ready = {} THEN t = Idle
     ELSE /\ t \in ready
          /\ policy = "RR" => ElectsRR(t, ready, rem)
          /\ policy = "STATIC" => ElectsStatic(t, ready)
          /\ policy = "RMS" => ElectsRMS(t, ready)

\* pok_sched_thread, and pok_global_sched of a system with one partition.
Reschedule(st, rem) ==
  LET awake == Awake(st)
      refilled == Refilled(st, rem)
  IN /\ state' = Exhaust(awake, refilled)
     /\ remaining' = Pay(awake, refilled)
     /\ nextActivation' =
          [t \in Thread |-> IF t \in Released(st)
                            THEN ReleaseAfter(nextActivation[t], Period[t])
                            ELSE nextActivation[t]]
     /\ \E t \in Thread \cup {Idle} :
          /\ Elects(t, Exhaust(awake, refilled), Pay(awake, refilled))
          /\ current' = t
          /\ prev' = IF t # current /\ current # Idle THEN current ELSE prev

-----------------------------------------------------------------------------
\* NORMAL mode: the main thread has just stopped and the partition's threads
\* are ready, as pok_partition_set_mode leaves them before its reschedule.  A
\* thread created with period 0 has next_activation 0, one created with an
\* infinite period has Never.
ThreadInit ==
  /\ policy \in Policies
  /\ now = 0 /\ elapsed = 0
  /\ state = [t \in Thread |-> IF t = Main THEN "STOPPED" ELSE "RUNNABLE"]
  /\ priority \in [Thread -> Priority]
  /\ remaining = Capacity
  /\ wakeup = [t \in Thread |-> 0]
  /\ \E aperiodic \in {0, Never} :
       nextActivation = [t \in Thread |-> IF Period[t] = Infinite
                                          THEN aperiodic ELSE Period[t]]
  /\ current = Main
  /\ prev = Idle

Running == current # Idle /\ state[current] = "RUNNABLE"

\* pit_interrupt: the scheduler runs once per quantum.
Tick ==
  /\ Running \/ current = Idle
  /\ now < MaxTime
  /\ now' = now + 1
  /\ UNCHANGED <<policy, priority, wakeup>>
  /\ IF elapsed + 1 >= Quantum
     THEN elapsed' = elapsed + 1 - Quantum /\ Reschedule(state, remaining)
     ELSE elapsed' = elapsed + 1 /\ UNCHANGED electVars

\* pok_partition_set_mode to NORMAL ends by scheduling the partition.
EnterNormal ==
  /\ current = Main /\ state[Main] = "STOPPED"
  /\ UNCHANGED <<clockVars, priority, wakeup>>
  /\ Reschedule(state, remaining)

\* pok_thread_sleep
Sleep(d) ==
  /\ wakeup' = [wakeup EXCEPT ![current] = now + d]
  /\ UNCHANGED <<clockVars, priority>>
  /\ Reschedule([state EXCEPT ![current] = "WAITING"], remaining)

\* pok_thread_suspend
Suspend ==
  /\ "suspend" \in Services
  /\ UNCHANGED <<clockVars, priority, wakeup>>
  /\ Reschedule([state EXCEPT ![current] = "STOPPED"], remaining)

\* pok_sched_end_period
EndPeriod ==
  /\ "end_period" \in Services
  /\ UNCHANGED <<clockVars, priority, wakeup>>
  /\ Reschedule([state EXCEPT ![current] = "WAIT_NEXT_ACTIVATION"],
                [remaining EXCEPT ![current] = 0])

\* pok_thread_resume: whatever the thread was waiting for.
Resume(t) ==
  /\ "resume" \in Services
  /\ wakeup' = [wakeup EXCEPT ![t] = now]
  /\ UNCHANGED <<clockVars, priority>>
  /\ Reschedule([state EXCEPT ![t] = "RUNNABLE"], remaining)

\* pok_thread_suspend_target: no scheduling, the caller goes on.
SuspendTarget(t) ==
  /\ "suspend_target" \in Services
  /\ t # current
  /\ state' = [state EXCEPT ![t] = "STOPPED"]
  /\ UNCHANGED <<clockVars, priority, wakeup, remaining, nextActivation,
                 current, prev>>

SetPriorityQuietly(t, p) ==   \* mutant: the change waits for the next quantum
  /\ "set_priority" \in Services
  /\ priority' = [priority EXCEPT ![t] = p]
  /\ UNCHANGED <<clockVars, wakeup, electVars>>

\* pok_thread_set_priority
SetPriority(t, p) ==
  /\ "set_priority" \in Services
  /\ priority' = [priority EXCEPT ![t] = p]
  /\ UNCHANGED <<clockVars, wakeup>>
  /\ Reschedule(state, remaining)

\* What the running thread may ask of the scheduler.
Call ==
  \/ \E d \in Delays : Sleep(d)
  \/ Suspend
  \/ EndPeriod
  \/ \E t \in Thread : Resume(t) \/ SuspendTarget(t)
  \/ \E t \in Thread, p \in Priority : SetPriority(t, p)

ThreadNext == Tick \/ EnterNormal \/ (Running /\ Call)

ThreadSpec == ThreadInit /\ [][ThreadNext]_threadVars

-----------------------------------------------------------------------------
ThreadTypeOK ==
  /\ policy \in Policies
  /\ now \in 0..MaxTime /\ elapsed \in 0 .. Quantum - 1
  /\ state \in [Thread -> ThreadStates]
  /\ priority \in [Thread -> Priority]
  /\ remaining \in [Thread -> Nat \cup {Infinite}]
  /\ wakeup \in [Thread -> Nat]
  /\ nextActivation \in [Thread -> Nat]
  /\ current \in Thread \cup {Idle} /\ prev \in Thread \cup {Idle}

Ready == {t \in Thread : state[t] = "RUNNABLE"}

\* The processor never idles, at a timer interrupt or anywhere else, while a
\* thread of the partition could run: every service that readies a thread
\* also reschedules.
NoIdleWhileReady == current = Idle => Ready = {}

\* Under the static policy the running thread has the highest priority of all
\* runnable ones, whatever calls, wake-ups, releases and priority changes led
\* there.  A resumed main thread is the exception: with no error handler it
\* passes for the error thread and is not preempted.
HighestPriorityRuns ==
  policy = "STATIC" /\ Running /\ current # ErrorThread =>
    \A t \in Ready : priority[t] <= priority[current]

\* Under the rate-monotonic policy no runnable thread has a shorter period than
\* the one that runs.  The main thread is exempt: pok_sched_part_rms takes it
\* last whatever its period is and, resumed, it passes for the error thread and
\* keeps the processor.
ShortestPeriodRuns ==
  policy = "RMS" /\ Running /\ current # Main =>
    \A t \in Ready \ {Main} : NoLonger(Period[current], Period[t])

\* Every sleeper whose time has come was woken by the last scheduling point
\* at the latest: a timed wait lasts less than a quantum too long.
NoOversleep ==
  \A t \in Thread : state[t] = "WAITING" => wakeup[t] > now - elapsed

\* No sleeper is woken before its time, except by a call that resumes it,
\* which sets the time to now.
NoEarlyWakeup ==
  [][\A t \in Thread : state[t] = "WAITING" /\ state'[t] = "RUNNABLE"
                         => wakeup'[t] <= now']_threadVars
=============================================================================
