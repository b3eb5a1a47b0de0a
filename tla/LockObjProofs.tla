---------------------------- MODULE LockObjProofs ----------------------------
(***************************************************************************)
(* Proofs about Threads and about LockObj, which extends it.               *)
(*                                                                         *)
(* Threads: every change of the running thread goes through Reschedule, so *)
(* each result is a lemma about Reschedule, for whatever states and        *)
(* budgets its caller leaves, and an induction over the calls.             *)
(*                                                                         *)
(* ThreadsHistory: how much of its budget a thread has used, from what is  *)
(* left of it; how long it waits under round robin, from who is between    *)
(* the running thread and it.                                              *)
(*                                                                         *)
(* LockObj: types and free objects for every program; then, for programs   *)
(* that wake no blocked thread by force, who is queued, who owns a mutex,  *)
(* that resources are neither lost nor made, and the order of the queues.  *)
(***************************************************************************)
EXTENDS LockObj, ThreadsHistory, WaitQueueProofs, FiniteSetTheorems

Budgets == [Thread -> Nat \cup {Infinite}]

LEMMA IdleIsNoThread == Idle \notin Thread /\ Main \in Thread
BY ThreadAssumption DEF Idle, Thread, Main

\* Reschedule keeps the types of what it changes.
LEMMA RescheduleTypes ==
  ASSUME ThreadTypeOK, now' \in Nat, wakeup' \in [Thread -> Nat]
  PROVE  \A st \in [Thread -> ThreadStates], rem \in Budgets :
           Reschedule(st, rem) =>
             /\ state' \in [Thread -> ThreadStates]
             /\ remaining' \in Budgets
             /\ nextActivation' \in [Thread -> Nat]
             /\ current' \in Thread \cup {Idle}
             /\ prev' \in Thread \cup {Idle}
<1> SUFFICES ASSUME NEW st \in [Thread -> ThreadStates], NEW rem \in Budgets,
                    Reschedule(st, rem)
             PROVE  /\ state' \in [Thread -> ThreadStates]
                    /\ remaining' \in Budgets
                    /\ nextActivation' \in [Thread -> Nat]
                    /\ current' \in Thread \cup {Idle}
                    /\ prev' \in Thread \cup {Idle}
  OBVIOUS
<1>1. Awake(st) \in [Thread -> ThreadStates]
  BY DEF Awake, ThreadStates
<1>2. Refilled(st, rem) \in Budgets
  BY ThreadAssumption DEF Refilled, Budgets
<1>3. state' \in [Thread -> ThreadStates]
  BY <1>1 DEF Reschedule, Exhaust, ThreadStates
<1>4. remaining' \in Budgets
  BY <1>2 DEF Reschedule, Pay, Budgets, Infinite
<1>5. nextActivation' \in [Thread -> Nat]
  BY ThreadAssumption DEF Reschedule, ReleaseAfter, Never, ThreadTypeOK, Infinite
<1>6. current' \in Thread \cup {Idle} /\ prev' \in Thread \cup {Idle}
  BY DEF Reschedule, ThreadTypeOK
<1> QED BY <1>3, <1>4, <1>5, <1>6

\* A step leaves well-typed clocks, priorities and wake-up times, and either
\* ends in Reschedule, which it calls with the sleepers still asleep but for
\* those it resumes, or readies nobody and leaves the running thread alone.
StepReschedules ==
  \E st \in [Thread -> ThreadStates], rem \in Budgets :
    /\ Reschedule(st, rem)
    /\ \A t \in Thread : state[t] = "WAITING" => st[t] = "WAITING" \/ wakeup'[t] <= now'

StepIsQuiet ==
  /\ state' \in [Thread -> ThreadStates]
  /\ \A t \in Thread : state'[t] = "RUNNABLE" => state[t] = "RUNNABLE"
  /\ current = Idle => state' = state
  /\ \A t \in Thread : state'[t] = "WAITING" => state[t] = "WAITING"
  /\ now' - elapsed' = now - elapsed
  /\ UNCHANGED <<priority, current, prev, remaining, nextActivation, wakeup>>

LEMMA StepShape ==
  ASSUME ThreadTypeOK, ThreadNext
  PROVE  /\ policy' = policy
         /\ now' \in 0..MaxTime /\ elapsed' \in 0 .. Quantum - 1
         /\ priority' \in [Thread -> Priority]
         /\ wakeup' \in [Thread -> Nat]
         /\ StepReschedules \/ StepIsQuiet
<1> USE DEF ThreadTypeOK, Budgets
<1>1. CASE Tick
  <2>1. now' \in 0..MaxTime /\ elapsed' \in 0 .. Quantum - 1
    BY <1>1, ThreadAssumption DEF Tick
  <2>2. CASE elapsed + 1 >= Quantum
    BY <1>1, <2>1, <2>2 DEF Tick, StepReschedules
  <2>3. CASE ~(elapsed + 1 >= Quantum)
    BY <1>1, <2>1, <2>3, ThreadAssumption DEF Tick, StepIsQuiet, electVars
  <2> QED BY <2>2, <2>3
<1>2. CASE EnterNormal
  BY <1>2 DEF EnterNormal, clockVars, StepReschedules
<1>3. CASE Running /\ Call
  <2> USE <1>3 DEF Running, clockVars
  <2>c. current \in Thread /\ now \in Nat
    BY ThreadAssumption
  <2>1. CASE \E d \in Delays : Sleep(d)
    <3> PICK d \in Delays : Sleep(d)
      BY <2>1
    <3>1. [state EXCEPT ![current] = "WAITING"] \in [Thread -> ThreadStates]
      BY DEF ThreadStates
    <3>2. wakeup' \in [Thread -> Nat]
      BY <2>c, ThreadAssumption DEF Sleep
    <3> QED BY <3>1, <3>2 DEF Sleep, StepReschedules
  <2>2. CASE Suspend
    <3>1. [state EXCEPT ![current] = "STOPPED"] \in [Thread -> ThreadStates]
      BY DEF ThreadStates
    <3> QED BY <2>2, <3>1 DEF Suspend, StepReschedules
  <2>3. CASE EndPeriod
    <3>1. [state EXCEPT ![current] = "WAIT_NEXT_ACTIVATION"]
            \in [Thread -> ThreadStates]
      BY DEF ThreadStates
    <3>2. [remaining EXCEPT ![current] = 0] \in Budgets
      OBVIOUS
    <3> QED BY <2>3, <3>1, <3>2 DEF EndPeriod, StepReschedules
  <2>4. CASE \E t \in Thread : Resume(t)
    <3> PICK t \in Thread : Resume(t)
      BY <2>4
    <3>1. [state EXCEPT ![t] = "RUNNABLE"] \in [Thread -> ThreadStates]
      BY DEF ThreadStates
    <3>2. wakeup' \in [Thread -> Nat]
      BY <2>c DEF Resume
    <3>3. wakeup'[t] = now /\ now' = now
      BY DEF Resume
    <3>4. \A u \in Thread : state[u] = "WAITING" =>
            [state EXCEPT ![t] = "RUNNABLE"][u] = "WAITING" \/ wakeup'[u] <= now'
      BY <3>3, <2>c
    <3> QED BY <3>1, <3>2, <3>4 DEF Resume, StepReschedules
  <2>5. CASE \E t \in Thread : SuspendTarget(t)
    BY <2>5, ThreadAssumption DEF SuspendTarget, StepIsQuiet, ThreadStates
  <2>6. CASE \E t \in Thread, p \in Priority : SetPriority(t, p)
    BY <2>6 DEF SetPriority, StepReschedules
  <2> QED BY <1>3, <2>1, <2>2, <2>3, <2>4, <2>5, <2>6 DEF Call
<1> QED BY <1>1, <1>2, <1>3 DEF ThreadNext

LEMMA ThreadTypeStep ==
  ASSUME ThreadTypeOK, [ThreadNext]_threadVars
  PROVE  ThreadTypeOK'
<1>1. CASE ThreadNext
  <2>1. /\ policy' = policy
        /\ now' \in 0..MaxTime /\ elapsed' \in 0 .. Quantum - 1
        /\ priority' \in [Thread -> Priority]
        /\ wakeup' \in [Thread -> Nat]
        /\ StepReschedules \/ StepIsQuiet
    BY <1>1, StepShape
  <2>2. CASE StepReschedules
    <3>1. now' \in Nat
      BY <2>1, ThreadAssumption
    <3>2. /\ state' \in [Thread -> ThreadStates]
          /\ remaining' \in Budgets
          /\ nextActivation' \in [Thread -> Nat]
          /\ current' \in Thread \cup {Idle}
          /\ prev' \in Thread \cup {Idle}
      BY <2>1, <2>2, <3>1, RescheduleTypes DEF StepReschedules
    <3> QED BY <2>1, <3>2 DEF ThreadTypeOK, Budgets
  <2>3. CASE StepIsQuiet
    BY <2>1, <2>3 DEF StepIsQuiet, ThreadTypeOK
  <2> QED BY <2>1, <2>2, <2>3
<1>2. CASE UNCHANGED threadVars
  BY <1>2 DEF threadVars, ThreadTypeOK
<1> QED BY <1>1, <1>2

\* The fields and clocks of the threads keep their types: no budget becomes
\* negative but by being infinite.
THEOREM ThreadTypeCorrect == ThreadSpec => []ThreadTypeOK
<1>1. ThreadInit => ThreadTypeOK
  BY ThreadAssumption, IdleIsNoThread
     DEF ThreadInit, ThreadTypeOK, ThreadStates, Never, Infinite
<1>2. ThreadTypeOK /\ [ThreadNext]_threadVars => ThreadTypeOK'
  BY ThreadTypeStep
<1> QED BY <1>1, <1>2, PTL DEF ThreadSpec

-----------------------------------------------------------------------------
\* Where the insertion stops: above every longer period, and no higher.
LEMMA SortStops ==
  ASSUME NEW low \in Nat \ {0}, NEW high \in Nat, low <= high, NEW p
  PROVE  \E j \in low - 1 .. high - 1 :
           /\ j < low \/ NoLonger(p[j], p[high])
           /\ \A k \in j + 1 .. high - 1 : ~NoLonger(p[k], p[high])
<1> DEFINE Ends(j) == j < low \/ NoLonger(p[j], p[high])
           Steps == {d \in 0 .. high - low : Ends(high - 1 - d)}
<1>1. high - low \in Steps
  <2>1. high - low \in 0 .. high - low /\ high - 1 - (high - low) < low
    OBVIOUS
  <2> QED BY <2>1
<1>2. Steps \in SUBSET Nat
  OBVIOUS
<1>3. PICK m \in Steps : \A d \in Steps : m <= d
  <2> HIDE DEF Steps
  <2>1. Min(Steps) \in Steps /\ \A y \in Steps : Min(Steps) <= y
    BY <1>1, <1>2, MinBelongs
  <2> QED BY <2>1
<1>4. Ends(high - 1 - m) /\ m \in 0 .. high - low
  BY <1>3
<1>5. ASSUME NEW k \in high - m .. high - 1
      PROVE  ~Ends(k)
  <2>1. high - 1 - k \in 0 .. high - low /\ high - 1 - k < m /\ high - 1 - (high - 1 - k) = k
    BY <1>4
  <2>2. high - 1 - k \notin Steps
    <3> HIDE DEF Steps
    <3>1. Steps \in SUBSET Nat /\ high - 1 - k \in Nat /\ m \in Nat
      BY <1>2, <1>4, <2>1
    <3> QED BY <1>3, <2>1, <3>1
  <2> HIDE DEF Ends
  <2> QED BY <2>1, <2>2
<1>6. /\ high - 1 - m \in low - 1 .. high - 1
      /\ \A k \in (high - 1 - m) + 1 .. high - 1 : k \in high - m .. high - 1
  BY <1>4
<1> QED BY <1>4, <1>5, <1>6

\* The insertion of a thread by its period leaves the periods of the threads
\* behind the main thread sorted, as SortAssumption takes them to be
\* (pok_thread_insert_sort, called by pok_thread_create).
THEOREM CreationSorts ==
  ASSUME NEW low \in Nat \ {0}, NEW high \in Nat, low <= high, NEW S, low .. high \subseteq S,
         NEW p \in [S -> {Infinite} \cup Nat], PeriodsSorted(p, low, high - 1)
  PROVE  PeriodsSorted(InsertSort(p, low, high), low, high)
<1> DEFINE Stops(j) == /\ j < low \/ NoLonger(p[j], p[high])
                       /\ \A k \in j + 1 .. high - 1 : ~NoLonger(p[k], p[high])
           stop == CHOOSE j \in low - 1 .. high - 1 : Stops(j)
<1>1. stop \in low - 1 .. high - 1 /\ Stops(stop)
  <2>1. \E j \in low - 1 .. high - 1 : Stops(j)
    BY SortStops
  <2> HIDE DEF Stops
  <2> QED BY <2>1
<1>2. \A t \in low .. high :
        InsertSort(p, low, high)[t] = IF t \in stop + 2 .. high THEN p[t - 1]
                                      ELSE IF t = stop + 1 THEN p[high] ELSE p[t]
  <2>1. \A t \in low .. high : t \in DOMAIN p
    OBVIOUS
  <2> HIDE DEF stop
  <2>2. stop = CHOOSE j \in low - 1 .. high - 1 : Stops(j)
    BY DEF stop
  <2> QED BY <2>1, <2>2 DEF InsertSort
<1> HIDE DEF stop
<1> PICK j \in low - 1 .. high - 1 : j = stop
  BY <1>1
<1>3. /\ j < low \/ NoLonger(p[j], p[high])
      /\ \A k \in j + 1 .. high - 1 : ~NoLonger(p[k], p[high])
  BY <1>1
<1>4. \A t \in low .. high : p[t] = Infinite \/ p[t] \in Nat
  OBVIOUS
<1>5. \A t, u \in low .. high - 1 : t < u => NoLonger(p[t], p[u])
  BY DEF PeriodsSorted
<1> HIDE DEF Stops
<1>6. ASSUME NEW t \in low .. high, NEW u \in low .. high, t < u
      PROVE  NoLonger(InsertSort(p, low, high)[t], InsertSort(p, low, high)[u])
  <2>1. CASE u <= j
    BY <1>2, <1>5, <1>6, <2>1
  <2>2. CASE u = j + 1
    <3>1. t \in low .. j /\ j \in low .. high - 1 /\ NoLonger(p[j], p[high])
      BY <1>3, <1>6, <2>2
    <3>2. NoLonger(p[t], p[high])
      BY <1>4, <1>5, <3>1 DEF NoLonger
    <3> QED BY <1>2, <2>2, <3>1, <3>2
  <2>3. CASE u > j + 1
    <3>1. u - 1 \in low .. high - 1 /\ InsertSort(p, low, high)[u] = p[u - 1]
      BY <1>2, <2>3
    <3>2. CASE t <= j
      BY <1>2, <1>5, <2>3, <3>1, <3>2
    <3>3. CASE t = j + 1
      <4>1. ~NoLonger(p[u - 1], p[high])
        BY <1>3, <1>6, <3>1, <3>3
      <4>2. NoLonger(p[high], p[u - 1])
        BY <1>4, <3>1, <4>1 DEF NoLonger
      <4> QED BY <1>2, <3>1, <3>3, <4>2
    <3>4. CASE t > j + 1
      <4>1. InsertSort(p, low, high)[t] = p[t - 1] /\ t - 1 \in low .. high - 1 /\ t - 1 < u - 1
        BY <1>2, <1>6, <3>4
      <4> QED BY <1>5, <3>1, <4>1
    <3> QED BY <3>2, <3>3, <3>4
  <2> QED BY <2>1, <2>2, <2>3
<1> QED BY <1>6 DEF PeriodsSorted

\* What Reschedule elects, in terms of the states it leaves.
LEMMA ReschedulePolicy ==
  ASSUME ThreadTypeOK, StepReschedules, policy' = policy
  PROVE  /\ NoIdleWhileReady'
         /\ (policy = "STATIC" /\ Running /\ current # ErrorThread =>
               \A t \in Ready : priority[t] <= priority[current])'
         /\ ShortestPeriodRuns'
<1> PICK st \in [Thread -> ThreadStates], rem \in Budgets : Reschedule(st, rem)
  BY DEF StepReschedules
<1> DEFINE Left == Exhaust(Awake(st), Refilled(st, rem))
           Budget == Pay(Awake(st), Refilled(st, rem))
           Able == {u \in Thread : Left[u] = "RUNNABLE"}
<1>1. state' = Left /\ Elects(current', Left, Budget)
  BY DEF Reschedule
<1>2. Ready' = Able
  BY <1>1 DEF Ready
<1> HIDE DEF Left, Budget
<1>3. \/ KeepsProcessor(Left) /\ current' = ErrorThread
      \/ Able = {} /\ current' = Idle
      \/ /\ current' \in Able
         /\ policy = "STATIC" => ElectsStatic(current', Able)
         /\ policy = "RMS" => ElectsRMS(current', Able)
  BY <1>1 DEF Elects
<1>4. NoIdleWhileReady'
  BY <1>2, <1>3, IdleIsNoThread DEF NoIdleWhileReady, ErrorThread, Main
<1>5. (policy = "STATIC" /\ Running /\ current # ErrorThread =>
         \A t \in Ready : priority[t] <= priority[current])'
  BY <1>2, <1>3 DEF Running, ElectsStatic
<1>6. ShortestPeriodRuns'
  <2> SUFFICES ASSUME (policy = "RMS" /\ Running /\ current # Main)',
                      NEW t \in Able \ {Main}
               PROVE  NoLonger(Period[current'], Period[t])
    BY <1>2 DEF ShortestPeriodRuns
  <2>1. current' \in Able /\ ElectsRMS(current', Able)
    BY <1>3 DEF Running, ErrorThread, Main
  <2>2. Behind(Main)[current'] <= Behind(Main)[t]
    BY <2>1 DEF ElectsRMS, Nearest
  <2>3. current' \in 1..NThreads - 1 /\ t \in 1..NThreads - 1
    BY <2>1, ThreadAssumption DEF Thread, Main
  <2>4. current' <= t
    BY <2>1, <2>2, <2>3 DEF Behind, Main
  <2>5. policy' \in Policies
    BY DEF ThreadTypeOK
  <2>6. PeriodsSorted(Period, 1, NThreads - 1)
    BY <2>5, SortAssumption DEF Main
  <2>7. CASE current' = t
    BY <2>3, <2>7, ThreadAssumption DEF NoLonger, Thread
  <2>8. CASE current' # t
    BY <2>3, <2>4, <2>6, <2>8 DEF PeriodsSorted
  <2> QED BY <2>7, <2>8
<1> QED BY <1>4, <1>5, <1>6

PolicyInv ==
  ThreadTypeOK /\ NoIdleWhileReady /\ HighestPriorityRuns /\ ShortestPeriodRuns

LEMMA PolicyInvariant == ThreadSpec => []PolicyInv
<1>1. ThreadInit => NoIdleWhileReady /\ HighestPriorityRuns /\ ShortestPeriodRuns
  BY IdleIsNoThread
     DEF ThreadInit, NoIdleWhileReady, HighestPriorityRuns, ShortestPeriodRuns,
         Main, ErrorThread
<1>2. ThreadTypeOK /\ PolicyInv /\ [ThreadNext]_threadVars /\ ThreadTypeOK'
        => PolicyInv'
  <2> SUFFICES ASSUME PolicyInv, [ThreadNext]_threadVars, ThreadTypeOK'
               PROVE  PolicyInv'
    OBVIOUS
  <2> USE DEF PolicyInv
  <2>0. ThreadNext => policy' = policy
    BY StepShape
  <2>1. CASE ThreadNext /\ StepReschedules
    BY <2>0, <2>1, ReschedulePolicy DEF HighestPriorityRuns
  <2>2. CASE ThreadNext /\ StepIsQuiet
    <3>1. Ready' \subseteq Ready
      BY <2>2 DEF StepIsQuiet, Ready
    <3>2. Running' => Running
      BY <2>2 DEF StepIsQuiet, Running, ThreadTypeOK
    <3>3. NoIdleWhileReady'
      BY <2>2, <3>1 DEF StepIsQuiet, NoIdleWhileReady
    <3>4. HighestPriorityRuns'
      BY <2>0, <2>2, <3>1, <3>2 DEF StepIsQuiet, HighestPriorityRuns
    <3>5. ShortestPeriodRuns'
      BY <2>0, <2>2, <3>1, <3>2 DEF StepIsQuiet, ShortestPeriodRuns
    <3> QED BY <3>3, <3>4, <3>5
  <2>3. CASE UNCHANGED threadVars
    BY <2>3 DEF threadVars, NoIdleWhileReady, HighestPriorityRuns,
                ShortestPeriodRuns, Running, Ready
  <2> QED BY <2>1, <2>2, <2>3, StepShape
<1> QED BY <1>1, <1>2, ThreadTypeCorrect, PTL DEF ThreadSpec, PolicyInv

\* Whatever the policy, no thread that could run waits behind the idle thread.
THEOREM NeverIdleWhileReady == ThreadSpec => []NoIdleWhileReady
BY PolicyInvariant, PTL DEF PolicyInv

\* Fixed-priority scheduling is preemptive at every call and interrupt.
THEOREM HighestPriorityAlwaysRuns == ThreadSpec => []HighestPriorityRuns
BY PolicyInvariant, PTL DEF PolicyInv

\* So is rate-monotonic scheduling.
THEOREM ShortestPeriodAlwaysRuns == ThreadSpec => []ShortestPeriodRuns
BY PolicyInvariant, PTL DEF PolicyInv

-----------------------------------------------------------------------------
\* Every sleeper was looked at by the last scheduling point.
THEOREM SleepersWokenInTime == ThreadSpec => []NoOversleep
<1>1. ThreadInit => NoOversleep
  BY DEF ThreadInit, NoOversleep
<1>2. ThreadTypeOK /\ ThreadTypeOK' /\ NoOversleep /\ [ThreadNext]_threadVars
        => NoOversleep'
  <2> SUFFICES ASSUME ThreadTypeOK, ThreadTypeOK', NoOversleep,
                      [ThreadNext]_threadVars,
                      NEW t \in Thread, state'[t] = "WAITING"
               PROVE  wakeup'[t] > now' - elapsed'
    BY DEF NoOversleep
  <2>1. now \in Nat /\ elapsed \in Nat /\ now' \in Nat /\ elapsed' \in Nat
    BY ThreadAssumption DEF ThreadTypeOK
  <2>2. wakeup' \in [Thread -> Nat]
    BY DEF ThreadTypeOK
  <2>3. CASE ThreadNext /\ StepReschedules
    <3> PICK st \in [Thread -> ThreadStates], rem \in Budgets : Reschedule(st, rem)
      BY <2>3 DEF StepReschedules
    <3>1. Awake(st)[t] = "WAITING"
      BY DEF Reschedule, Exhaust
    <3>2. st[t] = "WAITING" /\ t \notin Woken(st)
      BY <3>1 DEF Awake
    <3>3. ~(wakeup'[t] <= now')
      BY <3>2 DEF Woken
    <3> QED BY <3>3, <2>1, <2>2
  <2>4. CASE ThreadNext /\ StepIsQuiet
    BY <2>4, <2>1, <2>2 DEF StepIsQuiet, NoOversleep
  <2>5. CASE UNCHANGED threadVars
    BY <2>5 DEF threadVars, NoOversleep
  <2> QED BY <2>3, <2>4, <2>5, StepShape
<1> QED BY <1>1, <1>2, ThreadTypeCorrect, PTL DEF ThreadSpec

\* No step wakes a sleeper before its time, one that resumes it apart.
THEOREM SleepersSleep == ThreadSpec => NoEarlyWakeup
<1> DEFINE WakesInTime ==
      \A t \in Thread : state[t] = "WAITING" /\ state'[t] = "RUNNABLE"
                           => wakeup'[t] <= now'
<1>1. ThreadTypeOK /\ ThreadNext => WakesInTime
  <2> SUFFICES ASSUME ThreadTypeOK, ThreadNext, NEW t \in Thread,
                      state[t] = "WAITING", state'[t] = "RUNNABLE",
                      ~(wakeup'[t] <= now')
               PROVE  FALSE
    OBVIOUS
  <2>1. CASE StepReschedules
    <3> PICK st \in [Thread -> ThreadStates], rem \in Budgets :
               Reschedule(st, rem) /\ st[t] = "WAITING"
      BY <2>1 DEF StepReschedules
    <3>1. Awake(st)[t] = "WAITING"
      BY DEF Awake, Woken, Released
    <3> QED BY <3>1 DEF Reschedule, Exhaust
  <2>2. CASE StepIsQuiet
    BY <2>2 DEF StepIsQuiet
  <2> QED BY <2>1, <2>2, StepShape
<1>2. ThreadTypeOK /\ [ThreadNext]_threadVars => [WakesInTime]_threadVars
  BY <1>1
<1> QED BY <1>2, ThreadTypeCorrect, PTL DEF ThreadSpec, NoEarlyWakeup

-----------------------------------------------------------------------------
(***************************************************************************)
(* How long a thread runs on one budget.  What it has run and what it has  *)
(* left add up to its budget at most, until nothing is left: then it may   *)
(* run one more quantum, and waits for its next activation after that, or  *)
(* is stopped.  The main thread is stopped until it is resumed.            *)
(***************************************************************************)
Within(t, budget, left, st) ==
  /\ left \in Nat /\ used[t] \in Nat
  /\ left > 0 => used[t] + left <= budget
  /\ used[t] <= budget + 1
  /\ used[t] = budget + 1 => left = 0 /\ st \in {"WAIT_NEXT_ACTIVATION", "STOPPED"}

BudgetInv ==
  /\ state[Main] = "STOPPED" /\ used[Main] = 0
  /\ \A t \in Thread \ {Main} :
       Capacity[t] # Infinite => Within(t, Capacity[t], remaining[t], state[t])

NobodyResumed == "resume" \notin Services

\* What a step records of a thread.
UsedNext(t) ==
  used'[t] = IF nextActivation'[t] # nextActivation[t] THEN 0
             ELSE IF QuantumEnds /\ t = current THEN used[t] + 1 ELSE used[t]

LEMMA RescheduleWithin ==
  ASSUME ThreadTypeOK, now' \in 0..MaxTime, NEW t \in Thread \ {Main}, Capacity[t] # Infinite,
         NEW st \in [Thread -> ThreadStates], NEW rem \in Budgets, Reschedule(st, rem),
         Within(t, Capacity[t], rem[t], st[t]), UsedNext(t),
         QuantumEnds /\ t = current => used[t] <= Capacity[t]
  PROVE  Within(t, Capacity[t], remaining[t], state[t])'
<1> DEFINE c == Capacity[t]
<1>1. c \in Nat \ {0}
  BY ThreadAssumption
<1>2. CASE t \in Released(st)
  <2>1. nextActivation'[t] # nextActivation[t]
    <3>1. nextActivation[t] \in Nat /\ nextActivation[t] <= now'
      BY <1>2 DEF Released, ThreadTypeOK
    <3>2. nextActivation'[t] = ReleaseAfter(nextActivation[t], Period[t])
      BY <1>2 DEF Reschedule
    <3>3. ReleaseAfter(nextActivation[t], Period[t]) > nextActivation[t]
      BY <3>1, ThreadAssumption DEF ReleaseAfter, Never, Infinite
    <3> QED BY <3>1, <3>2, <3>3
  <2>2. used'[t] = 0
    BY <2>1 DEF UsedNext
  <2>3. remaining'[t] \in Nat /\ remaining'[t] <= c
    BY <1>1, <1>2 DEF Reschedule, Pay, Refilled
  <2> QED BY <1>1, <2>2, <2>3 DEF Within
<1>3. CASE t \notin Released(st)
  <2>1. nextActivation'[t] = nextActivation[t]
    BY <1>3 DEF Reschedule
  <2>2. used'[t] = IF QuantumEnds /\ t = current THEN used[t] + 1 ELSE used[t]
    BY <2>1 DEF UsedNext
  <2>3. Refilled(st, rem)[t] = rem[t]
    BY <1>3 DEF Refilled
  <2>4. st[t] \in {"WAIT_NEXT_ACTIVATION", "STOPPED"} => Awake(st)[t] = st[t]
    BY <1>3 DEF Awake, Woken
  <2>5. CASE t \in Charged(Awake(st))
    <3>1. CASE rem[t] > 0
      <4>1. remaining'[t] = rem[t] - 1
        BY <2>3, <2>5, <3>1 DEF Reschedule, Pay
      <4>2. used'[t] + remaining'[t] <= c /\ used'[t] \in Nat /\ remaining'[t] \in Nat
        BY <1>1, <2>2, <3>1, <4>1 DEF Within
      <4> QED BY <1>1, <4>2 DEF Within
    <3>2. CASE ~(rem[t] > 0)
      <4>1. remaining'[t] = rem[t] /\ state'[t] = "WAIT_NEXT_ACTIVATION"
        <5>1. rem[t] \in Nat
          BY DEF Within
        <5> QED BY <1>1, <2>3, <2>5, <3>2, <5>1 DEF Reschedule, Pay, Exhaust
      <4>2. used'[t] \in Nat /\ used'[t] <= c + 1
        BY <1>1, <2>2, <3>2 DEF Within
      <4> QED BY <3>2, <4>1, <4>2 DEF Within
    <3> QED BY <3>1, <3>2
  <2>6. CASE t \notin Charged(Awake(st))
    <3>1. t # current
      BY <2>6, IdleIsNoThread DEF Charged, KeepsProcessor, ErrorThread, Main
    <3>2. remaining'[t] = rem[t] /\ state'[t] = Awake(st)[t] /\ used'[t] = used[t]
      BY <2>2, <2>3, <2>6, <3>1 DEF Reschedule, Pay, Exhaust
    <3> QED BY <2>4, <3>2 DEF Within
  <2> QED BY <2>5, <2>6
<1> QED BY <1>2, <1>3

LEMMA BudgetStep ==
  ASSUME NobodyResumed, ThreadTypeOK, BudgetInv, HistoryNext
  PROVE  BudgetInv'
<1>0. /\ ThreadNext /\ \A t \in Thread : UsedNext(t)
      /\ now' \in 0..MaxTime /\ ThreadTypeOK' /\ Main \in Thread
  BY StepShape, ThreadTypeStep, IdleIsNoThread DEF HistoryNext, UsedNext
<1>1. ASSUME NEW st \in [Thread -> ThreadStates], NEW rem \in Budgets, Reschedule(st, rem),
             QuantumEnds => Running \/ current = Idle, st[Main] = "STOPPED",
             \A t \in Thread \ {Main} :
               Capacity[t] # Infinite => Within(t, Capacity[t], rem[t], st[t])
      PROVE  BudgetInv'
  <2>1. state'[Main] = "STOPPED" /\ nextActivation'[Main] = nextActivation[Main]
    <3>1. Awake(st)[Main] = "STOPPED" /\ Main \notin Released(st)
      BY <1>0, <1>1 DEF Awake, Woken, Released
    <3>2. Main \notin Charged(Awake(st))
      BY DEF Charged
    <3> QED BY <1>0, <1>1, <3>1, <3>2 DEF Reschedule, Exhaust
  <2>2. used'[Main] = 0
    <3>1. ~(QuantumEnds /\ Main = current)
      BY <1>0, <1>1, IdleIsNoThread DEF BudgetInv, Running
    <3> QED BY <1>0, <2>1, <3>1 DEF UsedNext, BudgetInv
  <2>3. ASSUME NEW t \in Thread \ {Main}, Capacity[t] # Infinite
        PROVE  Within(t, Capacity[t], remaining[t], state[t])'
    <3>1. QuantumEnds /\ t = current => used[t] <= Capacity[t]
      <4> SUFFICES ASSUME QuantumEnds, t = current PROVE used[t] <= Capacity[t]
        OBVIOUS
      <4>1. state[t] = "RUNNABLE"
        BY <1>1, IdleIsNoThread DEF Running
      <4>2. Within(t, Capacity[t], remaining[t], state[t]) /\ Capacity[t] \in Nat
        BY <2>3, ThreadAssumption DEF BudgetInv
      <4> QED BY <4>1, <4>2 DEF Within
    <3> QED BY <1>0, <1>1, <2>3, <3>1, RescheduleWithin
  <2> QED BY <2>1, <2>2, <2>3 DEF BudgetInv
<1>2. CASE Tick
  <2>1. QuantumEnds => Running \/ current = Idle
    BY <1>2 DEF Tick
  <2>2. state \in [Thread -> ThreadStates] /\ remaining \in Budgets
    BY DEF ThreadTypeOK, Budgets
  <2>3. CASE elapsed + 1 >= Quantum
    BY <1>1, <1>2, <2>1, <2>2, <2>3 DEF Tick, BudgetInv
  <2>4. CASE ~(elapsed + 1 >= Quantum)
    <3>1. UNCHANGED electVars /\ ~QuantumEnds
      BY <1>2, <2>4 DEF Tick, QuantumEnds
    <3>2. \A t \in Thread : used'[t] = used[t]
      BY <1>0, <3>1 DEF UsedNext, electVars
    <3> QED BY <1>0, <3>1, <3>2 DEF BudgetInv, Within, electVars
  <2> QED BY <2>3, <2>4
<1>3. ASSUME now' = now PROVE ~QuantumEnds
  BY <1>3 DEF QuantumEnds
<1>4. CASE EnterNormal
  <2>1. state \in [Thread -> ThreadStates] /\ remaining \in Budgets
    BY DEF ThreadTypeOK, Budgets
  <2> QED BY <1>1, <1>3, <1>4, <2>1 DEF EnterNormal, clockVars, BudgetInv
<1>5. CASE Running /\ Call
  <2>0. /\ current \in Thread \ {Main} /\ state[current] = "RUNNABLE"
        /\ state \in [Thread -> ThreadStates] /\ remaining \in Budgets
    BY <1>5 DEF Running, BudgetInv, ThreadTypeOK, Budgets
  <2>1. ASSUME NEW x \in ThreadStates, Reschedule([state EXCEPT ![current] = x], remaining),
               now' = now
        PROVE  BudgetInv'
    <3> DEFINE st == [state EXCEPT ![current] = x]
    <3>1. st \in [Thread -> ThreadStates] /\ st[Main] = "STOPPED"
      BY <1>0, <2>0 DEF BudgetInv
    <3>2. ASSUME NEW t \in Thread \ {Main}, Capacity[t] # Infinite
          PROVE  Within(t, Capacity[t], remaining[t], st[t])
      <4>1. Within(t, Capacity[t], remaining[t], state[t])
        BY <3>2 DEF BudgetInv
      <4>2. CASE t = current
        BY <2>0, <4>1, <4>2 DEF Within
      <4>3. CASE t # current
        BY <2>0, <4>1, <4>3
      <4> QED BY <4>2, <4>3
    <3> HIDE DEF st
    <3>3. Reschedule(st, remaining)
      BY <2>1 DEF st
    <3> QED BY <1>1, <1>3, <2>0, <2>1, <3>1, <3>2, <3>3
  <2>2. CASE \E d \in Delays : Sleep(d)
    BY <2>1, <2>2 DEF Sleep, clockVars, ThreadStates
  <2>3. CASE Suspend
    BY <2>1, <2>3 DEF Suspend, clockVars, ThreadStates
  <2>4. CASE EndPeriod
    <3> DEFINE st == [state EXCEPT ![current] = "WAIT_NEXT_ACTIVATION"]
               rem == [remaining EXCEPT ![current] = 0]
    <3>1. st \in [Thread -> ThreadStates] /\ st[Main] = "STOPPED" /\ rem \in Budgets
      BY <1>0, <2>0 DEF BudgetInv, ThreadStates, Budgets
    <3>2. ASSUME NEW t \in Thread \ {Main}, Capacity[t] # Infinite
          PROVE  Within(t, Capacity[t], rem[t], st[t])
      <4>1. Within(t, Capacity[t], remaining[t], state[t])
        BY <3>2 DEF BudgetInv
      <4>2. CASE t = current
        BY <2>0, <4>1, <4>2 DEF Within, Budgets
      <4>3. CASE t # current
        BY <2>0, <4>1, <4>3 DEF Budgets
      <4> QED BY <4>2, <4>3
    <3>3. Reschedule(st, rem) /\ now' = now
      BY <2>4 DEF EndPeriod, clockVars
    <3> HIDE DEF st, rem
    <3> QED BY <1>1, <1>3, <3>1, <3>2, <3>3
  <2>5. CASE \E t \in Thread : Resume(t)
    BY <2>5 DEF Resume, NobodyResumed
  <2>6. CASE \E t \in Thread : SuspendTarget(t)
    <3> PICK u \in Thread : SuspendTarget(u)
      BY <2>6
    <3>1. /\ \A t \in Thread : used'[t] = used[t]
          /\ remaining' = remaining /\ state' = [state EXCEPT ![u] = "STOPPED"]
      BY <1>0, <1>3 DEF SuspendTarget, UsedNext, clockVars
    <3>2. \A t \in Thread : state'[t] = state[t] \/ state'[t] = "STOPPED"
      BY <2>0, <3>1
    <3> QED BY <1>0, <3>1, <3>2 DEF BudgetInv, Within
  <2>7. CASE \E t \in Thread, p \in Priority : SetPriority(t, p)
    BY <1>1, <1>3, <2>0, <2>7 DEF SetPriority, clockVars, BudgetInv
  <2> QED BY <1>5, <2>2, <2>3, <2>4, <2>5, <2>6, <2>7 DEF Call
<1> QED BY <1>0, <1>2, <1>4, <1>5 DEF ThreadNext

LEMMA HistoryTypes == HistorySpec => ThreadSpec
<1>1. [HistoryNext]_runVars => [ThreadNext]_threadVars
  BY DEF HistoryNext, runVars
<1>2. HistoryInit => ThreadInit
  BY DEF HistoryInit
<1> QED BY <1>1, <1>2, PTL DEF HistorySpec, ThreadSpec

LEMMA BudgetsKept == NobodyResumed => (HistorySpec => []BudgetInv)
<1>1. HistoryInit => BudgetInv
  <2> SUFFICES ASSUME HistoryInit PROVE BudgetInv
    OBVIOUS
  <2> USE DEF HistoryInit, ThreadInit
  <2>1. state[Main] = "STOPPED" /\ used[Main] = 0
    BY IdleIsNoThread
  <2>2. ASSUME NEW t \in Thread \ {Main}, Capacity[t] # Infinite
        PROVE  Within(t, Capacity[t], remaining[t], state[t])
    <3>1. used[t] = 0 /\ remaining[t] = Capacity[t] /\ Capacity[t] \in Nat \ {0}
      BY <2>2, ThreadAssumption
    <3> QED BY <3>1 DEF Within
  <2> QED BY <2>1, <2>2 DEF BudgetInv
<1>2. NobodyResumed /\ ThreadTypeOK /\ BudgetInv /\ [HistoryNext]_runVars => BudgetInv'
  <2>1. CASE HistoryNext
    BY <2>1, BudgetStep
  <2>2. CASE UNCHANGED runVars
    BY <2>2 DEF runVars, threadVars, BudgetInv, Within
  <2> QED BY <2>1, <2>2
<1>3. NobodyResumed => []NobodyResumed
  BY DEF NobodyResumed
<1> QED BY <1>1, <1>2, <1>3, HistoryTypes, ThreadTypeCorrect, PTL DEF HistorySpec

\* Unless it is resumed, no thread runs longer on a budget than the budget and
\* one quantum, whatever sleeps, suspensions and policies there are: the check
\* of pok_elect_thread that comes before the charge lets it run once more.
THEOREM BudgetsBoundRuns ==
  NobodyResumed => (HistorySpec => []BudgetBoundsRun)
<1>1. BudgetInv => BudgetBoundsRun
  <2> SUFFICES ASSUME BudgetInv, NEW t \in Thread, Capacity[t] # Infinite
               PROVE  used[t] <= Capacity[t] + 1
    BY DEF BudgetBoundsRun
  <2>1. Capacity[t] \in Nat
    BY ThreadAssumption
  <2> QED BY <2>1 DEF BudgetInv, Within
<1> QED BY <1>1, BudgetsKept, PTL

-----------------------------------------------------------------------------
(***************************************************************************)
(* How long a thread waits for its turn under round robin.  The threads    *)
(* between the running one and it come before it; together with what is    *)
(* left to the running one and what it has waited, they never need more    *)
(* than one turn of each.                                                  *)
(***************************************************************************)

\* Total is the function its definition asks for.
LEMMA TotalCounts ==
  /\ Total \in [0..NThreads -> Nat] /\ Total[0] = 0 /\ Total[1] = 0
  /\ \A n \in Thread \ {Main} : Total[n + 1] = Total[n] + Capacity[n] + 1
<1> DEFINE Step(f, n) == IF n <= 1 THEN 0 ELSE f[n - 1] + Capacity[n - 1] + 1
           Sums(f, m) == \A n \in 0..m : f[n] = Step(f, n)
           Summed(m) == \E f \in [0..m -> Nat] : Sums(f, m)
           Bad == {m \in 0..NThreads : ~Summed(m)}
<1>0. /\ NThreads \in Nat \ {0} /\ Bad \in SUBSET Nat
      /\ \A n \in Thread : Capacity[n] \in Int /\ Capacity[n] + 1 >= 0
  BY ThreadAssumption DEF Infinite
<1>1. ASSUME NEW m \in 0..NThreads, m # 0, Summed(m - 1) PROVE Summed(m)
  <2>0. m \in Nat /\ m - 1 \in Nat /\ 0 .. m - 1 \subseteq 0..m
    BY <1>0, <1>1
  <2>1. PICK f \in [0 .. m - 1 -> Nat] : Sums(f, m - 1)
    BY <1>1
  <2> DEFINE g == [n \in 0..m |-> IF n = m THEN Step(f, m) ELSE f[n]]
  <2>2. m > 1 => m - 1 \in Thread /\ f[m - 1] \in Nat
    BY <1>0, <1>1, <2>0 DEF Thread
  <2>3. Step(f, m) \in Nat
    <3>1. CASE m > 1
      <4>1. Capacity[m - 1] \in Int /\ Capacity[m - 1] + 1 >= 0
        BY <1>0, <2>2, <3>1
      <4> QED BY <2>0, <2>2, <3>1, <4>1
    <3>2. CASE ~(m > 1)
      BY <2>0, <3>2
    <3> QED BY <3>1, <3>2
  <2>4. g \in [0..m -> Nat]
    <3> HIDE DEF Step
    <3>1. \A n \in 0..m : n # m => n \in 0 .. m - 1
      BY <2>0
    <3> QED BY <2>3, <3>1
  <2>5. ASSUME NEW n \in 0..m PROVE g[n] = Step(g, n)
    <3>1. n > 1 => n - 1 \in 0..m /\ n - 1 # m
      BY <2>0
    <3>2. n > 1 => g[n - 1] = f[n - 1]
      BY <3>1
    <3>3. CASE n = m
      BY <2>0, <3>2, <3>3
    <3>4. CASE n # m
      <4>1. n \in 0 .. m - 1
        BY <2>0, <3>4
      <4>2. f[n] = Step(f, n) /\ g[n] = f[n]
        BY <2>1, <3>4, <4>1
      <4> QED BY <2>0, <3>2, <4>2
    <3> QED BY <3>3, <3>4
  <2> HIDE DEF g, Step
  <2> QED BY <2>4, <2>5
<1>2. Summed(0)
  <2>1. [n \in 0..0 |-> 0] \in [0..0 -> Nat] /\ Sums([n \in 0..0 |-> 0], 0)
    OBVIOUS
  <2> QED BY <2>1
<1> HIDE DEF Summed
<1>3. Bad = {}
  <2> SUFFICES ASSUME Bad # {} PROVE FALSE
    OBVIOUS
  <2>1. PICK m \in Bad : \A y \in Bad : m <= y
    <3> HIDE DEF Bad
    <3> QED BY <1>0, MinBelongs
  <2>2. m \in 0..NThreads /\ ~Summed(m) /\ m \in Nat
    BY <1>0
  <2>3. m # 0
    BY <1>2, <2>2
  <2>4. m - 1 \in 0..NThreads /\ m - 1 < m
    BY <1>0, <2>2, <2>3
  <2>5. Summed(m - 1)
    <3>1. m - 1 \notin Bad
      BY <2>1, <2>2, <2>4
    <3> QED BY <2>4, <3>1
  <2> QED BY <1>1, <2>2, <2>3, <2>5
<1>4. Summed(NThreads)
  <2>1. NThreads \in 0..NThreads
    BY <1>0
  <2> QED BY <1>3, <2>1
<1>5. PICK f \in [0..NThreads -> Nat] : Sums(f, NThreads)
  BY <1>4 DEF Summed
<1>6. f = [n \in 0..NThreads |-> Step(f, n)]
  <2> HIDE DEF Step
  <2> QED BY <1>5
<1>7. Total = [n \in 0..NThreads |-> Step(Total, n)]
  BY <1>6 DEF Total
<1>8. ASSUME NEW n \in 0..NThreads PROVE Total[n] = Step(Total, n)
  <2> HIDE DEF Step
  <2> QED BY <1>7
<1> HIDE DEF Sums, Bad
<1>9. ASSUME NEW n \in 0..NThreads PROVE Total[n] = f[n]
  <2> DEFINE Differ == {m \in 0..NThreads : Total[m] # f[m]}
  <2> SUFFICES ASSUME Differ # {} PROVE FALSE
    OBVIOUS
  <2>1. PICK m \in Differ : \A y \in Differ : m <= y
    <3>1. Differ \in SUBSET Nat
      BY <1>0
    <3> HIDE DEF Differ
    <3> QED BY <3>1, MinBelongs
  <2>2. m > 1 => m - 1 \in 0..NThreads /\ ~(m <= m - 1)
    BY <1>0, <2>1
  <2>3. m > 1 => Total[m - 1] = f[m - 1]
    BY <2>1, <2>2
  <2>4. Total[m] = Step(Total, m) /\ f[m] = Step(f, m)
    BY <1>5, <1>8, <2>1 DEF Sums
  <2>5. Total[m] = f[m]
    BY <2>3, <2>4, <2>1, <1>0
  <2> QED BY <2>1, <2>5
<1>10. Total \in [0..NThreads -> Nat]
  <2> HIDE DEF Step
  <2> QED BY <1>7, <1>9
<1>11. 0 \in 0..NThreads /\ 1 \in 0..NThreads
  BY <1>0
<1>12. ASSUME NEW n \in Thread \ {Main}
       PROVE  Total[n + 1] = Total[n] + Capacity[n] + 1
  <2> DEFINE k == n + 1
  <2>1. k \in 0..NThreads /\ ~(k <= 1) /\ k - 1 = n
    BY <1>0 DEF Thread, Main
  <2> HIDE DEF k
  <2>2. Total[k] = Total[n] + Capacity[n] + 1
    BY <1>8, <2>1
  <2> QED BY <2>2 DEF k
<1> QED BY <1>8, <1>10, <1>11, <1>12

LEMMA TotalFacts ==
  ASSUME NEW t \in Thread \ {Main}
  PROVE  /\ t \in Nat /\ t >= 1 /\ t < NThreads /\ NThreads \in Nat
         /\ t \in 0..NThreads /\ t + 1 \in 0..NThreads /\ NThreads \in 0..NThreads
         /\ Total[t] \in Nat /\ Total[t + 1] \in Nat /\ Total[NThreads] \in Nat
         /\ Capacity[t] \in Int /\ Total[t + 1] = Total[t] + Capacity[t] + 1
<1>1. NThreads \in Nat \ {0} /\ Capacity[t] \in Int
  BY ThreadAssumption DEF Infinite
<1>2. t \in Nat /\ t >= 1 /\ t < NThreads
  BY <1>1 DEF Thread, Main
<1>3. t \in 0..NThreads /\ t + 1 \in 0..NThreads /\ NThreads \in 0..NThreads
  BY <1>1, <1>2
<1> QED BY <1>1, <1>2, <1>3, TotalCounts

LEMMA TotalGrows ==
  ASSUME NEW m \in 0..NThreads, NEW n \in 0..NThreads, m <= n
  PROVE  Total[m] <= Total[n]
<1> DEFINE Less == {k \in m..NThreads : ~(Total[m] <= Total[k])}
<1> SUFFICES ASSUME Less # {} PROVE FALSE
  BY ThreadAssumption
<1>1. PICK k \in Less : \A y \in Less : k <= y
  <2>1. Less \in SUBSET Nat
    BY ThreadAssumption
  <2> QED BY <2>1, MinBelongs
<1>2. k - 1 \in m..NThreads /\ k - 1 \notin Less /\ k > m
  BY <1>1, TotalCounts, ThreadAssumption
<1>3. Total[k - 1] <= Total[k]
  <2>1. CASE k = 1
    BY <2>1, TotalCounts
  <2>2. CASE k # 1
    <3>1. k - 1 \in Thread \ {Main} /\ (k - 1) + 1 = k
      BY <1>2, <2>2, ThreadAssumption DEF Thread, Main
    <3>2. Total[k] = Total[k - 1] + Capacity[k - 1] + 1
      BY <3>1, TotalCounts
    <3>3. Capacity[k - 1] + 1 >= 0 /\ Capacity[k - 1] \in Int
      BY <3>1, ThreadAssumption DEF Infinite
    <3>4. Total[k - 1] \in Nat
      BY <3>1, TotalFacts
    <3> QED BY <3>2, <3>3, <3>4
  <2> QED BY <2>1, <2>2
<1>4. Total[m] \in Nat /\ Total[k] \in Nat /\ Total[k - 1] \in Nat
  BY <1>1, <1>2, TotalCounts, ThreadAssumption
<1> QED BY <1>1, <1>2, <1>3, <1>4

\* The turns of the threads that come between c and t, going forward.
Span(c, t) == IF c < t THEN Total[t] - Total[c + 1]
              ELSE Total[NThreads] - Total[c + 1] + Total[t]

\* Quanta that a running thread with so much left may still run.
Cost(left) == IF left > 0 THEN left ELSE 1

\* Whoever runs, its turn and those after it up to t are not t's.
LEMMA SpanInTurns ==
  ASSUME NEW v \in Thread \ {Main}, NEW t \in Thread \ {Main}, v # t
  PROVE  Capacity[v] + 1 + Span(v, t) <= Turns(t)
<1>1. v < t => Total[t + 1] <= Total[NThreads]
  BY TotalFacts, TotalGrows
<1>2. v > t => Total[t + 1] <= Total[v]
  BY TotalFacts, TotalGrows
<1> QED BY <1>1, <1>2, TotalFacts DEF Span, Turns

\* The one that the scan from c meets before t takes its turn from the span.
LEMMA SpanShrinks ==
  ASSUME NEW c \in Thread \ {Main}, NEW v \in Thread \ {Main}, NEW t \in Thread \ {Main},
         v # t, c # t, Behind(c)[v] <= Behind(c)[t]
  PROVE  Capacity[v] + 1 + Span(v, t) <= Span(c, t)
<1>1. \A x \in Thread : Behind(c)[x] = IF x > c THEN x - c - 1 ELSE x - c - 1 + NThreads
  BY DEF Behind
<1>2. IF c < t THEN c < v /\ v < t ELSE c < v \/ v < t
  BY <1>1, TotalFacts
<1>3. c < v => Total[c + 1] <= Total[v]
  BY TotalFacts, TotalGrows
<1>4. Total[c + 1] <= Total[NThreads]
  BY TotalFacts, TotalGrows
<1> QED BY <1>2, <1>3, <1>4, TotalFacts DEF Span

\* What holds of the threads that wait: who is runnable and does not run waits
\* for the running one and those between.
TurnInv ==
  /\ \A t \in Thread : waited[t] \in Nat
  /\ current = Main => \A t \in Thread : waited[t] = 0
  /\ \A t \in Thread : t = current \/ state[t] # "RUNNABLE" => waited[t] = 0
  /\ current \in Thread \ {Main} =>
       \A t \in Thread \ {Main} :
         state[t] = "RUNNABLE" /\ t # current =>
           waited[t] + Cost(remaining[current]) + Span(current, t) <= Turns(t)

\* What a step records of a thread that waits.
WaitedNext(t) ==
  waited'[t] = IF t = current' \/ state'[t] # "RUNNABLE" THEN 0
               ELSE IF QuantumEnds THEN waited[t] + 1 ELSE waited[t]

LEMMA RescheduleTurns ==
  ASSUME ThreadTypeOK, ThreadTypeOK', policy = "RR", TurnsEnd, TurnInv,
         current = Idle => Ready = {}, state[Main] = "STOPPED",
         NEW st \in [Thread -> ThreadStates], NEW rem \in Budgets, Reschedule(st, rem),
         st[Main] = "STOPPED",
         \A t \in Thread \ {Main} : rem[t] \in Nat /\ rem[t] <= Capacity[t],
         \A t \in Thread : WaitedNext(t),
         \* the running thread keeps its budget, or ends its period
         current \in Thread \ {Main} =>
           \/ rem[current] = remaining[current] /\ st[current] # "WAIT_NEXT_ACTIVATION"
           \/ ~QuantumEnds /\ Capacity[current] <= 2
  PROVE  TurnInv'
<1>0. /\ Main \in Thread /\ Idle \notin Thread
      /\ \A t \in Thread \ {Main} : Capacity[t] \in Nat \ {0}
  BY IdleIsNoThread, ThreadAssumption DEF TurnsEnd
<1>1. state'[Main] = "STOPPED" /\ current' # Main
  <2>1. Awake(st)[Main] = "STOPPED" /\ Main \notin Charged(Awake(st))
    BY <1>0 DEF Awake, Woken, Released, Charged
  <2>2. state'[Main] = "STOPPED"
    BY <1>0, <2>1 DEF Reschedule, Exhaust
  <2>3. Elects(current', state', remaining')
    BY DEF Reschedule
  <2>4. ~KeepsProcessor(state')
    BY <2>2 DEF KeepsProcessor, ErrorThread, Main
  <2> QED BY <1>0, <2>2, <2>3, <2>4 DEF Elects
<1>2. \A t \in Thread : waited'[t] \in Nat
  BY DEF WaitedNext, TurnInv
<1>3. \A t \in Thread : t = current' \/ state'[t] # "RUNNABLE" => waited'[t] = 0
  BY DEF WaitedNext
<1>4. ASSUME NEW v \in Thread \ {Main}, v = current',
             NEW t \in Thread \ {Main}, state'[t] = "RUNNABLE", t # v
      PROVE  waited'[t] + Cost(remaining'[v]) + Span(v, t) <= Turns(t)
  <2> DEFINE refilled == Refilled(st, rem)
             awake == Awake(st)
             ready == {u \in Thread : state'[u] = "RUNNABLE"}
  <2>0. /\ waited[t] \in Nat /\ waited'[t] \in Nat /\ waited'[t] <= waited[t] + 1
        /\ ~QuantumEnds => waited'[t] <= waited[t]
    BY <1>2, <1>4 DEF WaitedNext, TurnInv
  <2>1. \A u \in Thread \ {Main} : refilled[u] \in Nat /\ refilled[u] <= Capacity[u]
    BY <1>0 DEF Refilled
  <2>2. remaining'[v] \in Nat /\ remaining'[v] <= Capacity[v]
    <3>1. remaining' = Pay(awake, refilled)
      BY DEF Reschedule
    <3>2. \/ remaining'[v] = refilled[v]
          \/ refilled[v] > 0 /\ remaining'[v] = refilled[v] - 1
      BY <3>1 DEF Pay
    <3> HIDE DEF refilled
    <3> QED BY <1>0, <2>1, <3>2
  <2>3. Capacity[v] \in Nat \ {0} /\ Span(v, t) \in Int /\ Turns(t) \in Int
    BY <1>0, TotalFacts DEF Span, Turns
  <2>4. Cost(remaining'[v]) <= Capacity[v] /\ Cost(remaining'[v]) \in Nat
    BY <2>2, <2>3 DEF Cost
  <2>5. Capacity[v] + 1 + Span(v, t) <= Turns(t)
    BY <1>4, SpanInTurns
  <2>6. CASE waited[t] = 0
    BY <2>0, <2>3, <2>4, <2>5, <2>6
  <2>7. CASE waited[t] # 0
    <3>1. current \in Thread \ {Main} /\ state[t] = "RUNNABLE" /\ t # current
      BY <1>4, <2>7, IdleIsNoThread DEF TurnInv, Ready, ThreadTypeOK
    <3> DEFINE c == current
    <3>2. waited[t] + Cost(remaining[c]) + Span(c, t) <= Turns(t)
      BY <1>4, <3>1 DEF TurnInv
    <3>3. /\ remaining[c] \in Nat \cup {Infinite} /\ Cost(remaining[c]) \in Nat
          /\ Cost(remaining[c]) >= 1 /\ Span(c, t) \in Int
      BY <3>1, TotalFacts DEF Cost, Span, ThreadTypeOK, Infinite
    <3>4. c \in Charged(awake)
      BY <3>1, <1>0 DEF Charged, KeepsProcessor, ErrorThread, Main
    <3>5. ~KeepsProcessor(state')
      BY <3>1 DEF KeepsProcessor, ErrorThread, Main
    <3>6. Elects(v, state', remaining') /\ v \in ready
      <4>1. Elects(v, state', remaining')
        BY <1>4 DEF Reschedule
      <4> QED BY <1>0, <1>4, <3>5, <4>1 DEF Elects
    <3>7. ElectsRR(v, ready, remaining')
      BY <1>4, <3>5, <3>6 DEF Elects
    <3>8. CASE v = c
      <4>1. remaining'[c] > 0
        <5>1. ~(c \in ready /\ (remaining'[c] > 0 \/ Capacity[c] = Infinite)) =>
                Nearest(ready, v, Behind(c))
          BY <1>0, <3>1, <3>7 DEF ElectsRR
        <5>2. ~Nearest(ready, v, Behind(c))
          <6>1. Behind(c)[t] < Behind(c)[c]
            BY <1>4, <3>1, <3>8, TotalFacts DEF Behind
          <6> QED BY <1>4, <3>8, <6>1, <3>1, TotalFacts DEF Nearest, Behind
        <5>3. Capacity[c] # Infinite
          BY <3>1 DEF TurnsEnd
        <5> QED BY <5>1, <5>2, <5>3
      <4>2. refilled[c] > 0 /\ remaining'[c] = refilled[c] - 1
        BY <2>1, <3>1, <3>4, <4>1 DEF Reschedule, Pay
      <4>3. CASE rem[c] = remaining[c] /\ st[c] # "WAIT_NEXT_ACTIVATION"
        <5>1. refilled[c] = remaining[c]
          BY <3>1, <4>3 DEF Refilled, Released
        <5>2. Cost(remaining'[c]) = Cost(remaining[c]) - 1
          BY <3>3, <4>1, <4>2, <5>1 DEF Cost
        <5> QED BY <2>0, <2>3, <3>2, <3>3, <3>8, <5>2
      <4>4. CASE ~QuantumEnds /\ Capacity[c] <= 2
        <5>1. refilled[c] <= 2 /\ refilled[c] \in Nat
          BY <1>0, <2>1, <3>1, <4>4
        <5>2. Cost(remaining'[c]) = 1
          BY <4>1, <4>2, <5>1 DEF Cost
        <5> QED BY <2>0, <2>3, <3>2, <3>3, <3>8, <4>4, <5>2
      <4> QED BY <3>1, <4>3, <4>4
    <3>9. CASE v # c
      <4>1. Nearest(ready, v, Behind(c))
        BY <1>0, <3>1, <3>7, <3>9 DEF ElectsRR
      <4>2. Behind(c)[v] <= Behind(c)[t]
        BY <1>4, <4>1 DEF Nearest
      <4>3. Capacity[v] + 1 + Span(v, t) <= Span(c, t)
        BY <1>4, <3>1, <4>2, SpanShrinks
      <4> QED BY <2>0, <2>3, <2>4, <3>2, <3>3, <4>3
    <3> QED BY <3>8, <3>9
  <2> QED BY <2>6, <2>7
<1>5. TurnInv' <=>
        /\ \A t \in Thread : waited'[t] \in Nat
        /\ current' = Main => \A t \in Thread : waited'[t] = 0
        /\ \A t \in Thread : t = current' \/ state'[t] # "RUNNABLE" => waited'[t] = 0
        /\ current' \in Thread \ {Main} =>
             \A t \in Thread \ {Main} :
               state'[t] = "RUNNABLE" /\ t # current' =>
                 waited'[t] + Cost(remaining'[current']) + Span(current', t) <= Turns(t)
  BY DEF TurnInv, Cost, Span, Turns
<1> QED BY <1>1, <1>2, <1>3, <1>4, <1>5

LEMMA TurnStep ==
  ASSUME NobodyResumed, ThreadTypeOK, BudgetInv, NoIdleWhileReady, TurnsEnd,
         policy = "RR" => TurnInv, HistoryNext, policy' = "RR"
  PROVE  TurnInv'
<1>0. /\ ThreadNext /\ \A t \in Thread : WaitedNext(t)
      /\ ThreadTypeOK' /\ Main \in Thread /\ state[Main] = "STOPPED"
  BY ThreadTypeStep, IdleIsNoThread DEF HistoryNext, WaitedNext, BudgetInv
<1>1. policy = "RR" /\ TurnInv
  BY <1>0, StepShape
<1>2. /\ state \in [Thread -> ThreadStates] /\ remaining \in Budgets
      /\ \A t \in Thread \ {Main} : remaining[t] \in Nat /\ remaining[t] <= Capacity[t]
  <2>1. ASSUME NEW t \in Thread \ {Main}
        PROVE  remaining[t] \in Nat /\ remaining[t] <= Capacity[t]
    <3>1. Within(t, Capacity[t], remaining[t], state[t]) /\ Capacity[t] \in Nat
      BY ThreadAssumption DEF BudgetInv, TurnsEnd
    <3> QED BY <3>1 DEF Within
  <2> QED BY <2>1 DEF ThreadTypeOK, Budgets
<1>3. current = Idle => Ready = {}
  BY DEF NoIdleWhileReady
<1>4. ASSUME NEW st \in [Thread -> ThreadStates], Reschedule(st, remaining),
             st[Main] = "STOPPED",
             current \in Thread \ {Main} => st[current] # "WAIT_NEXT_ACTIVATION"
      PROVE  TurnInv'
  BY <1>0, <1>1, <1>2, <1>3, <1>4, RescheduleTurns
<1>5. ASSUME state'[Main] = "STOPPED", current' = current, current \in Thread,
             remaining' = remaining, ~QuantumEnds,
             \A t \in Thread : state'[t] = state[t] \/ state'[t] = "STOPPED"
      PROVE  TurnInv'
  <2>1. \A t \in Thread : waited'[t] = waited[t] \/ waited'[t] = 0
    BY <1>0, <1>5 DEF WaitedNext
  <2>2. \A t \in Thread : state'[t] = "RUNNABLE" /\ t # current => waited'[t] = waited[t]
    BY <1>0, <1>5 DEF WaitedNext
  <2>3. \A t \in Thread : t = current \/ state'[t] # "RUNNABLE" => waited'[t] = 0
    BY <1>0, <1>5 DEF WaitedNext
  <2>4. \A t \in Thread : state'[t] = "RUNNABLE" => state[t] = "RUNNABLE"
    BY <1>5
  <2> QED BY <1>1, <1>5, <2>1, <2>2, <2>3, <2>4 DEF TurnInv, Cost, Span, Turns
<1>6. CASE Tick
  <2>1. current \in Thread \ {Main} => state[current] # "WAIT_NEXT_ACTIVATION"
    BY <1>6, IdleIsNoThread DEF Tick, Running
  <2>2. CASE elapsed + 1 >= Quantum
    BY <1>0, <1>2, <1>4, <1>6, <2>1, <2>2 DEF Tick
  <2>3. CASE ~(elapsed + 1 >= Quantum)
    <3>1. UNCHANGED electVars /\ ~QuantumEnds
      BY <1>6, <2>3 DEF Tick, QuantumEnds
    <3>2. CASE current = Idle
      <4>1. \A t \in Thread : state'[t] # "RUNNABLE"
        BY <1>3, <3>1, <3>2 DEF Ready, electVars
      <4>2. \A t \in Thread : waited'[t] = 0
        BY <1>0, <4>1 DEF WaitedNext
      <4> QED BY <3>1, <3>2, <4>1, <4>2, IdleIsNoThread DEF TurnInv, electVars
    <3>3. CASE current # Idle
      <4>1. current \in Thread
        BY <3>3 DEF ThreadTypeOK
      <4> QED BY <1>0, <1>5, <3>1, <4>1 DEF electVars
    <3> QED BY <3>2, <3>3
  <2> QED BY <2>2, <2>3
<1>7. CASE EnterNormal
  BY <1>0, <1>2, <1>4, <1>7 DEF EnterNormal
<1>8. CASE Running /\ Call
  <2>0. /\ current \in Thread \ {Main} /\ state[current] = "RUNNABLE"
        /\ current \in Thread
    BY <1>0, <1>8 DEF Running, ThreadTypeOK
  <2>1. ASSUME NEW x \in ThreadStates, x # "WAIT_NEXT_ACTIVATION",
               Reschedule([state EXCEPT ![current] = x], remaining)
        PROVE  TurnInv'
    <3> DEFINE st == [state EXCEPT ![current] = x]
    <3>1. /\ st \in [Thread -> ThreadStates] /\ st[Main] = "STOPPED"
          /\ st[current] # "WAIT_NEXT_ACTIVATION"
      BY <1>0, <1>2, <2>0, <2>1
    <3>2. Reschedule(st, remaining)
      BY <2>1
    <3> HIDE DEF st
    <3> QED BY <1>4, <3>1, <3>2
  <2>2. CASE \E d \in Delays : Sleep(d)
    BY <2>1, <2>2 DEF Sleep, ThreadStates
  <2>3. CASE Suspend
    BY <2>1, <2>3 DEF Suspend, ThreadStates
  <2>4. CASE EndPeriod
    <3> DEFINE st == [state EXCEPT ![current] = "WAIT_NEXT_ACTIVATION"]
               rem == [remaining EXCEPT ![current] = 0]
    <3>1. /\ st \in [Thread -> ThreadStates] /\ st[Main] = "STOPPED" /\ rem \in Budgets
          /\ \A t \in Thread \ {Main} : rem[t] \in Nat /\ rem[t] <= Capacity[t]
      <4>1. st \in [Thread -> ThreadStates] /\ st[Main] = "STOPPED" /\ rem \in Budgets
        BY <1>0, <1>2, <2>0 DEF ThreadStates, Budgets
      <4>2. ASSUME NEW t \in Thread \ {Main} PROVE rem[t] \in Nat /\ rem[t] <= Capacity[t]
        <5>1. Capacity[t] \in Nat
          BY ThreadAssumption DEF TurnsEnd
        <5> QED BY <1>2, <5>1 DEF Budgets
      <4> QED BY <4>1, <4>2
    <3>2. Reschedule(st, rem) /\ ~QuantumEnds
      BY <2>4 DEF EndPeriod, clockVars, QuantumEnds
    <3>3. Capacity[current] <= 2
      BY <2>0, <2>4 DEF EndPeriod, TurnsEnd
    <3> HIDE DEF st, rem
    <3> QED BY <1>0, <1>1, <1>3, <3>1, <3>2, <3>3, RescheduleTurns
  <2>5. CASE \E t \in Thread : Resume(t)
    BY <2>5 DEF Resume, NobodyResumed
  <2>6. CASE \E t \in Thread : SuspendTarget(t)
    <3> PICK u \in Thread : SuspendTarget(u)
      BY <2>6
    <3>1. /\ remaining' = remaining /\ state' = [state EXCEPT ![u] = "STOPPED"]
          /\ current' = current /\ ~QuantumEnds
      BY DEF SuspendTarget, clockVars, QuantumEnds
    <3>2. \A t \in Thread : state'[t] = state[t] \/ state'[t] = "STOPPED"
      BY <1>2, <3>1
    <3>3. state'[Main] = "STOPPED"
      BY <1>0, <3>2
    <3> QED BY <1>5, <2>0, <3>1, <3>2, <3>3
  <2>7. CASE \E t \in Thread, p \in Priority : SetPriority(t, p)
    BY <1>0, <1>2, <1>4, <2>0, <2>7 DEF SetPriority
  <2> QED BY <1>8, <2>2, <2>3, <2>4, <2>5, <2>6, <2>7 DEF Call
<1> QED BY <1>0, <1>6, <1>7, <1>8 DEF ThreadNext

\* Under round robin a runnable thread waits one turn of each other thread at
\* most, wherever the scan of pok_sched_part_rr begins and whoever wakes, blocks
\* or is released meanwhile: what is between the running thread and it only
\* shrinks.
THEOREM WaitsBounded ==
  NobodyResumed => (HistorySpec => []BoundedWait)
<1> DEFINE Waits == policy = "RR" => TurnInv
<1>1. HistoryInit => Waits
  BY IdleIsNoThread DEF HistoryInit, ThreadInit, TurnInv
<1>2. NobodyResumed /\ TurnsEnd /\ ThreadTypeOK /\ BudgetInv /\ NoIdleWhileReady
        /\ Waits /\ [HistoryNext]_runVars => Waits'
  <2>1. CASE HistoryNext
    BY <2>1, TurnStep
  <2>2. CASE UNCHANGED runVars
    BY <2>2 DEF runVars, threadVars, TurnInv
  <2> QED BY <2>1, <2>2
<1>3. ThreadTypeOK /\ NoIdleWhileReady /\ Waits => BoundedWait
  <2> SUFFICES ASSUME ThreadTypeOK, NoIdleWhileReady, TurnInv, NEW t \in Thread \ {Main}
               PROVE  waited[t] <= Turns(t)
    BY DEF BoundedWait
  <2>1. Turns(t) \in Nat /\ waited[t] \in Nat
    <3>1. Total[t + 1] <= Total[NThreads]
      BY TotalFacts, TotalGrows
    <3> QED BY <3>1, TotalFacts DEF Turns, TurnInv
  <2>2. CASE waited[t] = 0
    BY <2>1, <2>2
  <2>3. CASE waited[t] # 0
    <3>1. /\ current \in Thread \ {Main} /\ t # current
          /\ waited[t] + Cost(remaining[current]) + Span(current, t) <= Turns(t)
      BY <2>3 DEF TurnInv, ThreadTypeOK, NoIdleWhileReady, Ready
    <3>2. Cost(remaining[current]) \in Nat
      BY <3>1 DEF Cost, ThreadTypeOK, Infinite
    <3>3. Span(current, t) \in Nat
      <4>1. current < t => Total[current + 1] <= Total[t]
        BY <3>1, TotalFacts, TotalGrows
      <4>2. Total[current + 1] <= Total[NThreads]
        BY <3>1, TotalFacts, TotalGrows
      <4> QED BY <3>1, <4>1, <4>2, TotalFacts DEF Span
    <3> QED BY <2>1, <3>1, <3>2, <3>3
  <2> QED BY <2>2, <2>3
<1>4. ~TurnsEnd => BoundedWait
  BY DEF BoundedWait
<1>5. /\ NobodyResumed => []NobodyResumed
      /\ TurnsEnd => []TurnsEnd
      /\ ~TurnsEnd => []~TurnsEnd
  BY DEF NobodyResumed, TurnsEnd
<1> QED BY <1>1, <1>2, <1>3, <1>4, <1>5, HistoryTypes, BudgetsKept, ThreadTypeCorrect,
           NeverIdleWhileReady, PTL DEF HistorySpec

-----------------------------------------------------------------------------
\* Lock objects.

ThreadStep ==
  /\ \/ (current # Idle => pc[current] = "user") /\ Tick
     \/ EnterNormal
     \/ InUser /\ Call
  /\ UNCHANGED lockVars

LEMMA NextCases ==
  ASSUME [Next]_vars, LockTypeOK
  PROVE  \/ ThreadStep /\ ThreadNext
         \/ \E o \in Object, d \in Timeouts : InUser /\ (Lock(o, d) \/ EventWait(o, d))
         \/ \E o \in Object : InUser /\ (Unlock(o) \/ EventSignal(o) \/ EventBroadcast(o))
         \/ LockReturn
         \/ EventReturn
         \/ UNCHANGED vars
BY DEF Next, LockCall, ThreadStep, ThreadNext, InUser

LEMMA RunningIsThread ==
  ASSUME ThreadTypeOK, Running
  PROVE  current \in Thread /\ state[current] = "RUNNABLE"
BY DEF ThreadTypeOK, Running

LEMMA BlockTypes ==
  ASSUME LockTypeOK, Running,
         NEW o \in Object, NEW d \in Nat, NEW where \in {"lock", "event"},
         NEW st \in [Thread -> ThreadStates], Block(o, d, where, st)
  PROVE  /\ ThreadTypeOK'
         /\ pc' \in [Thread -> {"user", "lock", "event"}]
         /\ waitingFor' \in [Thread -> Object]
         /\ deadline' \in [Thread -> Nat]
<1>0. ThreadTypeOK
  BY DEF LockTypeOK
<1>1. current \in Thread /\ now \in Nat /\ ThreadTypeOK
  <2>1. now \in Nat
    BY <1>0, ThreadAssumption DEF ThreadTypeOK
  <2> QED BY <1>0, <2>1, RunningIsThread
<1>2. wakeup' \in [Thread -> Nat]
  <2>1. wakeup' = (IF d > 0 THEN [wakeup EXCEPT ![current] = now + d] ELSE wakeup)
    BY DEF Block
  <2>2. wakeup \in [Thread -> Nat] /\ now + d \in Nat
    BY <1>1 DEF ThreadTypeOK
  <2> QED BY <2>1, <2>2
<1>3. UNCHANGED <<policy, now, elapsed, priority>>
  BY DEF Block, clockVars
<1>4. [st EXCEPT ![current] = IF d > 0 THEN "WAITING" ELSE "LOCK"]
        \in [Thread -> ThreadStates]
  BY DEF ThreadStates
<1>5. remaining \in Budgets
  BY <1>1 DEF ThreadTypeOK, Budgets
<1>6. ThreadTypeOK'
  <2>1. Reschedule([st EXCEPT ![current] = IF d > 0 THEN "WAITING" ELSE "LOCK"],
                   remaining)
    BY DEF Block
  <2>2. /\ state' \in [Thread -> ThreadStates]
        /\ remaining' \in Budgets
        /\ nextActivation' \in [Thread -> Nat]
        /\ current' \in Thread \cup {Idle}
        /\ prev' \in Thread \cup {Idle}
    BY <1>1, <1>2, <1>3, <1>4, <1>5, <2>1, RescheduleTypes
  <2> QED BY <1>1, <1>2, <1>3, <2>2 DEF ThreadTypeOK, Budgets
<1>7. pc' \in [Thread -> {"user", "lock", "event"}]
  BY DEF Block, LockTypeOK
<1>8. waitingFor' \in [Thread -> Object]
  BY DEF Block, LockTypeOK
<1>9. deadline' \in [Thread -> Nat]
  BY <1>1 DEF Block, LockTypeOK
<1> QED BY <1>6, <1>7, <1>8, <1>9

\* A call that readies threads and reschedules.
LEMMA WakeTypes ==
  ASSUME LockTypeOK, NEW st \in [Thread -> ThreadStates],
         UNCHANGED <<clockVars, priority, wakeup>>, Reschedule(st, remaining)
  PROVE  ThreadTypeOK'
<1>1. UNCHANGED <<policy, now, elapsed, priority, wakeup>> /\ ThreadTypeOK
  BY DEF clockVars, LockTypeOK
<1>2. remaining \in Budgets /\ now' \in Nat /\ wakeup' \in [Thread -> Nat]
  BY <1>1, ThreadAssumption DEF ThreadTypeOK, Budgets
<1>3. /\ state' \in [Thread -> ThreadStates]
      /\ remaining' \in Budgets
      /\ nextActivation' \in [Thread -> Nat]
      /\ current' \in Thread \cup {Idle}
      /\ prev' \in Thread \cup {Idle}
  BY <1>1, <1>2, RescheduleTypes
<1> QED BY <1>1, <1>3 DEF ThreadTypeOK, Budgets

LEMMA AcquireTypes ==
  ASSUME LockTypeOK, Running, NEW o \in Object, Acquire(o)
  PROVE  holders' \in [Object -> SUBSET Thread] /\ taken' \in [Object -> Int]
<1>1. current \in Thread
  BY RunningIsThread DEF LockTypeOK
<1>2. holders' \in [Object -> SUBSET Thread]
  BY <1>1 DEF Acquire, LockTypeOK
<1>3. taken' \in [Object -> Int]
  BY DEF Acquire, LockTypeOK
<1> QED BY <1>2, <1>3

LEMMA TakeTypes ==
  ASSUME LockTypeOK, NEW o \in Object, value[o] > 0,
         value' = [value EXCEPT ![o] = @ - 1]
  PROVE  /\ value' \in [Object -> Nat]
         /\ \A p \in Object : value'[p] <= MaxValue[p]
<1>1. value \in [Object -> Nat] /\ \A p \in Object : value[p] <= MaxValue[p]
  BY DEF LockTypeOK
<1>2. value[o] \in Nat /\ value[o] - 1 \in Nat
  BY <1>1
<1>3. value' \in [Object -> Nat]
  BY <1>1, <1>2
<1>4. ASSUME NEW p \in Object PROVE value'[p] <= MaxValue[p]
  <2>1. value'[p] <= value[p] /\ value'[p] \in Nat /\ value[p] \in Nat
    BY <1>1, <1>2, <1>3
  <2>2. MaxValue[p] \in Nat /\ value[p] <= MaxValue[p]
    BY <1>1, LockAssumption
  <2> QED BY <2>1, <2>2
<1> QED BY <1>3, <1>4

LEMMA ReleaseTypes ==
  ASSUME LockTypeOK, NEW o \in Object, Release(o)
  PROVE  /\ value' \in [Object -> Nat]
         /\ \A p \in Object : value'[p] <= MaxValue[p]
         /\ waiters' \in [Object -> Seq(Thread)]
         /\ holders' \in [Object -> SUBSET Thread]
         /\ taken' \in [Object -> Int]
         /\ owed' \subseteq Thread /\ lost' = lost
         /\ StateAfterRelease(o) \in [Thread -> ThreadStates]
<1> USE DEF LockTypeOK
<1>1. holders' \in [Object -> SUBSET Thread]
  BY DEF Release
<1>2. taken' \in [Object -> Int] /\ lost' = lost
  BY DEF Release
<1>3. CASE HandsOver(o)
  <2>1. /\ Head(waiters[o]) \in Thread
        /\ Tail(waiters[o]) \in Seq(Thread)
    BY <1>3, HeadTailProperties DEF HandsOver
  <2>2. /\ waiters' = [waiters EXCEPT ![o] = Tail(@)]
        /\ owed' = owed \cup {Head(waiters[o])}
        /\ value' = value
    BY <1>3 DEF Release
  <2>3. StateAfterRelease(o) \in [Thread -> ThreadStates]
    BY <1>3, <2>1 DEF StateAfterRelease, ThreadTypeOK, ThreadStates
  <2> QED BY <1>1, <1>2, <2>1, <2>2, <2>3
<1>4. CASE ~HandsOver(o)
  <2>1. /\ value' = [value EXCEPT ![o] = IF Full(o) THEN @ ELSE @ + 1]
        /\ UNCHANGED <<waiters, owed>>
    BY <1>4 DEF Release
  <2>2. ASSUME NEW p \in Object PROVE value'[p] <= MaxValue[p]
    <3>1. value[p] \in Nat /\ MaxValue[p] \in Nat /\ value[p] <= MaxValue[p]
      BY LockAssumption
    <3>2. value'[p] = value[p] \/ (value'[p] = value[p] + 1 /\ value[p] # MaxValue[p])
      BY <2>1, <3>1 DEF Full
    <3>3. value[p] # MaxValue[p] => value[p] + 1 <= MaxValue[p]
      <4>1. \A m, n \in Nat : m <= n /\ m # n => m + 1 <= n
        OBVIOUS
      <4> HIDE DEF LockTypeOK
      <4> QED BY <3>1, <4>1
    <3> QED BY <3>1, <3>2, <3>3
  <2>3. value' \in [Object -> Nat]
    BY <2>1
  <2>4. StateAfterRelease(o) \in [Thread -> ThreadStates]
    BY <1>4 DEF StateAfterRelease, ThreadTypeOK
  <2> QED BY <1>1, <1>2, <2>1, <2>2, <2>3, <2>4
<1> QED BY <1>3, <1>4

LEMMA LockTypeStep ==
  ASSUME LockTypeOK, [Next]_vars
  PROVE  LockTypeOK'
<1>0. ThreadTypeOK /\ Timeouts \subseteq Nat /\ Discipline \in [Object -> Disciplines]
  BY LockAssumption DEF LockTypeOK
<1>1. CASE ThreadStep /\ ThreadNext
  <2>1. ThreadTypeOK'
    BY <1>0, <1>1, ThreadTypeStep
  <2> QED BY <1>1, <2>1
          DEF ThreadStep, LockTypeOK, lockVars, callVars, historyVars
<1>2. ASSUME NEW o \in Object, NEW d \in Timeouts, InUser, Lock(o, d)
      PROVE  LockTypeOK'
  <2>1. CASE value[o] > 0
    <3>1. /\ value' = [value EXCEPT ![o] = @ - 1]
          /\ Acquire(o)
          /\ UNCHANGED <<threadVars, waiters, eventWaiters, callVars, owed, lost>>
      BY <1>2, <2>1 DEF Lock
    <3>2. holders' \in [Object -> SUBSET Thread] /\ taken' \in [Object -> Int]
      BY <1>2, <3>1, AcquireTypes DEF InUser
    <3>3. ThreadTypeOK'
      BY <1>0, <3>1, ThreadTypeStep
    <3>4. value' \in [Object -> Nat] /\ \A p \in Object : value'[p] <= MaxValue[p]
      BY <2>1, <3>1, TakeTypes
    <3> QED BY <3>1, <3>2, <3>3, <3>4 DEF LockTypeOK, callVars
  <2>2. CASE ~(value[o] > 0)
    <3>1. /\ waiters' = [waiters EXCEPT
                           ![o] = EnqueueIn(@, current, priority, Discipline[o])]
          /\ Block(o, d, "lock", state)
          /\ UNCHANGED <<value, eventWaiters, historyVars>>
      BY <1>2, <2>2 DEF Lock
    <3>2. current \in Thread /\ state \in [Thread -> ThreadStates]
      BY <1>0, <1>2, RunningIsThread DEF InUser, ThreadTypeOK
    <3>3. EnqueueIn(waiters[o], current, priority, Discipline[o]) \in Seq(Thread)
      BY <3>2, EnqueueFacts DEF LockTypeOK
    <3>4. /\ ThreadTypeOK'
          /\ pc' \in [Thread -> {"user", "lock", "event"}]
          /\ waitingFor' \in [Thread -> Object]
          /\ deadline' \in [Thread -> Nat]
      BY <1>0, <1>2, <3>1, <3>2, BlockTypes DEF InUser
    <3> QED BY <3>1, <3>3, <3>4 DEF LockTypeOK, historyVars
  <2> QED BY <2>1, <2>2
<1>3. ASSUME NEW o \in Object, NEW d \in Timeouts, InUser, EventWait(o, d)
      PROVE  LockTypeOK'
  <2>1. /\ Release(o)
        /\ eventWaiters' = [eventWaiters EXCEPT
                              ![o] = EnqueuePriority(@, current, priority)]
        /\ Block(o, d, "event", StateAfterRelease(o))
    BY <1>3 DEF EventWait
  <2>2. /\ value' \in [Object -> Nat]
        /\ \A p \in Object : value'[p] <= MaxValue[p]
        /\ waiters' \in [Object -> Seq(Thread)]
        /\ holders' \in [Object -> SUBSET Thread]
        /\ taken' \in [Object -> Int]
        /\ owed' \subseteq Thread /\ lost' = lost
        /\ StateAfterRelease(o) \in [Thread -> ThreadStates]
    BY <2>1, ReleaseTypes
  <2>3. /\ ThreadTypeOK'
        /\ pc' \in [Thread -> {"user", "lock", "event"}]
        /\ waitingFor' \in [Thread -> Object]
        /\ deadline' \in [Thread -> Nat]
    BY <1>0, <1>3, <2>1, <2>2, BlockTypes DEF InUser
  <2>4. EnqueueIn(eventWaiters[o], current, priority, "PRIORITY") \in Seq(Thread)
    BY <1>0, <1>3, RunningIsThread, EnqueueFacts DEF InUser, LockTypeOK
  <2>5. eventWaiters' \in [Object -> Seq(Thread)]
    BY <2>1, <2>4 DEF EnqueueIn, LockTypeOK
  <2> QED BY <2>2, <2>3, <2>5 DEF LockTypeOK
<1>4. ASSUME NEW o \in Object, InUser, Unlock(o)
      PROVE  LockTypeOK'
  <2>1. /\ Release(o)
        /\ UNCHANGED <<clockVars, priority, wakeup, eventWaiters, callVars>>
        /\ IF HandsOver(o) THEN Reschedule(StateAfterRelease(o), remaining)
                           ELSE UNCHANGED electVars
    BY <1>4 DEF Unlock
  <2>2. /\ value' \in [Object -> Nat]
        /\ \A p \in Object : value'[p] <= MaxValue[p]
        /\ waiters' \in [Object -> Seq(Thread)]
        /\ holders' \in [Object -> SUBSET Thread]
        /\ taken' \in [Object -> Int]
        /\ owed' \subseteq Thread /\ lost' = lost
        /\ StateAfterRelease(o) \in [Thread -> ThreadStates]
    BY <2>1, ReleaseTypes
  <2>3. ThreadTypeOK'
    <3>1. CASE HandsOver(o)
      BY <2>1, <2>2, <3>1, WakeTypes
    <3>2. CASE ~HandsOver(o)
      BY <1>0, <2>1, <3>2 DEF ThreadTypeOK, clockVars, electVars
    <3> QED BY <3>1, <3>2
  <2> QED BY <2>1, <2>2, <2>3 DEF LockTypeOK, callVars
<1>5. ASSUME NEW o \in Object, InUser, EventSignal(o)
      PROVE  LockTypeOK'
  <2>1. /\ eventWaiters[o] # <<>>
        /\ eventWaiters' = [eventWaiters EXCEPT ![o] = Tail(@)]
        /\ UNCHANGED <<clockVars, priority, wakeup, value, waiters, callVars,
                       historyVars>>
        /\ Reschedule([state EXCEPT ![Head(eventWaiters[o])] = "RUNNABLE"], remaining)
    BY <1>5 DEF EventSignal
  <2>2. Tail(eventWaiters[o]) \in Seq(Thread)
    BY <2>1, HeadTailProperties DEF LockTypeOK
  <2>3. [state EXCEPT ![Head(eventWaiters[o])] = "RUNNABLE"] \in [Thread -> ThreadStates]
    BY <1>0 DEF ThreadTypeOK, ThreadStates
  <2>4. ThreadTypeOK'
    BY <2>1, <2>3, WakeTypes
  <2> QED BY <2>1, <2>2, <2>4 DEF LockTypeOK, callVars, historyVars
<1>6. ASSUME NEW o \in Object, InUser, EventBroadcast(o)
      PROVE  LockTypeOK'
  <2> DEFINE st == [t \in Thread |-> IF t \in Queued(eventWaiters[o])
                                     THEN "RUNNABLE" ELSE state[t]]
  <2>1. /\ eventWaiters' = [eventWaiters EXCEPT ![o] = <<>>]
        /\ UNCHANGED <<clockVars, priority, wakeup, value, waiters, callVars,
                       historyVars>>
        /\ Reschedule(st, remaining)
    BY <1>6 DEF EventBroadcast
  <2>2. st \in [Thread -> ThreadStates]
    BY <1>0 DEF ThreadTypeOK, ThreadStates
  <2> HIDE DEF st
  <2>3. ThreadTypeOK'
    BY <2>1, <2>2, WakeTypes
  <2>4. eventWaiters' \in [Object -> Seq(Thread)]
    BY <2>1, EmptySeq DEF LockTypeOK
  <2> QED BY <2>1, <2>3, <2>4 DEF LockTypeOK, callVars, historyVars
<1>7. ASSUME LockReturn
      PROVE  LockTypeOK'
  <2> DEFINE o == waitingFor[current]
  <2>1. current \in Thread /\ o \in Object /\ Running
    BY <1>0, <1>7, RunningIsThread DEF LockReturn, LockTypeOK
  <2>2. ThreadTypeOK'
    BY <1>0, <1>7, ThreadTypeStep DEF LockReturn
  <2>3. Withdraw(waiters[o], current) \in Seq(Thread)
    BY <2>1, WithdrawFacts DEF LockTypeOK
  <2>4. /\ waiters' \in [Object -> Seq(Thread)]
        /\ holders' \in [Object -> SUBSET Thread]
        /\ taken' \in [Object -> Int]
        /\ lost' \in [Object -> Nat]
    <3>1. CASE Expired(current)
      <4>1. /\ waiters' = [waiters EXCEPT ![o] = Withdraw(@, current)]
            /\ lost' = IF current \in owed THEN [lost EXCEPT ![o] = @ + 1] ELSE lost
            /\ UNCHANGED <<holders, taken>>
        BY <1>7, <3>1 DEF LockReturn
      <4>2. lost' \in [Object -> Nat]
        BY <2>1, <4>1 DEF LockTypeOK
      <4> QED BY <2>3, <4>1, <4>2 DEF LockTypeOK
    <3>2. CASE ~Expired(current)
      <4>1. Acquire(o) /\ UNCHANGED <<waiters, lost>>
        BY <1>7, <3>2 DEF LockReturn
      <4>2. holders' \in [Object -> SUBSET Thread] /\ taken' \in [Object -> Int]
        BY <2>1, <4>1, AcquireTypes
      <4> QED BY <4>1, <4>2 DEF LockTypeOK
    <3> QED BY <3>1, <3>2
  <2>5. /\ pc' = [pc EXCEPT ![current] = "user"]
        /\ deadline' = [deadline EXCEPT ![current] = 0]
        /\ owed' = owed \ {current}
        /\ UNCHANGED <<value, eventWaiters, waitingFor>>
    BY <1>7 DEF LockReturn
  <2> QED BY <2>2, <2>4, <2>5 DEF LockTypeOK
<1>8. ASSUME EventReturn
      PROVE  LockTypeOK'
  <2> DEFINE o == waitingFor[current]
  <2>1. current \in Thread /\ o \in Object /\ Running
    BY <1>0, <1>8, RunningIsThread DEF EventReturn, LockTypeOK
  <2>2. Withdraw(eventWaiters[o], current) \in Seq(Thread)
    BY <2>1, WithdrawFacts DEF LockTypeOK
  <2>3. eventWaiters' \in [Object -> Seq(Thread)]
    BY <1>8, <2>1, <2>2 DEF EventReturn, LockTypeOK
  <2>4. CASE value[o] > 0
    <3>1. /\ value' = [value EXCEPT ![o] = @ - 1]
          /\ Acquire(o)
          /\ pc' = [pc EXCEPT ![current] = "user"]
          /\ deadline' = [deadline EXCEPT ![current] = 0]
          /\ UNCHANGED <<threadVars, waiters, waitingFor, owed, lost>>
      BY <1>8, <2>4 DEF EventReturn
    <3>2. ThreadTypeOK'
      BY <1>0, <3>1, ThreadTypeStep
    <3>3. holders' \in [Object -> SUBSET Thread] /\ taken' \in [Object -> Int]
      BY <2>1, <3>1, AcquireTypes
    <3>4. value' \in [Object -> Nat] /\ \A p \in Object : value'[p] <= MaxValue[p]
      BY <2>1, <2>4, <3>1, TakeTypes
    <3> QED BY <2>3, <3>1, <3>2, <3>3, <3>4 DEF LockTypeOK
  <2>5. CASE ~(value[o] > 0)
    <3>1. /\ waiters' = [waiters EXCEPT
                           ![o] = EnqueueIn(@, current, priority, Discipline[o])]
          /\ Block(o, 0, "lock", state)
          /\ UNCHANGED <<value, holders, taken, owed, lost>>
      BY <1>8, <2>5 DEF EventReturn
    <3>2. EnqueueIn(waiters[o], current, priority, Discipline[o]) \in Seq(Thread)
      BY <2>1, EnqueueFacts DEF LockTypeOK
    <3>3. state \in [Thread -> ThreadStates]
      BY <1>0 DEF ThreadTypeOK
    <3>4. /\ ThreadTypeOK'
          /\ pc' \in [Thread -> {"user", "lock", "event"}]
          /\ waitingFor' \in [Thread -> Object]
          /\ deadline' \in [Thread -> Nat]
      BY <2>1, <3>1, <3>3, BlockTypes
    <3> QED BY <2>1, <2>3, <3>1, <3>2, <3>4 DEF LockTypeOK
  <2> QED BY <2>4, <2>5
<1>9. CASE UNCHANGED vars
  <2>1. ThreadTypeOK'
    BY <1>0, <1>9, ThreadTypeStep DEF vars
  <2> QED BY <1>9, <2>1 DEF vars, LockTypeOK, lockVars, callVars, historyVars
<1> QED BY NextCases, <1>1, <1>2, <1>3, <1>4, <1>5, <1>6, <1>7, <1>8, <1>9

\* The lock objects and the threads keep their types; no semaphore exceeds its
\* maximum value and no other object the value 1.
THEOREM LockTypeCorrect == Spec => []LockTypeOK
<1>1. Init => LockTypeOK
  <2> SUFFICES ASSUME Init PROVE LockTypeOK
    OBVIOUS
  <2>1. ThreadTypeOK
    BY ThreadAssumption, IdleIsNoThread
       DEF Init, ThreadInit, ThreadTypeOK, ThreadStates, Never, Infinite
  <2>2. <<>> \in Seq(Thread)
    BY EmptySeq
  <2> QED BY <2>1, <2>2, LockAssumption DEF Init, LockTypeOK
<1>2. LockTypeOK /\ [Next]_vars => LockTypeOK'
  BY LockTypeStep
<1> QED BY <1>1, <1>2, PTL DEF Spec

-----------------------------------------------------------------------------
LEMMA FreeReleaseStep ==
  ASSUME LockTypeOK, FreeImpliesNoWaiter, NEW o \in Object, Release(o)
  PROVE  FreeImpliesNoWaiter'
<1>0. value \in [Object -> Nat] /\ waiters \in [Object -> Seq(Thread)]
  BY DEF LockTypeOK
<1>1. CASE HandsOver(o)
  <2>1. /\ waiters' = [waiters EXCEPT ![o] = Tail(@)]
        /\ value' = value
        /\ value[o] = 0
    BY <1>1 DEF Release, HandsOver
  <2> QED BY <1>0, <2>1 DEF FreeImpliesNoWaiter
<1>2. CASE ~HandsOver(o)
  <2>1. /\ value' = [value EXCEPT ![o] = IF Full(o) THEN @ ELSE @ + 1]
        /\ waiters' = waiters
    BY <1>2 DEF Release
  <2>2. waiters[o] = <<>>
    BY <1>0, <1>2 DEF HandsOver, FreeImpliesNoWaiter
  <2> QED BY <1>0, <2>1, <2>2 DEF FreeImpliesNoWaiter
<1> QED BY <1>1, <1>2

LEMMA FreeStep ==
  ASSUME LockTypeOK, FreeImpliesNoWaiter, [Next]_vars
  PROVE  FreeImpliesNoWaiter'
<1>0. /\ value \in [Object -> Nat] /\ waiters \in [Object -> Seq(Thread)]
      /\ ThreadTypeOK
  BY DEF LockTypeOK
<1>1. CASE ThreadStep
  BY <1>1 DEF ThreadStep, lockVars, FreeImpliesNoWaiter
<1>2. ASSUME NEW o \in Object, NEW d \in Timeouts, Lock(o, d)
      PROVE  FreeImpliesNoWaiter'
  <2>1. CASE value[o] > 0
    <3>1. value' = [value EXCEPT ![o] = @ - 1] /\ waiters' = waiters
      BY <1>2, <2>1 DEF Lock
    <3> QED BY <1>0, <2>1, <3>1 DEF FreeImpliesNoWaiter
  <2>2. CASE ~(value[o] > 0)
    <3>1. /\ waiters' = [waiters EXCEPT
                           ![o] = EnqueueIn(@, current, priority, Discipline[o])]
          /\ value' = value
      BY <1>2, <2>2 DEF Lock
    <3> QED BY <1>0, <2>2, <3>1 DEF FreeImpliesNoWaiter
  <2> QED BY <2>1, <2>2
<1>3. ASSUME NEW o \in Object, NEW d \in Timeouts, EventWait(o, d)
      PROVE  FreeImpliesNoWaiter'
  BY <1>3, FreeReleaseStep DEF EventWait
<1>4. ASSUME NEW o \in Object, Unlock(o)
      PROVE  FreeImpliesNoWaiter'
  BY <1>4, FreeReleaseStep DEF Unlock
<1>5. ASSUME NEW o \in Object, EventSignal(o) \/ EventBroadcast(o)
      PROVE  FreeImpliesNoWaiter'
  BY <1>5 DEF EventSignal, EventBroadcast, FreeImpliesNoWaiter
<1>6. ASSUME LockReturn
      PROVE  FreeImpliesNoWaiter'
  <2> DEFINE o == waitingFor[current]
  <2>1. current \in Thread /\ o \in Object
    BY <1>0, <1>6, RunningIsThread DEF LockReturn, LockTypeOK
  <2>2. value' = value
    BY <1>6 DEF LockReturn
  <2>3. waiters' = [waiters EXCEPT ![o] = Withdraw(@, current)] \/ waiters' = waiters
    BY <1>6 DEF LockReturn
  <2>4. waiters[o] = <<>> => Withdraw(waiters[o], current) = <<>>
    BY <1>0, <2>1, WithdrawFacts
  <2> QED BY <1>0, <2>1, <2>2, <2>3, <2>4 DEF FreeImpliesNoWaiter
<1>7. ASSUME EventReturn
      PROVE  FreeImpliesNoWaiter'
  <2> DEFINE o == waitingFor[current]
  <2>1. current \in Thread /\ o \in Object
    BY <1>0, <1>7, RunningIsThread DEF EventReturn, LockTypeOK
  <2>2. CASE value[o] > 0
    <3>1. value' = [value EXCEPT ![o] = @ - 1] /\ waiters' = waiters
      BY <1>7, <2>2 DEF EventReturn
    <3> QED BY <1>0, <2>1, <2>2, <3>1 DEF FreeImpliesNoWaiter
  <2>3. CASE ~(value[o] > 0)
    <3>1. /\ waiters' = [waiters EXCEPT
                           ![o] = EnqueueIn(@, current, priority, Discipline[o])]
          /\ value' = value
      BY <1>7, <2>3 DEF EventReturn
    <3> QED BY <1>0, <2>1, <2>3, <3>1 DEF FreeImpliesNoWaiter
  <2> QED BY <2>2, <2>3
<1>8. CASE UNCHANGED vars
  BY <1>8 DEF vars, lockVars, FreeImpliesNoWaiter
<1> QED BY NextCases, <1>1, <1>2, <1>3, <1>4, <1>5, <1>6, <1>7, <1>8

\* The assertions of pok_lockobj_lock and pok_lockobj_unlock never fail,
\* whatever the kinds of objects, timeouts, budgets and services.
THEOREM FreeMeansNoWaiter == Spec => []FreeImpliesNoWaiter
<1>1. Init => FreeImpliesNoWaiter
  BY DEF Init, FreeImpliesNoWaiter
<1>2. LockTypeOK /\ FreeImpliesNoWaiter /\ [Next]_vars => FreeImpliesNoWaiter'
  BY FreeStep
<1> QED BY <1>1, <1>2, LockTypeCorrect, PTL DEF Spec

-----------------------------------------------------------------------------
(***************************************************************************)
(* Mutual exclusion.  A thread that returns from its wait before the       *)
(* deadline takes the resource for granted, so the strengthening says why  *)
(* nobody but an unlock makes it run before: as long as it is not owed the *)
(* resource it is blocked, or its time is over.  Two things would break    *)
(* that, a budget that runs out while the thread is blocked and a resume   *)
(* of it; neither happens in the partitions the theorem is about.          *)
(***************************************************************************)
NoForcedWakeup ==
  /\ \A t \in Thread : Capacity[t] = Infinite
  /\ "resume" \notin Services

BlockedAs(s, wake, dead, time) ==
  \/ s \in {"LOCK", "STOPPED"}
  \/ s = "WAITING" /\ dead # 0 /\ wake = dead
  \/ s = "RUNNABLE" /\ dead # 0 /\ time >= dead

Blocked(t) == BlockedAs(state[t], wakeup[t], deadline[t], now)

NoDuplicates == \A o \in Object : Distinct(waiters[o]) /\ Distinct(eventWaiters[o])

OwedIsWaiting == \A t \in owed : pc[t] = "lock"

WaiterIsBlocked == \A t \in Thread : pc[t] = "lock" /\ t \notin owed => Blocked(t)

EventWaiterIsBlocked ==
  \A o \in Object : \A t \in Queued(eventWaiters[o]) : Blocked(t)

WaitInv ==
  /\ NoDuplicates
  /\ QueuedIsWaiting
  /\ OwedIsWaiting
  /\ WaiterIsBlocked
  /\ EventWaiterIsBlocked

LEMMA RescheduleBlocked ==
  ASSUME NoForcedWakeup, now' \in Nat, wakeup' \in [Thread -> Nat],
         NEW t \in Thread, NEW dead \in Nat
  PROVE  \A st \in [Thread -> ThreadStates], rem \in Budgets :
           Reschedule(st, rem) /\ BlockedAs(st[t], wakeup'[t], dead, now')
             => BlockedAs(state'[t], wakeup'[t], dead, now')
<1> SUFFICES ASSUME NEW st \in [Thread -> ThreadStates], NEW rem \in Budgets,
                    Reschedule(st, rem),
                    BlockedAs(st[t], wakeup'[t], dead, now')
             PROVE  BlockedAs(state'[t], wakeup'[t], dead, now')
  OBVIOUS
<1>1. state'[t] = Awake(st)[t]
  BY DEF Reschedule, Exhaust, NoForcedWakeup, Infinite
<1>2. t \notin Released(st)
  BY DEF Released, BlockedAs
<1>3. CASE t \in Woken(st)
  BY <1>1, <1>3 DEF Awake, Woken, BlockedAs
<1>4. CASE t \notin Woken(st)
  BY <1>1, <1>2, <1>4 DEF Awake
<1> QED BY <1>3, <1>4

\* Neither the clock nor the calls of the running thread unblock another one.
LEMMA ThreadStepBlocked ==
  ASSUME NoForcedWakeup, LockTypeOK, LockTypeOK', ThreadStep,
         NEW t \in Thread, pc[t] # "user", Blocked(t)
  PROVE  Blocked(t)'
<1>a. /\ ThreadTypeOK /\ ThreadTypeOK' /\ deadline[t] \in Nat
      /\ deadline' = deadline
  BY DEF LockTypeOK, ThreadStep, lockVars, callVars
<1>b. now \in Nat /\ now' \in Nat
  BY <1>a, ThreadAssumption DEF ThreadTypeOK
<1>c. wakeup' \in [Thread -> Nat]
  BY <1>a DEF ThreadTypeOK
<1>d. state \in [Thread -> ThreadStates] /\ remaining \in Budgets
  BY <1>a DEF ThreadTypeOK, Budgets
<1>0. /\ ThreadTypeOK /\ deadline[t] \in Nat /\ deadline' = deadline
      /\ now \in Nat /\ now' \in Nat /\ wakeup' \in [Thread -> Nat]
      /\ state \in [Thread -> ThreadStates] /\ remaining \in Budgets
  BY <1>a, <1>b, <1>c, <1>d
<1>1. ASSUME NEW st \in [Thread -> ThreadStates], NEW rem \in Budgets,
             Reschedule(st, rem), st[t] = state[t],
             wakeup'[t] = wakeup[t], now' >= now
      PROVE  Blocked(t)'
  <2>1. BlockedAs(st[t], wakeup'[t], deadline[t], now')
    BY <1>0, <1>1 DEF Blocked, BlockedAs
  <2>2. BlockedAs(state'[t], wakeup'[t], deadline[t], now')
    BY <1>0, <1>1, <2>1, RescheduleBlocked
  <2> QED BY <1>0, <2>2 DEF Blocked
<1>2. CASE Tick
  <2>1. now' >= now /\ wakeup' = wakeup
    BY <1>0, <1>2 DEF Tick
  <2>2. CASE UNCHANGED electVars
    BY <1>0, <2>1, <2>2 DEF electVars, Blocked, BlockedAs
  <2>3. CASE Reschedule(state, remaining)
    BY <1>0, <1>1, <2>1, <2>3
  <2> QED BY <1>2, <2>2, <2>3 DEF Tick
<1>3. CASE EnterNormal
  BY <1>0, <1>1, <1>3 DEF EnterNormal, clockVars
<1>4. CASE InUser /\ Call
  <2>1. t # current /\ current \in Thread
    BY <1>0, <1>4, RunningIsThread DEF InUser
  <2>2. ASSUME NEW s \in ThreadStates, NEW rem \in Budgets,
               Reschedule([state EXCEPT ![current] = s], rem),
               wakeup'[t] = wakeup[t], now' = now
        PROVE  Blocked(t)'
    <3>1. [state EXCEPT ![current] = s] \in [Thread -> ThreadStates]
      BY <1>0
    <3>2. [state EXCEPT ![current] = s][t] = state[t]
      BY <1>0, <2>1
    <3>3. now' >= now
      BY <1>0, <2>2
    <3> QED BY <1>1, <2>2, <3>1, <3>2, <3>3
  <2>3. ASSUME NEW d \in Delays, Sleep(d)
        PROVE  Blocked(t)'
    <3>1. wakeup'[t] = wakeup[t] /\ now' = now
      BY <1>0, <2>1, <2>3 DEF Sleep, clockVars, ThreadTypeOK
    <3> QED BY <1>0, <2>2, <2>3, <3>1 DEF Sleep, ThreadStates
  <2>4. CASE Suspend
    BY <1>0, <2>2, <2>4 DEF Suspend, clockVars, ThreadStates
  <2>5. CASE EndPeriod
    <3>1. [remaining EXCEPT ![current] = 0] \in Budgets
      BY <1>0 DEF Budgets
    <3> QED BY <2>2, <2>5, <3>1 DEF EndPeriod, clockVars, ThreadStates
  <2>6. ASSUME NEW u \in Thread, SuspendTarget(u)
        PROVE  Blocked(t)'
    BY <1>0, <2>6 DEF SuspendTarget, clockVars, Blocked, BlockedAs
  <2>7. ASSUME NEW u \in Thread, NEW q \in Priority, SetPriority(u, q)
        PROVE  Blocked(t)'
    BY <1>0, <1>1, <2>7 DEF SetPriority, clockVars
  <2>8. \A u \in Thread : ~Resume(u)
    BY DEF Resume, NoForcedWakeup
  <2> QED BY <1>4, <2>3, <2>4, <2>5, <2>6, <2>7, <2>8 DEF Call
<1> QED BY <1>2, <1>3, <1>4 DEF ThreadStep

\* The thread that blocks is blocked, and the others stay so.
LEMMA BlockBlocked ==
  ASSUME NoForcedWakeup, LockTypeOK, LockTypeOK', Running,
         NEW o \in Object, NEW d \in Nat, NEW where \in {"lock", "event"},
         NEW st \in [Thread -> ThreadStates], Block(o, d, where, st),
         NEW t \in Thread,
         t = current \/ BlockedAs(st[t], wakeup[t], deadline[t], now)
  PROVE  Blocked(t)'
<1> DEFINE s == IF d > 0 THEN "WAITING" ELSE "LOCK"
           left == [st EXCEPT ![current] = s]
<1>a. /\ ThreadTypeOK /\ ThreadTypeOK'
      /\ deadline \in [Thread -> Nat] /\ deadline' \in [Thread -> Nat]
  BY DEF LockTypeOK
<1>b. now \in Nat
  BY <1>a, ThreadAssumption DEF ThreadTypeOK
<1>c. wakeup \in [Thread -> Nat] /\ wakeup' \in [Thread -> Nat]
  BY <1>a DEF ThreadTypeOK
<1>d. remaining \in Budgets
  BY <1>a DEF ThreadTypeOK, Budgets
<1>0. /\ deadline \in [Thread -> Nat] /\ deadline' \in [Thread -> Nat]
      /\ now \in Nat /\ wakeup \in [Thread -> Nat] /\ wakeup' \in [Thread -> Nat]
      /\ remaining \in Budgets
  BY <1>a, <1>b, <1>c, <1>d
<1>1. /\ deadline' = [deadline EXCEPT ![current] = IF d > 0 THEN now + d ELSE 0]
      /\ wakeup' = IF d > 0 THEN [wakeup EXCEPT ![current] = now + d] ELSE wakeup
      /\ now' = now
      /\ Reschedule(left, remaining)
  BY DEF Block, clockVars
<1>2. left \in [Thread -> ThreadStates]
  BY DEF ThreadStates
<1>3. BlockedAs(left[t], wakeup'[t], deadline'[t], now')
  <2>1. CASE t = current
    <3>1. left[t] = s
      BY <2>1
    <3>2. CASE d > 0
      <4>1. left[t] = "WAITING" /\ deadline'[t] = now + d /\ wakeup'[t] = now + d
        BY <1>0, <1>1, <2>1, <3>1, <3>2
      <4>2. now + d # 0
        BY <1>0, <3>2
      <4> QED BY <4>1, <4>2 DEF BlockedAs
    <3>3. CASE ~(d > 0)
      BY <3>1, <3>3 DEF BlockedAs
    <3> QED BY <3>2, <3>3
  <2>2. CASE t # current
    <3>1. left[t] = st[t] /\ deadline'[t] = deadline[t] /\ wakeup'[t] = wakeup[t]
      BY <1>0, <1>1, <2>2
    <3> QED BY <1>1, <2>2, <3>1
  <2> QED BY <2>1, <2>2
<1> HIDE DEF left
<1>4. now' \in Nat /\ deadline'[t] \in Nat
  BY <1>0, <1>1
<1>5. BlockedAs(state'[t], wakeup'[t], deadline'[t], now')
  BY <1>0, <1>1, <1>2, <1>3, <1>4, RescheduleBlocked
<1> QED BY <1>5 DEF Blocked

\* A call that readies other threads leaves t blocked.
LEMMA WakeBlocked ==
  ASSUME NoForcedWakeup, LockTypeOK, LockTypeOK',
         NEW st \in [Thread -> ThreadStates], Reschedule(st, remaining),
         UNCHANGED <<clockVars, wakeup, deadline>>,
         NEW t \in Thread, st[t] = state[t], Blocked(t)
  PROVE  Blocked(t)'
<1>1. ThreadTypeOK /\ ThreadTypeOK' /\ deadline[t] \in Nat
  BY DEF LockTypeOK
<1>2. now \in Nat /\ now' = now /\ wakeup' \in [Thread -> Nat]
  BY <1>1, ThreadAssumption DEF ThreadTypeOK, clockVars
<1>3. remaining \in Budgets
  BY <1>1 DEF ThreadTypeOK, Budgets
<1>4. BlockedAs(st[t], wakeup'[t], deadline[t], now')
  BY <1>2 DEF Blocked, BlockedAs
<1>5. BlockedAs(state'[t], wakeup'[t], deadline[t], now')
  BY <1>1, <1>2, <1>3, <1>4, RescheduleBlocked
<1> QED BY <1>5 DEF Blocked

\* A hand-over takes the head out of its queue and owes it the resource.
LEMMA ReleaseWait ==
  ASSUME LockTypeOK, WaitInv, NEW o \in Object, Release(o)
  PROVE  /\ \A p \in Object : /\ Distinct(waiters'[p])
                              /\ Queued(waiters'[p]) \subseteq Queued(waiters[p])
                              /\ \A t \in Queued(waiters'[p]) : t \notin owed'
         /\ owed \subseteq owed'
         /\ \A t \in owed' \ owed : pc[t] = "lock" /\ waitingFor[t] = o
         /\ \A t \in Thread : (t \notin owed' \/ pc[t] # "lock")
                                => StateAfterRelease(o)[t] = state[t]
<1>1. CASE ~HandsOver(o)
  <2>1. waiters' = waiters /\ owed' = owed
    BY <1>1 DEF Release
  <2>2. StateAfterRelease(o) = state
    BY <1>1 DEF StateAfterRelease
  <2> QED BY <2>1, <2>2 DEF WaitInv, NoDuplicates, QueuedIsWaiting
<1>2. CASE HandsOver(o)
  <2> DEFINE h == Head(waiters[o])
  <2>1. /\ waiters \in [Object -> Seq(Thread)]
        /\ waiters' = [waiters EXCEPT ![o] = Tail(@)]
        /\ owed' = owed \cup {h}
        /\ state \in [Thread -> ThreadStates]
    BY <1>2 DEF Release, LockTypeOK, ThreadTypeOK
  <2>2. /\ h \in Queued(waiters[o]) /\ h \in Thread
        /\ Queued(Tail(waiters[o])) \subseteq Queued(waiters[o])
        /\ h \notin Queued(Tail(waiters[o])) /\ Distinct(Tail(waiters[o]))
    BY <1>2, <2>1, TailFacts DEF HandsOver, WaitInv, NoDuplicates
  <2>3. pc[h] = "lock" /\ waitingFor[h] = o
    BY <2>2 DEF WaitInv, QueuedIsWaiting
  <2>4. StateAfterRelease(o) = [state EXCEPT ![h] = "RUNNABLE"]
    BY <1>2 DEF StateAfterRelease
  <2> HIDE DEF h
  <2>5. ASSUME NEW p \in Object
        PROVE  /\ Distinct(waiters'[p])
               /\ Queued(waiters'[p]) \subseteq Queued(waiters[p])
               /\ \A t \in Queued(waiters'[p]) : t \notin owed'
    <3>1. CASE p = o
      <4>1. waiters'[p] = Tail(waiters[o])
        BY <2>1, <3>1
      <4> QED BY <2>1, <2>2, <3>1, <4>1 DEF WaitInv, QueuedIsWaiting
    <3>2. CASE p # o
      <4>1. waiters'[p] = waiters[p]
        BY <2>1, <3>2
      <4> QED BY <2>1, <2>3, <3>2, <4>1 DEF WaitInv, QueuedIsWaiting, NoDuplicates
    <3> QED BY <3>1, <3>2
  <2>6. \A t \in Thread : (t \notin owed' \/ pc[t] # "lock")
                            => StateAfterRelease(o)[t] = state[t]
    BY <2>1, <2>3, <2>4
  <2> QED BY <2>1, <2>3, <2>5, <2>6
<1> QED BY <1>1, <1>2

LEMMA QueuedAreThreads ==
  ASSUME LockTypeOK, NEW p \in Object
  PROVE  Queued(waiters[p]) \subseteq Thread /\ Queued(eventWaiters[p]) \subseteq Thread
<1>1. waiters[p] \in Seq(Thread) /\ eventWaiters[p] \in Seq(Thread)
  BY DEF LockTypeOK
<1>2. \A q \in Seq(Thread) : \A i \in 1..Len(q) : q[i] \in Thread
  BY ElementOfSeq
<1> QED BY <1>1, <1>2, QueuedEntries

\* A thread in user code is in no queue and owed nothing.
LEMMA UserIsFree ==
  ASSUME WaitInv, NEW t \in Thread, pc[t] = "user"
  PROVE  /\ t \notin owed
         /\ \A p \in Object : t \notin Queued(waiters[p]) /\ t \notin Queued(eventWaiters[p])
BY DEF WaitInv, OwedIsWaiting, QueuedIsWaiting

\* The thread that runs after a wait is owed the resource, or too late for it.
LEMMA ReturnsOwedOrLate ==
  ASSUME LockTypeOK, WaitInv, Running, ~Expired(current)
  PROVE  /\ pc[current] = "lock" => current \in owed
         /\ \A p \in Object : current \notin Queued(eventWaiters[p])
<1>1. current \in Thread /\ state[current] = "RUNNABLE"
  BY RunningIsThread DEF LockTypeOK
<1>2. ~Blocked(current)
  BY <1>1 DEF Blocked, BlockedAs, Expired
<1> QED BY <1>1, <1>2 DEF WaitInv, WaiterIsBlocked, EventWaiterIsBlocked


LEMMA LockWait ==
  ASSUME NoForcedWakeup, LockTypeOK, LockTypeOK', WaitInv, InUser,
         NEW o \in Object, NEW d \in Timeouts, Lock(o, d)
  PROVE  WaitInv'
<1>0. /\ Running /\ pc[current] = "user" /\ current \in Thread /\ d \in Nat
      /\ pc \in [Thread -> {"user", "lock", "event"}]
      /\ waitingFor \in [Thread -> Object] /\ waiters \in [Object -> Seq(Thread)]
      /\ state \in [Thread -> ThreadStates]
  BY RunningIsThread, LockAssumption DEF InUser, LockTypeOK, ThreadTypeOK
<1>1. CASE value[o] > 0
  <2>1. UNCHANGED <<threadVars, waiters, eventWaiters, callVars, owed>>
    BY <1>1 DEF Lock
  <2>2. UNCHANGED <<now, state, wakeup, waiters, eventWaiters, pc, waitingFor,
                    deadline, owed>>
    BY <2>1 DEF threadVars, callVars
  <2> QED BY <2>2 DEF WaitInv, NoDuplicates, QueuedIsWaiting, OwedIsWaiting,
                      WaiterIsBlocked, EventWaiterIsBlocked, Blocked
<1>2. CASE ~(value[o] > 0)
  <2>1. /\ waiters' = [waiters EXCEPT
                         ![o] = EnqueueIn(@, current, priority, Discipline[o])]
        /\ Block(o, d, "lock", state)
        /\ eventWaiters' = eventWaiters /\ owed' = owed
        /\ pc' = [pc EXCEPT ![current] = "lock"]
        /\ waitingFor' = [waitingFor EXCEPT ![current] = o]
    BY <1>2 DEF Lock, Block, historyVars
  <2>2. /\ current \notin owed
        /\ \A p \in Object : /\ current \notin Queued(waiters[p])
                             /\ current \notin Queued(eventWaiters[p])
    BY <1>0, UserIsFree
  <2>3. /\ Queued(waiters'[o]) = Queued(waiters[o]) \cup {current}
        /\ Distinct(waiters'[o])
    BY <1>0, <2>1, <2>2, EnqueueFacts DEF WaitInv, NoDuplicates
  <2>4. \A p \in Object : p # o => waiters'[p] = waiters[p]
    BY <1>0, <2>1
  <2>5. ASSUME NEW t \in Thread, t = current \/ Blocked(t)
        PROVE  Blocked(t)'
    BY <1>0, <2>1, <2>5, BlockBlocked DEF Blocked
  <2>6. NoDuplicates'
    BY <2>1, <2>3, <2>4 DEF WaitInv, NoDuplicates
  <2>7. QueuedIsWaiting'
    BY <1>0, <2>1, <2>2, <2>3, <2>4 DEF WaitInv, QueuedIsWaiting
  <2>8. OwedIsWaiting'
    BY <1>0, <2>1 DEF WaitInv, OwedIsWaiting, LockTypeOK
  <2>9. WaiterIsBlocked'
    BY <1>0, <2>1, <2>5 DEF WaitInv, WaiterIsBlocked
  <2>10. EventWaiterIsBlocked'
    <3>1. \A p \in Object : Queued(eventWaiters[p]) \subseteq Thread
      BY QueuedAreThreads
    <3> QED BY <2>1, <2>5, <3>1 DEF WaitInv, EventWaiterIsBlocked
  <2> QED BY <2>6, <2>7, <2>8, <2>9, <2>10 DEF WaitInv
<1> QED BY <1>1, <1>2

LEMMA EventWaitWait ==
  ASSUME NoForcedWakeup, LockTypeOK, LockTypeOK', WaitInv, InUser,
         NEW o \in Object, NEW d \in Timeouts, EventWait(o, d)
  PROVE  WaitInv'
<1>0. /\ Running /\ pc[current] = "user" /\ current \in Thread /\ d \in Nat
      /\ pc \in [Thread -> {"user", "lock", "event"}] /\ owed \subseteq Thread
      /\ waitingFor \in [Thread -> Object]
      /\ eventWaiters \in [Object -> Seq(Thread)]
  BY RunningIsThread, LockAssumption DEF InUser, LockTypeOK
<1>1. /\ Release(o)
      /\ eventWaiters' = [eventWaiters EXCEPT
                            ![o] = EnqueuePriority(@, current, priority)]
      /\ Block(o, d, "event", StateAfterRelease(o))
      /\ pc' = [pc EXCEPT ![current] = "event"]
      /\ waitingFor' = [waitingFor EXCEPT ![current] = o]
  BY DEF EventWait, Block
<1>2. /\ current \notin owed
      /\ \A p \in Object : /\ current \notin Queued(waiters[p])
                           /\ current \notin Queued(eventWaiters[p])
  BY <1>0, UserIsFree
<1>3. /\ \A p \in Object : /\ Distinct(waiters'[p])
                           /\ Queued(waiters'[p]) \subseteq Queued(waiters[p])
                           /\ \A t \in Queued(waiters'[p]) : t \notin owed'
      /\ owed \subseteq owed'
      /\ \A t \in owed' \ owed : pc[t] = "lock" /\ waitingFor[t] = o
      /\ \A t \in Thread : (t \notin owed' \/ pc[t] # "lock")
                             => StateAfterRelease(o)[t] = state[t]
  BY <1>1, ReleaseWait
<1>4. /\ Queued(eventWaiters'[o]) = Queued(eventWaiters[o]) \cup {current}
      /\ Distinct(eventWaiters'[o])
  <2>1. eventWaiters'[o] = EnqueueIn(eventWaiters[o], current, priority, "PRIORITY")
    BY <1>0, <1>1 DEF EnqueueIn
  <2> QED BY <1>0, <1>2, <2>1, EnqueueFacts DEF WaitInv, NoDuplicates
<1>5. \A p \in Object : p # o => eventWaiters'[p] = eventWaiters[p]
  BY <1>0, <1>1
<1>6. ASSUME NEW t \in Thread,
             t = current \/ (Blocked(t) /\ (t \notin owed' \/ pc[t] # "lock"))
      PROVE  Blocked(t)'
  <2>1. StateAfterRelease(o) \in [Thread -> ThreadStates]
    BY <1>1, ReleaseTypes
  <2>2. t = current \/ BlockedAs(StateAfterRelease(o)[t], wakeup[t], deadline[t], now)
    BY <1>3, <1>6 DEF Blocked
  <2> QED BY <1>0, <1>1, <2>1, <2>2, BlockBlocked
<1>7. NoDuplicates'
  BY <1>3, <1>4, <1>5 DEF WaitInv, NoDuplicates
<1>8. QueuedIsWaiting'
  <2> SUFFICES ASSUME NEW p \in Object
               PROVE  /\ \A t \in Queued(waiters'[p]) :
                           pc'[t] = "lock" /\ waitingFor'[t] = p /\ t \notin owed'
                      /\ \A t \in Queued(eventWaiters'[p]) :
                           pc'[t] = "event" /\ waitingFor'[t] = p
    BY DEF QueuedIsWaiting
  <2>1. /\ \A t \in Queued(waiters[p]) : pc[t] = "lock" /\ waitingFor[t] = p
        /\ \A t \in Queued(eventWaiters[p]) : pc[t] = "event" /\ waitingFor[t] = p
    BY DEF WaitInv, QueuedIsWaiting
  <2>2. \A t \in Thread : t # current => pc'[t] = pc[t] /\ waitingFor'[t] = waitingFor[t]
    BY <1>0, <1>1
  <2>3. Queued(waiters[p]) \subseteq Thread /\ Queued(eventWaiters[p]) \subseteq Thread
    BY QueuedAreThreads
  <2>4. \A t \in Queued(waiters'[p]) :
          pc'[t] = "lock" /\ waitingFor'[t] = p /\ t \notin owed'
    BY <1>2, <1>3, <2>1, <2>2, <2>3
  <2>5. pc'[current] = "event" /\ waitingFor'[current] = o
    BY <1>0, <1>1
  <2>6. \A t \in Queued(eventWaiters'[p]) : pc'[t] = "event" /\ waitingFor'[t] = p
    BY <1>2, <1>4, <1>5, <2>1, <2>2, <2>3, <2>5
  <2> QED BY <2>4, <2>6
<1>9. OwedIsWaiting'
  BY <1>0, <1>1, <1>2, <1>3 DEF WaitInv, OwedIsWaiting, LockTypeOK
<1>10. WaiterIsBlocked'
  BY <1>0, <1>1, <1>3, <1>6 DEF WaitInv, WaiterIsBlocked
<1>11. EventWaiterIsBlocked'
  <2>1. \A p \in Object : Queued(eventWaiters[p]) \subseteq Thread
    BY QueuedAreThreads
  <2>2. \A p \in Object : \A t \in Queued(eventWaiters[p]) : pc[t] # "lock"
    BY DEF WaitInv, QueuedIsWaiting
  <2> SUFFICES ASSUME NEW p \in Object, NEW t \in Queued(eventWaiters'[p])
               PROVE  Blocked(t)'
    BY DEF EventWaiterIsBlocked
  <2>3. t = current \/ t \in Queued(eventWaiters[p])
    BY <1>4, <1>5
  <2>4. t = current \/ (t \in Thread /\ Blocked(t) /\ pc[t] # "lock")
    BY <2>1, <2>2, <2>3 DEF WaitInv, EventWaiterIsBlocked
  <2> QED BY <1>0, <1>6, <2>4
<1> QED BY <1>7, <1>8, <1>9, <1>10, <1>11 DEF WaitInv

LEMMA UnlockWait ==
  ASSUME NoForcedWakeup, LockTypeOK, LockTypeOK', WaitInv, InUser,
         NEW o \in Object, Unlock(o)
  PROVE  WaitInv'
<1>1. /\ Release(o)
      /\ UNCHANGED <<clockVars, wakeup, eventWaiters, pc, waitingFor, deadline>>
      /\ IF HandsOver(o) THEN Reschedule(StateAfterRelease(o), remaining)
                         ELSE UNCHANGED electVars
  BY DEF Unlock, callVars
<1>3. /\ \A p \in Object : /\ Distinct(waiters'[p])
                           /\ Queued(waiters'[p]) \subseteq Queued(waiters[p])
                           /\ \A t \in Queued(waiters'[p]) : t \notin owed'
      /\ owed \subseteq owed'
      /\ \A t \in owed' \ owed : pc[t] = "lock" /\ waitingFor[t] = o
      /\ \A t \in Thread : (t \notin owed' \/ pc[t] # "lock")
                             => StateAfterRelease(o)[t] = state[t]
  BY <1>1, ReleaseWait
<1>4. ASSUME NEW t \in Thread, Blocked(t), t \notin owed' \/ pc[t] # "lock"
      PROVE  Blocked(t)'
  <2>1. CASE HandsOver(o)
    <3>1. StateAfterRelease(o) \in [Thread -> ThreadStates]
      BY <1>1, ReleaseTypes
    <3>2. StateAfterRelease(o)[t] = state[t]
      BY <1>3, <1>4
    <3>3. /\ Reschedule(StateAfterRelease(o), remaining)
          /\ UNCHANGED <<clockVars, wakeup, deadline>>
      BY <1>1, <2>1
    <3> QED BY <1>4, <3>1, <3>2, <3>3, WakeBlocked
  <2>2. CASE ~HandsOver(o)
    BY <1>1, <1>4, <2>2 DEF Blocked, electVars, clockVars
  <2> QED BY <2>1, <2>2
<1>7. NoDuplicates'
  BY <1>1, <1>3 DEF WaitInv, NoDuplicates
<1>8. QueuedIsWaiting'
  BY <1>1, <1>3 DEF WaitInv, QueuedIsWaiting
<1>9. OwedIsWaiting'
  BY <1>1, <1>3 DEF WaitInv, OwedIsWaiting
<1>10. WaiterIsBlocked'
  BY <1>1, <1>3, <1>4 DEF WaitInv, WaiterIsBlocked
<1>11. EventWaiterIsBlocked'
  <2>1. \A p \in Object : Queued(eventWaiters[p]) \subseteq Thread
    BY QueuedAreThreads
  <2>2. \A p \in Object : \A t \in Queued(eventWaiters[p]) : pc[t] # "lock"
    BY DEF WaitInv, QueuedIsWaiting
  <2> QED BY <1>1, <1>4, <2>1, <2>2 DEF WaitInv, EventWaiterIsBlocked
<1> QED BY <1>7, <1>8, <1>9, <1>10, <1>11 DEF WaitInv


LEMMA EventWakeWait ==
  ASSUME NoForcedWakeup, LockTypeOK, LockTypeOK', WaitInv, InUser,
         NEW o \in Object, EventSignal(o) \/ EventBroadcast(o)
  PROVE  WaitInv'
<1>1. /\ eventWaiters[o] # <<>>
      /\ UNCHANGED <<clockVars, wakeup, waiters, pc, waitingFor, deadline, owed>>
  BY DEF EventSignal, EventBroadcast, callVars, historyVars
<1>2. /\ eventWaiters \in [Object -> Seq(Thread)]
      /\ state \in [Thread -> ThreadStates]
  BY DEF LockTypeOK, ThreadTypeOK
<1>3. PICK st \in [Thread -> ThreadStates] :
        /\ Reschedule(st, remaining)
        /\ \A t \in Thread : t \notin Queued(eventWaiters[o])
                             \/ t \in Queued(eventWaiters'[o]) => st[t] = state[t]
        /\ \A p \in Object : /\ Distinct(eventWaiters'[p])
                             /\ Queued(eventWaiters'[p]) \subseteq Queued(eventWaiters[p])
                             /\ p # o => eventWaiters'[p] = eventWaiters[p]
  <2>1. CASE EventSignal(o)
    <3> DEFINE h == Head(eventWaiters[o])
               st == [state EXCEPT ![h] = "RUNNABLE"]
    <3>1. /\ h \in Queued(eventWaiters[o]) /\ h \in Thread
          /\ Queued(Tail(eventWaiters[o])) \subseteq Queued(eventWaiters[o])
          /\ h \notin Queued(Tail(eventWaiters[o])) /\ Distinct(Tail(eventWaiters[o]))
      BY <1>1, <1>2, TailFacts DEF WaitInv, NoDuplicates
    <3>2. eventWaiters' = [eventWaiters EXCEPT ![o] = Tail(@)] /\ Reschedule(st, remaining)
      BY <2>1 DEF EventSignal
    <3>3. st \in [Thread -> ThreadStates]
      BY <1>2 DEF ThreadStates
    <3>4. \A t \in Thread : t # h => st[t] = state[t]
      BY <1>2
    <3>5. eventWaiters'[o] = Tail(eventWaiters[o])
      BY <1>2, <3>2
    <3>6. \A p \in Object : p # o => eventWaiters'[p] = eventWaiters[p]
      BY <1>2, <3>2
    <3> HIDE DEF h, st
    <3>7. \A p \in Object : /\ Distinct(eventWaiters'[p])
                            /\ Queued(eventWaiters'[p]) \subseteq Queued(eventWaiters[p])
      BY <3>1, <3>5, <3>6 DEF WaitInv, NoDuplicates
    <3> QED BY <3>1, <3>2, <3>3, <3>4, <3>5, <3>6, <3>7
  <2>2. CASE EventBroadcast(o)
    <3> DEFINE st == [t \in Thread |-> IF t \in Queued(eventWaiters[o])
                                       THEN "RUNNABLE" ELSE state[t]]
    <3>1. eventWaiters' = [eventWaiters EXCEPT ![o] = <<>>] /\ Reschedule(st, remaining)
      BY <2>2 DEF EventBroadcast
    <3>2. st \in [Thread -> ThreadStates]
      BY <1>2 DEF ThreadStates
    <3>3. \A t \in Thread : t \notin Queued(eventWaiters[o]) => st[t] = state[t]
      OBVIOUS
    <3>4. eventWaiters'[o] = <<>> /\ Queued(<<>>) = {} /\ Distinct(<<>>)
      <4>1. eventWaiters'[o] = <<>>
        BY <1>2, <3>1
      <4>2. <<>> \in Seq(Thread) /\ Len(<<>>) = 0
        BY EmptySeq
      <4>3. Queued(<<>>) = {<<>>[i] : i \in 1 .. Len(<<>>)}
        BY <4>2, QueuedEntries
      <4>4. Queued(<<>>) = {}
        BY <4>2, <4>3
      <4>5. Distinct(<<>>)
        BY <4>2 DEF Distinct
      <4> QED BY <4>1, <4>4, <4>5
    <3>5. \A p \in Object : p # o => eventWaiters'[p] = eventWaiters[p]
      BY <1>2, <3>1
    <3> HIDE DEF st
    <3>6. \A p \in Object : /\ Distinct(eventWaiters'[p])
                            /\ Queued(eventWaiters'[p]) \subseteq Queued(eventWaiters[p])
      BY <3>4, <3>5 DEF WaitInv, NoDuplicates
    <3> QED BY <3>1, <3>2, <3>3, <3>4, <3>5, <3>6
  <2> QED BY <2>1, <2>2
<1>4. ASSUME NEW t \in Thread, Blocked(t), st[t] = state[t]
      PROVE  Blocked(t)'
  BY <1>1, <1>3, <1>4, WakeBlocked
<1>5. \A t \in Queued(eventWaiters[o]) : pc[t] = "event" /\ waitingFor[t] = o
  BY DEF WaitInv, QueuedIsWaiting
<1>6. NoDuplicates'
  BY <1>1, <1>3 DEF WaitInv, NoDuplicates
<1>7. QueuedIsWaiting'
  BY <1>1, <1>3 DEF WaitInv, QueuedIsWaiting
<1>8. OwedIsWaiting'
  BY <1>1 DEF WaitInv, OwedIsWaiting
<1>9. WaiterIsBlocked'
  BY <1>1, <1>3, <1>4, <1>5 DEF WaitInv, WaiterIsBlocked
<1>10. EventWaiterIsBlocked'
  <2> SUFFICES ASSUME NEW p \in Object, NEW t \in Queued(eventWaiters'[p])
               PROVE  Blocked(t)'
    BY DEF EventWaiterIsBlocked
  <2>1. t \in Queued(eventWaiters[p]) /\ t \in Thread /\ Blocked(t)
    BY <1>3, QueuedAreThreads DEF WaitInv, EventWaiterIsBlocked
  <2>2. waitingFor[t] = p /\ (p # o => t \notin Queued(eventWaiters[o]))
    BY <1>5, <2>1 DEF WaitInv, QueuedIsWaiting
  <2> QED BY <1>3, <1>4, <2>1, <2>2
<1> QED BY <1>6, <1>7, <1>8, <1>9, <1>10 DEF WaitInv

LEMMA LockReturnWait ==
  ASSUME LockTypeOK, WaitInv, LockReturn
  PROVE  WaitInv'
<1> DEFINE o == waitingFor[current]
<1>0. /\ Running /\ pc[current] = "lock" /\ current \in Thread /\ o \in Object
      /\ pc \in [Thread -> {"user", "lock", "event"}] /\ owed \subseteq Thread
      /\ deadline \in [Thread -> Nat] /\ waiters \in [Object -> Seq(Thread)]
  BY RunningIsThread DEF LockReturn, LockTypeOK
<1>1. /\ pc' = [pc EXCEPT ![current] = "user"]
      /\ deadline' = [deadline EXCEPT ![current] = 0]
      /\ owed' = owed \ {current}
      /\ UNCHANGED <<now, state, wakeup, eventWaiters, waitingFor>>
  BY DEF LockReturn, threadVars
<1>2. \A p \in Object : /\ Distinct(waiters'[p])
                        /\ Queued(waiters'[p]) \subseteq Queued(waiters[p]) \ {current}
  <2>1. \A p \in Object : current \in Queued(waiters[p]) => p = o /\ current \notin owed
    BY DEF WaitInv, QueuedIsWaiting
  <2>2. CASE Expired(current)
    <3>1. waiters' = [waiters EXCEPT ![o] = Withdraw(@, current)]
      BY <2>2 DEF LockReturn
    <3>2. /\ Distinct(Withdraw(waiters[o], current))
          /\ Queued(Withdraw(waiters[o], current)) = Queued(waiters[o]) \ {current}
      BY <1>0, WithdrawFacts DEF WaitInv, NoDuplicates
    <3>3. waiters'[o] = Withdraw(waiters[o], current)
      BY <1>0, <3>1
    <3>4. \A p \in Object : p # o => waiters'[p] = waiters[p]
      BY <1>0, <3>1
    <3> HIDE DEF o
    <3> QED BY <2>1, <3>2, <3>3, <3>4 DEF WaitInv, NoDuplicates
  <2>3. CASE ~Expired(current)
    <3>1. waiters' = waiters /\ current \in owed
      BY <1>0, <2>3, ReturnsOwedOrLate DEF LockReturn
    <3> QED BY <2>1, <3>1 DEF WaitInv, NoDuplicates
  <2> QED BY <2>2, <2>3
<1> HIDE DEF o
<1>3. NoDuplicates'
  BY <1>1, <1>2 DEF WaitInv, NoDuplicates
<1>4. QueuedIsWaiting'
  BY <1>0, <1>1, <1>2 DEF WaitInv, QueuedIsWaiting
<1>5. OwedIsWaiting'
  BY <1>0, <1>1 DEF WaitInv, OwedIsWaiting
<1>6. \A t \in Thread : t # current => (Blocked(t)' <=> Blocked(t))
  BY <1>0, <1>1 DEF Blocked
<1>7. WaiterIsBlocked'
  BY <1>0, <1>1, <1>6 DEF WaitInv, WaiterIsBlocked
<1>8. EventWaiterIsBlocked'
  <2>1. \A p \in Object : current \notin Queued(eventWaiters[p])
    BY <1>0 DEF WaitInv, QueuedIsWaiting
  <2> QED BY <1>1, <1>6, <2>1, QueuedAreThreads DEF WaitInv, EventWaiterIsBlocked
<1> QED BY <1>3, <1>4, <1>5, <1>7, <1>8 DEF WaitInv

LEMMA EventReturnWait ==
  ASSUME NoForcedWakeup, LockTypeOK, LockTypeOK', WaitInv, EventReturn
  PROVE  WaitInv'
<1> DEFINE o == waitingFor[current]
<1>0. /\ Running /\ pc[current] = "event" /\ current \in Thread /\ o \in Object
      /\ pc \in [Thread -> {"user", "lock", "event"}] /\ owed \subseteq Thread
      /\ waitingFor \in [Thread -> Object] /\ deadline \in [Thread -> Nat]
      /\ waiters \in [Object -> Seq(Thread)]
      /\ eventWaiters \in [Object -> Seq(Thread)]
      /\ state \in [Thread -> ThreadStates]
  BY RunningIsThread DEF EventReturn, LockTypeOK, ThreadTypeOK
<1>1. owed' = owed /\ current \notin owed
      /\ \A p \in Object : current \notin Queued(waiters[p])
  BY <1>0 DEF EventReturn, WaitInv, OwedIsWaiting, QueuedIsWaiting
<1>2. \A p \in Object :
        /\ Distinct(eventWaiters'[p])
        /\ Queued(eventWaiters'[p]) \subseteq Queued(eventWaiters[p]) \ {current}
  <2>1. \A p \in Object : current \in Queued(eventWaiters[p]) => p = o
    BY DEF WaitInv, QueuedIsWaiting
  <2>2. CASE Expired(current)
    <3>1. eventWaiters' = [eventWaiters EXCEPT ![o] = Withdraw(@, current)]
      BY <2>2 DEF EventReturn
    <3>2. /\ Distinct(Withdraw(eventWaiters[o], current))
          /\ Queued(Withdraw(eventWaiters[o], current)) = Queued(eventWaiters[o]) \ {current}
      BY <1>0, WithdrawFacts DEF WaitInv, NoDuplicates
    <3>3. eventWaiters'[o] = Withdraw(eventWaiters[o], current)
      BY <1>0, <3>1
    <3>4. \A p \in Object : p # o => eventWaiters'[p] = eventWaiters[p]
      BY <1>0, <3>1
    <3> HIDE DEF o
    <3> QED BY <2>1, <3>2, <3>3, <3>4 DEF WaitInv, NoDuplicates
  <2>3. CASE ~Expired(current)
    <3>1. eventWaiters' = eventWaiters
      BY <2>3 DEF EventReturn
    <3> QED BY <1>0, <2>3, <3>1, ReturnsOwedOrLate DEF WaitInv, NoDuplicates
  <2> QED BY <2>2, <2>3
<1>3. \A p \in Object : Queued(waiters[p]) \subseteq Thread
                        /\ Queued(eventWaiters[p]) \subseteq Thread
  BY QueuedAreThreads
<1>4. CASE value[o] > 0
  <2>1. /\ pc' = [pc EXCEPT ![current] = "user"]
        /\ deadline' = [deadline EXCEPT ![current] = 0]
        /\ UNCHANGED <<now, state, wakeup, waiters, waitingFor>>
    BY <1>4 DEF EventReturn, threadVars
  <2>2. \A t \in Thread : t # current => (Blocked(t)' <=> Blocked(t))
    BY <1>0, <2>1 DEF Blocked
  <2> HIDE DEF o
  <2>3. NoDuplicates'
    BY <1>2, <2>1 DEF WaitInv, NoDuplicates
  <2>4. QueuedIsWaiting'
    BY <1>0, <1>1, <1>2, <1>3, <2>1 DEF WaitInv, QueuedIsWaiting
  <2>5. OwedIsWaiting'
    BY <1>0, <1>1, <2>1 DEF WaitInv, OwedIsWaiting
  <2>6. WaiterIsBlocked'
    BY <1>0, <1>1, <2>1, <2>2 DEF WaitInv, WaiterIsBlocked
  <2>7. EventWaiterIsBlocked'
    BY <1>2, <1>3, <2>2 DEF WaitInv, EventWaiterIsBlocked
  <2> QED BY <2>3, <2>4, <2>5, <2>6, <2>7 DEF WaitInv
<1>5. CASE ~(value[o] > 0)
  <2>1. /\ waiters' = [waiters EXCEPT
                         ![o] = EnqueueIn(@, current, priority, Discipline[o])]
        /\ Block(o, 0, "lock", state)
        /\ pc' = [pc EXCEPT ![current] = "lock"]
        /\ waitingFor' = [waitingFor EXCEPT ![current] = o]
    BY <1>5 DEF EventReturn, Block
  <2>2. /\ Queued(waiters'[o]) = Queued(waiters[o]) \cup {current}
        /\ Distinct(waiters'[o])
    BY <1>0, <1>1, <2>1, EnqueueFacts DEF WaitInv, NoDuplicates
  <2>3. \A p \in Object : p # o => waiters'[p] = waiters[p]
    BY <1>0, <2>1
  <2>4. ASSUME NEW t \in Thread, t = current \/ Blocked(t)
        PROVE  Blocked(t)'
    BY <1>0, <2>1, <2>4, BlockBlocked DEF Blocked
  <2>5. pc'[current] = "lock" /\ waitingFor'[current] = o
    BY <1>0, <2>1
  <2>6. \A t \in Thread : t # current => pc'[t] = pc[t] /\ waitingFor'[t] = waitingFor[t]
    BY <1>0, <2>1
  <2> HIDE DEF o
  <2>7. NoDuplicates'
    BY <1>2, <2>2, <2>3 DEF WaitInv, NoDuplicates
  <2>8. QueuedIsWaiting'
    <3> SUFFICES ASSUME NEW p \in Object
                 PROVE  /\ \A t \in Queued(waiters'[p]) :
                             pc'[t] = "lock" /\ waitingFor'[t] = p /\ t \notin owed'
                        /\ \A t \in Queued(eventWaiters'[p]) :
                             pc'[t] = "event" /\ waitingFor'[t] = p
      BY DEF QueuedIsWaiting
    <3>1. /\ \A t \in Queued(waiters[p]) :
               pc[t] = "lock" /\ waitingFor[t] = p /\ t \notin owed
          /\ \A t \in Queued(eventWaiters[p]) : pc[t] = "event" /\ waitingFor[t] = p
      BY DEF WaitInv, QueuedIsWaiting
    <3> QED BY <1>1, <1>2, <1>3, <2>2, <2>3, <2>5, <2>6, <3>1
  <2>9. OwedIsWaiting'
    BY <1>0, <1>1, <2>6 DEF WaitInv, OwedIsWaiting
  <2>10. WaiterIsBlocked'
    BY <1>1, <2>4, <2>6 DEF WaitInv, WaiterIsBlocked
  <2>11. EventWaiterIsBlocked'
    BY <1>2, <1>3, <2>4 DEF WaitInv, EventWaiterIsBlocked
  <2> QED BY <2>7, <2>8, <2>9, <2>10, <2>11 DEF WaitInv
<1> QED BY <1>4, <1>5


LEMMA WaitStep ==
  ASSUME NoForcedWakeup, LockTypeOK, LockTypeOK', WaitInv, [Next]_vars
  PROVE  WaitInv'
<1>1. CASE ThreadStep
  <2>1. UNCHANGED <<waiters, eventWaiters, pc, waitingFor, owed>>
    BY <1>1 DEF ThreadStep, lockVars, callVars, historyVars
  <2>2. \A t \in Thread : pc[t] # "user" /\ Blocked(t) => Blocked(t)'
    BY <1>1, ThreadStepBlocked
  <2>3. EventWaiterIsBlocked'
    <3> SUFFICES ASSUME NEW p \in Object, NEW t \in Queued(eventWaiters[p])
                 PROVE  Blocked(t)'
      BY <2>1 DEF EventWaiterIsBlocked
    <3>1. t \in Thread /\ pc[t] = "event" /\ Blocked(t)
      BY QueuedAreThreads DEF WaitInv, QueuedIsWaiting, EventWaiterIsBlocked
    <3> QED BY <2>2, <3>1
  <2>4. WaiterIsBlocked'
    BY <2>1, <2>2 DEF WaitInv, WaiterIsBlocked
  <2> QED BY <2>1, <2>3, <2>4 DEF WaitInv, NoDuplicates, QueuedIsWaiting, OwedIsWaiting
<1>2. CASE UNCHANGED vars
  BY <1>2 DEF vars, threadVars, lockVars, callVars, historyVars, WaitInv, NoDuplicates,
              QueuedIsWaiting, OwedIsWaiting, WaiterIsBlocked, EventWaiterIsBlocked,
              Blocked
<1> QED BY NextCases, LockWait, EventWaitWait, UnlockWait, EventWakeWait,
           LockReturnWait, EventReturnWait, <1>1, <1>2

LEMMA WaitInvariant == NoForcedWakeup => (Spec => []WaitInv)
<1>1. ASSUME Init PROVE WaitInv
  <2>1. <<>> \in Seq(Thread) /\ Len(<<>>) = 0
    BY EmptySeq
  <2>2. Queued(<<>>) = {<<>>[i] : i \in 1 .. Len(<<>>)}
    BY <2>1, QueuedEntries
  <2>3. Queued(<<>>) = {} /\ Distinct(<<>>)
    BY <2>1, <2>2 DEF Distinct
  <2> QED BY <1>1, <2>3 DEF Init, WaitInv, NoDuplicates, QueuedIsWaiting, OwedIsWaiting,
                            WaiterIsBlocked, EventWaiterIsBlocked
<1>2. NoForcedWakeup /\ LockTypeOK /\ LockTypeOK' /\ WaitInv /\ [Next]_vars => WaitInv'
  BY WaitStep
<1>3. NoForcedWakeup /\ Spec => []WaitInv
  <2>1. NoForcedWakeup => []NoForcedWakeup
    BY DEF NoForcedWakeup
  <2> QED BY <1>1, <1>2, <2>1, LockTypeCorrect, PTL DEF Spec
<1> QED BY <1>3

\* Every queued thread is in the call that queued it: an unlock or a signal is
\* never spent on a thread that gave up or was already woken, in a partition
\* without budgets whose program does not resume threads.
THEOREM QueuedThreadsWait == NoForcedWakeup => (Spec => []QueuedIsWaiting)
<1>1. WaitInv => QueuedIsWaiting
  BY DEF WaitInv
<1> QED BY <1>1, WaitInvariant, PTL


-----------------------------------------------------------------------------
Having(o) == holders[o] \cup Owed(o)

Exclusive(o) ==
  /\ \A t, u \in Having(o) : t = u
  /\ value[o] > 0 => Having(o) = {}

LEMMA MutualExclusionUnfolded ==
  MutualExclusion <=> \A o \in OwnerReleases : Kind[o] # "SEMAPHORE" => Exclusive(o)
BY DEF MutualExclusion, Exclusive, Having

LEMMA ShrinksExclusive ==
  ASSUME NEW o, Exclusive(o), value'[o] = value[o], Having(o)' \subseteq Having(o)
  PROVE  Exclusive(o)'
BY DEF Exclusive

\* Taking an available mutex makes the running thread the only one to have it.
LEMMA TakeExclusive ==
  ASSUME LockTypeOK, MutualExclusion, NEW o \in Object, value[o] > 0,
         value' = [value EXCEPT ![o] = @ - 1], Acquire(o),
         owed' = owed, waitingFor' = waitingFor
  PROVE  MutualExclusion'
<1> SUFFICES ASSUME NEW p \in OwnerReleases, Kind[p] # "SEMAPHORE"
             PROVE  Exclusive(p)'
  BY MutualExclusionUnfolded DEF MutualExclusion, Exclusive, Having
<1>0. /\ p \in Object /\ MaxValue[p] = 1 /\ Exclusive(p)
      /\ value \in [Object -> Nat] /\ value[p] <= MaxValue[p]
      /\ holders \in [Object -> SUBSET Thread]
      /\ holders' = [holders EXCEPT ![o] = @ \cup {current}]
  BY LockAssumption, MutualExclusionUnfolded DEF LockTypeOK, Acquire
<1>1. Owed(p)' = Owed(p)
  BY DEF Owed
<1>2. CASE p = o
  <2>1. Having(p) = {} /\ Having(p)' = {current}
    BY <1>0, <1>1, <1>2 DEF Exclusive, Having
  <2>2. value'[p] = 0
    <3>1. value[p] = 1
      BY <1>0, <1>2
    <3> QED BY <1>0, <1>2, <3>1
  <2> QED BY <2>1, <2>2 DEF Exclusive
<1>3. CASE p # o
  <2>1. value'[p] = value[p] /\ holders'[p] = holders[p]
    BY <1>0, <1>3
  <2> QED BY <1>0, <1>1, <2>1, ShrinksExclusive DEF Having
<1> QED BY <1>2, <1>3

\* Its holder gives a mutex to the head of the queue, or back.
LEMMA ReleaseExclusive ==
  ASSUME LockTypeOK, WaitInv, MutualExclusion, InUser,
         NEW o \in Object, MayRelease(o), Release(o),
         \A t \in Thread \ {current} : waitingFor'[t] = waitingFor[t]
  PROVE  MutualExclusion'
<1> SUFFICES ASSUME NEW p \in OwnerReleases, Kind[p] # "SEMAPHORE"
             PROVE  Exclusive(p)'
  BY MutualExclusionUnfolded DEF MutualExclusion, Exclusive, Having
<1>0. /\ p \in Object /\ Exclusive(p)
      /\ value \in [Object -> Nat] /\ holders \in [Object -> SUBSET Thread]
      /\ holders' = [holders EXCEPT ![o] = @ \ {current}]
      /\ owed \subseteq Thread /\ owed' \subseteq Thread
      /\ current \in Thread /\ pc[current] = "user" /\ current \notin owed
  BY LockAssumption, MutualExclusionUnfolded, ReleaseTypes, RunningIsThread, UserIsFree
     DEF LockTypeOK, Release, InUser
<1>1. \A t \in owed' \ owed : pc[t] = "lock" /\ waitingFor[t] = o
  BY ReleaseWait
<1>2. current \notin owed'
  BY <1>0, <1>1
<1>3. Owed(p)' = {t \in owed' : waitingFor[t] = p}
  BY <1>0, <1>2 DEF Owed
<1>4. CASE p = o
  <2>1. current \in holders[p] /\ Having(p) = {current} /\ ~(value[p] > 0)
    BY <1>0, <1>4 DEF MayRelease, Exclusive, Having
  <2>2. holders'[p] = {} /\ Owed(p) = {}
    BY <1>0, <1>4, <2>1 DEF Having, Owed
  <2>3. CASE HandsOver(o)
    <3>1. value' = value /\ owed' = owed \cup {Head(waiters[o])}
      BY <2>3 DEF Release
    <3>2. Having(p)' \subseteq {Head(waiters[o])}
      BY <1>3, <2>2, <3>1 DEF Having, Owed
    <3> QED BY <2>1, <3>1, <3>2 DEF Exclusive
  <2>4. CASE ~HandsOver(o)
    <3>1. owed' = owed
      BY <2>4 DEF Release
    <3>2. Having(p)' = {}
      BY <1>3, <2>2, <3>1 DEF Having, Owed
    <3> QED BY <3>2 DEF Exclusive
  <2> QED BY <2>3, <2>4
<1>5. CASE p # o
  <2>1. value'[p] = value[p] /\ holders'[p] = holders[p]
    BY <1>0, <1>5 DEF Release
  <2>2. Owed(p)' \subseteq Owed(p)
    BY <1>1, <1>3, <1>5 DEF Owed
  <2> QED BY <1>0, <2>1, <2>2, ShrinksExclusive DEF Having
<1> QED BY <1>4, <1>5

\* Steps that give nothing to anybody.
LEMMA QuietExclusive ==
  ASSUME LockTypeOK, MutualExclusion, value' = value, holders' = holders, owed' = owed,
         \A t \in owed : waitingFor'[t] = waitingFor[t]
  PROVE  MutualExclusion'
<1>1. \A o \in Object : Having(o)' = Having(o)
  BY DEF Having, Owed
<1>2. \A o \in OwnerReleases : Kind[o] # "SEMAPHORE" => Exclusive(o)'
  BY <1>1, LockAssumption, MutualExclusionUnfolded, ShrinksExclusive
<1> QED BY <1>2 DEF MutualExclusion, Exclusive, Having


LEMMA MutexStep ==
  ASSUME LockTypeOK, WaitInv, MutualExclusion, [Next]_vars
  PROVE  MutualExclusion'
<1>0. /\ waitingFor \in [Thread -> Object] /\ owed \subseteq Thread
      /\ holders \in [Object -> SUBSET Thread]
      /\ (Running => current \in Thread)
      /\ (InUser => Running /\ pc[current] = "user" /\ current \notin owed)
  BY RunningIsThread, UserIsFree DEF LockTypeOK, InUser
<1>1. ASSUME UNCHANGED <<value, holders, owed, waitingFor>>
      PROVE  MutualExclusion'
  BY <1>1, QuietExclusive
<1>2. CASE ThreadStep \/ UNCHANGED vars
  BY <1>1, <1>2 DEF ThreadStep, vars, lockVars, callVars, historyVars
<1>3. ASSUME NEW o \in Object, NEW d \in Timeouts, InUser, Lock(o, d)
      PROVE  MutualExclusion'
  <2>1. CASE value[o] > 0
    BY <1>3, <2>1, TakeExclusive DEF Lock, callVars
  <2>2. CASE ~(value[o] > 0)
    <3>1. /\ UNCHANGED <<value, holders, owed>>
          /\ waitingFor' = [waitingFor EXCEPT ![current] = o]
      BY <1>3, <2>2 DEF Lock, Block, historyVars
    <3> QED BY <1>0, <1>3, <3>1, QuietExclusive
  <2> QED BY <2>1, <2>2
<1>4. ASSUME NEW o \in Object, NEW d \in Timeouts, InUser, EventWait(o, d)
      PROVE  MutualExclusion'
  <2>1. \A t \in Thread \ {current} : waitingFor'[t] = waitingFor[t]
    BY <1>0, <1>4 DEF EventWait, Block
  <2>2. MayRelease(o) /\ Release(o)
    BY <1>4 DEF EventWait
  <2> QED BY <1>4, <2>1, <2>2, ReleaseExclusive
<1>5. ASSUME NEW o \in Object, InUser, Unlock(o)
      PROVE  MutualExclusion'
  <2>1. \A t \in Thread \ {current} : waitingFor'[t] = waitingFor[t]
    BY <1>5 DEF Unlock, callVars
  <2>2. MayRelease(o) /\ Release(o)
    BY <1>5 DEF Unlock
  <2> QED BY <1>5, <2>1, <2>2, ReleaseExclusive
<1>6. ASSUME NEW o \in Object, EventSignal(o) \/ EventBroadcast(o)
      PROVE  MutualExclusion'
  BY <1>1, <1>6 DEF EventSignal, EventBroadcast, callVars, historyVars
<1>7. ASSUME LockReturn
      PROVE  MutualExclusion'
  <2> DEFINE p == waitingFor[current]
  <2>0. /\ Running /\ pc[current] = "lock" /\ current \in Thread /\ p \in Object
        /\ value' = value /\ waitingFor' = waitingFor /\ owed' = owed \ {current}
    BY <1>0, <1>7 DEF LockReturn
  <2>1. \A o \in Object : Having(o)' \subseteq Having(o)
    <3>1. CASE Expired(current)
      <4>1. holders' = holders
        BY <1>7, <3>1 DEF LockReturn
      <4> QED BY <2>0, <4>1 DEF Having, Owed
    <3>2. CASE ~Expired(current)
      <4>1. current \in Owed(p)
        BY <2>0, <3>2, ReturnsOwedOrLate DEF Owed
      <4>2. holders' = [holders EXCEPT ![p] = @ \cup {current}]
        BY <1>7, <3>2 DEF LockReturn, Acquire
      <4> HIDE DEF p
      <4>3. \A o \in Object : holders'[o] \subseteq holders[o] \cup Owed(o)
        BY <1>0, <4>1, <4>2
      <4>4. \A o \in Object : Owed(o)' \subseteq Owed(o)
        BY <2>0 DEF Owed
      <4> QED BY <4>3, <4>4 DEF Having
    <3> QED BY <3>1, <3>2
  <2>2. \A o \in OwnerReleases : Kind[o] # "SEMAPHORE" => Exclusive(o)'
    BY <2>0, <2>1, LockAssumption, MutualExclusionUnfolded, ShrinksExclusive
  <2> QED BY <2>2 DEF MutualExclusion, Exclusive, Having
<1>8. ASSUME EventReturn
      PROVE  MutualExclusion'
  <2> DEFINE p == waitingFor[current]
  <2>0. /\ Running /\ pc[current] = "event" /\ current \in Thread /\ p \in Object
        /\ owed' = owed /\ current \notin owed
    BY <1>0, <1>8 DEF EventReturn, WaitInv, OwedIsWaiting
  <2>1. CASE value[p] > 0
    <3>1. /\ value' = [value EXCEPT ![p] = @ - 1]
          /\ Acquire(p)
          /\ waitingFor' = waitingFor
      BY <1>8, <2>1 DEF EventReturn
    <3> QED BY <2>0, <2>1, <3>1, TakeExclusive
  <2>2. CASE ~(value[p] > 0)
    <3>1. /\ UNCHANGED <<value, holders>>
          /\ waitingFor' = [waitingFor EXCEPT ![current] = p]
      BY <1>8, <2>2 DEF EventReturn, Block
    <3> QED BY <1>0, <2>0, <3>1, QuietExclusive
  <2> QED BY <2>1, <2>2
<1> QED BY NextCases, <1>2, <1>3, <1>4, <1>5, <1>6, <1>7, <1>8

\* A mutex, or the mutex of an event, is held by or on its way to at most one
\* thread, and to none while it is available: for any number of threads and
\* objects, any timeouts and priorities and every policy, in a partition
\* without budgets whose program does not resume threads and unlocks what it
\* holds.  With a budget a thread may return from the lock without the mutex: the
\* election overwrites the LOCK of a thread whose budget is used up (sched.c:262).
THEOREM MutualExclusionHolds == NoForcedWakeup => (Spec => []MutualExclusion)
<1>1. Init => MutualExclusion
  BY LockAssumption DEF Init, MutualExclusion, Owed
<1>2. LockTypeOK /\ WaitInv /\ MutualExclusion /\ [Next]_vars => MutualExclusion'
  BY MutexStep
<1> QED BY <1>1, <1>2, LockTypeCorrect, WaitInvariant, PTL DEF Spec

-----------------------------------------------------------------------------
(***************************************************************************)
(* No missed wake-up.  A thread in the kernel's wait is in the queue of    *)
(* its object, or was taken from it by an unlock or a signal and is not    *)
(* blocked any more.                                                       *)
(***************************************************************************)
Waits(t) == state[t] \in {"LOCK", "WAITING"}

LockedInQueue ==
  \A t \in Thread : pc[t] = "lock" => t \in owed \/ t \in Queued(waiters[waitingFor[t]])

OwedIsAwake == \A t \in owed : ~Waits(t)

EventInQueue ==
  \A t \in Thread :
    pc[t] = "event" /\ Waits(t) => t \in Queued(eventWaiters[waitingFor[t]])

QueueInv == LockedInQueue /\ OwedIsAwake /\ EventInQueue

\* The scheduler blocks nobody.
LEMMA RescheduleAwake ==
  ASSUME NEW st \in [Thread -> ThreadStates], NEW rem, Reschedule(st, rem),
         NEW t \in Thread, st[t] \notin {"LOCK", "WAITING"}
  PROVE  ~Waits(t)'
<1>1. Awake(st)[t] \notin {"LOCK", "WAITING"}
  BY DEF Awake
<1>2. state'[t] \in {Awake(st)[t], "WAIT_NEXT_ACTIVATION"}
  BY DEF Reschedule, Exhaust
<1> QED BY <1>1, <1>2 DEF Waits

LEMMA ThreadStepAwake ==
  ASSUME LockTypeOK, ThreadStep, NEW t \in Thread, pc[t] # "user", ~Waits(t)
  PROVE  ~Waits(t)'
<1>0. /\ ThreadTypeOK /\ state \in [Thread -> ThreadStates]
      /\ pc \in [Thread -> {"user", "lock", "event"}]
  BY DEF LockTypeOK, ThreadTypeOK
<1>1. ASSUME NEW rem, Reschedule(state, rem) PROVE ~Waits(t)'
  BY <1>0, <1>1, RescheduleAwake DEF Waits
<1>2. CASE UNCHANGED electVars
  BY <1>2 DEF electVars, Waits
<1>3. CASE Tick \/ EnterNormal
  BY <1>1, <1>2, <1>3 DEF Tick, EnterNormal
<1>4. CASE InUser /\ Call
  <2>1. t # current /\ current \in Thread
    BY <1>0, <1>4, RunningIsThread DEF InUser
  <2>2. ASSUME NEW s \in ThreadStates, NEW rem,
               Reschedule([state EXCEPT ![current] = s], rem)
        PROVE  ~Waits(t)'
    <3>1. /\ [state EXCEPT ![current] = s] \in [Thread -> ThreadStates]
          /\ [state EXCEPT ![current] = s][t] = state[t]
      BY <1>0, <2>1
    <3> QED BY <2>2, <3>1, RescheduleAwake DEF Waits
  <2>3. ASSUME NEW d \in Delays, Sleep(d)
        PROVE  ~Waits(t)'
    BY <2>2, <2>3 DEF Sleep, ThreadStates
  <2>4. CASE Suspend \/ EndPeriod
    BY <2>2, <2>4 DEF Suspend, EndPeriod, ThreadStates
  <2>5. ASSUME NEW u \in Thread, Resume(u)
        PROVE  ~Waits(t)'
    <3>1. Reschedule([state EXCEPT ![u] = "RUNNABLE"], remaining)
      BY <2>5 DEF Resume
    <3>2. /\ [state EXCEPT ![u] = "RUNNABLE"] \in [Thread -> ThreadStates]
          /\ [state EXCEPT ![u] = "RUNNABLE"][t] \notin {"LOCK", "WAITING"}
      BY <1>0 DEF ThreadStates, Waits
    <3> QED BY <3>1, <3>2, RescheduleAwake
  <2>6. ASSUME NEW u \in Thread, SuspendTarget(u)
        PROVE  ~Waits(t)'
    BY <1>0, <2>6 DEF SuspendTarget, Waits
  <2>7. ASSUME NEW u \in Thread, NEW q \in Priority, SetPriority(u, q)
        PROVE  ~Waits(t)'
    BY <1>1, <2>7 DEF SetPriority
  <2> QED BY <1>4, <2>3, <2>4, <2>5, <2>6, <2>7 DEF Call
<1> QED BY <1>3, <1>4 DEF ThreadStep

\* The running thread that blocks leaves the others as they were.
LEMMA BlockAwake ==
  ASSUME LockTypeOK, current \in Thread, NEW o, NEW d, NEW where,
         NEW st \in [Thread -> ThreadStates], Block(o, d, where, st),
         NEW t \in Thread, t # current, st[t] \notin {"LOCK", "WAITING"}
  PROVE  ~Waits(t)'
<1> DEFINE s == IF d > 0 THEN "WAITING" ELSE "LOCK"
<1>1. s \in ThreadStates
  BY DEF ThreadStates
<1> HIDE DEF s
<1>2. /\ [st EXCEPT ![current] = s] \in [Thread -> ThreadStates]
      /\ [st EXCEPT ![current] = s][t] = st[t]
  BY <1>1
<1>3. Reschedule([st EXCEPT ![current] = s], remaining)
  BY DEF Block, s
<1> QED BY <1>2, <1>3, RescheduleAwake

\* An unlock leaves a waiter in its queue or owes it the resource, and makes
\* the one it chose runnable.
LEMMA ReleaseQueue ==
  ASSUME LockTypeOK, QueueInv, NEW o \in Object, Release(o)
  PROVE  /\ \A p \in Object : Queued(waiters[p]) \subseteq Queued(waiters'[p]) \cup owed'
         /\ owed \subseteq owed'
         /\ \A t \in owed' : StateAfterRelease(o)[t] \notin {"LOCK", "WAITING"}
         /\ \A t \in Thread : ~Waits(t)
                => StateAfterRelease(o)[t] \notin {"LOCK", "WAITING"}
<1>1. CASE ~HandsOver(o)
  <2>1. waiters' = waiters /\ owed' = owed /\ StateAfterRelease(o) = state
    BY <1>1 DEF Release, StateAfterRelease
  <2> QED BY <2>1 DEF QueueInv, OwedIsAwake, Waits
<1>2. CASE HandsOver(o)
  <2> DEFINE h == Head(waiters[o])
  <2>1. /\ waiters \in [Object -> Seq(Thread)] /\ state \in [Thread -> ThreadStates]
        /\ owed \subseteq Thread
        /\ waiters' = [waiters EXCEPT ![o] = Tail(@)]
        /\ owed' = owed \cup {h}
    BY <1>2 DEF Release, LockTypeOK, ThreadTypeOK
  <2>2. h \in Thread /\ Queued(waiters[o]) = {h} \cup Queued(Tail(waiters[o]))
    BY <1>2, <2>1, TailFacts DEF HandsOver
  <2>3. StateAfterRelease(o) = [state EXCEPT ![h] = "RUNNABLE"]
    BY <1>2 DEF StateAfterRelease
  <2>4. waiters'[o] = Tail(waiters[o]) /\ \A p \in Object : p # o => waiters'[p] = waiters[p]
    BY <2>1
  <2> HIDE DEF h
  <2>5. \A t \in Thread : StateAfterRelease(o)[t] = IF t = h THEN "RUNNABLE" ELSE state[t]
    BY <2>1, <2>2, <2>3
  <2>6. \A t \in owed : t \in Thread /\ state[t] \notin {"LOCK", "WAITING"}
    BY <2>1 DEF QueueInv, OwedIsAwake, Waits
  <2>7. \A t \in owed' : StateAfterRelease(o)[t] \notin {"LOCK", "WAITING"}
    BY <2>1, <2>2, <2>5, <2>6
  <2>8. \A p \in Object : Queued(waiters[p]) \subseteq Queued(waiters'[p]) \cup owed'
    BY <2>1, <2>2, <2>4
  <2> QED BY <2>1, <2>5, <2>7, <2>8 DEF Waits
<1> QED BY <1>1, <1>2

LEMMA LockQueue ==
  ASSUME LockTypeOK, WaitInv, QueueInv, InUser,
         NEW o \in Object, NEW d \in Timeouts, Lock(o, d)
  PROVE  QueueInv'
<1>0. /\ current \in Thread /\ current \notin owed /\ owed \subseteq Thread
      /\ pc \in [Thread -> {"user", "lock", "event"}]
      /\ waitingFor \in [Thread -> Object] /\ waiters \in [Object -> Seq(Thread)]
      /\ state \in [Thread -> ThreadStates]
  BY RunningIsThread, UserIsFree DEF InUser, LockTypeOK, ThreadTypeOK
<1>1. CASE value[o] > 0
  <2>1. UNCHANGED <<state, waiters, eventWaiters, pc, waitingFor, owed>>
    BY <1>1 DEF Lock, threadVars, callVars
  <2> QED BY <2>1 DEF QueueInv, LockedInQueue, OwedIsAwake, EventInQueue, Waits
<1>2. CASE ~(value[o] > 0)
  <2>1. /\ waiters' = [waiters EXCEPT
                         ![o] = EnqueueIn(@, current, priority, Discipline[o])]
        /\ Block(o, d, "lock", state)
        /\ eventWaiters' = eventWaiters /\ owed' = owed
        /\ pc' = [pc EXCEPT ![current] = "lock"]
        /\ waitingFor' = [waitingFor EXCEPT ![current] = o]
    BY <1>2 DEF Lock, Block, historyVars
  <2>2. Queued(waiters'[o]) = Queued(waiters[o]) \cup {current}
    BY <1>0, <2>1, EnqueueFacts
  <2>3. \A p \in Object : p # o => waiters'[p] = waiters[p]
    BY <1>0, <2>1
  <2>4. \A t \in Thread : t # current /\ ~Waits(t) => ~Waits(t)'
    BY <1>0, <2>1, BlockAwake DEF Waits
  <2>5. /\ pc'[current] = "lock" /\ waitingFor'[current] = o
        /\ \A t \in Thread : t # current => pc'[t] = pc[t] /\ waitingFor'[t] = waitingFor[t]
    BY <1>0, <2>1
  <2>6. LockedInQueue'
    BY <1>0, <2>1, <2>2, <2>3, <2>5 DEF QueueInv, LockedInQueue
  <2>7. OwedIsAwake'
    BY <1>0, <2>1, <2>4 DEF QueueInv, OwedIsAwake
  <2>8. EventInQueue'
    BY <1>0, <2>1, <2>4, <2>5 DEF QueueInv, EventInQueue
  <2> QED BY <2>6, <2>7, <2>8 DEF QueueInv
<1> QED BY <1>1, <1>2

LEMMA EventWaitQueue ==
  ASSUME LockTypeOK, WaitInv, QueueInv, InUser,
         NEW o \in Object, NEW d \in Timeouts, EventWait(o, d)
  PROVE  QueueInv'
<1>0. /\ current \in Thread /\ current \notin owed
      /\ owed \subseteq Thread /\ owed' \subseteq Thread
      /\ pc \in [Thread -> {"user", "lock", "event"}]
      /\ waitingFor \in [Thread -> Object] /\ eventWaiters \in [Object -> Seq(Thread)]
      /\ pc[current] = "user"
  BY RunningIsThread, UserIsFree, ReleaseTypes DEF InUser, LockTypeOK, EventWait
<1>1. /\ Release(o)
      /\ eventWaiters' = [eventWaiters EXCEPT
                            ![o] = EnqueuePriority(@, current, priority)]
      /\ Block(o, d, "event", StateAfterRelease(o))
      /\ pc' = [pc EXCEPT ![current] = "event"]
      /\ waitingFor' = [waitingFor EXCEPT ![current] = o]
  BY DEF EventWait, Block
<1>2. /\ \A p \in Object : Queued(waiters[p]) \subseteq Queued(waiters'[p]) \cup owed'
      /\ owed \subseteq owed'
      /\ \A t \in owed' : StateAfterRelease(o)[t] \notin {"LOCK", "WAITING"}
      /\ \A t \in Thread : ~Waits(t)
             => StateAfterRelease(o)[t] \notin {"LOCK", "WAITING"}
  BY <1>1, ReleaseQueue
<1>3. current \notin owed'
  BY <1>0, <1>1, ReleaseWait
<1>4. Queued(eventWaiters'[o]) = Queued(eventWaiters[o]) \cup {current}
  <2>1. eventWaiters'[o] = EnqueueIn(eventWaiters[o], current, priority, "PRIORITY")
    BY <1>0, <1>1 DEF EnqueueIn
  <2> QED BY <1>0, <2>1, EnqueueFacts
<1>5. \A p \in Object : p # o => eventWaiters'[p] = eventWaiters[p]
  BY <1>0, <1>1
<1>6. \A t \in Thread :
        t # current /\ StateAfterRelease(o)[t] \notin {"LOCK", "WAITING"} => ~Waits(t)'
  <2>1. StateAfterRelease(o) \in [Thread -> ThreadStates]
    BY <1>1, ReleaseTypes
  <2> QED BY <1>0, <1>1, <2>1, BlockAwake
<1>7. /\ pc'[current] = "event" /\ waitingFor'[current] = o
      /\ \A t \in Thread : t # current => pc'[t] = pc[t] /\ waitingFor'[t] = waitingFor[t]
  BY <1>0, <1>1
<1>8. LockedInQueue'
  BY <1>0, <1>2, <1>7 DEF QueueInv, LockedInQueue
<1>9. OwedIsAwake'
  BY <1>0, <1>2, <1>3, <1>6 DEF OwedIsAwake
<1>10. EventInQueue'
  <2> SUFFICES ASSUME NEW t \in Thread, pc'[t] = "event", Waits(t)'
               PROVE  t \in Queued(eventWaiters'[waitingFor'[t]])
    BY DEF EventInQueue
  <2>1. CASE t = current
    BY <1>4, <1>7, <2>1
  <2>2. CASE t # current
    <3>1. pc[t] = "event" /\ Waits(t) /\ waitingFor'[t] = waitingFor[t]
      BY <1>2, <1>6, <1>7, <2>2
    <3>2. t \in Queued(eventWaiters[waitingFor[t]])
      BY <3>1 DEF QueueInv, EventInQueue
    <3> QED BY <1>0, <1>4, <1>5, <3>1, <3>2
  <2> QED BY <2>1, <2>2
<1> QED BY <1>8, <1>9, <1>10 DEF QueueInv

LEMMA UnlockQueue ==
  ASSUME LockTypeOK, QueueInv, NEW o \in Object, Unlock(o)
  PROVE  QueueInv'
<1>0. owed' \subseteq Thread
  BY ReleaseTypes DEF Unlock
<1>1. /\ Release(o)
      /\ UNCHANGED <<eventWaiters, pc, waitingFor>>
      /\ IF HandsOver(o) THEN Reschedule(StateAfterRelease(o), remaining)
                         ELSE UNCHANGED electVars
  BY DEF Unlock, callVars
<1>2. /\ \A p \in Object : Queued(waiters[p]) \subseteq Queued(waiters'[p]) \cup owed'
      /\ owed \subseteq owed'
      /\ \A t \in owed' : StateAfterRelease(o)[t] \notin {"LOCK", "WAITING"}
      /\ \A t \in Thread : ~Waits(t)
             => StateAfterRelease(o)[t] \notin {"LOCK", "WAITING"}
  BY <1>1, ReleaseQueue
<1>3. \A t \in Thread : StateAfterRelease(o)[t] \notin {"LOCK", "WAITING"} => ~Waits(t)'
  <2>1. CASE HandsOver(o)
    <3>1. StateAfterRelease(o) \in [Thread -> ThreadStates]
      BY <1>1, ReleaseTypes
    <3> QED BY <1>1, <2>1, <3>1, RescheduleAwake
  <2>2. CASE ~HandsOver(o)
    BY <1>1, <2>2 DEF electVars, StateAfterRelease, Waits
  <2> QED BY <2>1, <2>2
<1>4. LockedInQueue'
  <2> SUFFICES ASSUME NEW t \in Thread, pc[t] = "lock", t \notin owed'
               PROVE  t \in Queued(waiters'[waitingFor[t]])
    BY <1>1 DEF LockedInQueue
  <2>1. waitingFor[t] \in Object
    BY DEF LockTypeOK
  <2> QED BY <1>2, <2>1 DEF QueueInv, LockedInQueue
<1>5. OwedIsAwake'
  BY <1>0, <1>2, <1>3 DEF OwedIsAwake
<1>6. EventInQueue'
  BY <1>1, <1>2, <1>3 DEF QueueInv, EventInQueue
<1> QED BY <1>4, <1>5, <1>6 DEF QueueInv

\* A signal and a broadcast wake whom they take from the queue.
LEMMA EventWakeQueue ==
  ASSUME LockTypeOK, QueueInv, NEW o \in Object, EventSignal(o) \/ EventBroadcast(o)
  PROVE  QueueInv'
<1>1. /\ eventWaiters[o] # <<>>
      /\ UNCHANGED <<waiters, pc, waitingFor, owed>>
  BY DEF EventSignal, EventBroadcast, callVars, historyVars
<1>2. /\ eventWaiters \in [Object -> Seq(Thread)] /\ owed \subseteq Thread
      /\ state \in [Thread -> ThreadStates] /\ waitingFor \in [Thread -> Object]
  BY DEF LockTypeOK, ThreadTypeOK
<1>3. PICK st \in [Thread -> ThreadStates] :
        /\ Reschedule(st, remaining)
        /\ \A t \in Thread : st[t] \in {state[t], "RUNNABLE"}
        /\ \A t \in Queued(eventWaiters[o]) : t \in Queued(eventWaiters'[o])
                                              \/ st[t] = "RUNNABLE"
        /\ \A p \in Object : p # o => eventWaiters'[p] = eventWaiters[p]
  <2>1. CASE EventSignal(o)
    <3> DEFINE h == Head(eventWaiters[o])
               st == [state EXCEPT ![h] = "RUNNABLE"]
    <3>1. h \in Thread /\ Queued(eventWaiters[o]) = {h} \cup Queued(Tail(eventWaiters[o]))
      BY <1>1, <1>2, TailFacts
    <3>2. eventWaiters' = [eventWaiters EXCEPT ![o] = Tail(@)] /\ Reschedule(st, remaining)
      BY <2>1 DEF EventSignal
    <3>3. st \in [Thread -> ThreadStates]
      BY <1>2 DEF ThreadStates
    <3>4. \A t \in Thread : st[t] = IF t = h THEN "RUNNABLE" ELSE state[t]
      BY <1>2
    <3>5. /\ eventWaiters'[o] = Tail(eventWaiters[o])
          /\ \A p \in Object : p # o => eventWaiters'[p] = eventWaiters[p]
      BY <1>2, <3>2
    <3> HIDE DEF h, st
    <3> QED BY <3>1, <3>2, <3>3, <3>4, <3>5
  <2>2. CASE EventBroadcast(o)
    <3> DEFINE st == [t \in Thread |-> IF t \in Queued(eventWaiters[o])
                                       THEN "RUNNABLE" ELSE state[t]]
    <3>1. eventWaiters' = [eventWaiters EXCEPT ![o] = <<>>] /\ Reschedule(st, remaining)
      BY <2>2 DEF EventBroadcast
    <3>2. st \in [Thread -> ThreadStates]
      BY <1>2 DEF ThreadStates
    <3>3. \A t \in Thread : st[t] = IF t \in Queued(eventWaiters[o])
                                    THEN "RUNNABLE" ELSE state[t]
      OBVIOUS
    <3>4. \A p \in Object : p # o => eventWaiters'[p] = eventWaiters[p]
      BY <1>2, <3>1
    <3> HIDE DEF st
    <3> QED BY <3>1, <3>2, <3>3, <3>4, QueuedAreThreads
  <2> QED BY <2>1, <2>2
<1>4. ASSUME NEW t \in Thread, st[t] \notin {"LOCK", "WAITING"}
      PROVE  ~Waits(t)'
  BY <1>3, <1>4, RescheduleAwake
<1>5. ASSUME NEW t \in Thread, ~Waits(t)
      PROVE  ~Waits(t)'
  BY <1>3, <1>4, <1>5 DEF Waits
<1>6. LockedInQueue'
  BY <1>1 DEF QueueInv, LockedInQueue
<1>7. OwedIsAwake'
  BY <1>1, <1>2, <1>5 DEF QueueInv, OwedIsAwake
<1>8. EventInQueue'
  <2> SUFFICES ASSUME NEW t \in Thread, pc[t] = "event", Waits(t)'
               PROVE  t \in Queued(eventWaiters'[waitingFor[t]])
    BY <1>1 DEF EventInQueue
  <2>1. t \in Queued(eventWaiters[waitingFor[t]]) /\ waitingFor[t] \in Object
    BY <1>2, <1>5 DEF QueueInv, EventInQueue
  <2>2. st[t] # "RUNNABLE"
    BY <1>4
  <2> QED BY <1>3, <2>1, <2>2
<1> QED BY <1>6, <1>7, <1>8 DEF QueueInv

LEMMA LockReturnQueue ==
  ASSUME LockTypeOK, WaitInv, QueueInv, LockReturn
  PROVE  QueueInv'
<1> DEFINE o == waitingFor[current]
<1>0. /\ Running /\ pc[current] = "lock" /\ current \in Thread /\ o \in Object
      /\ pc \in [Thread -> {"user", "lock", "event"}] /\ owed \subseteq Thread
      /\ waiters \in [Object -> Seq(Thread)] /\ waitingFor \in [Thread -> Object]
  BY RunningIsThread DEF LockReturn, LockTypeOK
<1>1. /\ pc' = [pc EXCEPT ![current] = "user"]
      /\ owed' = owed \ {current}
      /\ UNCHANGED <<state, eventWaiters, waitingFor>>
  BY DEF LockReturn, threadVars
<1>2. \A p \in Object : Queued(waiters[p]) \ {current} \subseteq Queued(waiters'[p])
  <2>1. CASE Expired(current)
    <3>1. waiters' = [waiters EXCEPT ![o] = Withdraw(@, current)]
      BY <2>1 DEF LockReturn
    <3>2. Queued(Withdraw(waiters[o], current)) = Queued(waiters[o]) \ {current}
      BY <1>0, WithdrawFacts DEF WaitInv, NoDuplicates
    <3>3. waiters'[o] = Withdraw(waiters[o], current)
      BY <1>0, <3>1
    <3>4. \A p \in Object : p # o => waiters'[p] = waiters[p]
      BY <1>0, <3>1
    <3> HIDE DEF o
    <3> QED BY <3>2, <3>3, <3>4
  <2>2. CASE ~Expired(current)
    BY <2>2 DEF LockReturn
  <2> QED BY <2>1, <2>2
<1> HIDE DEF o
<1>3. LockedInQueue'
  <2> SUFFICES ASSUME NEW t \in Thread, pc'[t] = "lock", t \notin owed'
               PROVE  t \in Queued(waiters'[waitingFor[t]])
    BY <1>1 DEF LockedInQueue
  <2>1. t # current /\ pc[t] = "lock" /\ t \notin owed /\ waitingFor[t] \in Object
    BY <1>0, <1>1
  <2> QED BY <1>2, <2>1 DEF QueueInv, LockedInQueue
<1>4. OwedIsAwake'
  BY <1>1 DEF QueueInv, OwedIsAwake, Waits
<1>5. EventInQueue'
  BY <1>0, <1>1 DEF QueueInv, EventInQueue, Waits
<1> QED BY <1>3, <1>4, <1>5 DEF QueueInv

LEMMA EventReturnQueue ==
  ASSUME LockTypeOK, WaitInv, QueueInv, EventReturn
  PROVE  QueueInv'
<1> DEFINE o == waitingFor[current]
<1>0. /\ Running /\ pc[current] = "event" /\ current \in Thread /\ o \in Object
      /\ pc \in [Thread -> {"user", "lock", "event"}] /\ owed \subseteq Thread
      /\ waitingFor \in [Thread -> Object]
      /\ waiters \in [Object -> Seq(Thread)]
      /\ eventWaiters \in [Object -> Seq(Thread)]
      /\ state \in [Thread -> ThreadStates]
  BY RunningIsThread DEF EventReturn, LockTypeOK, ThreadTypeOK
<1>1. owed' = owed /\ current \notin owed
  BY <1>0 DEF EventReturn, WaitInv, OwedIsWaiting
<1>2. \A p \in Object : Queued(eventWaiters[p]) \ {current} \subseteq Queued(eventWaiters'[p])
  <2>1. CASE Expired(current)
    <3>1. eventWaiters' = [eventWaiters EXCEPT ![o] = Withdraw(@, current)]
      BY <2>1 DEF EventReturn
    <3>2. Queued(Withdraw(eventWaiters[o], current)) = Queued(eventWaiters[o]) \ {current}
      BY <1>0, WithdrawFacts DEF WaitInv, NoDuplicates
    <3>3. eventWaiters'[o] = Withdraw(eventWaiters[o], current)
      BY <1>0, <3>1
    <3>4. \A p \in Object : p # o => eventWaiters'[p] = eventWaiters[p]
      BY <1>0, <3>1
    <3> HIDE DEF o
    <3> QED BY <3>2, <3>3, <3>4
  <2>2. CASE ~Expired(current)
    BY <2>2 DEF EventReturn
  <2> QED BY <2>1, <2>2
<1>3. /\ pc'[current] \in {"user", "lock"} /\ waitingFor' = waitingFor
      /\ \A t \in Thread : t # current => pc'[t] = pc[t]
      /\ \A t \in Thread : t # current /\ ~Waits(t) => ~Waits(t)'
      /\ LockedInQueue'
  <2>1. CASE value[o] > 0
    <3>1. /\ pc' = [pc EXCEPT ![current] = "user"]
          /\ UNCHANGED <<state, waiters, waitingFor>>
      BY <2>1 DEF EventReturn, threadVars
    <3>2. LockedInQueue'
      BY <1>0, <1>1, <3>1 DEF QueueInv, LockedInQueue
    <3> QED BY <1>0, <3>1, <3>2 DEF Waits
  <2>2. CASE ~(value[o] > 0)
    <3>1. /\ waiters' = [waiters EXCEPT
                           ![o] = EnqueueIn(@, current, priority, Discipline[o])]
          /\ Block(o, 0, "lock", state)
          /\ pc' = [pc EXCEPT ![current] = "lock"]
          /\ waitingFor' = [waitingFor EXCEPT ![current] = o]
      BY <2>2 DEF EventReturn, Block
    <3>2. Queued(waiters'[o]) = Queued(waiters[o]) \cup {current}
      BY <1>0, <3>1, EnqueueFacts
    <3>3. \A p \in Object : p # o => waiters'[p] = waiters[p]
      BY <1>0, <3>1
    <3>4. \A t \in Thread : t # current /\ ~Waits(t) => ~Waits(t)'
      BY <1>0, <3>1, BlockAwake DEF Waits
    <3>5. waitingFor' = waitingFor /\ pc'[current] = "lock"
          /\ \A t \in Thread : t # current => pc'[t] = pc[t]
      BY <1>0, <3>1
    <3>6. waitingFor[current] = o
      OBVIOUS
    <3> HIDE DEF o
    <3>7. LockedInQueue'
      BY <1>0, <1>1, <3>2, <3>3, <3>5, <3>6 DEF QueueInv, LockedInQueue
    <3> QED BY <3>4, <3>5, <3>7
  <2> QED BY <2>1, <2>2
<1> HIDE DEF o
<1>4. OwedIsAwake'
  BY <1>0, <1>1, <1>3 DEF QueueInv, OwedIsAwake
<1>5. EventInQueue'
  <2> SUFFICES ASSUME NEW t \in Thread, pc'[t] = "event", Waits(t)'
               PROVE  t \in Queued(eventWaiters'[waitingFor[t]])
    BY <1>3 DEF EventInQueue
  <2>1. t # current /\ pc[t] = "event" /\ Waits(t) /\ waitingFor[t] \in Object
    BY <1>0, <1>3
  <2> QED BY <1>2, <2>1 DEF QueueInv, EventInQueue
<1> QED BY <1>3, <1>4, <1>5 DEF QueueInv

LEMMA QueueStep ==
  ASSUME LockTypeOK, WaitInv, QueueInv, [Next]_vars
  PROVE  QueueInv'
<1>1. CASE ThreadStep
  <2>1. UNCHANGED <<waiters, eventWaiters, pc, waitingFor, owed>>
    BY <1>1 DEF ThreadStep, lockVars, callVars, historyVars
  <2>2. \A t \in Thread : pc[t] # "user" /\ ~Waits(t) => ~Waits(t)'
    BY <1>1, ThreadStepAwake
  <2>3. LockedInQueue'
    BY <2>1 DEF QueueInv, LockedInQueue
  <2>4. OwedIsAwake'
    BY <2>1, <2>2 DEF QueueInv, OwedIsAwake, WaitInv, OwedIsWaiting, LockTypeOK
  <2>5. EventInQueue'
    BY <2>1, <2>2 DEF QueueInv, EventInQueue
  <2> QED BY <2>3, <2>4, <2>5 DEF QueueInv
<1>2. CASE UNCHANGED vars
  BY <1>2 DEF vars, threadVars, lockVars, callVars, historyVars, QueueInv,
              LockedInQueue, OwedIsAwake, EventInQueue, Waits
<1> QED BY NextCases, LockQueue, EventWaitQueue, UnlockQueue, EventWakeQueue,
           LockReturnQueue, EventReturnQueue, <1>1, <1>2

LEMMA QueueInvariant == NoForcedWakeup => (Spec => []QueueInv)
<1>1. Init => QueueInv
  BY DEF Init, QueueInv, LockedInQueue, OwedIsAwake, EventInQueue
<1>2. LockTypeOK /\ WaitInv /\ QueueInv /\ [Next]_vars => QueueInv'
  BY QueueStep
<1> QED BY <1>1, <1>2, LockTypeCorrect, WaitInvariant, PTL DEF Spec

LEMMA DistinctOnce ==
  ASSUME NEW S, NEW q \in Seq(S), NEW t \in Queued(q), Distinct(q)
  PROVE  Cardinality({i \in 1..Len(q) : q[i] = t}) = 1
<1>1. PICK k \in 1..Len(q) : q[k] = t
  BY QueuedEntries
<1>2. {i \in 1..Len(q) : q[i] = t} = {k}
  BY <1>1 DEF Distinct
<1> QED BY <1>2, FS_Singleton

\* No wake-up misses a blocked thread: it stands exactly once in the queue that
\* the unlock or the signal it waits for takes it from, whatever timed out, was
\* handed over or broadcast in between, for any number of threads and objects.
\* A resume, or a budget that runs out, would leave an old entry behind.
THEOREM BlockedThreadsQueued == NoForcedWakeup => (Spec => []BlockedIsQueued)
<1>1. LockTypeOK /\ WaitInv /\ QueueInv => BlockedIsQueued
  <2> SUFFICES ASSUME LockTypeOK, WaitInv, QueueInv,
                      NEW t \in Thread, NEW o \in Object,
                      pc[t] # "user", waitingFor[t] = o, state[t] \in {"LOCK", "WAITING"}
               PROVE  LET queue == IF pc[t] = "lock" THEN waiters[o] ELSE eventWaiters[o]
                      IN Cardinality({i \in 1..Len(queue) : queue[i] = t}) = 1
    BY DEF BlockedIsQueued
  <2>1. /\ waiters[o] \in Seq(Thread) /\ eventWaiters[o] \in Seq(Thread)
        /\ Distinct(waiters[o]) /\ Distinct(eventWaiters[o])
        /\ pc[t] \in {"lock", "event"}
    BY DEF LockTypeOK, WaitInv, NoDuplicates
  <2>2. CASE pc[t] = "lock"
    <3>1. t \in Queued(waiters[o])
      BY <2>2 DEF QueueInv, LockedInQueue, OwedIsAwake, Waits
    <3> QED BY <2>1, <2>2, <3>1, DistinctOnce
  <2>3. CASE pc[t] = "event"
    <3>1. t \in Queued(eventWaiters[o])
      BY <2>3 DEF QueueInv, EventInQueue, Waits
    <3> QED BY <2>1, <2>3, <3>1, DistinctOnce
  <2> QED BY <2>1, <2>2, <2>3
<1> QED BY <1>1, LockTypeCorrect, WaitInvariant, QueueInvariant, PTL

-----------------------------------------------------------------------------
(***************************************************************************)
(* Conservation of resources, object by object: each step moves at most    *)
(* one between available, taken, owed and lost.                            *)
(***************************************************************************)
Balance(o) == value[o] + taken[o] + Cardinality(Owed(o)) + lost[o]

LEMMA ConservationUnfolded ==
  Conservation <=> \A o \in Object : Balance(o) = InitialValue[o]
BY DEF Conservation, Balance

LEMMA OwedFinite ==
  ASSUME LockTypeOK, NEW o
  PROVE  IsFiniteSet(Owed(o)) /\ Cardinality(Owed(o)) \in Nat
<1>1. IsFiniteSet(Thread)
  BY FS_Interval, ThreadAssumption DEF Thread
<1>2. Owed(o) \subseteq Thread
  BY DEF LockTypeOK, Owed
<1> QED BY <1>1, <1>2, FS_Subset, FS_CardinalityType

\* The terms of the balance are integers.
LEMMA BalanceTypes ==
  ASSUME LockTypeOK, NEW o \in Object
  PROVE  /\ value[o] \in Nat /\ taken[o] \in Int /\ lost[o] \in Nat
         /\ Cardinality(Owed(o)) \in Nat
BY OwedFinite DEF LockTypeOK

\* A step that moves nothing of o.
LEMMA SameBalance ==
  ASSUME NEW o \in Object, value'[o] = value[o], taken'[o] = taken[o],
         lost'[o] = lost[o], Owed(o)' = Owed(o)
  PROVE  Balance(o)' = Balance(o)
BY DEF Balance

\* Whoever is owed a resource has not left the call it is owed in.
LEMMA OwedUnchanged ==
  ASSUME NEW o, owed' = owed, \A t \in owed : waitingFor'[t] = waitingFor[t]
  PROVE  Owed(o)' = Owed(o)
BY DEF Owed

LEMMA QuietBalance ==
  ASSUME Conservation, UNCHANGED <<value, taken, lost, owed>>,
         \A t \in owed : waitingFor'[t] = waitingFor[t]
  PROVE  Conservation'
<1>1. \A o \in Object : Balance(o)' = Balance(o)
  BY OwedUnchanged, SameBalance
<1> QED BY <1>1, ConservationUnfolded DEF Conservation, Balance

\* Locking an available object: available becomes taken.
LEMMA TakeBalance ==
  ASSUME LockTypeOK, Conservation, NEW o \in Object,
         value' = [value EXCEPT ![o] = @ - 1], Acquire(o),
         owed' = owed, lost' = lost, waitingFor' = waitingFor
  PROVE  Conservation'
<1> SUFFICES ASSUME NEW p \in Object PROVE Balance(p)' = Balance(p)
  BY ConservationUnfolded DEF Conservation, Balance
<1>0. /\ value \in [Object -> Nat] /\ taken \in [Object -> Int]
      /\ taken' = [taken EXCEPT ![o] = @ + 1]
  BY DEF LockTypeOK, Acquire
<1>1. Owed(p)' = Owed(p)
  BY OwedUnchanged
<1>2. CASE p = o
  <2>1. value'[p] = value[p] - 1 /\ taken'[p] = taken[p] + 1
    BY <1>0, <1>2
  <2> QED BY <1>1, <2>1, BalanceTypes DEF Balance
<1>3. CASE p # o
  BY <1>0, <1>1, <1>3, SameBalance
<1> QED BY <1>2, <1>3

\* An unlock: taken becomes owed, or available, or at the maximum neither.
LEMMA ReleaseBalance ==
  ASSUME LockTypeOK, WaitInv, Conservation, InUser, NEW o \in Object, Release(o),
         \A t \in Thread \ {current} : waitingFor'[t] = waitingFor[t]
  PROVE  Conservation'
<1> SUFFICES ASSUME NEW p \in Object PROVE Balance(p)' = Balance(p)
  BY ConservationUnfolded DEF Conservation, Balance
<1>0. /\ value \in [Object -> Nat] /\ taken \in [Object -> Int]
      /\ waiters \in [Object -> Seq(Thread)]
      /\ owed \subseteq Thread /\ owed' \subseteq Thread
      /\ current \in Thread /\ pc[current] = "user" /\ current \notin owed
      /\ taken' = [taken EXCEPT ![o] = IF Full(o) THEN @ ELSE @ - 1]
      /\ lost' = lost
  BY ReleaseTypes, RunningIsThread, UserIsFree DEF LockTypeOK, Release, InUser
<1>1. \A t \in owed' \ owed : pc[t] = "lock" /\ waitingFor[t] = o
  BY ReleaseWait
<1>2. current \notin owed'
  BY <1>0, <1>1
<1>3. Owed(p)' = {t \in owed' : waitingFor[t] = p}
  BY <1>0, <1>2 DEF Owed
<1>4. CASE p # o
  <2>1. value'[p] = value[p] /\ taken'[p] = taken[p]
    BY <1>0, <1>4 DEF Release
  <2>2. owed \subseteq owed'
    BY ReleaseWait
  <2>3. Owed(p)' = Owed(p)
    BY <1>1, <1>3, <1>4, <2>2 DEF Owed
  <2> QED BY <1>0, <2>1, <2>3, SameBalance
<1>5. CASE p = o /\ HandsOver(o)
  <2> DEFINE h == Head(waiters[o])
  <2>1. owed' = owed \cup {h} /\ value' = value /\ value[o] = 0
    BY <1>5 DEF Release, HandsOver
  <2>2. h \in Queued(waiters[o])
    BY <1>0, <1>5, TailFacts DEF HandsOver
  <2>3. h \notin owed /\ waitingFor[h] = o
    BY <2>2 DEF WaitInv, QueuedIsWaiting
  <2> HIDE DEF h
  <2>4. Owed(p)' = Owed(p) \cup {h} /\ h \notin Owed(p)
    BY <1>3, <1>5, <2>1, <2>3 DEF Owed
  <2>5. Cardinality(Owed(p)') = Cardinality(Owed(p)) + 1
    BY <2>4, OwedFinite, FS_AddElement
  <2>6. ~Full(o)
    BY <2>1, LockAssumption DEF Full
  <2>7. taken'[p] = taken[p] - 1
    BY <1>0, <1>5, <2>6
  <2>8. value'[p] = value[p] /\ lost'[p] = lost[p]
    BY <1>0, <2>1
  <2> QED BY <2>5, <2>7, <2>8, BalanceTypes DEF Balance
<1>6. CASE p = o /\ ~HandsOver(o)
  <2>1. owed' = owed /\ value' = [value EXCEPT ![o] = IF Full(o) THEN @ ELSE @ + 1]
    BY <1>6 DEF Release
  <2>2. Owed(p)' = Owed(p) /\ lost'[p] = lost[p]
    BY <1>0, <1>3, <2>1 DEF Owed
  <2>3. CASE Full(o)
    <3>1. value'[p] = value[p] /\ taken'[p] = taken[p]
      BY <1>0, <1>6, <2>1, <2>3
    <3> QED BY <2>2, <3>1, SameBalance
  <2>4. CASE ~Full(o)
    <3>1. value'[p] = value[p] + 1 /\ taken'[p] = taken[p] - 1
      BY <1>0, <1>6, <2>1, <2>4
    <3> QED BY <2>2, <3>1, BalanceTypes DEF Balance
  <2> QED BY <2>3, <2>4
<1> QED BY <1>4, <1>5, <1>6

\* The end of a wait: owed becomes taken, or lost when the time is over.
LEMMA ReturnBalance ==
  ASSUME LockTypeOK, WaitInv, Conservation, LockReturn
  PROVE  Conservation'
<1> DEFINE o == waitingFor[current]
<1> SUFFICES ASSUME NEW p \in Object PROVE Balance(p)' = Balance(p)
  BY ConservationUnfolded DEF Conservation, Balance
<1>0. /\ Running /\ current \in Thread /\ o \in Object /\ pc[current] = "lock"
      /\ value' = value /\ waitingFor' = waitingFor /\ owed' = owed \ {current}
      /\ taken \in [Object -> Int] /\ lost \in [Object -> Nat]
  BY RunningIsThread DEF LockReturn, LockTypeOK
<1>1. CASE current \notin owed
  <2>1. Expired(current)
    BY <1>0, <1>1, ReturnsOwedOrLate
  <2>2. taken' = taken /\ lost' = lost
    BY <1>1, <2>1 DEF LockReturn
  <2>3. owed' = owed
    BY <1>0, <1>1
  <2> QED BY <1>0, <2>2, <2>3, OwedUnchanged, SameBalance
<1>2. CASE current \in owed /\ p # o
  <2>1. Owed(p)' = Owed(p)
    BY <1>0, <1>2 DEF Owed
  <2>2. taken'[p] = taken[p] /\ lost'[p] = lost[p]
    <3>1. CASE Expired(current)
      <4>1. taken' = taken /\ lost' = [lost EXCEPT ![o] = @ + 1]
        BY <1>2, <3>1 DEF LockReturn
      <4> QED BY <1>0, <1>2, <4>1
    <3>2. CASE ~Expired(current)
      <4>1. taken' = [taken EXCEPT ![o] = @ + 1] /\ lost' = lost
        BY <3>2 DEF LockReturn, Acquire
      <4> QED BY <1>0, <1>2, <4>1
    <3> QED BY <3>1, <3>2
  <2> QED BY <1>0, <2>1, <2>2, SameBalance
<1>3. CASE current \in owed /\ p = o
  <2>1. current \in Owed(p) /\ Owed(p)' = Owed(p) \ {current}
    BY <1>0, <1>3 DEF Owed
  <2>2. Cardinality(Owed(p)') = Cardinality(Owed(p)) - 1
    BY <2>1, OwedFinite, FS_RemoveElement
  <2>3. taken'[p] + lost'[p] = taken[p] + lost[p] + 1
        /\ taken'[p] \in Int /\ lost'[p] \in Int
    <3>1. CASE Expired(current)
      <4>1. taken' = taken /\ lost' = [lost EXCEPT ![o] = @ + 1]
        BY <1>3, <3>1 DEF LockReturn
      <4>2. taken'[p] = taken[p] /\ lost'[p] = lost[p] + 1
        BY <1>0, <1>3, <4>1
      <4> QED BY <4>2, BalanceTypes
    <3>2. CASE ~Expired(current)
      <4>1. taken' = [taken EXCEPT ![o] = @ + 1] /\ lost' = lost
        BY <3>2 DEF LockReturn, Acquire
      <4>2. taken'[p] = taken[p] + 1 /\ lost'[p] = lost[p]
        BY <1>0, <1>3, <4>1
      <4> QED BY <4>2, BalanceTypes
    <3> QED BY <3>1, <3>2
  <2>4. value'[p] = value[p]
    BY <1>0
  <2> QED BY <2>2, <2>3, <2>4, BalanceTypes DEF Balance
<1> QED BY <1>1, <1>2, <1>3

LEMMA ConservationStep ==
  ASSUME LockTypeOK, WaitInv, Conservation, [Next]_vars
  PROVE  Conservation'
<1>0. /\ waitingFor \in [Thread -> Object] /\ owed \subseteq Thread
      /\ (Running => current \in Thread)
      /\ (InUser => Running /\ current \notin owed)
  BY RunningIsThread, UserIsFree DEF LockTypeOK, InUser
<1>1. ASSUME UNCHANGED <<value, taken, lost, owed, waitingFor>>
      PROVE  Conservation'
  BY <1>1, QuietBalance
<1>2. CASE ThreadStep \/ UNCHANGED vars
  BY <1>1, <1>2 DEF ThreadStep, vars, lockVars, callVars, historyVars
<1>3. ASSUME NEW o \in Object, NEW d \in Timeouts, InUser, Lock(o, d)
      PROVE  Conservation'
  <2>1. CASE value[o] > 0
    BY <1>3, <2>1, TakeBalance DEF Lock, callVars
  <2>2. CASE ~(value[o] > 0)
    <3>1. /\ UNCHANGED <<value, taken, lost, owed>>
          /\ waitingFor' = [waitingFor EXCEPT ![current] = o]
      BY <1>3, <2>2 DEF Lock, Block, historyVars
    <3> QED BY <1>0, <1>3, <3>1, QuietBalance
  <2> QED BY <2>1, <2>2
<1>4. ASSUME NEW o \in Object, NEW d \in Timeouts, InUser, EventWait(o, d)
      PROVE  Conservation'
  <2>1. \A t \in Thread \ {current} : waitingFor'[t] = waitingFor[t]
    BY <1>0, <1>4 DEF EventWait, Block
  <2>2. Release(o)
    BY <1>4 DEF EventWait
  <2> QED BY <1>4, <2>1, <2>2, ReleaseBalance
<1>5. ASSUME NEW o \in Object, InUser, Unlock(o)
      PROVE  Conservation'
  <2>1. Release(o) /\ \A t \in Thread \ {current} : waitingFor'[t] = waitingFor[t]
    BY <1>5 DEF Unlock, callVars
  <2> QED BY <1>5, <2>1, ReleaseBalance
<1>6. ASSUME NEW o \in Object, EventSignal(o) \/ EventBroadcast(o)
      PROVE  Conservation'
  BY <1>1, <1>6 DEF EventSignal, EventBroadcast, callVars, historyVars
<1>7. ASSUME EventReturn
      PROVE  Conservation'
  <2> DEFINE p == waitingFor[current]
  <2>0. /\ Running /\ pc[current] = "event" /\ current \in Thread /\ p \in Object
        /\ owed' = owed /\ lost' = lost /\ current \notin owed
    BY <1>0, <1>7 DEF EventReturn, WaitInv, OwedIsWaiting
  <2>1. CASE value[p] > 0
    <3>1. /\ value' = [value EXCEPT ![p] = @ - 1]
          /\ Acquire(p)
          /\ waitingFor' = waitingFor
      BY <1>7, <2>1 DEF EventReturn
    <3> QED BY <2>0, <3>1, TakeBalance
  <2>2. CASE ~(value[p] > 0)
    <3>1. /\ UNCHANGED <<value, taken>>
          /\ waitingFor' = [waitingFor EXCEPT ![current] = p]
      BY <1>7, <2>2 DEF EventReturn, Block
    <3> QED BY <1>0, <2>0, <3>1, QuietBalance
  <2> QED BY <2>1, <2>2
<1> QED BY NextCases, ReturnBalance, <1>2, <1>3, <1>4, <1>5, <1>6, <1>7

\* The resources of every object are conserved across locks, unlocks, hand-overs,
\* time-outs and event waits, the one handed to a thread whose time is over
\* excepted, which the equation counts as lost: for any kinds of objects, values
\* and numbers of threads, in a partition without budgets whose program does
\* not resume threads.  A forced wake-up would take a resource nobody released.
THEOREM ResourcesConserved == NoForcedWakeup => (Spec => []Conservation)
<1>1. ASSUME Init PROVE Conservation
  <2> SUFFICES ASSUME NEW o \in Object PROVE Balance(o) = InitialValue[o]
    BY ConservationUnfolded
  <2>1. value[o] = InitialValue[o] /\ taken[o] = 0 /\ lost[o] = 0 /\ Owed(o) = {}
    BY <1>1 DEF Init, Owed
  <2>2. Cardinality({}) = 0
    BY FS_EmptySet
  <2>3. InitialValue[o] \in Nat
    BY LockAssumption
  <2> QED BY <2>1, <2>2, <2>3 DEF Balance
<1>2. LockTypeOK /\ WaitInv /\ Conservation /\ [Next]_vars => Conservation'
  BY ConservationStep
<1> QED BY <1>1, <1>2, LockTypeCorrect, WaitInvariant, PTL DEF Spec

-----------------------------------------------------------------------------
(***************************************************************************)
(* Order of the grants.  With priorities that do not change, every queue   *)
(* of the priority discipline stays sorted, so its head is what an unlock  *)
(* or a signal should choose.                                              *)
(***************************************************************************)
FixedPriorities == "set_priority" \notin Services

QueuesSorted ==
  \A o \in Object : /\ Discipline[o] = "PRIORITY" => Sorted(waiters[o], priority)
                    /\ Sorted(eventWaiters[o], priority)

LEMMA PriorityStays ==
  ASSUME FixedPriorities, LockTypeOK, [Next]_vars
  PROVE  priority' = priority
<1>1. ASSUME ThreadStep PROVE priority' = priority
  BY <1>1 DEF ThreadStep, Tick, EnterNormal, Call, Sleep, Suspend, EndPeriod, Resume,
              SuspendTarget, SetPriority, FixedPriorities
<1>2. ASSUME NEW o \in Object, NEW d \in Timeouts, Lock(o, d) \/ EventWait(o, d)
      PROVE  priority' = priority
  BY <1>2 DEF Lock, EventWait, Block, threadVars
<1>3. ASSUME NEW o \in Object, Unlock(o) \/ EventSignal(o) \/ EventBroadcast(o)
      PROVE  priority' = priority
  BY <1>3 DEF Unlock, EventSignal, EventBroadcast
<1>4. ASSUME LockReturn \/ EventReturn PROVE priority' = priority
  BY <1>4 DEF LockReturn, EventReturn, Block, threadVars
<1>5. ASSUME UNCHANGED vars PROVE priority' = priority
  BY <1>5 DEF vars, threadVars
<1> QED BY NextCases, <1>1, <1>2, <1>3, <1>4, <1>5

LEMMA EmptySorted == \A ranks : Sorted(<<>>, ranks)
<1>1. Len(<<>>) = 0
  BY EmptySeq
<1> QED BY <1>1 DEF Sorted

\* A queue that is kept, appended to by the rules of its object, or shortened
\* stays sorted.
LEMMA EnqueueInSorted ==
  ASSUME LockTypeOK, NEW o \in Object, NEW t \in Thread,
         Discipline[o] = "PRIORITY" => Sorted(waiters[o], priority)
  PROVE  Discipline[o] = "PRIORITY"
           => Sorted(EnqueueIn(waiters[o], t, priority, Discipline[o]), priority)
<1>1. waiters[o] \in Seq(Thread) /\ \A u \in Thread : priority[u] \in Nat
  BY ThreadAssumption DEF LockTypeOK, ThreadTypeOK
<1> QED BY <1>1, EnqueueSorted DEF EnqueueIn

LEMMA ReleaseSorted ==
  ASSUME LockTypeOK, QueuesSorted, NEW o \in Object, Release(o)
  PROVE  \A p \in Object : Discipline[p] = "PRIORITY" => Sorted(waiters'[p], priority)
<1>1. CASE ~HandsOver(o)
  BY <1>1 DEF Release, QueuesSorted
<1>2. CASE HandsOver(o)
  <2>1. waiters' = [waiters EXCEPT ![o] = Tail(@)] /\ waiters \in [Object -> Seq(Thread)]
    BY <1>2 DEF Release, LockTypeOK
  <2>2. /\ waiters'[o] = Tail(waiters[o])
        /\ \A p \in Object : p # o => waiters'[p] = waiters[p]
    BY <2>1
  <2>3. Discipline[o] = "PRIORITY" => Sorted(Tail(waiters[o]), priority)
    BY <1>2, <2>1, TailSorted DEF HandsOver, QueuesSorted
  <2> QED BY <2>2, <2>3 DEF QueuesSorted
<1> QED BY <1>1, <1>2

LEMMA SortedStep ==
  ASSUME FixedPriorities, LockTypeOK, QueuesSorted, [Next]_vars
  PROVE  QueuesSorted'
<1>0. /\ waiters \in [Object -> Seq(Thread)] /\ eventWaiters \in [Object -> Seq(Thread)]
      /\ priority \in [Thread -> Nat] /\ (Running => current \in Thread)
      /\ waitingFor \in [Thread -> Object]
  BY ThreadAssumption, RunningIsThread DEF LockTypeOK, ThreadTypeOK
<1> DEFINE WaitersSorted ==
             \A p \in Object : Discipline[p] = "PRIORITY" => Sorted(waiters'[p], priority)
           EventsSorted == \A p \in Object : Sorted(eventWaiters'[p], priority)
<1>1. WaitersSorted /\ EventsSorted => QueuesSorted'
  BY PriorityStays DEF QueuesSorted
<1>a. ASSUME UNCHANGED waiters PROVE WaitersSorted
  BY <1>a DEF QueuesSorted
<1>b. ASSUME UNCHANGED eventWaiters PROVE EventsSorted
  BY <1>b DEF QueuesSorted
<1>c. ASSUME NEW o \in Object, current \in Thread,
             waiters' = [waiters EXCEPT
                           ![o] = EnqueueIn(@, current, priority, Discipline[o])]
      PROVE  WaitersSorted
  <2>1. /\ waiters'[o] = EnqueueIn(waiters[o], current, priority, Discipline[o])
        /\ \A p \in Object : p # o => waiters'[p] = waiters[p]
    BY <1>0, <1>c
  <2> QED BY <1>c, <2>1, EnqueueInSorted DEF QueuesSorted
<1>d. ASSUME NEW o \in Object, NEW q, Sorted(q, priority),
             eventWaiters' = [eventWaiters EXCEPT ![o] = q]
      PROVE  EventsSorted
  <2>1. eventWaiters'[o] = q /\ \A p \in Object : p # o => eventWaiters'[p] = eventWaiters[p]
    BY <1>0, <1>d
  <2> QED BY <1>d, <2>1 DEF QueuesSorted
<1> HIDE DEF WaitersSorted, EventsSorted
<1>2. CASE ThreadStep \/ UNCHANGED vars
  BY <1>1, <1>2, <1>a, <1>b DEF ThreadStep, vars, lockVars
<1>3. ASSUME NEW o \in Object, NEW d \in Timeouts, InUser, Lock(o, d)
      PROVE  QueuesSorted'
  <2>1. CASE value[o] > 0
    BY <1>1, <1>3, <1>a, <1>b, <2>1 DEF Lock
  <2>2. CASE ~(value[o] > 0)
    BY <1>0, <1>1, <1>3, <1>b, <1>c, <2>2 DEF Lock, InUser
  <2> QED BY <2>1, <2>2
<1>4. ASSUME NEW o \in Object, NEW d \in Timeouts, InUser, EventWait(o, d)
      PROVE  QueuesSorted'
  <2>1. WaitersSorted
    BY <1>4, ReleaseSorted DEF EventWait, WaitersSorted
  <2>2. Sorted(EnqueuePriority(eventWaiters[o], current, priority), priority)
    <3>1. \A u \in Thread : priority[u] \in Nat
      BY ThreadAssumption DEF LockTypeOK, ThreadTypeOK
    <3>2. eventWaiters[o] \in Seq(Thread) /\ current \in Thread
      BY <1>0, <1>4 DEF InUser
    <3> QED BY <3>1, <3>2, EnqueueSorted DEF QueuesSorted
  <2>3. eventWaiters' = [eventWaiters EXCEPT
                           ![o] = EnqueuePriority(@, current, priority)]
    BY <1>4 DEF EventWait
  <2> QED BY <1>1, <1>d, <2>1, <2>2, <2>3
<1>5. ASSUME NEW o \in Object, Unlock(o)
      PROVE  QueuesSorted'
  <2>1. WaitersSorted
    BY <1>5, ReleaseSorted DEF Unlock, WaitersSorted
  <2> QED BY <1>1, <1>5, <1>b, <2>1 DEF Unlock
<1>6. ASSUME NEW o \in Object, EventSignal(o)
      PROVE  QueuesSorted'
  <2>1. Sorted(Tail(eventWaiters[o]), priority)
    BY <1>0, <1>6, TailSorted DEF EventSignal, QueuesSorted
  <2> QED BY <1>1, <1>6, <1>a, <1>d, <2>1 DEF EventSignal
<1>7. ASSUME NEW o \in Object, EventBroadcast(o)
      PROVE  QueuesSorted'
  BY <1>1, <1>7, <1>a, <1>d, EmptySorted DEF EventBroadcast
<1>8. ASSUME LockReturn
      PROVE  QueuesSorted'
  <2> DEFINE o == waitingFor[current]
  <2>1. o \in Object /\ eventWaiters' = eventWaiters
    BY <1>0, <1>8 DEF LockReturn
  <2>2. CASE Expired(current)
    <3>1. waiters' = [waiters EXCEPT ![o] = Withdraw(@, current)]
      BY <1>8, <2>2 DEF LockReturn
    <3> HIDE DEF o
    <3>2. /\ waiters'[o] = Withdraw(waiters[o], current)
          /\ \A p \in Object : p # o => waiters'[p] = waiters[p]
      BY <1>0, <2>1, <3>1
    <3>3. Discipline[o] = "PRIORITY" => Sorted(waiters'[o], priority)
      BY <1>0, <2>1, <3>2, WithdrawSorted DEF QueuesSorted
    <3>4. WaitersSorted
      BY <3>2, <3>3 DEF WaitersSorted, QueuesSorted
    <3> QED BY <1>1, <1>b, <2>1, <3>4
  <2>3. CASE ~Expired(current)
    BY <1>1, <1>8, <1>a, <1>b, <2>1, <2>3 DEF LockReturn
  <2> QED BY <2>2, <2>3
<1>9. ASSUME EventReturn
      PROVE  QueuesSorted'
  <2> DEFINE o == waitingFor[current]
  <2>1. o \in Object /\ current \in Thread
    BY <1>0, <1>9 DEF EventReturn
  <2>2. EventsSorted
    <3>1. CASE Expired(current)
      <4>1. eventWaiters' = [eventWaiters EXCEPT ![o] = Withdraw(@, current)]
        BY <1>9, <3>1 DEF EventReturn
      <4>2. Sorted(Withdraw(eventWaiters[o], current), priority)
        BY <1>0, <2>1, WithdrawSorted DEF QueuesSorted
      <4> HIDE DEF o
      <4> QED BY <1>d, <2>1, <4>1, <4>2
    <3>2. CASE ~Expired(current)
      BY <1>9, <1>b, <3>2 DEF EventReturn
    <3> QED BY <3>1, <3>2
  <2>3. WaitersSorted
    <3>1. CASE value[o] > 0
      BY <1>9, <1>a, <3>1 DEF EventReturn
    <3>2. CASE ~(value[o] > 0)
      <4>1. waiters' = [waiters EXCEPT
                          ![o] = EnqueueIn(@, current, priority, Discipline[o])]
        BY <1>9, <3>2 DEF EventReturn
      <4> HIDE DEF o
      <4> QED BY <1>c, <2>1, <4>1
    <3> QED BY <3>1, <3>2
  <2> QED BY <1>1, <2>2, <2>3
<1> QED BY NextCases, <1>2, <1>3, <1>4, <1>5, <1>6, <1>7, <1>8, <1>9

\* Every priority queue of threads stays in the order of the priorities, equal
\* ones apart, for any number of threads, objects and levels, as long as no
\* priority is changed: pok_thread_set_priority does not sort the queues anew.
THEOREM PriorityQueuesSorted == FixedPriorities => (Spec => []QueuesSorted)
<1>1. Init => QueuesSorted
  BY EmptySorted DEF Init, QueuesSorted
<1>2. FixedPriorities /\ LockTypeOK /\ QueuesSorted /\ [Next]_vars => QueuesSorted'
  BY SortedStep
<1>3. FixedPriorities /\ Spec => []QueuesSorted
  <2>1. FixedPriorities => []FixedPriorities
    BY DEF FixedPriorities
  <2> QED BY <1>1, <1>2, <2>1, LockTypeCorrect, PTL DEF Spec
<1> QED BY <1>3

\* Whom an unlock hands the resource to, and why.
LEMMA ReleaseGrants ==
  ASSUME LockTypeOK, WaitInv, QueuesSorted, NEW o \in Object, Release(o),
         NEW t \in owed' \ owed
  PROVE  /\ waitingFor[t] = o
         /\ Discipline[o] = "PRIORITY" =>
              \A u \in Queued(waiters[o]) : priority[u] <= priority[t]
<1>1. HandsOver(o) /\ t = Head(waiters[o])
  BY DEF Release
<1>2. waiters[o] \in Seq(Thread) /\ waiters[o] # <<>>
  BY <1>1 DEF HandsOver, LockTypeOK
<1>3. waitingFor[t] = o
  BY ReleaseWait
<1>4. ASSUME Discipline[o] = "PRIORITY"
      PROVE  \A u \in Queued(waiters[o]) : priority[u] <= priority[t]
  BY <1>1, <1>2, <1>4, TailSorted DEF QueuesSorted
<1> QED BY <1>3, <1>4

GrantsInOrder ==
  \A t \in owed' \ owed : Discipline[waitingFor[t]] = "PRIORITY" =>
    \A u \in Queued(waiters[waitingFor[t]]) : priority[u] <= priority[t]

SignalsInOrder ==
  \A o \in Object : \A t \in Queued(eventWaiters[o]) \ Queued(eventWaiters'[o]) :
    \A u \in Queued(eventWaiters'[o]) : priority[u] <= priority[t] \/ t = current

LEMMA GrantStep ==
  ASSUME LockTypeOK, WaitInv, QueuesSorted, [Next]_vars
  PROVE  GrantsInOrder /\ SignalsInOrder
<1>0. /\ waiters \in [Object -> Seq(Thread)] /\ eventWaiters \in [Object -> Seq(Thread)]
      /\ (Running => current \in Thread) /\ waitingFor \in [Thread -> Object]
  BY RunningIsThread DEF LockTypeOK
<1>a. ASSUME owed' \subseteq owed PROVE GrantsInOrder
  BY <1>a DEF GrantsInOrder
<1>b. ASSUME UNCHANGED eventWaiters PROVE SignalsInOrder
  BY <1>b DEF SignalsInOrder
<1>1. CASE ThreadStep \/ UNCHANGED vars
  BY <1>1, <1>a, <1>b DEF ThreadStep, vars, lockVars, historyVars
<1>2. ASSUME NEW o \in Object, NEW d \in Timeouts, Lock(o, d)
      PROVE  GrantsInOrder /\ SignalsInOrder
  BY <1>2, <1>a, <1>b DEF Lock, historyVars
<1>3. ASSUME NEW o \in Object, Release(o)
      PROVE  GrantsInOrder
  BY <1>3, ReleaseGrants DEF GrantsInOrder
<1>4. ASSUME NEW o \in Object, NEW d \in Timeouts, InUser, EventWait(o, d)
      PROVE  GrantsInOrder /\ SignalsInOrder
  <2>1. eventWaiters' = [eventWaiters EXCEPT
                           ![o] = EnqueuePriority(@, current, priority)]
    BY <1>4 DEF EventWait
  <2>2. eventWaiters'[o] = EnqueueIn(eventWaiters[o], current, priority, "PRIORITY")
    BY <1>0, <2>1 DEF EnqueueIn
  <2>3. Queued(eventWaiters[o]) \subseteq Queued(eventWaiters'[o])
    BY <1>0, <1>4, <2>2, EnqueueFacts DEF InUser
  <2>4. \A p \in Object : p # o => eventWaiters'[p] = eventWaiters[p]
    BY <1>0, <2>1
  <2>5. SignalsInOrder
    BY <2>3, <2>4 DEF SignalsInOrder
  <2> QED BY <1>3, <1>4, <2>5 DEF EventWait
<1>5. ASSUME NEW o \in Object, Unlock(o)
      PROVE  GrantsInOrder /\ SignalsInOrder
  BY <1>3, <1>5, <1>b DEF Unlock
<1>6. ASSUME NEW o \in Object, EventSignal(o)
      PROVE  GrantsInOrder /\ SignalsInOrder
  <2>1. /\ eventWaiters[o] # <<>> /\ owed' = owed
        /\ eventWaiters' = [eventWaiters EXCEPT ![o] = Tail(@)]
    BY <1>6 DEF EventSignal, historyVars
  <2>2. /\ eventWaiters'[o] = Tail(eventWaiters[o])
        /\ \A p \in Object : p # o => eventWaiters'[p] = eventWaiters[p]
    BY <1>0, <2>1
  <2>3. Queued(eventWaiters[o]) = {Head(eventWaiters[o])} \cup Queued(Tail(eventWaiters[o]))
    BY <1>0, <2>1, TailFacts
  <2>4. \A u \in Queued(eventWaiters[o]) : priority[u] <= priority[Head(eventWaiters[o])]
    BY <1>0, <2>1, TailSorted DEF QueuesSorted
  <2>5. SignalsInOrder
    BY <2>2, <2>3, <2>4 DEF SignalsInOrder
  <2> QED BY <1>a, <2>1, <2>5
<1>7. ASSUME NEW o \in Object, EventBroadcast(o)
      PROVE  GrantsInOrder /\ SignalsInOrder
  <2>1. owed' = owed /\ eventWaiters' = [eventWaiters EXCEPT ![o] = <<>>]
    BY <1>7 DEF EventBroadcast, historyVars
  <2>2. /\ eventWaiters'[o] = <<>>
        /\ \A p \in Object : p # o => eventWaiters'[p] = eventWaiters[p]
    BY <1>0, <2>1
  <2>3. Queued(<<>>) = {}
    <3>1. <<>> \in Seq(Thread) /\ Len(<<>>) = 0
      BY EmptySeq
    <3>2. Queued(<<>>) = {<<>>[i] : i \in 1 .. Len(<<>>)}
      BY <3>1, QueuedEntries
    <3> QED BY <3>1, <3>2
  <2>4. SignalsInOrder
    BY <2>2, <2>3 DEF SignalsInOrder
  <2> QED BY <1>a, <2>1, <2>4
<1>8. ASSUME LockReturn
      PROVE  GrantsInOrder /\ SignalsInOrder
  BY <1>8, <1>a, <1>b DEF LockReturn
<1>9. ASSUME EventReturn
      PROVE  GrantsInOrder /\ SignalsInOrder
  <2> DEFINE o == waitingFor[current]
  <2>1. o \in Object /\ owed' = owed
    BY <1>0, <1>9 DEF EventReturn
  <2>2. CASE Expired(current)
    <3>1. eventWaiters' = [eventWaiters EXCEPT ![o] = Withdraw(@, current)]
      BY <1>9, <2>2 DEF EventReturn
    <3>2. Queued(Withdraw(eventWaiters[o], current)) = Queued(eventWaiters[o]) \ {current}
      BY <1>0, <2>1, WithdrawFacts DEF WaitInv, NoDuplicates
    <3> HIDE DEF o
    <3>3. /\ eventWaiters'[o] = Withdraw(eventWaiters[o], current)
          /\ \A p \in Object : p # o => eventWaiters'[p] = eventWaiters[p]
      BY <1>0, <2>1, <3>1
    <3>4. SignalsInOrder
      BY <3>2, <3>3 DEF SignalsInOrder
    <3> QED BY <1>a, <2>1, <3>4
  <2>3. CASE ~Expired(current)
    BY <1>9, <1>a, <1>b, <2>1, <2>3 DEF EventReturn
  <2> QED BY <2>2, <2>3
<1> QED BY NextCases, <1>1, <1>2, <1>4, <1>5, <1>6, <1>7, <1>8, <1>9

\* An unlock of an object with priority queueing and a signal choose a thread of
\* the highest priority among those that wait, for any number of threads,
\* objects and levels, where priorities are fixed and no thread is forced awake.
THEOREM GrantsByPriority == NoForcedWakeup /\ FixedPriorities => (Spec => GrantOrder)
<1>1. LockTypeOK /\ WaitInv /\ QueuesSorted /\ [Next]_vars
        => [GrantsInOrder /\ SignalsInOrder]_vars
  BY GrantStep
<1>2. [GrantsInOrder /\ SignalsInOrder]_vars =>
        [/\ \A t \in owed' \ owed : Discipline[waitingFor[t]] = "PRIORITY" =>
              \A u \in Queued(waiters[waitingFor[t]]) : priority[u] <= priority[t]
         /\ \A o \in Object : \A t \in Queued(eventWaiters[o]) \ Queued(eventWaiters'[o]) :
              \A u \in Queued(eventWaiters'[o]) : priority[u] <= priority[t]
                \/ t = current]_vars
  BY DEF GrantsInOrder, SignalsInOrder
<1> QED BY <1>1, <1>2, LockTypeCorrect, WaitInvariant, PriorityQueuesSorted, PTL
           DEF Spec, GrantOrder

=============================================================================
