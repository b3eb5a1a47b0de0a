---------------------------- MODULE ThreadsHistory ---------------------------
(***************************************************************************)
(* Threads with two history variables: the quanta a thread has run since   *)
(* its budget was last refilled, and the quanta a runnable thread has      *)
(* waited since it last ran or became runnable.                            *)
(***************************************************************************)
EXTENDS Threads

VARIABLES used, waited

runVars == <<threadVars, used, waited>>

QuantumEnds == now' # now /\ elapsed + 1 >= Quantum

HistoryInit ==
  /\ ThreadInit
  /\ used = [t \in Thread |-> 0]
  /\ waited = [t \in Thread |-> 0]

HistoryNext ==
  /\ ThreadNext
  /\ used' = [t \in Thread |->
                IF nextActivation'[t] # nextActivation[t] THEN 0
                ELSE IF QuantumEnds /\ t = current THEN used[t] + 1 ELSE used[t]]
  /\ waited' = [t \in Thread |->
                IF t = current' \/ state'[t] # "RUNNABLE" THEN 0
                ELSE IF QuantumEnds THEN waited[t] + 1 ELSE waited[t]]

HistorySpec == HistoryInit /\ [][HistoryNext]_runVars

\* A thread with a budget of n runs at most n + 1 quanta before it waits for
\* its next activation: what it has left is looked at once per scheduling
\* point, and it may be 0 while the thread runs once more.  Nobody resumes it
\* in the meantime.
BudgetBoundsRun ==
  \A t \in Thread : Capacity[t] # Infinite => used[t] <= Capacity[t] + 1

\* What the threads before n use up when each has one turn, its budget and one
\* quantum.  The main thread has stopped.
Total[n \in 0..NThreads] ==
  IF n <= 1 THEN 0 ELSE Total[n - 1] + Capacity[n - 1] + 1
Turns(t) == Total[NThreads] - (Capacity[t] + 1)

\* Every turn ends: no budget is infinite, and a thread that ends its period
\* late, which gets its next budget at once and goes on, has one quantum of it
\* left at most.
TurnsEnd ==
  \A t \in Thread \ {Main} :
    /\ Capacity[t] # Infinite
    /\ "end_period" \in Services => Capacity[t] <= 2

\* Round robin starves nobody: where turns end, a runnable thread waits at most
\* one turn of each other one, whatever the others sleep, suspend and release.
\* Nobody resumes a thread in the meantime.
BoundedWait ==
  policy = "RR" /\ TurnsEnd =>
    \A t \in Thread \ {Main} : waited[t] <= Turns(t)

=============================================================================
