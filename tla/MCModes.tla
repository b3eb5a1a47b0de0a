------------------------------- MODULE MCModes -------------------------------
(***************************************************************************)
(* A partition for PartitionModes with room for main, its error thread and *)
(* others, of which the last is periodic unless it is the error thread.    *)
(* One of them has the highest priority a thread may have.                 *)
(*                                                                         *)
(* Each thread does what such threads are for: main starts the partition,  *)
(* the error thread, created first or not at all, repairs it or gives up,  *)
(* the others come and go.                                                 *)
(***************************************************************************)
EXTENDS PartitionModes

MCPriorityOf == [t \in Thread |-> IF t = 3 THEN MaxPriority ELSE 1]
MCPeriodOf == [t \in Thread |-> IF t = NThreads THEN 1 ELSE Infinite]

Others == Created \ {Main}

MainStarts ==
  /\ running = Main
  /\ \/ CreateThread \/ SetNormal
     \/ threadIndex = 1 /\ CreateErrorThread
     \/ \E d \in Delays : Sleep(d)
     \/ \E t \in Others : SuspendTarget(t) \/ \E d \in Delays : DelayedStart(t, d)

ErrorHandled ==
  /\ running = errorThread
  /\ \/ Suspend \/ SetStopped
     \/ \E m \in InitModes : Restart(m)
     \/ \E t \in Others : StopThread(t) \/ RestartThread(t)

OthersWork ==
  /\ running \in Others
  /\ \/ Suspend \/ EndPeriod
     \/ \E t \in Others : Resume(t) \/ \E d \in Delays : DelayedStart(t, d)

MCNext == MainStarts \/ ErrorHandled \/ OthersWork \/ Raise \/ Tick

MCSpec == Init /\ [][MCNext]_vars
=============================================================================
