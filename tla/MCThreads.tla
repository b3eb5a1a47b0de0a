------------------------------ MODULE MCThreads ------------------------------
(* Small partitions for Threads. *)
EXTENDS Threads, TLC

\* Every thread has a budget and a period, as the rotation needs.
FullCapacity == (0 :> Infinite) @@ (1 :> 1) @@ (2 :> 1) @@ (3 :> 2)
FullPeriod == (0 :> Infinite) @@ (1 :> 2) @@ (2 :> 3) @@ (3 :> 4)
\* The main thread and two more, one of them with a budget.
SmallCapacity == (0 :> Infinite) @@ (1 :> 1) @@ (2 :> Infinite)
SmallPeriod == (0 :> Infinite) @@ (1 :> 2) @@ (2 :> Infinite)

=============================================================================
