--------------------------- MODULE MCThreadsHistory --------------------------
(* The small partitions of MCThreads, for ThreadsHistory. *)
EXTENDS MCThreads, ThreadsHistory

=============================================================================
