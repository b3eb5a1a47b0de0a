----------------------------- MODULE MCTimeSlots -----------------------------
(* Two partitions, with the tables tried for them. *)
EXTENDS TimeSlots, Sequences

Table(ends, owner, frame, flushing, wakes) ==
  [nslots |-> Len(ends), frame |-> frame,
   ends |-> [k \in 0 .. Len(ends) - 1 |-> ends[k + 1]],
   owner |-> [k \in 0 .. Len(ends) - 1 |-> owner[k + 1]],
   flushing |-> flushing, period |-> 5, wakes |-> wakes]

\* The quantum is 3 and the timer's period 2: steady slots last 4 or more.
SteadyTables ==
  {Table(<<i, i + j, i + j + k>>, owner, i + j + k, flushing, FALSE) :
     i, j, k \in {4, 5, 7}, owner \in {<<"a", "b", "b">>, <<"b", "a", "b">>},
     flushing \in {"FRAME", "WINDOWS", "PERIOD"}}

InterruptedTables ==
  {Table(<<i, i + j>>, <<"a", "b">>, i + j, flushing, TRUE) :
     i, j \in {4, 5, 7}, flushing \in {"FRAME", "WINDOWS", "PERIOD"}}

AllTables == SteadyTables \cup InterruptedTables
=============================================================================
