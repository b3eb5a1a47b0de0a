--------------------------- MODULE CyclicSchedule ---------------------------
(***************************************************************************)
(* What time partitioning promises: whenever the partition scheduler       *)
(* decides, the processor goes to the partition that a table, repeated     *)
(* for ever, gives that instant to.  Only the instants of the decisions    *)
(* are left open.  Nothing is promised where the scheduler itself may be   *)
(* switched from in the middle of a decision.                              *)
(***************************************************************************)
EXTENDS Integers

\* A table has nslots slots, numbered from 0.  Slot k is for the partition
\* owner[k]; it ends ends[k] after the table starts, and the next one begins.
\* The table as a whole lasts as long as its slots.  Its field wakes tells
\* whether decisions may be interrupted.
SlotOf(table) == 0 .. table.nslots - 1
Starts(table, k) == IF k = 0 THEN 0 ELSE table.ends[k - 1]
Length(table, k) == table.ends[k] - Starts(table, k)
Total(table) == table.ends[table.nslots - 1]

\* The table's r-th repetition gives the instant t to slot k.
InSlot(table, r, k, t) ==
  /\ r * Total(table) + Starts(table, k) <= t
  /\ t < r * Total(table) + table.ends[k]

Scheduled(table, partition, t) ==
  \E r \in 0..t, k \in SlotOf(table) :
    InSlot(table, r, k, t) /\ partition = table.owner[k]

Promised(table, partition, t) ==
  ~table.wakes => Scheduled(table, partition, t)

CONSTANT Tables

VARIABLES table,      \* never changes
          decided,    \* when the scheduler last decided
          partition   \* whose turn it is since

vars == <<table, decided, partition>>

Init ==
  /\ table \in Tables
  /\ decided = 0
  /\ Promised(table, partition, decided)

Decide ==
  /\ decided' >= decided
  /\ Promised(table, partition', decided')
  /\ UNCHANGED table

Spec == Init /\ [][Decide]_vars
=============================================================================
