------------------------------ MODULE TimeSlots ------------------------------
(***************************************************************************)
(* The partition scheduler: pok_sched_init, pok_elect_partition and        *)
(* pok_global_sched (kernel/core/sched.c) under the timer interrupt of     *)
(* kernel/arch/x86/x86-qemu/pit.c, for more than one partition on one      *)
(* processor, with the flushing of ports that the election starts with.    *)
(*                                                                         *)
(* Flushing a port wakes the threads that wait for it and reschedules      *)
(* (kernel/middleware/portflushall.c).  That may switch to another thread  *)
(* of the partition in the middle of the election, which is then finished  *)
(* when the interrupted thread is elected again.                           *)
(***************************************************************************)
EXTENDS Integers, FiniteSets

CONSTANTS
  Partition,
  Tables,         \* the systems' configurations: see CyclicSchedule for the
                  \* time table, and below
  Increment,      \* NS_INCREMENT, the time between two timer interrupts
  Quantum,        \* NS_QUANTUM
  MaxTime,        \* bound: the run stops there
  MaxSuspended    \* bound: elections interrupted at the same time

\* A configuration is a table with the fields
\*   frame     POK_CONFIG_SCHEDULING_MAJOR_FRAME
\*   flushing  "FRAME" by default, "WINDOWS" with POK_NEEDS_FLUSH_ON_WINDOWS,
\*             "PERIOD" with POK_FLUSH_PERIOD
\*   period    POK_FLUSH_PERIOD
\*   wakes     whether flushing may switch to a thread it wakes

VARIABLES
  table,           \* the configuration
  now, elapsed,    \* pok_tick_counter and quantum_counter
  slot, nextDeadline, nextMajorFrame, nextFlush,   \* pok_sched_current_slot ...
  partition,       \* pok_current_partition
  suspended,       \* threads of each partition switched from in an election
  \* History:
  decided,         \* when pok_global_sched last ran
  round,           \* times the table was started again
  flushes          \* calls of pok_port_flushall or pok_port_flush_partition

clock == <<now, elapsed>>
flushVars == <<nextMajorFrame, nextFlush, flushes>>
slotVars == <<slot, nextDeadline, partition, round>>
vars == <<table, clock, flushVars, slotVars, suspended, decided>>

Schedule == INSTANCE CyclicSchedule

SlotOf(t) == Schedule!SlotOf(t)
Starts(k) == Schedule!Starts(table, k)
Length(k) == Schedule!Length(table, k)
Total == Schedule!Total(table)

ASSUME SlotAssumption ==
  /\ \A t \in Tables :
       /\ t.nslots \in Nat \ {0}
       /\ t.ends \in [Schedule!SlotOf(t) -> Nat \ {0}]
       /\ t.owner \in [Schedule!SlotOf(t) -> Partition]
       /\ t.frame \in Nat \ {0}
       /\ t.flushing \in {"FRAME", "WINDOWS", "PERIOD"}
       /\ t.period \in Nat \ {0}
       /\ t.wakes \in BOOLEAN
       /\ \A j, k \in Schedule!SlotOf(t) : j < k => t.ends[j] < t.ends[k]
  /\ Increment \in Nat \ {0} /\ Quantum \in Nat
  /\ Increment <= Quantum
  /\ MaxTime \in Nat /\ MaxSuspended \in Nat

\* pok_sched_init
Init ==
  /\ table \in Tables
  /\ now = 0 /\ elapsed = 0
  /\ slot = 0
  /\ nextDeadline = Length(0)
  /\ nextMajorFrame = table.frame
  /\ nextFlush = 0
  /\ partition = table.owner[0]
  /\ suspended = [p \in Partition |-> 0]
  /\ decided = 0 /\ round = 0 /\ flushes = 0

-----------------------------------------------------------------------------
FlushDueLate ==   \* mutant: a window that ends now is not flushed
  \/ table.flushing = "FRAME" /\ nextMajorFrame <= now'
  \/ table.flushing = "WINDOWS" /\ nextDeadline < now'
  \/ table.flushing = "PERIOD" /\ nextFlush <= now'

FlushDue ==
  \/ table.flushing = "FRAME" /\ nextMajorFrame <= now'
  \/ table.flushing = "WINDOWS"
  \/ table.flushing = "PERIOD" /\ nextFlush <= now'

FlushFromNow ==   \* mutant: the next major frame begins a frame after the flush
  IF FlushDue
  THEN /\ flushes' = flushes + 1
       /\ nextMajorFrame' = now' + table.frame
       /\ UNCHANGED nextFlush
  ELSE UNCHANGED flushVars

\* The head of pok_elect_partition once the slot is over.
Flush ==
  IF FlushDue
  THEN /\ flushes' = flushes + 1
       /\ nextMajorFrame' = IF table.flushing = "FRAME"
                            THEN nextMajorFrame + table.frame ELSE nextMajorFrame
       /\ nextFlush' = IF table.flushing = "PERIOD"
                       THEN nextFlush + table.period ELSE nextFlush
  ELSE UNCHANGED flushVars

NextSlot == (slot + 1) % table.nslots

AdvanceFromNow ==   \* mutant: the slot lasts from the election on
  /\ slot' = NextSlot
  /\ nextDeadline' = now' + Length(NextSlot)
  /\ partition' = table.owner[NextSlot]
  /\ round' = IF NextSlot = 0 THEN round + 1 ELSE round

\* The rest of it: one slot forward, whatever the time is by now.
Advance ==
  /\ slot' = NextSlot
  /\ nextDeadline' = nextDeadline + Length(NextSlot)
  /\ partition' = table.owner[NextSlot]
  /\ round' = IF NextSlot = 0 THEN round + 1 ELSE round

SlotOver == nextDeadline <= now'

\* pok_global_sched, up to the election of a thread.
GlobalSched ==
  /\ decided' = now'
  /\ UNCHANGED table
  /\ \/ ~SlotOver /\ UNCHANGED <<flushVars, slotVars, suspended>>
     \/ SlotOver /\ Flush /\ Advance /\ UNCHANGED suspended
     \/ /\ SlotOver /\ table.wakes /\ FlushDue /\ Flush
        /\ suspended[partition] < MaxSuspended
        /\ suspended' = [suspended EXCEPT ![partition] = @ + 1]
        /\ UNCHANGED slotVars

\* pit_interrupt
Tick ==
  /\ now + Increment <= MaxTime
  /\ now' = now + Increment
  /\ IF elapsed + Increment >= Quantum
     THEN elapsed' = elapsed + Increment - Quantum /\ GlobalSched
     ELSE /\ elapsed' = elapsed + Increment
          /\ UNCHANGED <<table, flushVars, slotVars, suspended, decided>>

\* The system calls that end with pok_global_sched: pok_thread_resume,
\* pok_thread_set_priority, pok_thread_delayed_start, and those that change the
\* mode of a partition or stop or restart its threads.
Service ==
  /\ UNCHANGED clock
  /\ GlobalSched

\* A thread switched from in the middle of an election is elected again: the
\* election goes on where it was.
FinishElection ==
  /\ suspended[partition] > 0
  /\ UNCHANGED <<table, clock, flushVars>>
  /\ suspended' = [suspended EXCEPT ![partition] = @ - 1]
  /\ Advance
  /\ decided' = now

Next == Tick \/ Service \/ FinishElection

Spec == Init /\ [][Next]_vars

-----------------------------------------------------------------------------
\* Slots not shorter than what passes at most between two scheduling points,
\* adding up to the major frame.  The kernel warns of a wrong sum at most.
WellFormed ==
  \A t \in Tables :
    /\ t.frame = Schedule!Total(t)
    /\ \A k \in Schedule!SlotOf(t) : Schedule!Length(t, k) >= Quantum + Increment - 1

SlotTypeOK ==
  /\ table \in Tables
  /\ now \in 0..MaxTime /\ elapsed \in 0 .. Quantum - 1
  /\ slot \in SlotOf(table)
  /\ nextDeadline \in Nat /\ nextMajorFrame \in Nat /\ nextFlush \in Nat
  /\ partition \in Partition
  /\ suspended \in [Partition -> 0..MaxSuspended]
  /\ decided \in 0..MaxTime /\ round \in Nat /\ flushes \in Nat

\* Whenever the scheduler has decided, the processor belongs to the partition
\* the table gives that instant to, however the timer's period and the quantum
\* divide the slots and however often services call the scheduler in between:
\* no slot is skipped, repeated, stretched or shifted.
ImplementsSchedule == Schedule!Spec

\* With the default policy the ports are flushed once per major frame, at the
\* first scheduling point in it; with flushing on windows, once per window that
\* is over.
FlushedOnTime ==
  ~table.wakes =>
    /\ table.flushing = "FRAME" => /\ flushes * table.frame <= decided
                                   /\ decided < (flushes + 1) * table.frame
    /\ table.flushing = "WINDOWS" => flushes = round * table.nslots + slot

\* The deadline is where the table puts the end of the slot and the processor
\* is the slot's partition's; no major frame is flushed twice or before it
\* began.  Elections that flushing interrupted do not change that.
OnGrid ==
  /\ nextDeadline = round * Total + table.ends[slot]
  /\ partition = table.owner[slot]
  /\ table.flushing = "FRAME" => /\ nextMajorFrame = (flushes + 1) * table.frame
                                 /\ flushes * table.frame <= decided

\* The slot contains the instant of the last decision, which is less than a
\* quantum ago, and the major frame is the table's round.
WindowInv ==
  /\ OnGrid
  /\ decided <= now /\ now - decided <= elapsed
  /\ Schedule!InSlot(table, round, slot, decided)
  /\ \A p \in Partition : suspended[p] = 0
  /\ table.flushing = "FRAME" => flushes = round

\* Where no flush interrupts an election, the slot in force contains the instant
\* of the last decision, which is the latest scheduling point.
SlotInForce == ~table.wakes => WindowInv
=============================================================================
