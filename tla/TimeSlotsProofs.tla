--------------------------- MODULE TimeSlotsProofs ---------------------------
(***************************************************************************)
(* Proofs about TimeSlots: the partition scheduler follows its table.      *)
(***************************************************************************)
EXTENDS TimeSlots, TLAPS

\* The tables' arithmetic, once and for all.
LEMMA TableFacts ==
  ASSUME NEW t \in Tables
  PROVE  /\ t.nslots \in Nat \ {0}
         /\ 0 \in Schedule!SlotOf(t) /\ t.nslots - 1 \in Schedule!SlotOf(t)
         /\ Schedule!Total(t) \in Nat \ {0}
         /\ t.frame \in Nat \ {0}
         /\ \A k \in Schedule!SlotOf(t) :
              /\ k \in Nat /\ t.ends[k] \in Nat \ {0} /\ t.owner[k] \in Partition
              /\ Schedule!Starts(t, k) \in Nat
              /\ Schedule!Length(t, k) \in Nat \ {0}
              /\ t.ends[k] = Schedule!Starts(t, k) + Schedule!Length(t, k)
              /\ t.ends[k] <= Schedule!Total(t)
<1>1. /\ t.nslots \in Nat \ {0}
      /\ t.ends \in [Schedule!SlotOf(t) -> Nat \ {0}]
      /\ t.owner \in [Schedule!SlotOf(t) -> Partition]
      /\ t.frame \in Nat \ {0}
      /\ \A j, k \in Schedule!SlotOf(t) : j < k => t.ends[j] < t.ends[k]
  BY SlotAssumption
<1>2. 0 \in Schedule!SlotOf(t) /\ t.nslots - 1 \in Schedule!SlotOf(t)
  BY <1>1 DEF Schedule!SlotOf
<1>3. Schedule!Total(t) \in Nat \ {0}
  BY <1>1, <1>2 DEF Schedule!Total
<1>4. ASSUME NEW k \in Schedule!SlotOf(t)
      PROVE  /\ k \in Nat /\ t.ends[k] \in Nat \ {0} /\ t.owner[k] \in Partition
             /\ Schedule!Starts(t, k) \in Nat
             /\ Schedule!Length(t, k) \in Nat \ {0}
             /\ t.ends[k] = Schedule!Starts(t, k) + Schedule!Length(t, k)
             /\ t.ends[k] <= Schedule!Total(t)
  <2>1. k \in Nat /\ t.ends[k] \in Nat \ {0} /\ t.owner[k] \in Partition
    BY <1>1 DEF Schedule!SlotOf
  <2>4. t.ends[k] <= Schedule!Total(t)
    <3>1. k = t.nslots - 1 \/ k < t.nslots - 1
      BY <1>1 DEF Schedule!SlotOf
    <3> QED BY <1>1, <1>2, <2>1, <3>1 DEF Schedule!Total
  <2>2. CASE k = 0
    BY <2>1, <2>2, <2>4 DEF Schedule!Starts, Schedule!Length
  <2>3. CASE k > 0
    <3>1. k - 1 \in Schedule!SlotOf(t)
      BY <2>1, <2>3, <1>1 DEF Schedule!SlotOf
    <3>2. t.ends[k - 1] \in Nat \ {0} /\ t.ends[k - 1] < t.ends[k]
      BY <1>1, <2>1, <2>3, <3>1
    <3> QED BY <2>1, <2>3, <2>4, <3>2 DEF Schedule!Starts, Schedule!Length
  <2> QED BY <2>1, <2>2, <2>3
<1> QED BY <1>1, <1>2, <1>3, <1>4

\* One slot forward: within the table, or around it.
LEMMA NextSlotFacts ==
  ASSUME SlotTypeOK
  PROVE  /\ NextSlot \in SlotOf(table)
         /\ \/ NextSlot = 0 /\ Starts(NextSlot) = 0 /\ table.ends[slot] = Total
            \/ NextSlot # 0 /\ NextSlot = slot + 1 /\ Starts(NextSlot) = table.ends[slot]
<1>1. table.nslots \in Nat \ {0} /\ slot \in 0 .. table.nslots - 1
  BY TableFacts DEF SlotTypeOK, SlotOf, Schedule!SlotOf
<1>2. CASE slot + 1 = table.nslots
  <2>1. NextSlot = 0
    BY <1>1, <1>2 DEF NextSlot
  <2>2. slot = table.nslots - 1
    BY <1>1, <1>2
  <2> QED BY <1>1, <2>1, <2>2
          DEF SlotOf, Schedule!SlotOf, Starts, Schedule!Starts, Total, Schedule!Total
<1>3. CASE slot + 1 # table.nslots
  <2>1. NextSlot = slot + 1
    <3>1. slot + 1 \in 0 .. table.nslots - 1
      BY <1>1, <1>3
    <3> QED BY <1>1, <3>1 DEF NextSlot
  <2>2. NextSlot - 1 = slot /\ NextSlot # 0 /\ NextSlot \in 0 .. table.nslots - 1
    BY <1>1, <1>3, <2>1
  <2> QED BY <2>1, <2>2 DEF SlotOf, Schedule!SlotOf, Starts, Schedule!Starts
<1> QED BY <1>2, <1>3

LEMMA TableStays == [Next]_vars => table' = table
BY DEF Next, Tick, Service, FinishElection, GlobalSched, clock, vars

-----------------------------------------------------------------------------
LEMMA AdvanceTypes ==
  ASSUME SlotTypeOK, table' = table, Advance
  PROVE  /\ slot' \in SlotOf(table) /\ nextDeadline' \in Nat
         /\ partition' \in Partition /\ round' \in Nat
<1>1. NextSlot \in SlotOf(table)
  BY NextSlotFacts
<1>2. Length(NextSlot) \in Nat /\ table.owner[NextSlot] \in Partition
  BY <1>1, TableFacts DEF SlotTypeOK, SlotOf, Length
<1> QED BY <1>1, <1>2 DEF Advance, SlotTypeOK

LEMMA SlotTypeStep ==
  ASSUME SlotTypeOK, [Next]_vars
  PROVE  SlotTypeOK'
<1>0. /\ Increment \in Nat \ {0} /\ Quantum \in Nat /\ Increment <= Quantum
      /\ MaxTime \in Nat /\ MaxSuspended \in Nat /\ table.period \in Nat
      /\ table.frame \in Nat
  BY SlotAssumption, TableFacts DEF SlotTypeOK
<1>1. ASSUME now' \in 0..MaxTime, elapsed' \in 0 .. Quantum - 1, GlobalSched
      PROVE  SlotTypeOK'
  <2>1. decided' = now' /\ table' = table
    BY <1>1 DEF GlobalSched
  <2>2. ASSUME Flush
        PROVE  nextMajorFrame' \in Nat /\ nextFlush' \in Nat /\ flushes' \in Nat
    BY <1>0, <2>2 DEF Flush, flushVars, SlotTypeOK
  <2>3. CASE ~SlotOver /\ UNCHANGED <<flushVars, slotVars, suspended>>
    BY <1>1, <2>1, <2>3 DEF SlotTypeOK, flushVars, slotVars
  <2>4. CASE SlotOver /\ Flush /\ Advance /\ UNCHANGED suspended
    <3>1. /\ slot' \in SlotOf(table) /\ nextDeadline' \in Nat
          /\ partition' \in Partition /\ round' \in Nat
      BY <2>1, <2>4, AdvanceTypes
    <3> QED BY <1>1, <2>1, <2>2, <2>4, <3>1 DEF SlotTypeOK, SlotOf
  <2>5. CASE /\ SlotOver /\ table.wakes /\ FlushDue /\ Flush
             /\ suspended[partition] < MaxSuspended
             /\ suspended' = [suspended EXCEPT ![partition] = @ + 1]
             /\ UNCHANGED slotVars
    <3>1. suspended' \in [Partition -> 0..MaxSuspended]
      BY <1>0, <2>5 DEF SlotTypeOK
    <3> QED BY <1>1, <2>1, <2>2, <2>5, <3>1 DEF SlotTypeOK, slotVars
  <2> QED BY <1>1, <2>3, <2>4, <2>5 DEF GlobalSched
<1>2. CASE Tick
  <2>1. now' \in 0..MaxTime /\ elapsed' \in 0 .. Quantum - 1
    BY <1>0, <1>2 DEF Tick, SlotTypeOK
  <2>2. CASE elapsed + Increment >= Quantum
    BY <1>1, <1>2, <2>1, <2>2 DEF Tick
  <2>3. CASE ~(elapsed + Increment >= Quantum)
    BY <1>2, <2>1, <2>3 DEF Tick, SlotTypeOK, flushVars, slotVars
  <2> QED BY <2>2, <2>3
<1>3. CASE Service
  BY <1>1, <1>3 DEF Service, clock, SlotTypeOK
<1>4. CASE FinishElection
  <2>1. UNCHANGED <<table, now, elapsed, nextMajorFrame, nextFlush, flushes>>
        /\ decided' = now /\ Advance
    BY <1>4 DEF FinishElection, clock, flushVars
  <2>2. /\ slot' \in SlotOf(table) /\ nextDeadline' \in Nat
        /\ partition' \in Partition /\ round' \in Nat
    BY <2>1, AdvanceTypes
  <2>3. suspended' \in [Partition -> 0..MaxSuspended]
    BY <1>0, <1>4 DEF FinishElection, SlotTypeOK
  <2> QED BY <2>1, <2>2, <2>3 DEF SlotTypeOK, SlotOf
<1>5. CASE UNCHANGED vars
  BY <1>5 DEF vars, clock, flushVars, slotVars, SlotTypeOK
<1> QED BY <1>2, <1>3, <1>4, <1>5 DEF Next

\* The scheduler's variables keep their types; in particular the quantum
\* counter stays below the quantum and the slot number within the table.
THEOREM SlotTypeCorrect == Spec => []SlotTypeOK
<1>1. Init => SlotTypeOK
  <2> SUFFICES ASSUME Init PROVE SlotTypeOK
    OBVIOUS
  <2>1. 0 \in SlotOf(table) /\ Length(0) \in Nat /\ table.owner[0] \in Partition
        /\ table.frame \in Nat
    BY TableFacts DEF Init, SlotOf, Length
  <2>2. 0 \in 0 .. Quantum - 1 /\ 0 \in 0..MaxTime /\ 0 \in 0..MaxSuspended
    BY SlotAssumption
  <2> QED BY <2>1, <2>2 DEF Init, SlotTypeOK
<1>2. SlotTypeOK /\ [Next]_vars => SlotTypeOK'
  BY SlotTypeStep
<1> QED BY <1>1, <1>2, PTL DEF Spec
-----------------------------------------------------------------------------
LEMMA Multiples ==
  ASSUME NEW r \in Nat, NEW T \in Nat \ {0}
  PROVE  /\ r * T \in Nat /\ r <= r * T
         /\ (r + 1) * T = r * T + T
<1>1. r * T \in Nat /\ (r + 1) * T = r * T + T
  OBVIOUS
<1>2. r * T = r + r * (T - 1) /\ T - 1 \in Nat
  OBVIOUS
<1>3. r * (T - 1) \in Nat
  BY <1>2
<1> QED BY <1>1, <1>2, <1>3

\* What one step forward does to the deadline, wherever the clock stands.
LEMMA AdvanceOnGrid ==
  ASSUME SlotTypeOK, table' = table, Advance,
         nextDeadline = round * Total + table.ends[slot]
  PROVE  /\ nextDeadline = round' * Total + Starts(NextSlot)
         /\ nextDeadline' = round' * Total + table.ends[slot']
         /\ partition' = table.owner[slot']
         /\ slot' = NextSlot
         /\ IF NextSlot = 0 THEN round' = round + 1 /\ table.ends[slot] = Total
                            ELSE round' = round
<1>1. slot' = NextSlot /\ partition' = table.owner[slot']
      /\ nextDeadline' = nextDeadline + Length(NextSlot)
      /\ round' = IF NextSlot = 0 THEN round + 1 ELSE round
  BY DEF Advance
<1>2. /\ Total \in Nat \ {0}
      /\ Starts(NextSlot) \in Nat /\ Length(NextSlot) \in Nat
      /\ table.ends[slot] \in Nat
      /\ table.ends[NextSlot] = Starts(NextSlot) + Length(NextSlot)
  BY NextSlotFacts, TableFacts DEF SlotTypeOK, SlotOf, Total, Starts, Length
<1>3. round \in Nat
  BY DEF SlotTypeOK
<1>4. round * Total \in Nat /\ (round + 1) * Total = round * Total + Total
  BY <1>2, <1>3, Multiples
<1>5. nextDeadline = round' * Total + Starts(NextSlot)
  BY <1>1, <1>2, <1>3, <1>4, NextSlotFacts
<1>6. round' * Total \in Nat
  BY <1>1, <1>3, <1>4, <1>2
<1>7. nextDeadline' = round' * Total + table.ends[NextSlot]
  BY <1>1, <1>2, <1>5, <1>6
<1> QED BY <1>1, <1>5, <1>7, NextSlotFacts

-----------------------------------------------------------------------------
\* The major frames: the deadline after the flushes made, none of them early.
FrameKept == table.flushing = "FRAME" =>
               /\ nextMajorFrame = (flushes + 1) * table.frame
               /\ flushes * table.frame <= decided

GridInv == OnGrid /\ decided <= now

LEMMA FlushKeepsFrame ==
  ASSUME SlotTypeOK, table' = table, Flush, FrameKept,
         decided' = now', now' \in Nat, decided <= now'
  PROVE  FrameKept'
<1> SUFFICES ASSUME table.flushing = "FRAME"
             PROVE  /\ nextMajorFrame' = (flushes' + 1) * table.frame
                    /\ flushes' * table.frame <= decided'
  BY DEF FrameKept
<1>1. flushes \in Nat /\ table.frame \in Nat \ {0} /\ decided \in Nat
  BY TableFacts DEF SlotTypeOK
<1>2. nextMajorFrame = (flushes + 1) * table.frame /\ flushes * table.frame <= decided
  BY DEF FrameKept
<1>3. /\ flushes * table.frame \in Nat
      /\ (flushes + 1) * table.frame \in Nat
      /\ ((flushes + 1) + 1) * table.frame = (flushes + 1) * table.frame + table.frame
  BY <1>1, Multiples
<1>4. CASE FlushDue
  <2>1. /\ nextMajorFrame <= now' /\ flushes' = flushes + 1
        /\ nextMajorFrame' = nextMajorFrame + table.frame
    BY <1>4 DEF Flush, FlushDue
  <2> QED BY <1>2, <1>3, <2>1
<1>5. CASE ~FlushDue
  <2>1. flushes' = flushes /\ nextMajorFrame' = nextMajorFrame
    BY <1>5 DEF Flush, flushVars
  <2> QED BY <1>1, <1>2, <1>3, <2>1
<1> QED BY <1>4, <1>5

LEMMA LaterKeepsFrame ==
  ASSUME SlotTypeOK, SlotTypeOK', table' = table, FrameKept,
         UNCHANGED <<nextMajorFrame, flushes>>, decided <= decided'
  PROVE  FrameKept'
<1>1. flushes \in Nat /\ table.frame \in Nat \ {0} /\ decided \in Nat /\ decided' \in Nat
  BY TableFacts DEF SlotTypeOK
<1>2. flushes * table.frame \in Nat
  BY <1>1, Multiples
<1> QED BY <1>1, <1>2 DEF FrameKept

\* What pok_global_sched does to the grid, given when it runs.
LEMMA GlobalSchedOnGrid ==
  ASSUME SlotTypeOK, SlotTypeOK', GridInv, GlobalSched, now <= now'
  PROVE  GridInv'
<1>1. /\ decided' = now' /\ table' = table /\ FrameKept
      /\ now \in Nat /\ now' \in Nat /\ decided \in Nat /\ decided <= now
      /\ nextDeadline = round * Total + table.ends[slot]
      /\ partition = table.owner[slot]
  BY DEF SlotTypeOK, GridInv, OnGrid, FrameKept, GlobalSched
<1>2. decided <= now'
  BY <1>1
<1>3. SUFFICES /\ nextDeadline' = round' * Total + table.ends[slot']
               /\ partition' = table.owner[slot']
               /\ FrameKept'
  BY <1>1 DEF GridInv, OnGrid, FrameKept, Total
<1>4. CASE ~SlotOver /\ UNCHANGED <<flushVars, slotVars, suspended>>
  BY <1>1, <1>2, <1>4, LaterKeepsFrame DEF flushVars, slotVars
<1>5. CASE SlotOver /\ Flush /\ Advance /\ UNCHANGED suspended
  BY <1>1, <1>2, <1>5, AdvanceOnGrid, FlushKeepsFrame
<1>6. CASE Flush /\ UNCHANGED slotVars
  BY <1>1, <1>2, <1>6, FlushKeepsFrame DEF slotVars
<1> QED BY <1>4, <1>5, <1>6 DEF GlobalSched

LEMMA GridStep ==
  ASSUME SlotTypeOK, SlotTypeOK', GridInv, [Next]_vars
  PROVE  GridInv'
<1>0. Increment \in Nat /\ now \in Nat /\ decided \in Nat /\ decided <= now
  BY SlotAssumption DEF SlotTypeOK, GridInv
<1>1. ASSUME UNCHANGED <<table, flushVars, slotVars, decided>>, now <= now', now' \in Nat
      PROVE  GridInv'
  BY <1>0, <1>1 DEF GridInv, OnGrid, Total, flushVars, slotVars
<1>2. CASE Tick
  <2>1. now' = now + Increment /\ now <= now' /\ now' \in Nat
    BY <1>0, <1>2 DEF Tick
  <2>2. CASE GlobalSched
    BY <2>1, <2>2, GlobalSchedOnGrid
  <2>3. CASE UNCHANGED <<table, flushVars, slotVars, suspended, decided>>
    BY <1>1, <2>1, <2>3
  <2> QED BY <1>2, <2>2, <2>3 DEF Tick
<1>3. CASE Service
  BY <1>0, <1>3, GlobalSchedOnGrid DEF Service, clock
<1>4. CASE FinishElection
  <2>1. /\ UNCHANGED <<table, now, nextMajorFrame, flushes>> /\ Advance
        /\ decided' = now /\ decided <= decided'
    BY <1>0, <1>4 DEF FinishElection, clock, flushVars
  <2>2. FrameKept /\ nextDeadline = round * Total + table.ends[slot]
    BY DEF GridInv, OnGrid, FrameKept
  <2>3. FrameKept'
    BY <2>1, <2>2, LaterKeepsFrame
  <2>4. /\ nextDeadline' = round' * Total + table.ends[slot']
        /\ partition' = table.owner[slot']
    BY <2>1, <2>2, AdvanceOnGrid
  <2> QED BY <1>0, <2>1, <2>3, <2>4 DEF GridInv, OnGrid, FrameKept, Total
<1>5. CASE UNCHANGED vars
  BY <1>0, <1>1, <1>5 DEF vars, clock
<1> QED BY <1>2, <1>3, <1>4, <1>5 DEF Next

LEMMA GridInit == Init => GridInv
<1> SUFFICES ASSUME Init PROVE GridInv
  OBVIOUS
<1>1. /\ Total \in Nat /\ table.frame \in Nat
      /\ 0 \in Schedule!SlotOf(table) /\ table.ends[0] \in Nat
      /\ Length(0) = table.ends[0]
  BY TableFacts DEF Init, Total, Length, Schedule!Length, Schedule!Starts
<1> QED BY <1>1 DEF Init, GridInv, OnGrid

LEMMA GridHolds == Spec => []GridInv
<1>1. SlotTypeOK /\ SlotTypeOK' /\ GridInv /\ [Next]_vars => GridInv'
  BY GridStep
<1> QED BY <1>1, GridInit, SlotTypeCorrect, PTL DEF Spec

\* For every table and flushing policy, whether or not flushing interrupts
\* elections: deadlines stay where the table puts the ends of its slots, and no
\* major frame is flushed twice or early.
THEOREM DeadlinesOnGrid == Spec => []OnGrid
<1>1. GridInv => OnGrid
  BY DEF GridInv
<1> QED BY <1>1, GridHolds, PTL

-----------------------------------------------------------------------------
\* A decision is followed by another one before a slot's length has passed.
LEMMA DecisionInWindow ==
  ASSUME WellFormed, ~table.wakes, SlotTypeOK, SlotTypeOK', WindowInv, GlobalSched,
         now <= now', now' - decided < Quantum + Increment
  PROVE  /\ Schedule!InSlot(table, round', slot', decided')
         /\ \A p \in Partition : suspended'[p] = 0
         /\ (table.flushing = "FRAME" => flushes' = round')
<1>0. /\ decided' = now' /\ table' = table /\ now' \in Nat /\ decided \in Nat
      /\ decided <= now' /\ Quantum \in Nat /\ Increment \in Nat
      /\ \A p \in Partition : suspended[p] = 0
  BY SlotAssumption DEF SlotTypeOK, WindowInv, GlobalSched
<1>1. /\ table.frame = Total /\ Total \in Nat \ {0}
      /\ slot \in SlotOf(table) /\ NextSlot \in SlotOf(table)
      /\ Length(NextSlot) >= Quantum + Increment - 1
  BY TableFacts, NextSlotFacts DEF WellFormed, SlotTypeOK, Total, SlotOf, Length
<1>2. /\ table.ends[slot] \in Nat /\ table.ends[slot] <= Total
      /\ table.ends[NextSlot] \in Nat /\ table.ends[NextSlot] <= Total
      /\ Starts(slot) \in Nat /\ Starts(NextSlot) \in Nat /\ Length(NextSlot) \in Nat
      /\ table.ends[NextSlot] = Starts(NextSlot) + Length(NextSlot)
  BY <1>1, TableFacts DEF SlotTypeOK, SlotOf, Total, Starts, Length
<1>3. /\ round \in Nat /\ flushes \in Nat /\ round * Total \in Nat
      /\ (round + 1) * Total = round * Total + Total
  BY <1>1, Multiples DEF SlotTypeOK
<1>4. /\ nextDeadline = round * Total + table.ends[slot]
      /\ round * Total + Starts(slot) <= decided
      /\ decided < nextDeadline
  BY DEF WindowInv, OnGrid, Schedule!InSlot, Total, Starts
<1>5. table.flushing = "FRAME" => flushes = round /\ nextMajorFrame = (round + 1) * Total
  BY <1>1 DEF WindowInv, OnGrid
<1>6. CASE ~SlotOver /\ UNCHANGED <<flushVars, slotVars, suspended>>
  <2>1. /\ round * Total + Starts(slot) <= decided'
        /\ decided' < round * Total + table.ends[slot]
    BY <1>0, <1>2, <1>3, <1>4, <1>6 DEF SlotOver, slotVars
  <2>2. Schedule!InSlot(table, round, slot, decided')
    BY <2>1 DEF Schedule!InSlot, Total, Starts
  <2> QED BY <1>0, <1>5, <1>6, <2>2 DEF flushVars, slotVars
<1>7. CASE SlotOver /\ Flush /\ Advance /\ UNCHANGED suspended
  <2>1. /\ nextDeadline = round' * Total + Starts(NextSlot) /\ slot' = NextSlot
        /\ IF NextSlot = 0 THEN round' = round + 1 /\ table.ends[slot] = Total
                           ELSE round' = round
    BY <1>0, <1>4, <1>7, AdvanceOnGrid
  <2>2. nextDeadline <= decided' /\ decided' < nextDeadline + Length(NextSlot)
    <3>1. nextDeadline <= now' /\ nextDeadline \in Nat
      BY <1>7 DEF SlotOver, SlotTypeOK
    <3>2. Length(NextSlot) >= Quantum + Increment - 1
      BY <1>1
    <3>3. decided < nextDeadline /\ decided' - decided < Quantum + Increment
      BY <1>0, <1>4
    <3>4. /\ decided' \in Nat /\ decided \in Nat /\ Quantum \in Nat /\ Increment \in Nat
          /\ Length(NextSlot) \in Nat /\ nextDeadline \in Nat /\ decided' = now'
      BY <1>0, <1>2, <3>1
    <3>5. \A d, e, m, q, n \in Nat :
            m < n /\ d - m < q + e => (\A l \in Nat : l >= q + e - 1 => d < n + l)
      OBVIOUS
    <3> QED BY <3>1, <3>2, <3>3, <3>4, <3>5
  <2>3. round' * Total \in Nat
    BY <1>1, <1>3, <2>1
  <2>4. /\ round' * Total + Starts(slot') <= decided'
        /\ decided' < round' * Total + table.ends[slot']
    BY <1>0, <1>2, <2>1, <2>2, <2>3
  <2>5. Schedule!InSlot(table, round', slot', decided')
    BY <2>4 DEF Schedule!InSlot, Total, Starts
  <2>6. ASSUME table.flushing = "FRAME"
        PROVE  flushes' = round'
    <3>1. FlushDue <=> nextMajorFrame <= decided'
      BY <1>0, <2>6 DEF FlushDue
    <3>2. nextMajorFrame = round * Total + Total /\ flushes = round
      BY <1>3, <1>5, <2>6
    <3>3. CASE NextSlot = 0
      <4>1. nextMajorFrame = nextDeadline
        BY <1>4, <2>1, <3>2, <3>3
      <4> QED BY <2>1, <2>2, <3>1, <3>2, <3>3, <4>1, <1>7 DEF Flush
    <3>4. CASE NextSlot # 0
      <4>1. decided' < nextMajorFrame
        BY <1>0, <1>1, <1>2, <1>3, <2>1, <2>4, <3>2, <3>4
      <4>2. ~FlushDue
        BY <1>0, <1>1, <1>3, <3>1, <3>2, <4>1
      <4> QED BY <1>7, <2>1, <3>2, <3>4, <4>2 DEF Flush, flushVars
    <3> QED BY <3>3, <3>4
  <2> QED BY <1>0, <1>7, <2>5, <2>6
<1> QED BY <1>6, <1>7 DEF GlobalSched

LEMMA WindowStep ==
  ASSUME WellFormed, ~table.wakes, SlotTypeOK, SlotTypeOK', WindowInv, [Next]_vars
  PROVE  WindowInv'
<1>0. /\ Increment \in Nat /\ Quantum \in Nat
      /\ now \in Nat /\ decided \in Nat /\ elapsed \in Nat /\ elapsed < Quantum
      /\ decided <= now /\ now - decided <= elapsed
  BY SlotAssumption DEF SlotTypeOK, WindowInv
<1>1. GridInv /\ GridInv'
  <2>1. GridInv
    BY DEF WindowInv, GridInv
  <2> QED BY <2>1, GridStep
<1>2. ASSUME GlobalSched, now <= now', now' \in Nat, elapsed' \in Nat,
             now' - decided < Quantum + Increment
      PROVE  WindowInv'
  <2>1. decided' = now' /\ table' = table
    BY <1>2 DEF GlobalSched
  <2>2. decided' <= now' /\ now' - decided' <= elapsed'
    <3>1. \A n, e \in Nat : n <= n /\ n - n <= e
      OBVIOUS
    <3>2. now' <= now' /\ now' - now' <= elapsed'
      BY <1>2, <3>1
    <3> QED BY <2>1, <3>2, Zenon
  <2>3. /\ Schedule!InSlot(table', round', slot', decided')
        /\ \A p \in Partition : suspended'[p] = 0
        /\ (table.flushing = "FRAME" => flushes' = round')
    BY <1>2, <2>1, DecisionInWindow
  <2> QED BY <1>1, <2>1, <2>2, <2>3 DEF WindowInv, GridInv
<1>3. ASSUME UNCHANGED <<table, flushVars, slotVars, suspended, decided>>,
             decided <= now', now' - decided <= elapsed'
      PROVE  WindowInv'
  <2>1. Schedule!InSlot(table', round', slot', decided')
    BY <1>3 DEF WindowInv, slotVars
  <2> QED BY <1>1, <1>3, <2>1 DEF WindowInv, GridInv, flushVars, slotVars
<1>4. CASE Tick
  <2>1. now' = now + Increment
    BY <1>4 DEF Tick
  <2>2. CASE elapsed + Increment >= Quantum
    <3>1. elapsed' = elapsed + Increment - Quantum /\ GlobalSched
      BY <1>4, <2>2 DEF Tick
    <3>2. now <= now' /\ now' \in Nat /\ elapsed' \in Nat /\ now' - decided < Quantum + Increment
      BY <1>0, <2>1, <2>2, <3>1
    <3> QED BY <1>2, <3>1, <3>2
  <2>3. CASE ~(elapsed + Increment >= Quantum)
    BY <1>0, <1>3, <1>4, <2>1, <2>3 DEF Tick
  <2> QED BY <2>2, <2>3
<1>5. CASE Service
  <2>1. now' = now /\ elapsed' = elapsed /\ GlobalSched
    BY <1>5 DEF Service, clock
  <2> QED BY <1>0, <1>2, <2>1
<1>6. CASE FinishElection
  <2>1. partition \in Partition
    BY DEF SlotTypeOK
  <2> QED BY <1>6, <2>1 DEF FinishElection, WindowInv
<1>7. CASE UNCHANGED vars
  BY <1>0, <1>3, <1>7 DEF vars, clock
<1> QED BY <1>4, <1>5, <1>6, <1>7 DEF Next

LEMMA WindowInit == Init => WindowInv
<1> SUFFICES ASSUME Init PROVE WindowInv
  OBVIOUS
<1>1. /\ Total \in Nat /\ 0 \in Schedule!SlotOf(table)
      /\ table.ends[0] \in Nat \ {0} /\ Starts(0) = 0
  BY TableFacts DEF Init, Total, Starts, Schedule!Starts
<1>2. Schedule!InSlot(table, 0, 0, 0)
  BY <1>1 DEF Schedule!InSlot, Total, Starts
<1> QED BY <1>2, GridInit DEF Init, WindowInv, GridInv

\* When no flush interrupts an election and every slot is as long as the time
\* that may pass between two scheduling points: the slot in force always
\* contains the instant of the last decision.
THEOREM SlotContainsDecision ==
  ASSUME WellFormed
  PROVE  Spec => []SlotInForce
<1>1. SlotTypeOK /\ SlotTypeOK' /\ SlotInForce /\ [Next]_vars => SlotInForce'
  BY WindowStep, TableStays DEF SlotInForce
<1>2. Init => SlotInForce
  BY WindowInit DEF SlotInForce
<1> QED BY <1>1, <1>2, SlotTypeCorrect, PTL DEF Spec

-----------------------------------------------------------------------------
\* The round of the slot in force is a witness for the abstract table's.
LEMMA WindowIsScheduled ==
  ASSUME SlotTypeOK, WindowInv
  PROVE  Schedule!Scheduled(table, partition, decided)
<1>1. /\ Total \in Nat \ {0} /\ slot \in Schedule!SlotOf(table)
      /\ Starts(slot) \in Nat
      /\ round \in Nat /\ decided \in Nat
  BY TableFacts DEF SlotTypeOK, SlotOf, Total, Starts
<1>2. round * Total \in Nat /\ round <= round * Total
  BY <1>1, Multiples
<1>3. round * Total + Starts(slot) <= decided
  BY DEF WindowInv, Schedule!InSlot, Total, Starts
<1>4. round \in 0..decided
  BY <1>1, <1>2, <1>3
<1> QED BY <1>1, <1>4 DEF WindowInv, OnGrid, Schedule!Scheduled

\* Under the same conditions the scheduler implements the cyclic schedule: the
\* partition it chooses is the table's for that instant, at every decision.
THEOREM SchedulerKeepsTable ==
  ASSUME WellFormed
  PROVE  Spec => ImplementsSchedule
<1>1. Init => Schedule!Init
  <2> SUFFICES ASSUME Init PROVE Schedule!Init
    OBVIOUS
  <2>1. SlotTypeOK
    <3>1. 0 \in SlotOf(table) /\ Length(0) \in Nat /\ table.owner[0] \in Partition
          /\ table.frame \in Nat
      BY TableFacts DEF Init, SlotOf, Length
    <3>2. 0 \in 0 .. Quantum - 1 /\ 0 \in 0..MaxTime /\ 0 \in 0..MaxSuspended
      BY SlotAssumption
    <3> QED BY <3>1, <3>2 DEF Init, SlotTypeOK
  <2>2. Schedule!Promised(table, partition, decided)
    BY <2>1, WindowInit, WindowIsScheduled DEF Schedule!Promised
  <2> QED BY <2>2 DEF Init, Schedule!Init
<1>2. ASSUME SlotTypeOK, SlotTypeOK', GridInv, SlotInForce', [Next]_vars
      PROVE  [Schedule!Decide]_(Schedule!vars)
  <2>1. Schedule!Promised(table', partition', decided')
    <3>1. (SlotTypeOK /\ WindowInv => Schedule!Scheduled(table, partition, decided))'
      BY WindowIsScheduled, PTL
    <3> QED BY <1>2, <3>1 DEF SlotInForce, Schedule!Promised
  <2>2. decided \in Nat /\ now \in Nat /\ Increment \in Nat /\ decided <= now
    BY <1>2, SlotAssumption DEF SlotTypeOK, GridInv
  <2>3. ASSUME decided' \in {now, now + Increment}, table' = table
        PROVE  Schedule!Decide
    BY <2>1, <2>2, <2>3 DEF Schedule!Decide
  <2>4. ASSUME UNCHANGED <<table, slotVars, decided>>
        PROVE  UNCHANGED Schedule!vars
    BY <2>4 DEF Schedule!vars, slotVars
  <2>5. CASE Tick
    BY <2>3, <2>4, <2>5 DEF Tick, GlobalSched
  <2>6. CASE Service
    BY <2>3, <2>6 DEF Service, GlobalSched, clock
  <2>7. CASE FinishElection
    BY <2>3, <2>7 DEF FinishElection
  <2>8. CASE UNCHANGED vars
    BY <2>4, <2>8 DEF vars
  <2> QED BY <1>2, <2>5, <2>6, <2>7, <2>8 DEF Next
<1> QED BY <1>1, <1>2, SlotTypeCorrect, GridHolds, SlotContainsDecision, PTL
        DEF Spec, ImplementsSchedule, Schedule!Spec

-----------------------------------------------------------------------------
FlushedPerWindow ==
  /\ \A p \in Partition : suspended[p] = 0
  /\ table.flushing = "WINDOWS" => flushes = round * table.nslots + slot

LEMMA WindowFlushStep ==
  ASSUME ~table.wakes, SlotTypeOK, FlushedPerWindow, [Next]_vars
  PROVE  FlushedPerWindow'
<1>1. /\ table.nslots \in Nat \ {0} /\ round \in Nat /\ slot \in 0 .. table.nslots - 1
      /\ partition \in Partition /\ \A p \in Partition : suspended[p] = 0
      /\ (table.flushing = "WINDOWS" => flushes = round * table.nslots + slot)
  BY TableFacts DEF SlotTypeOK, SlotOf, Schedule!SlotOf, FlushedPerWindow
<1>2. ASSUME SlotOver /\ Flush /\ Advance /\ UNCHANGED suspended, table' = table
      PROVE  FlushedPerWindow'
  <2>1. table.flushing = "WINDOWS" => flushes' = flushes + 1
    BY <1>2 DEF Flush, FlushDue
  <2>2. slot' = NextSlot /\ round' = IF NextSlot = 0 THEN round + 1 ELSE round
    BY <1>2 DEF Advance
  <2>3. /\ (round + 1) * table.nslots = round * table.nslots + table.nslots
        /\ round * table.nslots \in Nat
    BY <1>1, Multiples
  <2>4. CASE slot = table.nslots - 1
    <3>1. NextSlot = 0
      BY <1>1, <2>4 DEF NextSlot
    <3> QED BY <1>1, <1>2, <2>1, <2>2, <2>3, <2>4, <3>1 DEF FlushedPerWindow
  <2>5. CASE slot + 1 < table.nslots
    <3>1. slot + 1 \in 0 .. table.nslots - 1
      BY <1>1, <2>5
    <3>2. NextSlot = slot + 1 /\ NextSlot # 0
      BY <1>1, <3>1 DEF NextSlot
    <3>3. slot' = slot + 1 /\ round' = round
      BY <2>2, <3>2
    <3>4. table.flushing = "WINDOWS" => flushes' = round' * table.nslots + slot'
      BY <1>1, <2>1, <2>3, <3>3
    <3> QED BY <1>1, <1>2, <3>4 DEF FlushedPerWindow
  <2>6. slot = table.nslots - 1 \/ slot + 1 < table.nslots
    BY <1>1
  <2> QED BY <2>4, <2>5, <2>6
<1>3. ASSUME UNCHANGED <<table, flushVars, slotVars, suspended>>
      PROVE  FlushedPerWindow'
  BY <1>1, <1>3 DEF FlushedPerWindow, flushVars, slotVars
<1>4. ASSUME GlobalSched
      PROVE  FlushedPerWindow'
  BY <1>2, <1>3, <1>4 DEF GlobalSched
<1>5. ~FinishElection
  BY <1>1 DEF FinishElection
<1> QED BY <1>3, <1>4, <1>5 DEF Next, Tick, Service, vars

\* Under the same conditions every major frame is flushed once, at the first
\* decision in it, or, by the other policy, every window once it is over.
THEOREM FlushesOnTime ==
  ASSUME WellFormed
  PROVE  Spec => []FlushedOnTime
<1> DEFINE Steadily == ~table.wakes => FlushedPerWindow
<1>1. Init => Steadily
  <2> SUFFICES ASSUME Init PROVE FlushedPerWindow
    OBVIOUS
  <2>1. table.nslots \in Nat
    BY TableFacts DEF Init
  <2> QED BY <2>1 DEF Init, FlushedPerWindow
<1>2. SlotTypeOK /\ Steadily /\ [Next]_vars => Steadily'
  BY WindowFlushStep, TableStays
<1>3. ASSUME SlotTypeOK, SlotInForce, Steadily
      PROVE  FlushedOnTime
  <2> SUFFICES ASSUME ~table.wakes PROVE FlushedOnTime
    BY DEF FlushedOnTime
  <2>0. WindowInv /\ FlushedPerWindow
    BY <1>3 DEF SlotInForce
  <2>1. /\ Total \in Nat \ {0} /\ table.frame = Total
        /\ Starts(slot) \in Nat /\ table.ends[slot] \in Nat /\ table.ends[slot] <= Total
        /\ round \in Nat /\ decided \in Nat
    BY <1>3, TableFacts DEF SlotTypeOK, SlotOf, Total, Starts, WellFormed
  <2>2. round * Total \in Nat /\ (round + 1) * Total = round * Total + Total
    BY <2>1, Multiples
  <2>3. /\ round * Total + Starts(slot) <= decided
        /\ decided < round * Total + table.ends[slot]
        /\ (table.flushing = "FRAME" => flushes = round)
    BY <2>0 DEF WindowInv, Schedule!InSlot, Total, Starts
  <2>4. round * Total <= decided /\ decided < (round + 1) * Total
    BY <2>1, <2>2, <2>3
  <2> QED BY <2>0, <2>1, <2>3, <2>4 DEF FlushedOnTime, FlushedPerWindow
<1> QED BY <1>1, <1>2, <1>3, SlotTypeCorrect, SlotContainsDecision, PTL DEF Spec
=============================================================================
