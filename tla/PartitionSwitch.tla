--------------------------- MODULE PartitionSwitch ---------------------------
(***************************************************************************)
(* How several processors change partition together: pok_global_sched,     *)
(* synchro_processors and pok_sched_thread (kernel/core/sched.c), the      *)
(* rendez-vous of kernel/include/arch/x86/rendezvous.h, and the partition  *)
(* segments of the descriptor table, which the processors share            *)
(* (kernel/arch/x86/space.c, gdt.c).                                       *)
(*                                                                         *)
(* A processor runs with interrupts disabled from an interrupt or a system *)
(* call to the end of it; its steps interleave with the other processors'. *)
(* Every partition has at most one thread per processor here and is in     *)
(* normal mode; a partition with more threads on a processor differs only  *)
(* in which of them runs.                                                  *)
(***************************************************************************)
EXTENDS Integers, FiniteSets

CONSTANTS
  Processor,
  Boot,         \* the processor that gets the timer interrupts
  Callers,      \* processors on which pok_global_sched is called
  Services,     \* whether threads may also be scheduled by pok_sched_thread,
                \* which is up to the programs: a set of BOOLEAN
  Partition,
  FirstPartition,   \* the partition that idle threads are attributed to: 0
  Background,   \* partitions with a thread on Boot that is always ready
  IdleThread

ASSUME SwitchAssumption ==
  /\ IsFiniteSet(Processor) /\ Boot \in Processor /\ Callers \subseteq Processor
  /\ Services \subseteq BOOLEAN
  /\ FirstPartition \in Partition /\ Background \subseteq Partition
  /\ IdleThread \notin Partition

VARIABLES
  services,      \* whether the programs make such calls
  partition,     \* pok_current_partition
  newPartition,  \* new_partition
  fence, barr,   \* 0, or 1 more than the processors that joined
  enabled,       \* partitions whose segments are present
  pc,            \* where each processor is in the kernel; "user" outside it
  runs,          \* whose thread each processor runs: POK_SCHED_CURRENT_THREAD
  elected,       \* ... and will run at the end of its scheduling
  ready,         \* <<processor, partition>> of the threads that are runnable
  sent           \* processors that a global scheduling interrupt was sent to

switchVars == <<services, partition, newPartition, fence, barr, enabled, pc,
                runs, elected, ready, sent>>

Owner(thread) == IF thread = IdleThread THEN FirstPartition ELSE thread

\* multiprocessing_system
Count == Cardinality(Processor)

\* pok_space_init enables the segments of every partition it makes.
SwitchInit ==
  /\ services \in Services
  /\ partition \in Partition /\ newPartition = FALSE
  /\ fence = 0 /\ barr = 0
  /\ enabled = Partition
  /\ pc = [p \in Processor |-> "user"]
  /\ runs = [p \in Processor |-> IdleThread]
  /\ elected = [p \in Processor |-> IdleThread]
  /\ ready = {Boot} \X Background
  /\ sent = {}

-----------------------------------------------------------------------------
\* pok_elect_thread on processor p, for the partition next.  A thread whose time
\* has come becomes ready; the running one may wait, because it has used up its
\* budget or because of the system call it made.
Elect(p, next) ==
  \E woken \in SUBSET {<<p, next>>},
     waiting \in SUBSET ({<<p, runs[p]>>} \ ({Boot} \X Background)) :
    LET now == (ready \cup woken) \ waiting
    IN  /\ ready' = now
        /\ elected' = [elected EXCEPT
             ![p] = IF <<p, next>> \in now THEN next ELSE IdleThread]

\* The timer interrupt, or a system call that ends with pok_global_sched.
GlobalSched(p) ==
  /\ p \in Callers /\ pc[p] = "user"
  /\ \E next \in Partition :
       /\ newPartition' = (next # partition)
       /\ partition' = next
  /\ pc' = [pc EXCEPT ![p] = "start"]
  /\ UNCHANGED <<services, fence, barr, enabled, runs, elected, ready, sent>>

StartFenceQuietly(p) ==   \* mutant: the interrupt is not sent
  /\ pc[p] = "start"
  /\ fence' = 1
  /\ pc' = [pc EXCEPT ![p] = "elect"]
  /\ UNCHANGED <<services, partition, newPartition, barr, enabled, runs, elected, ready, sent>>

\* start_rendezvous(&fence) and the interrupt to the other processors
StartFence(p) ==
  /\ pc[p] = "start"
  /\ fence' = 1
  /\ sent' = sent \cup (Processor \ {p})
  /\ pc' = [pc EXCEPT ![p] = "elect"]
  /\ UNCHANGED <<services, partition, newPartition, barr, enabled, runs, elected, ready>>

ElectFirst(p) ==
  /\ pc[p] = "elect"
  /\ Elect(p, partition)
  /\ pc' = [pc EXCEPT ![p] = "gather"]
  /\ UNCHANGED <<services, partition, newPartition, fence, barr, enabled, runs, sent>>

SpaceSwitchBackwards(old, new) ==   \* mutant: enables first, then disables
  enabled' = (enabled \cup {new}) \ {old}

\* pok_space_switch
SpaceSwitch(old, new) == enabled' = (enabled \ {old}) \cup {new}

\* The source of the scheduling, once all others have joined the fence.
Gather(p) ==
  /\ pc[p] = "gather" /\ fence = Count
  /\ IF newPartition THEN SpaceSwitch(Owner(runs[p]), Owner(elected[p]))
                     ELSE UNCHANGED enabled
  /\ barr' = 1
  /\ pc' = [pc EXCEPT ![p] = "release"]
  /\ UNCHANGED <<services, partition, newPartition, fence, runs, elected, ready, sent>>

Release(p) ==
  /\ pc[p] = "release"
  /\ fence' = 0
  /\ pc' = [pc EXCEPT ![p] = "collect"]
  /\ UNCHANGED <<services, partition, newPartition, barr, enabled, runs, elected, ready, sent>>

CollectHasty(p) ==   \* mutant: the second rendez-vous is not waited for
  /\ pc[p] = "collect"
  /\ barr' = 0
  /\ runs' = [runs EXCEPT ![p] = elected[p]]
  /\ pc' = [pc EXCEPT ![p] = "user"]
  /\ UNCHANGED <<services, partition, newPartition, fence, enabled, elected, ready, sent>>

Collect(p) ==
  /\ pc[p] = "collect" /\ barr = Count
  /\ barr' = 0
  /\ runs' = [runs EXCEPT ![p] = elected[p]]
  /\ pc' = [pc EXCEPT ![p] = "user"]
  /\ UNCHANGED <<services, partition, newPartition, fence, enabled, elected, ready, sent>>

-----------------------------------------------------------------------------
TakeInterruptOwn(p) ==   \* mutant: elects from the partition it ran so far
  /\ pc[p] = "user" /\ p \in sent
  /\ sent' = sent \ {p}
  /\ Elect(p, Owner(runs[p]))
  /\ pc' = [pc EXCEPT ![p] = "join fence"]
  /\ UNCHANGED <<services, partition, newPartition, fence, barr, enabled, runs>>

\* global_sched_thread_gate: the interrupt is taken and a thread elected.
TakeInterrupt(p) ==
  /\ pc[p] = "user" /\ p \in sent
  /\ sent' = sent \ {p}
  /\ Elect(p, partition)
  /\ pc' = [pc EXCEPT ![p] = "join fence"]
  /\ UNCHANGED <<services, partition, newPartition, fence, barr, enabled, runs>>

JoinFence(p) ==
  /\ pc[p] = "join fence"
  /\ fence' = fence + 1
  /\ pc' = [pc EXCEPT ![p] = "at fence"]
  /\ UNCHANGED <<services, partition, newPartition, barr, enabled, runs, elected, ready, sent>>

LeaveFence(p) ==
  /\ pc[p] = "at fence" /\ fence = 0
  /\ pc' = [pc EXCEPT ![p] = "join barr"]
  /\ UNCHANGED <<services, partition, newPartition, fence, barr, enabled, runs, elected,
                 ready, sent>>

JoinBarr(p) ==
  /\ pc[p] = "join barr"
  /\ barr' = barr + 1
  /\ pc' = [pc EXCEPT ![p] = "at barr"]
  /\ UNCHANGED <<services, partition, newPartition, fence, enabled, runs, elected, ready, sent>>

LeaveBarr(p) ==
  /\ pc[p] = "at barr" /\ barr = 0
  /\ runs' = [runs EXCEPT ![p] = elected[p]]
  /\ pc' = [pc EXCEPT ![p] = "user"]
  /\ UNCHANGED <<services, partition, newPartition, fence, barr, enabled, elected, ready, sent>>

-----------------------------------------------------------------------------
\* A system call that blocks the running thread or makes another one ready on
\* this processor, or the interrupt another processor sends to that end.  The
\* kernel is entered, and left again by pok_sched_thread.
EnterService(p) ==
  /\ services /\ pc[p] = "user"
  /\ runs[p] # IdleThread \/ Count > 1
  /\ pc' = [pc EXCEPT ![p] = "service"]
  /\ UNCHANGED <<services, partition, newPartition, fence, barr, enabled, runs, elected,
                 ready, sent>>

SchedThread(p) ==
  /\ pc[p] = "service"
  /\ Elect(p, partition)
  /\ runs' = [runs EXCEPT ![p] = elected'[p]]
  /\ pc' = [pc EXCEPT ![p] = "user"]
  /\ UNCHANGED <<services, partition, newPartition, fence, barr, enabled, sent>>

\* What a processor does by itself once it is in the kernel.
Continue(p) ==
  \/ StartFence(p) \/ ElectFirst(p) \/ Gather(p) \/ Release(p) \/ Collect(p)
  \/ JoinFence(p) \/ LeaveFence(p) \/ JoinBarr(p) \/ LeaveBarr(p)
  \/ SchedThread(p)

SwitchNext ==
  \E p \in Processor :
    GlobalSched(p) \/ TakeInterrupt(p) \/ EnterService(p) \/ Continue(p)

\* A processor in the kernel does not stop, and an interrupt sent to it arrives.
Fairness ==
  \A p \in Processor : WF_switchVars(Continue(p)) /\ SF_switchVars(TakeInterrupt(p))

SwitchSpec == SwitchInit /\ [][SwitchNext]_switchVars /\ Fairness

-----------------------------------------------------------------------------
SwitchTypeOK ==
  /\ services \in Services
  /\ partition \in Partition /\ newPartition \in BOOLEAN
  /\ fence \in 0..Count /\ barr \in 0..Count
  /\ enabled \subseteq Partition
  /\ pc \in [Processor -> {"user", "start", "elect", "gather", "release", "collect",
                           "join fence", "at fence", "join barr", "at barr", "service"}]
  /\ runs \in [Processor -> Partition \cup {IdleThread}]
  /\ elected \in [Processor -> Partition \cup {IdleThread}]
  /\ ready \subseteq Processor \X Partition
  /\ sent \subseteq Processor

\* The assertions of rendezvous.h: a rendez-vous is not started while one is
\* under way, and it is only joined, awaited or ended while it is.
RendezvousInOrder ==
  \A p \in Processor :
    /\ pc[p] = "start" => fence = 0
    /\ pc[p] = "gather" => fence > 0 /\ (fence = Count => barr = 0)
    /\ pc[p] = "release" => fence > 0
    /\ pc[p] = "collect" => barr > 0
    /\ pc[p] = "join fence" => fence > 0
    /\ pc[p] = "join barr" => barr > 0

\* All processors change partition together: threads of two partitions never
\* run at the same time, unless one is scheduled by pok_sched_thread while the
\* switch is under way.
OnePartitionAtATime ==
  ~services =>
    \A p, q \in Processor :
      (pc[p] = "user" /\ pc[q] = "user") =>
        (runs[p] = IdleThread \/ runs[q] = IdleThread \/ runs[p] = runs[q])

\* The segments of the partition whose thread runs are enabled, under the same
\* condition.
ScheduledIsEnabled ==
  ~services =>
    \A p \in Processor :
      (pc[p] = "user" /\ runs[p] # IdleThread) => runs[p] \in enabled

\* Every processor that has entered the kernel to schedule leaves it: the
\* processors do not wait for each other for ever.
SwitchesComplete ==
  \A p \in Processor : pc[p] # "user" ~> pc[p] = "user"
=============================================================================
