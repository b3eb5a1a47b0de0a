--------------------------- MODULE PartitionProofs --------------------------
(***************************************************************************)
(* Proofs about the life of partitions.  PartitionSwitch, for any number   *)
(* of processors: when only one of them calls pok_global_sched, the two    *)
(* rendez-vous follow each other in order.  PartitionModes, for any number *)
(* of threads, any priorities, periods and delays, and calls of any thread *)
(* in any order.  The two share no variable.                               *)
(***************************************************************************)
EXTENDS PartitionSwitch, PartitionModes, FiniteSetTheorems, TLAPS

-----------------------------------------------------------------------------
\* PartitionSwitch

Others == Processor \ {Boot}
At(where) == {q \in Others : pc[q] = where}

\* Where the others can be, and what the counters are worth, by what the
\* calling processor is doing.
Phase ==
  /\ pc[Boot] \in {"user", "service", "start", "elect", "gather", "release", "collect"}
  /\ sent \subseteq Others
  /\ pc[Boot] \in {"user", "service", "start"} =>
       /\ fence = 0 /\ barr = 0 /\ sent = {}
       /\ \A q \in Others : pc[q] \in {"user", "service", "at barr"}
  /\ pc[Boot] \in {"elect", "gather"} =>
       /\ fence = 1 + Cardinality(At("at fence")) /\ barr = 0
       /\ \A q \in Others :
            IF q \in sent THEN pc[q] \in {"user", "service", "at barr"}
                          ELSE pc[q] \in {"join fence", "at fence"}
  /\ pc[Boot] = "release" =>
       /\ fence = Count /\ barr = 1 /\ sent = {}
       /\ \A q \in Others : pc[q] = "at fence"
  /\ pc[Boot] = "collect" =>
       /\ fence = 0 /\ barr = 1 + Cardinality(At("at barr")) /\ sent = {}
       /\ \A q \in Others : pc[q] \in {"at fence", "join barr", "at barr"}

OneCaller == Callers = {Boot}

Place == {"user", "start", "elect", "gather", "release", "collect",
          "join fence", "at fence", "join barr", "at barr", "service"}

\* The types without the counters' bounds, which only Phase gives.
Types ==
  /\ services \in Services
  /\ partition \in Partition /\ newPartition \in BOOLEAN
  /\ fence \in Nat /\ barr \in Nat
  /\ enabled \subseteq Partition
  /\ pc \in [Processor -> Place]
  /\ runs \in [Processor -> Partition \cup {IdleThread}]
  /\ elected \in [Processor -> Partition \cup {IdleThread}]
  /\ ready \subseteq Processor \X Partition
  /\ sent \subseteq Processor

LEMMA OwnerType ==
  ASSUME NEW t \in Partition \cup {IdleThread}
  PROVE  Owner(t) \in Partition
BY SwitchAssumption DEF Owner

LEMMA ElectTypes ==
  ASSUME Types, NEW p \in Processor, NEW next \in Partition, Elect(p, next)
  PROVE  /\ ready' \subseteq Processor \X Partition
         /\ elected' \in [Processor -> Partition \cup {IdleThread}]
         /\ elected'[p] \in {next, IdleThread}
         /\ \A q \in Processor \ {p} : elected'[q] = elected[q]
<1>1. PICK woken \in SUBSET {<<p, next>>},
           waiting \in SUBSET ({<<p, runs[p]>>} \ ({Boot} \X Background)) :
        /\ ready' = (ready \cup woken) \ waiting
        /\ elected' = [elected EXCEPT
             ![p] = IF <<p, next>> \in (ready \cup woken) \ waiting THEN next ELSE IdleThread]
  BY DEF Elect
<1>2. ready' \subseteq Processor \X Partition
  <2>1. woken \subseteq Processor \X Partition
    OBVIOUS
  <2> QED BY <1>1, <2>1 DEF Types
<1>3. /\ elected' \in [Processor -> Partition \cup {IdleThread}] /\ elected'[p] \in {next, IdleThread}
      /\ \A q \in Processor \ {p} : elected'[q] = elected[q]
  BY <1>1 DEF Types
<1> QED BY <1>2, <1>3

LEMMA TypesStep ==
  ASSUME Types, [SwitchNext]_switchVars
  PROVE  Types'
<1>0. Count \in Nat /\ FirstPartition \in Partition
  BY SwitchAssumption, FS_CardinalityType DEF Count
<1> SUFFICES ASSUME NEW p \in Processor,
                    GlobalSched(p) \/ TakeInterrupt(p) \/ EnterService(p) \/ Continue(p)
             PROVE  Types'
  BY DEF SwitchNext, Types, switchVars
<1>1. CASE GlobalSched(p)
  BY <1>1 DEF GlobalSched, Types, Place
<1>2. CASE StartFence(p)
  BY <1>2 DEF StartFence, Types, Place
<1>3. CASE ElectFirst(p)
  <2>1. Elect(p, partition) /\ partition \in Partition
    BY <1>3 DEF ElectFirst, Types
  <2>2. ready' \subseteq Processor \X Partition /\ elected' \in [Processor -> Partition \cup {IdleThread}]
    BY <2>1, ElectTypes
  <2> QED BY <1>3, <2>2 DEF ElectFirst, Types, Place
<1>4. CASE Gather(p)
  <2>1. Owner(runs[p]) \in Partition /\ Owner(elected[p]) \in Partition
    BY OwnerType DEF Types
  <2>2. enabled' \subseteq Partition
    BY <1>4, <2>1 DEF Gather, SpaceSwitch, Types
  <2> QED BY <1>4, <2>2 DEF Gather, Types, Place
<1>5. CASE Release(p)
  BY <1>5 DEF Release, Types, Place
<1>6. CASE Collect(p)
  BY <1>6 DEF Collect, Types, Place
<1>7. CASE TakeInterrupt(p)
  <2>1. Elect(p, partition) /\ partition \in Partition
    BY <1>7 DEF TakeInterrupt, Types
  <2>2. ready' \subseteq Processor \X Partition /\ elected' \in [Processor -> Partition \cup {IdleThread}]
    BY <2>1, ElectTypes
  <2> QED BY <1>7, <2>2 DEF TakeInterrupt, Types, Place
<1>8. CASE JoinFence(p)
  <2>1. fence' \in Nat
    <3>1. fence \in Nat /\ fence' = fence + 1
      BY <1>8, Zenon DEF JoinFence, Types
    <3> QED BY <3>1
  <2>2. pc' \in [Processor -> Place]
    BY <1>8 DEF JoinFence, Types, Place
  <2> QED BY <1>8, <2>1, <2>2, Zenon DEF JoinFence, Types
<1>9. CASE LeaveFence(p)
  BY <1>9 DEF LeaveFence, Types, Place
<1>10. CASE JoinBarr(p)
  <2>1. barr' \in Nat
    <3>1. barr \in Nat /\ barr' = barr + 1
      BY <1>10, Zenon DEF JoinBarr, Types
    <3> QED BY <3>1
  <2>2. pc' \in [Processor -> Place]
    BY <1>10 DEF JoinBarr, Types, Place
  <2> QED BY <1>10, <2>1, <2>2, Zenon DEF JoinBarr, Types
<1>11. CASE LeaveBarr(p)
  BY <1>11 DEF LeaveBarr, Types, Place
<1>12. CASE EnterService(p)
  BY <1>12 DEF EnterService, Types, Place
<1>13. CASE SchedThread(p)
  <2>1. Elect(p, partition) /\ partition \in Partition
    BY <1>13 DEF SchedThread, Types
  <2>2. ready' \subseteq Processor \X Partition /\ elected' \in [Processor -> Partition \cup {IdleThread}]
    BY <2>1, ElectTypes
  <2>3. runs' \in [Processor -> Partition \cup {IdleThread}]
    BY <1>13, <2>2 DEF SchedThread, Types
  <2> QED BY <1>13, <2>2, <2>3 DEF SchedThread, Types, Place
<1> QED BY <1>1, <1>2, <1>3, <1>4, <1>5, <1>6, <1>7, <1>8, <1>9, <1>10, <1>11, <1>12, <1>13
        DEF Continue

-----------------------------------------------------------------------------
LEMMA CountFacts ==
  /\ Count \in Nat /\ Boot \in Processor /\ Boot \notin Others
  /\ Processor = Others \cup {Boot}
  /\ IsFiniteSet(Others) /\ Cardinality(Others) + 1 = Count
<1>1. IsFiniteSet(Processor) /\ Boot \in Processor
  BY SwitchAssumption
<1>2. IsFiniteSet(Others) /\ Cardinality(Others) = Count - 1
  BY <1>1, FS_RemoveElement DEF Others, Count
<1>3. Count \in Nat
  BY <1>1, FS_CardinalityType DEF Count
<1> QED BY <1>1, <1>2, <1>3 DEF Others

\* A rendez-vous is complete exactly when all others have joined it.
LEMMA AtFacts ==
  ASSUME NEW w
  PROVE  /\ IsFiniteSet(At(w)) /\ Cardinality(At(w)) \in Nat
         /\ 1 + Cardinality(At(w)) <= Count
         /\ (1 + Cardinality(At(w)) = Count => \A q \in Others : pc[q] = w)
<1>1. At(w) \in SUBSET Others
  BY DEF At
<1>2. /\ IsFiniteSet(At(w)) /\ Cardinality(At(w)) <= Cardinality(Others)
      /\ (Cardinality(Others) = Cardinality(At(w)) => Others = At(w))
  BY <1>1, CountFacts, FS_Subset
<1>3. Cardinality(At(w)) \in Nat /\ Cardinality(Others) \in Nat
  BY <1>2, CountFacts, FS_CardinalityType
<1>4. Cardinality(At(w)) = Cardinality(Others) => \A q \in Others : pc[q] = w
  BY <1>2 DEF At
<1> QED BY <1>2, <1>3, <1>4, CountFacts

\* How one processor's move changes who has joined.
LEMMA MoveFacts ==
  ASSUME Types, NEW q \in Processor, NEW to, pc' = [pc EXCEPT ![q] = to], NEW w
  PROVE  /\ (q = Boot => At(w)' = At(w))
         /\ (q # Boot /\ pc[q] # w /\ to = w =>
              Cardinality(At(w)') = Cardinality(At(w)) + 1)
         /\ (pc[q] # w /\ to # w => At(w)' = At(w))
<1>1. \A x \in Processor : pc'[x] = IF x = q THEN to ELSE pc[x]
  BY DEF Types
<1>2. q = Boot => At(w)' = At(w)
  BY <1>1 DEF At, Others
<1>3. pc[q] # w /\ to # w => At(w)' = At(w)
  BY <1>1 DEF At, Others
<1>4. ASSUME q # Boot, pc[q] # w, to = w
      PROVE  Cardinality(At(w)') = Cardinality(At(w)) + 1
  <2>1. At(w)' = At(w) \cup {q} /\ q \notin At(w)
    BY <1>1, <1>4 DEF At, Others
  <2>2. IsFiniteSet(At(w))
    BY AtFacts
  <2> QED BY <2>1, <2>2, FS_AddElement
<1> QED BY <1>2, <1>3, <1>4

LEMMA Successor ==
  /\ \A c \in Nat : 1 + c # 0 /\ 1 + c > 0 /\ (1 + c) + 1 = 1 + (c + 1)
  /\ 1 = 1 + 0 /\ 1 > 0
  /\ \A c, n \in Nat : 1 + c <= n => n # 0 /\ n > 0
OBVIOUS

-----------------------------------------------------------------------------
\* The caller's own steps, from phase to phase.
LEMMA CallerStep ==
  ASSUME Types, Phase,
         \/ GlobalSched(Boot) \/ EnterService(Boot) \/ SchedThread(Boot)
         \/ StartFence(Boot) \/ ElectFirst(Boot)
         \/ Gather(Boot) \/ Release(Boot) \/ Collect(Boot)
  PROVE  Phase'
<1>0. /\ Boot \in Processor /\ Boot \notin Others /\ Others \subseteq Processor
      /\ Processor \ {Boot} = Others
  BY CountFacts DEF Others
<1>1. CASE GlobalSched(Boot) \/ EnterService(Boot) \/ SchedThread(Boot)
  <2>1. pc[Boot] \in {"user", "service"} /\ UNCHANGED <<fence, barr, sent>>
        /\ \E to \in {"start", "service", "user"} : pc' = [pc EXCEPT ![Boot] = to]
    BY <1>1 DEF GlobalSched, EnterService, SchedThread
  <2>2. pc'[Boot] \in {"start", "service", "user"} /\ \A q \in Others : pc'[q] = pc[q]
    BY <1>0, <2>1 DEF Types
  <2> QED BY <2>1, <2>2 DEF Phase
<1>2. CASE StartFence(Boot)
  <2>1. /\ pc[Boot] = "start" /\ fence' = 1 /\ sent' = sent \cup Others
        /\ pc' = [pc EXCEPT ![Boot] = "elect"] /\ UNCHANGED barr
    BY <1>0, <1>2 DEF StartFence
  <2>2. pc'[Boot] = "elect" /\ \A q \in Others : pc'[q] = pc[q]
    BY <1>0, <2>1 DEF Types
  <2>3. At("at fence") = {}
    BY <2>1 DEF Phase, At
  <2>4. At("at fence")' = {} /\ Cardinality({}) = 0
    BY <1>0, <2>1, <2>3, MoveFacts, FS_EmptySet
  <2>5. sent' = Others
    BY <2>1 DEF Phase
  <2>6. fence' = 1 + Cardinality(At("at fence")')
    BY <2>1, <2>4, Successor, Zenon
  <2> QED BY <2>1, <2>2, <2>5, <2>6 DEF Phase
<1>3. CASE ElectFirst(Boot)
  <2>1. /\ pc[Boot] = "elect" /\ UNCHANGED <<fence, barr, sent>>
        /\ pc' = [pc EXCEPT ![Boot] = "gather"]
    BY <1>3 DEF ElectFirst
  <2>2. pc'[Boot] = "gather" /\ \A q \in Others : pc'[q] = pc[q]
    BY <1>0, <2>1 DEF Types
  <2>3. At("at fence")' = At("at fence")
    BY <1>0, <2>1, MoveFacts
  <2> QED BY <2>1, <2>2, <2>3 DEF Phase
<1>4. CASE Gather(Boot)
  <2>1. /\ pc[Boot] = "gather" /\ fence = Count /\ barr' = 1 /\ UNCHANGED <<fence, sent>>
        /\ pc' = [pc EXCEPT ![Boot] = "release"]
    BY <1>4 DEF Gather
  <2>2. pc'[Boot] = "release" /\ \A q \in Others : pc'[q] = pc[q]
    BY <1>0, <2>1 DEF Types
  <2>3. \A q \in Others : pc[q] = "at fence"
    <3>1. fence = 1 + Cardinality(At("at fence"))
      BY <2>1 DEF Phase
    <3> QED BY <2>1, <3>1, AtFacts
  <2>4. sent = {}
    BY <2>1, <2>3 DEF Phase
  <2> QED BY <2>1, <2>2, <2>3, <2>4 DEF Phase
<1>5. CASE Release(Boot)
  <2>1. /\ pc[Boot] = "release" /\ fence' = 0 /\ UNCHANGED <<barr, sent>>
        /\ pc' = [pc EXCEPT ![Boot] = "collect"]
    BY <1>5 DEF Release
  <2>2. pc'[Boot] = "collect" /\ \A q \in Others : pc'[q] = pc[q]
    BY <1>0, <2>1 DEF Types
  <2>3. At("at barr") = {}
    BY <2>1 DEF Phase, At
  <2>4. At("at barr")' = {} /\ Cardinality({}) = 0
    BY <1>0, <2>1, <2>3, MoveFacts, FS_EmptySet
  <2>5. barr' = 1 + Cardinality(At("at barr")')
    <3>1. barr' = 1
      BY <2>1 DEF Phase
    <3> QED BY <2>4, <3>1, Successor, Zenon
  <2> QED BY <2>1, <2>2, <2>5 DEF Phase
<1>6. CASE Collect(Boot)
  <2>1. /\ pc[Boot] = "collect" /\ barr = Count /\ barr' = 0 /\ UNCHANGED <<fence, sent>>
        /\ pc' = [pc EXCEPT ![Boot] = "user"]
    BY <1>6 DEF Collect
  <2>2. pc'[Boot] = "user" /\ \A q \in Others : pc'[q] = pc[q]
    BY <1>0, <2>1 DEF Types
  <2>3. \A q \in Others : pc[q] = "at barr"
    <3>1. barr = 1 + Cardinality(At("at barr"))
      BY <2>1 DEF Phase
    <3> QED BY <2>1, <3>1, AtFacts
  <2> QED BY <2>1, <2>2, <2>3 DEF Phase
<1> QED BY <1>1, <1>2, <1>3, <1>4, <1>5, <1>6

\* The others' steps: they leave the phase, and only join where they may.
LEMMA OtherStep ==
  ASSUME Types, Phase, NEW p \in Others,
         \/ EnterService(p) \/ SchedThread(p) \/ TakeInterrupt(p)
         \/ JoinFence(p) \/ LeaveFence(p) \/ JoinBarr(p) \/ LeaveBarr(p)
  PROVE  Phase'
<1>0. p \in Processor /\ p # Boot /\ Boot \in Processor /\ Boot \notin Others
      /\ Others \subseteq Processor
  BY CountFacts DEF Others
<1>1. ASSUME NEW to, pc' = [pc EXCEPT ![p] = to]
      PROVE  /\ pc'[Boot] = pc[Boot] /\ pc'[p] = to
             /\ \A q \in Others \ {p} : pc'[q] = pc[q]
  BY <1>0, <1>1 DEF Types
<1>2. CASE EnterService(p) \/ SchedThread(p)
  <2>1. PICK to \in {"user", "service"} :
          /\ pc[p] \in {"user", "service"} /\ pc' = [pc EXCEPT ![p] = to]
          /\ UNCHANGED <<fence, barr, sent>>
    BY <1>2 DEF EnterService, SchedThread
  <2>2. At("at fence")' = At("at fence") /\ At("at barr")' = At("at barr")
    BY <1>0, <2>1, MoveFacts
  <2>3. /\ pc'[Boot] = pc[Boot] /\ pc'[p] = to
        /\ \A q \in Others \ {p} : pc'[q] = pc[q]
    BY <1>1, <2>1
  <2> QED BY <2>1, <2>2, <2>3 DEF Phase
<1>3. CASE TakeInterrupt(p)
  <2>1. /\ pc[p] = "user" /\ p \in sent /\ sent' = sent \ {p}
        /\ pc' = [pc EXCEPT ![p] = "join fence"] /\ UNCHANGED <<fence, barr>>
    BY <1>3 DEF TakeInterrupt
  <2>2. At("at fence")' = At("at fence")
    BY <1>0, <2>1, MoveFacts
  <2>3. /\ pc'[Boot] = pc[Boot] /\ pc'[p] = "join fence"
        /\ \A q \in Others \ {p} : pc'[q] = pc[q]
    BY <1>1, <2>1
  <2>4. pc[Boot] \in {"elect", "gather"}
    BY <2>1 DEF Phase
  <2> QED BY <2>1, <2>2, <2>3, <2>4 DEF Phase
<1>4. CASE JoinFence(p)
  <2>1. /\ pc[p] = "join fence" /\ fence' = fence + 1
        /\ pc' = [pc EXCEPT ![p] = "at fence"] /\ UNCHANGED <<barr, sent>>
    BY <1>4 DEF JoinFence
  <2>2. Cardinality(At("at fence")') = Cardinality(At("at fence")) + 1
    BY <1>0, <2>1, MoveFacts
  <2>3. /\ pc'[Boot] = pc[Boot] /\ pc'[p] = "at fence"
        /\ \A q \in Others \ {p} : pc'[q] = pc[q]
    BY <1>1, <2>1
  <2>4. pc[Boot] \in {"elect", "gather"} /\ p \notin sent
    BY <2>1 DEF Phase
  <2>5. fence' = 1 + Cardinality(At("at fence")')
    <3>1. fence = 1 + Cardinality(At("at fence"))
      BY <2>4 DEF Phase
    <3>2. Cardinality(At("at fence")) \in Nat
      BY AtFacts
    <3> QED BY <2>1, <2>2, <3>1, <3>2, Successor, Zenon
  <2> QED BY <2>1, <2>3, <2>4, <2>5 DEF Phase
<1>5. CASE LeaveFence(p)
  <2>1. /\ pc[p] = "at fence" /\ fence = 0
        /\ pc' = [pc EXCEPT ![p] = "join barr"] /\ UNCHANGED <<fence, barr, sent>>
    BY <1>5 DEF LeaveFence
  <2>2. At("at barr")' = At("at barr")
    BY <1>0, <2>1, MoveFacts
  <2>3. /\ pc'[Boot] = pc[Boot] /\ pc'[p] = "join barr"
        /\ \A q \in Others \ {p} : pc'[q] = pc[q]
    BY <1>1, <2>1
  <2>4. pc[Boot] = "collect"
    <3>1. Count # 0 /\ 1 + Cardinality(At("at fence")) # 0
      BY AtFacts, CountFacts, Successor, Zenon
    <3>2. pc[Boot] \in {"elect", "gather"} => fence = 1 + Cardinality(At("at fence"))
      BY DEF Phase
    <3>3. pc[Boot] \notin {"elect", "gather", "release"}
      BY <2>1, <3>1, <3>2 DEF Phase
    <3> QED BY <2>1, <3>3 DEF Phase
  <2> QED BY <2>1, <2>2, <2>3, <2>4 DEF Phase
<1>6. CASE JoinBarr(p)
  <2>1. /\ pc[p] = "join barr" /\ barr' = barr + 1
        /\ pc' = [pc EXCEPT ![p] = "at barr"] /\ UNCHANGED <<fence, sent>>
    BY <1>6 DEF JoinBarr
  <2>2. Cardinality(At("at barr")') = Cardinality(At("at barr")) + 1
    BY <1>0, <2>1, MoveFacts
  <2>3. /\ pc'[Boot] = pc[Boot] /\ pc'[p] = "at barr"
        /\ \A q \in Others \ {p} : pc'[q] = pc[q]
    BY <1>1, <2>1
  <2>4. pc[Boot] = "collect"
    BY <2>1 DEF Phase
  <2>5. barr' = 1 + Cardinality(At("at barr")')
    <3>1. barr = 1 + Cardinality(At("at barr"))
      BY <2>4 DEF Phase
    <3>2. Cardinality(At("at barr")) \in Nat
      BY AtFacts
    <3> QED BY <2>1, <2>2, <3>1, <3>2, Successor, Zenon
  <2> QED BY <2>1, <2>3, <2>4, <2>5 DEF Phase
<1>7. CASE LeaveBarr(p)
  <2>1. /\ pc[p] = "at barr" /\ barr = 0
        /\ pc' = [pc EXCEPT ![p] = "user"] /\ UNCHANGED <<fence, barr, sent>>
    BY <1>7 DEF LeaveBarr
  <2>2. At("at fence")' = At("at fence")
    BY <1>0, <2>1, MoveFacts
  <2>3. /\ pc'[Boot] = pc[Boot] /\ pc'[p] = "user"
        /\ \A q \in Others \ {p} : pc'[q] = pc[q]
    BY <1>1, <2>1
  <2>4. pc[Boot] # "collect"
    <3>1. 1 + Cardinality(At("at barr")) # 0
      BY AtFacts, Successor, Zenon
    <3>2. pc[Boot] = "collect" => barr = 1 + Cardinality(At("at barr"))
      BY DEF Phase
    <3> QED BY <2>1, <3>1, <3>2
  <2>5. pc[Boot] # "release"
    BY <2>1 DEF Phase
  <2> QED BY <2>1, <2>2, <2>3, <2>4, <2>5 DEF Phase
<1> QED BY <1>2, <1>3, <1>4, <1>5, <1>6, <1>7

LEMMA PhaseStep ==
  ASSUME OneCaller, Types, Phase, [SwitchNext]_switchVars
  PROVE  Phase'
<1>1. CASE UNCHANGED switchVars
  <2>1. UNCHANGED <<fence, barr, pc, sent>>
    BY <1>1 DEF switchVars
  <2>2. At("at fence")' = At("at fence") /\ At("at barr")' = At("at barr")
    BY <2>1 DEF At
  <2> QED BY <2>1, <2>2 DEF Phase
<1>2. ASSUME NEW p \in Processor,
             GlobalSched(p) \/ TakeInterrupt(p) \/ EnterService(p) \/ Continue(p)
      PROVE  Phase'
  <2>1. CASE p = Boot
    <3>1. pc[Boot] \notin {"join fence", "at fence", "join barr", "at barr"} /\ Boot \notin sent
      BY CountFacts DEF Phase
    <3>2. ~TakeInterrupt(Boot) /\ ~JoinFence(Boot) /\ ~LeaveFence(Boot)
          /\ ~JoinBarr(Boot) /\ ~LeaveBarr(Boot)
      BY <3>1 DEF TakeInterrupt, JoinFence, LeaveFence, JoinBarr, LeaveBarr
    <3> QED BY <1>2, <2>1, <3>2, CallerStep DEF Continue
  <2>2. CASE p # Boot
    <3>1. p \in Others /\ pc[p] \notin {"start", "elect", "gather", "release", "collect"}
      <4>1. p \in Others
        BY <1>2, <2>2 DEF Others
      <4> QED BY <4>1 DEF Phase
    <3>2. ~GlobalSched(p) /\ ~StartFence(p) /\ ~ElectFirst(p) /\ ~Gather(p)
          /\ ~Release(p) /\ ~Collect(p)
      BY <2>2, <3>1
         DEF OneCaller, GlobalSched, StartFence, ElectFirst, Gather, Release, Collect
    <3> QED BY <1>2, <3>1, <3>2, OtherStep DEF Continue
  <2> QED BY <2>1, <2>2
<1> QED BY <1>1, <1>2 DEF SwitchNext

LEMMA PhaseInit == SwitchInit => Types /\ Phase
<1> SUFFICES ASSUME SwitchInit PROVE Types /\ Phase
  OBVIOUS
<1>1. Types
  <2>1. {Boot} \X Background \subseteq Processor \X Partition
    BY SwitchAssumption
  <2> QED BY <2>1 DEF SwitchInit, Types, Place
<1>2. Phase
  BY CountFacts DEF SwitchInit, Phase
<1> QED BY <1>1, <1>2

\* What Phase says about the counters.
LEMMA PhaseBounds ==
  ASSUME Types, Phase
  PROVE  SwitchTypeOK /\ RendezvousInOrder
<1>1. /\ 1 + Cardinality(At("at fence")) <= Count /\ 1 + Cardinality(At("at barr")) <= Count
      /\ Cardinality(At("at fence")) \in Nat /\ Cardinality(At("at barr")) \in Nat
      /\ Count \in Nat
  BY AtFacts, CountFacts
<1>2. /\ Count > 0 /\ 1 <= Count
      /\ 1 + Cardinality(At("at fence")) > 0 /\ 1 + Cardinality(At("at barr")) > 0
  <2>1. \A c, n \in Nat : 1 + c <= n => n > 0 /\ 1 <= n /\ 1 + c > 0
    OBVIOUS
  <2> QED BY <1>1, <2>1
<1>3. /\ fence \in {0, Count, 1 + Cardinality(At("at fence"))}
      /\ barr \in {0, 1, 1 + Cardinality(At("at barr"))}
  BY DEF Phase
<1>4. fence <= Count /\ barr <= Count
  <2>1. 0 <= Count /\ Count <= Count
    <3>1. \A n \in Nat : 0 <= n /\ n <= n
      OBVIOUS
    <3> QED BY CountFacts, <3>1
  <2>2. fence <= Count
    BY <1>1, <1>2, <1>3, <2>1, Zenon
  <2>3. barr <= Count
    BY <1>1, <1>2, <1>3, <2>1, Zenon
  <2> QED BY <2>2, <2>3
<1>5. SwitchTypeOK
  <2>1. fence \in 0..Count /\ barr \in 0..Count
    <3>1. fence \in Nat /\ barr \in Nat
      BY DEF Types
    <3>2. \A n, m \in Nat : n <= m => n \in 0..m
      OBVIOUS
    <3> QED BY <1>1, <1>4, <3>1, <3>2
  <2> QED BY <2>1 DEF Types, Place, SwitchTypeOK
<1>6. pc[Boot] \in {"elect", "gather"} => fence > 0 /\ barr = 0
  BY <1>2 DEF Phase
<1>7. pc[Boot] = "collect" => barr > 0
  BY <1>2 DEF Phase
<1>8. pc[Boot] = "release" => fence > 0
  BY <1>2 DEF Phase
<1>9. pc[Boot] = "start" => fence = 0
  BY DEF Phase
<1>10. ASSUME NEW p \in Processor
       PROVE  /\ pc[p] = "start" => fence = 0
              /\ pc[p] = "gather" => fence > 0 /\ (fence = Count => barr = 0)
              /\ pc[p] = "release" => fence > 0
              /\ pc[p] = "collect" => barr > 0
              /\ pc[p] = "join fence" => fence > 0
              /\ pc[p] = "join barr" => barr > 0
  <2>1. CASE p = Boot
    BY <2>1, <1>6, <1>7, <1>8, <1>9 DEF Phase
  <2>2. CASE p # Boot
    <3>1. p \in Others
      BY <2>2 DEF Others
    <3>2. /\ pc[p] \notin {"start", "gather", "release", "collect"}
          /\ (pc[p] = "join fence" => pc[Boot] \in {"elect", "gather"})
          /\ (pc[p] = "join barr" => pc[Boot] = "collect")
      BY <3>1 DEF Phase
    <3> QED BY <3>2, <1>6, <1>7
  <2> QED BY <2>1, <2>2
<1> QED BY <1>5, <1>10 DEF RendezvousInOrder

LEMMA PhaseAlways ==
  ASSUME OneCaller
  PROVE  SwitchSpec => [](Types /\ Phase)
<1>1. Types /\ Phase /\ [SwitchNext]_switchVars => (Types /\ Phase)'
  BY TypesStep, PhaseStep
<1> QED BY <1>1, PhaseInit, PTL DEF SwitchSpec

\* The state's types; in particular neither rendez-vous ever counts more
\* processors than there are.
THEOREM SwitchTypeCorrect ==
  ASSUME OneCaller
  PROVE  SwitchSpec => []SwitchTypeOK
<1>1. Types /\ Phase => SwitchTypeOK
  BY PhaseBounds
<1> QED BY <1>1, PhaseAlways, PTL

\* When only one processor calls pok_global_sched, no assertion of
\* rendezvous.h fails, however many processors there are and however their
\* steps interleave.
THEOREM RendezvousCorrect ==
  ASSUME OneCaller
  PROVE  SwitchSpec => []RendezvousInOrder
<1>1. Types /\ Phase => RendezvousInOrder
  BY PhaseBounds
<1> QED BY <1>1, PhaseAlways, PTL

-----------------------------------------------------------------------------
\* While a switch is under way, the processors that have not joined it still run
\* the old partition; the threads elected are the new one's.
Together(old) ==
  /\ pc[Boot] = "user" => old = partition
  /\ \A q \in Processor : pc[q] # "service"
  /\ \A q \in Processor : pc[q] = "user" => runs[q] \in {old, IdleThread}
  /\ pc[Boot] \in {"user", "start", "elect", "gather"} =>
       \A q \in Others : pc[q] = "at barr" => elected[q] \in {old, IdleThread}
  /\ \A q \in Others : pc[q] \in {"join fence", "at fence", "join barr"} =>
                         elected[q] \in {partition, IdleThread}
  /\ pc[Boot] \in {"gather", "release", "collect"} => elected[Boot] \in {partition, IdleThread}
  /\ pc[Boot] = "collect" =>
       \A q \in Others : pc[q] = "at barr" => elected[q] \in {partition, IdleThread}

TogetherInv == \E old \in Partition : Together(old)

LEMMA TogetherStep ==
  ASSUME OneCaller, ~services, Types, Phase, TogetherInv, [SwitchNext]_switchVars
  PROVE  TogetherInv'
<1>0. /\ Boot \in Processor /\ Boot \notin Others
      /\ \A q \in Processor : q \in Others \/ q = Boot
      /\ \A q \in Others : q \in Processor /\ q # Boot
      /\ partition \in Partition
  BY CountFacts DEF Types, Others
<1>1. PICK old \in Partition : Together(old)
  BY DEF TogetherInv
<1>2. CASE UNCHANGED switchVars
  <2>1. Together(old)'
    BY <1>1, <1>2 DEF switchVars, Together
  <2> QED BY <2>1 DEF TogetherInv
<1>3. ASSUME NEW p \in Processor,
             GlobalSched(p) \/ TakeInterrupt(p) \/ EnterService(p) \/ Continue(p)
      PROVE  TogetherInv'
  <2>0. ASSUME NEW to, pc' = [pc EXCEPT ![p] = to]
        PROVE  pc'[p] = to /\ \A q \in Processor \ {p} : pc'[q] = pc[q]
    BY <2>0 DEF Types
  <2>1. CASE GlobalSched(p)
    <3>1. /\ p = Boot /\ pc[Boot] = "user"
          /\ pc' = [pc EXCEPT ![p] = "start"] /\ UNCHANGED <<runs, elected>>
      BY <2>1 DEF GlobalSched, OneCaller
    <3>2. pc'[Boot] = "start" /\ \A q \in Processor \ {Boot} : pc'[q] = pc[q]
      BY <2>0, <3>1
    <3>3. \A q \in Others : pc[q] \notin {"join fence", "at fence", "join barr"}
      BY <3>1 DEF Phase
    <3>4. Together(old)'
      BY <1>0, <1>1, <3>1, <3>2, <3>3 DEF Together
    <3> QED BY <3>4 DEF TogetherInv
  <2>2. CASE StartFence(p) \/ Gather(p)
    <3>1. /\ p = Boot /\ UNCHANGED <<partition, runs, elected>>
          /\ pc[Boot] \in {"start", "gather"}
          /\ \E to \in {"elect", "release"} :
               /\ pc' = [pc EXCEPT ![p] = to]
               /\ (to = "release" => pc[Boot] = "gather")
      BY <1>0, <2>2 DEF StartFence, Gather, Phase
    <3>2. /\ pc'[Boot] \in {"elect", "release"}
          /\ (pc'[Boot] = "release" => pc[Boot] = "gather")
          /\ \A q \in Processor \ {Boot} : pc'[q] = pc[q]
      BY <2>0, <3>1
    <3>3. Together(old)'
      BY <1>0, <1>1, <3>1, <3>2 DEF Together
    <3> QED BY <3>3 DEF TogetherInv
  <2>3. CASE ElectFirst(p)
    <3>1. /\ p = Boot /\ UNCHANGED <<partition, runs>> /\ pc[Boot] = "elect"
          /\ pc' = [pc EXCEPT ![p] = "gather"] /\ Elect(p, partition)
      BY <1>0, <2>3 DEF ElectFirst, Phase
    <3>2. pc'[Boot] = "gather" /\ \A q \in Processor \ {Boot} : pc'[q] = pc[q]
      BY <2>0, <3>1
    <3>3. /\ elected'[Boot] \in {partition, IdleThread}
          /\ \A q \in Processor \ {Boot} : elected'[q] = elected[q]
      BY <1>0, <3>1, ElectTypes
    <3>4. Together(old)'
      BY <1>0, <1>1, <3>1, <3>2, <3>3 DEF Together
    <3> QED BY <3>4 DEF TogetherInv
  <2>4. CASE Release(p)
    <3>1. /\ p = Boot /\ UNCHANGED <<partition, runs, elected>> /\ pc[Boot] = "release"
          /\ pc' = [pc EXCEPT ![p] = "collect"]
      BY <1>0, <2>4 DEF Release, Phase
    <3>2. pc'[Boot] = "collect" /\ \A q \in Processor \ {Boot} : pc'[q] = pc[q]
      BY <2>0, <3>1
    <3>3. \A q \in Others : pc[q] = "at fence"
      BY <3>1 DEF Phase
    <3>4. Together(old)'
      BY <1>0, <1>1, <3>1, <3>2, <3>3 DEF Together
    <3> QED BY <3>4 DEF TogetherInv
  <2>5. CASE Collect(p)
    <3>1. /\ p = Boot /\ UNCHANGED <<partition, elected>> /\ pc[Boot] = "collect"
          /\ pc' = [pc EXCEPT ![p] = "user"] /\ barr = Count
          /\ runs' = [runs EXCEPT ![p] = elected[p]]
      BY <1>0, <2>5 DEF Collect, Phase
    <3>2. pc'[Boot] = "user" /\ \A q \in Processor \ {Boot} : pc'[q] = pc[q]
      BY <2>0, <3>1
    <3>3. runs'[Boot] = elected[Boot]
      BY <1>0, <3>1 DEF Types
    <3>4. \A q \in Others : pc[q] = "at barr"
      <4>1. barr = 1 + Cardinality(At("at barr"))
        BY <3>1 DEF Phase
      <4> QED BY <3>1, <4>1, AtFacts
    <3>5. Together(partition)'
      BY <1>0, <1>1, <3>1, <3>2, <3>3, <3>4 DEF Together
    <3> QED BY <1>0, <3>1, <3>5 DEF TogetherInv
  <2>6. CASE TakeInterrupt(p)
    <3>1. /\ p \in Others /\ UNCHANGED <<partition, runs>>
          /\ pc' = [pc EXCEPT ![p] = "join fence"] /\ Elect(p, partition)
      BY <1>0, <2>6 DEF TakeInterrupt, Phase
    <3>2. pc'[p] = "join fence" /\ \A q \in Processor \ {p} : pc'[q] = pc[q]
      BY <2>0, <3>1
    <3>3. /\ elected'[p] \in {partition, IdleThread}
          /\ \A q \in Processor \ {p} : elected'[q] = elected[q]
      BY <1>0, <3>1, ElectTypes
    <3>4. Together(old)'
      BY <1>0, <1>1, <3>1, <3>2, <3>3 DEF Together
    <3> QED BY <3>4 DEF TogetherInv
  <2>7. CASE JoinFence(p) \/ LeaveFence(p)
    <3>1. /\ p \in Others /\ UNCHANGED <<partition, runs, elected>>
          /\ pc[p] \in {"join fence", "at fence"}
          /\ \E to \in {"at fence", "join barr"} : pc' = [pc EXCEPT ![p] = to]
      BY <1>0, <2>7 DEF JoinFence, LeaveFence, Phase
    <3>2. /\ pc'[p] \in {"at fence", "join barr"}
          /\ \A q \in Processor \ {p} : pc'[q] = pc[q]
      BY <2>0, <3>1
    <3>3. Together(old)'
      BY <1>0, <1>1, <3>1, <3>2 DEF Together
    <3> QED BY <3>3 DEF TogetherInv
  <2>8. CASE JoinBarr(p)
    <3>1. /\ p \in Others /\ UNCHANGED <<partition, runs, elected>>
          /\ pc[p] = "join barr" /\ pc' = [pc EXCEPT ![p] = "at barr"]
      BY <1>0, <2>8 DEF JoinBarr, Phase
    <3>2. pc'[p] = "at barr" /\ \A q \in Processor \ {p} : pc'[q] = pc[q]
      BY <2>0, <3>1
    <3>3. pc[Boot] = "collect"
      BY <3>1 DEF Phase
    <3>4. Together(old)'
      BY <1>0, <1>1, <3>1, <3>2, <3>3 DEF Together
    <3> QED BY <3>4 DEF TogetherInv
  <2>9. CASE LeaveBarr(p)
    <3>1. /\ p \in Others /\ UNCHANGED <<partition, elected>>
          /\ pc[p] = "at barr" /\ pc' = [pc EXCEPT ![p] = "user"] /\ barr = 0
          /\ runs' = [runs EXCEPT ![p] = elected[p]]
      BY <1>0, <2>9 DEF LeaveBarr, Phase
    <3>2. pc'[p] = "user" /\ \A q \in Processor \ {p} : pc'[q] = pc[q]
      BY <2>0, <3>1
    <3>3. runs'[p] = elected[p] /\ \A q \in Processor \ {p} : runs'[q] = runs[q]
      BY <1>0, <3>1 DEF Types
    <3>4. pc[Boot] \in {"user", "start", "elect", "gather"}
      <4>1. 1 + Cardinality(At("at barr")) # 0
        BY AtFacts, Successor, Zenon
      <4>2. pc[Boot] = "collect" => barr = 1 + Cardinality(At("at barr"))
        BY DEF Phase
      <4>3. pc[Boot] \notin {"collect", "release", "service"}
        BY <1>0, <1>1, <3>1, <4>1, <4>2 DEF Phase, Together
      <4> QED BY <4>3 DEF Phase
    <3>5. Together(old)'
      BY <1>0, <1>1, <3>1, <3>2, <3>3, <3>4 DEF Together
    <3> QED BY <3>5 DEF TogetherInv
  <2>10. ~EnterService(p) /\ ~SchedThread(p)
    BY <1>1 DEF EnterService, SchedThread, Together
  <2> QED BY <1>3, <2>1, <2>2, <2>3, <2>4, <2>5, <2>6, <2>7, <2>8, <2>9, <2>10 DEF Continue
<1> QED BY <1>2, <1>3 DEF SwitchNext

LEMMA ServicesStay == [SwitchNext]_switchVars => services' = services
BY DEF SwitchNext, switchVars, GlobalSched, TakeInterrupt, EnterService, Continue, StartFence,
       ElectFirst, Gather, Release, Collect, JoinFence, LeaveFence, JoinBarr,
       LeaveBarr, SchedThread

\* As long as threads are scheduled by pok_global_sched only, all processors
\* change partition together: threads of two partitions never run at once.
THEOREM PartitionsAlternate ==
  ASSUME OneCaller
  PROVE  SwitchSpec => []OnePartitionAtATime
<1> DEFINE Apart == ~services => TogetherInv
<1>1. SwitchInit => Apart
  <2> SUFFICES ASSUME SwitchInit PROVE TogetherInv
    OBVIOUS
  <2>1. Together(partition)
    BY CountFacts DEF SwitchInit, Together
  <2> QED BY <2>1 DEF SwitchInit, TogetherInv
<1>2. Types /\ Phase /\ Apart /\ [SwitchNext]_switchVars => Apart'
  BY TogetherStep, ServicesStay
<1>3. Apart => OnePartitionAtATime
  BY DEF TogetherInv, Together, OnePartitionAtATime
<1> QED BY <1>1, <1>2, <1>3, PhaseAlways, PTL DEF SwitchSpec

-----------------------------------------------------------------------------
(***************************************************************************)
(* Partition segments.  pok_space_switch disables the partition of the     *)
(* thread that ran and enables that of the thread elected on the calling   *)
(* processor, so that processor must elect one of the new partition.  It   *)
(* does when every partition has a thread there that is always ready.      *)
(***************************************************************************)
AlwaysWork == Background = Partition

Present(thread) == thread = IdleThread \/ thread \in enabled

\* The threads that run, or will when their processor leaves the last
\* rendez-vous, have their segments; so has the partition that is scheduled,
\* but for the time between the decision to change it and the space switch.
SegmentsInv ==
  /\ {Boot} \X Background \subseteq ready
  /\ pc[Boot] = "gather" => elected[Boot] = partition
  /\ pc[Boot] \in {"user", "start", "elect", "gather"} =>
       /\ \A q \in Processor : pc[q] = "user" => Present(runs[q])
       /\ \A q \in Others : pc[q] = "at barr" => Present(elected[q])
  /\ \/ pc[Boot] \in {"start", "elect", "gather"} /\ newPartition
     \/ partition \in enabled

\* The threads that are always ready stay so, and the calling processor elects
\* the one of the partition.
LEMMA ElectReady ==
  ASSUME Types, {Boot} \X Background \subseteq ready,
         NEW p \in Processor, NEW next \in Partition, Elect(p, next)
  PROVE  /\ {Boot} \X Background \subseteq ready'
         /\ AlwaysWork /\ p = Boot => elected'[p] = next
<1>1. PICK woken \in SUBSET {<<p, next>>},
           waiting \in SUBSET ({<<p, runs[p]>>} \ ({Boot} \X Background)) :
        /\ ready' = (ready \cup woken) \ waiting
        /\ elected' = [elected EXCEPT
             ![p] = IF <<p, next>> \in (ready \cup woken) \ waiting THEN next ELSE IdleThread]
  BY DEF Elect
<1>2. {Boot} \X Background \subseteq (ready \cup woken) \ waiting
  OBVIOUS
<1>3. ASSUME AlwaysWork, p = Boot PROVE elected'[p] = next
  <2>1. <<p, next>> \in {Boot} \X Background
    BY <1>3 DEF AlwaysWork
  <2> QED BY <1>1, <1>2, <2>1 DEF Types
<1> QED BY <1>1, <1>2, <1>3

LEMMA SegmentsStep ==
  ASSUME OneCaller, AlwaysWork, ~services, Types, Phase, TogetherInv, SegmentsInv,
         [SwitchNext]_switchVars
  PROVE  SegmentsInv'
<1>0. /\ Boot \in Processor /\ Boot \notin Others
      /\ \A q \in Processor : q \in Others \/ q = Boot
      /\ \A q \in Others : q \in Processor /\ q # Boot
      /\ partition \in Partition /\ IdleThread \notin Partition
  BY CountFacts, SwitchAssumption DEF Types, Others
<1>1. PICK old \in Partition : Together(old)
  BY DEF TogetherInv
<1>2. CASE UNCHANGED switchVars
  BY <1>2 DEF switchVars, SegmentsInv, Present
<1>3. ASSUME NEW p \in Processor,
             GlobalSched(p) \/ TakeInterrupt(p) \/ EnterService(p) \/ Continue(p)
      PROVE  SegmentsInv'
  <2>0. ASSUME NEW to, pc' = [pc EXCEPT ![p] = to]
        PROVE  pc'[p] = to /\ \A q \in Processor \ {p} : pc'[q] = pc[q]
    BY <2>0 DEF Types
  <2>1. CASE GlobalSched(p)
    <3>1. /\ p = Boot /\ pc[Boot] = "user"
          /\ pc' = [pc EXCEPT ![p] = "start"]
          /\ UNCHANGED <<runs, elected, enabled, ready>>
          /\ (newPartition' \/ partition' = partition)
      BY <2>1 DEF GlobalSched, OneCaller
    <3>2. pc'[Boot] = "start" /\ \A q \in Processor \ {Boot} : pc'[q] = pc[q]
      BY <2>0, <3>1
    <3> QED BY <1>0, <3>1, <3>2 DEF SegmentsInv, Present
  <2>2. CASE StartFence(p)
    <3>1. /\ p = Boot /\ pc[Boot] = "start"
          /\ pc' = [pc EXCEPT ![p] = "elect"]
          /\ UNCHANGED <<runs, elected, enabled, ready, partition, newPartition>>
      BY <1>0, <2>2 DEF StartFence, Phase
    <3>2. pc'[Boot] = "elect" /\ \A q \in Processor \ {Boot} : pc'[q] = pc[q]
      BY <2>0, <3>1
    <3> QED BY <1>0, <3>1, <3>2 DEF SegmentsInv, Present
  <2>3. CASE ElectFirst(p)
    <3>1. /\ p = Boot /\ UNCHANGED <<partition, newPartition, enabled, runs>>
          /\ pc[Boot] = "elect"
          /\ pc' = [pc EXCEPT ![p] = "gather"] /\ Elect(p, partition)
      BY <1>0, <2>3 DEF ElectFirst, Phase
    <3>2. pc'[Boot] = "gather" /\ \A q \in Processor \ {Boot} : pc'[q] = pc[q]
      BY <2>0, <3>1
    <3>3. \A q \in Processor \ {Boot} : elected'[q] = elected[q]
      BY <1>0, <3>1, ElectTypes
    <3>4. {Boot} \X Background \subseteq ready' /\ elected'[Boot] = partition
      BY <1>0, <3>1, ElectReady DEF SegmentsInv
    <3> QED BY <1>0, <3>1, <3>2, <3>3, <3>4 DEF SegmentsInv, Present
  <2>4. CASE Gather(p)
    <3>1. /\ p = Boot /\ pc[Boot] = "gather"
          /\ pc' = [pc EXCEPT ![p] = "release"]
          /\ UNCHANGED <<runs, elected, ready, partition, newPartition>>
          /\ IF newPartition THEN SpaceSwitch(Owner(runs[p]), Owner(elected[p]))
                             ELSE UNCHANGED enabled
      BY <1>0, <2>4 DEF Gather, Phase
    <3>2. pc'[Boot] = "release"
      BY <2>0, <3>1
    <3>3. Owner(elected[Boot]) = partition
      BY <1>0, <3>1 DEF SegmentsInv, Owner
    <3>4. partition \in enabled'
      BY <3>1, <3>3 DEF SegmentsInv, SpaceSwitch
    <3> QED BY <3>1, <3>2, <3>4 DEF SegmentsInv
  <2>5. CASE Release(p)
    <3>1. /\ p = Boot /\ pc[Boot] = "release"
          /\ pc' = [pc EXCEPT ![p] = "collect"]
          /\ UNCHANGED <<enabled, ready, partition>>
      BY <1>0, <2>5 DEF Release, Phase
    <3>2. pc'[Boot] = "collect"
      BY <2>0, <3>1
    <3> QED BY <3>1, <3>2 DEF SegmentsInv
  <2>6. CASE Collect(p)
    <3>1. /\ p = Boot /\ UNCHANGED <<partition, elected, enabled, ready>>
          /\ pc[Boot] = "collect"
          /\ pc' = [pc EXCEPT ![p] = "user"] /\ barr = Count
          /\ runs' = [runs EXCEPT ![p] = elected[p]]
      BY <1>0, <2>6 DEF Collect, Phase
    <3>2. pc'[Boot] = "user" /\ \A q \in Processor \ {Boot} : pc'[q] = pc[q]
      BY <2>0, <3>1
    <3>3. runs'[Boot] = elected[Boot]
      BY <1>0, <3>1 DEF Types
    <3>4. \A q \in Others : pc[q] = "at barr"
      <4>1. barr = 1 + Cardinality(At("at barr"))
        BY <3>1 DEF Phase
      <4> QED BY <3>1, <4>1, AtFacts
    <3>5. partition \in enabled
      BY <3>1 DEF SegmentsInv
    <3>6. /\ elected[Boot] \in {partition, IdleThread}
          /\ \A q \in Others : elected[q] \in {partition, IdleThread}
      BY <1>1, <3>1, <3>4 DEF Together
    <3>7. \A q \in Processor : pc'[q] = "user" => q = Boot
      BY <1>0, <3>2, <3>4
    <3>8. Present(runs[Boot])'
      BY <3>1, <3>3, <3>5, <3>6 DEF Present
    <3>9. \A q \in Others : Present(elected[q])'
      BY <3>1, <3>5, <3>6 DEF Present
    <3> QED BY <3>1, <3>2, <3>5, <3>7, <3>8, <3>9 DEF SegmentsInv
  <2>7. CASE TakeInterrupt(p)
    <3>1. /\ p \in Others /\ UNCHANGED <<partition, newPartition, enabled, runs>>
          /\ pc' = [pc EXCEPT ![p] = "join fence"] /\ Elect(p, partition)
      BY <1>0, <2>7 DEF TakeInterrupt, Phase
    <3>2. pc'[p] = "join fence" /\ \A q \in Processor \ {p} : pc'[q] = pc[q]
      BY <2>0, <3>1
    <3>3. \A q \in Processor \ {p} : elected'[q] = elected[q]
      BY <1>0, <3>1, ElectTypes
    <3>4. {Boot} \X Background \subseteq ready'
      BY <1>0, <3>1, ElectReady DEF SegmentsInv
    <3> QED BY <1>0, <3>1, <3>2, <3>3, <3>4 DEF SegmentsInv, Present
  <2>8. CASE JoinFence(p) \/ LeaveFence(p)
    <3>1. /\ p \in Others /\ UNCHANGED <<partition, newPartition, enabled, runs, elected, ready>>
          /\ \E to \in {"at fence", "join barr"} : pc' = [pc EXCEPT ![p] = to]
      BY <1>0, <2>8 DEF JoinFence, LeaveFence, Phase
    <3>2. /\ pc'[p] \in {"at fence", "join barr"}
          /\ \A q \in Processor \ {p} : pc'[q] = pc[q]
      BY <2>0, <3>1
    <3> QED BY <1>0, <3>1, <3>2 DEF SegmentsInv, Present
  <2>9. CASE JoinBarr(p)
    <3>1. /\ p \in Others /\ UNCHANGED <<partition, newPartition, enabled, runs, elected, ready>>
          /\ pc[p] = "join barr" /\ pc' = [pc EXCEPT ![p] = "at barr"]
      BY <1>0, <2>9 DEF JoinBarr, Phase
    <3>2. pc'[p] = "at barr" /\ \A q \in Processor \ {p} : pc'[q] = pc[q]
      BY <2>0, <3>1
    <3>3. pc[Boot] = "collect"
      BY <3>1 DEF Phase
    <3> QED BY <1>0, <3>1, <3>2, <3>3 DEF SegmentsInv
  <2>10. CASE LeaveBarr(p)
    <3>1. /\ p \in Others /\ UNCHANGED <<partition, newPartition, enabled, elected, ready>>
          /\ pc[p] = "at barr" /\ pc' = [pc EXCEPT ![p] = "user"]
          /\ runs' = [runs EXCEPT ![p] = elected[p]]
      BY <1>0, <2>10 DEF LeaveBarr, Phase
    <3>2. pc'[p] = "user" /\ \A q \in Processor \ {p} : pc'[q] = pc[q]
      BY <2>0, <3>1
    <3>3. runs'[p] = elected[p] /\ \A q \in Processor \ {p} : runs'[q] = runs[q]
      BY <1>0, <3>1 DEF Types
    <3>4. ASSUME pc[Boot] \in {"user", "start", "elect", "gather"}
          PROVE  /\ \A q \in Processor : pc'[q] = "user" => Present(runs[q])'
                 /\ \A q \in Others : pc'[q] = "at barr" => Present(elected[q])'
      <4>1. Present(elected[p])
        BY <3>1, <3>4 DEF SegmentsInv
      <4>0. enabled' = enabled /\ pc[p] = "at barr"
        BY <3>1
      <4>2. Present(runs[p])'
        BY <3>3, <4>0, <4>1 DEF Present
      <4>3. \A q \in Processor \ {p} : pc[q] = "user" => Present(runs[q])'
        BY <3>3, <3>4, <4>0 DEF SegmentsInv, Present
      <4>4. \A q \in Others \ {p} : pc[q] = "at barr" => Present(elected[q])'
        BY <3>1, <3>4 DEF SegmentsInv, Present
      <4> QED BY <1>0, <3>2, <4>2, <4>3, <4>4
    <3>5. pc'[Boot] = pc[Boot]
      BY <1>0, <3>1, <3>2
    <3> QED BY <3>1, <3>4, <3>5 DEF SegmentsInv
  <2>11. ~EnterService(p) /\ ~SchedThread(p)
    BY <1>1 DEF EnterService, SchedThread, Together
  <2> QED BY <1>3, <2>1, <2>2, <2>3, <2>4, <2>5, <2>6, <2>7, <2>8, <2>9, <2>10, <2>11
          DEF Continue
<1> QED BY <1>2, <1>3 DEF SwitchNext

\* What the segments and the phases say together.
LEMMA SegmentsSuffice ==
  ASSUME ~services, Types, Phase, TogetherInv, SegmentsInv
  PROVE  ScheduledIsEnabled
<1>1. PICK old \in Partition : Together(old)
  BY DEF TogetherInv
<1> SUFFICES ASSUME NEW p \in Processor, pc[p] = "user", runs[p] # IdleThread
             PROVE  runs[p] \in enabled
  BY DEF ScheduledIsEnabled
<1>2. Boot \in Processor /\ (p \in Others \/ p = Boot)
  BY CountFacts
<1>3. pc[Boot] \notin {"release", "collect", "service"}
  BY <1>1, <1>2 DEF Phase, Together
<1>4. pc[Boot] \in {"user", "start", "elect", "gather"}
  BY <1>3 DEF Phase
<1> QED BY <1>4 DEF SegmentsInv, Present

\* No thread ever runs in a partition whose segments are disabled, on any number
\* of processors and however their steps interleave, when one processor changes
\* partition, threads are scheduled by pok_global_sched only and every partition
\* has a thread there that never blocks.  Without it the space switch would
\* enable the partition of the idle thread instead (sched.c:337).
THEOREM SegmentsEnabled ==
  ASSUME OneCaller, AlwaysWork
  PROVE  SwitchSpec => []ScheduledIsEnabled
<1> DEFINE Apart == ~services => TogetherInv /\ SegmentsInv
<1>1. SwitchInit => Apart
  <2> SUFFICES ASSUME SwitchInit PROVE TogetherInv /\ SegmentsInv
    OBVIOUS
  <2>1. Together(partition)
    BY CountFacts DEF SwitchInit, Together
  <2>2. SegmentsInv
    BY CountFacts DEF SwitchInit, SegmentsInv, Present
  <2> QED BY <2>1, <2>2 DEF SwitchInit, TogetherInv
<1>2. Types /\ Phase /\ Apart /\ [SwitchNext]_switchVars => Apart'
  BY TogetherStep, SegmentsStep, ServicesStay
<1>3. Types /\ Phase /\ Apart => ScheduledIsEnabled
  <2>1. services => ScheduledIsEnabled
    BY DEF ScheduledIsEnabled
  <2> QED BY <2>1, SegmentsSuffice
<1> QED BY <1>1, <1>2, <1>3, PhaseAlways, PTL DEF SwitchSpec

-----------------------------------------------------------------------------
\* PartitionModes

ShapeInv ==
  /\ policy \in Policies /\ mode \in Modes
  /\ threadIndex \in Thread /\ errorThread \in {NoThread} \cup (2..threadIndex)
  /\ running \in Thread \cup {Idle}
  /\ state \in [Thread -> ThreadStates]
  /\ priority \in [Thread -> 0..ErrorPriority]
  /\ basePriority \in [Thread -> 0..MaxPriority]
  /\ DOMAIN period = Thread
  /\ wakeup \in [Thread -> Nat] /\ notBefore \in [Thread -> Nat]
  /\ now \in Nat /\ lives \in Nat /\ life \in [Thread -> Nat] /\ most \in 0..NThreads

\* A thread whose start is delayed waits for its time, or is stopped.
DelayInv ==
  \A t \in Thread :
    /\ mode \in InitModes => notBefore[t] = 0
    /\ mode = "NORMAL" /\ notBefore[t] > now =>
         state[t] = "STOPPED" \/ (state[t] = "WAITING" /\ wakeup[t] >= notBefore[t])

\* The threads this life created are of this life, and those no life created
\* are stopped.
LivesInv ==
  \A t \in Thread :
    /\ t <= threadIndex => life[t] = lives
    /\ t > threadIndex /\ t > most => state[t] = "STOPPED"

\* Of the threads of this life, the error thread is above all others.
ErrorInv ==
  \A t \in 1..threadIndex :
    IF t = errorThread THEN priority[t] = ErrorPriority ELSE priority[t] <= MaxPriority

ModesInv == ShapeInv /\ ModeRuns /\ ReadyRuns /\ DelayInv /\ LivesInv /\ ErrorInv

LEMMA Numbers ==
  /\ NThreads \in Nat \ {0} /\ Main \in Thread /\ Idle \notin Thread /\ NoThread \notin Thread
  /\ Thread \subseteq Nat /\ \A t \in Thread : 1..t \subseteq Thread
  /\ Delays \subseteq Nat /\ MaxPriority \in Nat /\ ErrorPriority \in Nat
  /\ \A t \in Thread : PriorityOf[t] \in 0..MaxPriority
  /\ MaxPriority < ErrorPriority
<1>1. NThreads \in Nat \ {0} /\ Delays \subseteq Nat
  BY ModesAssumption
<1>2. \A t \in Thread : PriorityOf[t] \in 0..MaxPriority
  BY ModesAssumption DEF MaxPriority
<1> QED BY <1>1, <1>2 DEF Thread, Main, Idle, NoThread, MaxPriority, ErrorPriority

\* What an election does, from the states st.
Rescheduled(st) ==
  /\ state' \in [Thread -> ThreadStates]
  /\ \A t \in Thread :
       \/ state'[t] = st[t]
       \/ /\ state'[t] = "RUNNABLE"
          /\ \/ st[t] = "WAIT_NEXT_ACTIVATION"
             \/ st[t] = "WAITING" /\ wakeup'[t] <= now'
  /\ running' \in Thread \cup {Idle}
  /\ mode' \in InitModes => running' = Main
  /\ mode' = "STOPPED" => running' = Idle
  /\ mode' = "NORMAL" =>
       \/ running' \in Thread /\ state'[running'] = "RUNNABLE"
       \/ running' = Idle /\ \A t \in Thread : state'[t] # "RUNNABLE"
  /\ mode' = "NORMAL" /\ policy = "STATIC" /\ running' \in Thread =>
       \/ running' = errorThread'
       \/ \A t \in Thread : state'[t] = "RUNNABLE" => priority'[t] <= priority'[running']

LEMMA ElectionFacts ==
  ASSUME NEW able, NEW t \in Thread \cup {Idle}, NEW cur, NEW prv, mode' = "NORMAL",
         able \subseteq Thread, Elects(t, able, cur, prv)
  PROVE  /\ t \in able \/ (t = Idle /\ able = {})
         /\ policy = "STATIC" /\ t \in Thread =>
              \/ t = errorThread'
              \/ \A u \in able : priority'[u] <= priority'[t]
<1>1. \/ cur = errorThread' /\ cur \in able /\ t = cur
      \/ policy = "RR" /\ ElectsRR(t, able, cur, prv)
      \/ policy # "RR" /\ ElectsStatic(t, able, cur, prv)
  BY DEF Elects, InitModes
<1>2. CASE policy = "RR" /\ ElectsRR(t, able, cur, prv)
  BY <1>2 DEF ElectsRR, Nearest
<1>3. CASE policy # "RR" /\ ElectsStatic(t, able, cur, prv)
  <2>1. \/ able = {} /\ t = Idle
        \/ t \in {u \in able : \A v \in able : priority'[v] <= priority'[u]}
    BY <1>3 DEF ElectsStatic, Nearest
  <2> QED BY <2>1, Numbers
<1> QED BY <1>1, <1>2, <1>3

LEMMA RescheduleFacts ==
  ASSUME NEW st \in [Thread -> ThreadStates], NEW na, NEW cur, NEW prv,
         Reschedule(st, na, cur, prv)
  PROVE  Rescheduled(st)
<1> DEFINE able == {t \in Thread : Awake(st, na)[t] = "RUNNABLE"}
<1>1. /\ state' = Awake(st, na) /\ able \subseteq Thread
      /\ \E t \in Thread \cup {Idle} : Elects(t, able, cur, prv) /\ running' = t
  BY DEF Reschedule
<1>2. \A t \in Thread :
        /\ state'[t] \in ThreadStates
        /\ \/ state'[t] = st[t]
           \/ /\ state'[t] = "RUNNABLE"
              /\ \/ st[t] = "WAIT_NEXT_ACTIVATION"
                 \/ st[t] = "WAITING" /\ wakeup'[t] <= now'
  BY <1>1 DEF Awake, Released, ThreadStates
<1>3. state' \in [Thread -> ThreadStates]
  <2>1. state' = [t \in Thread |-> state'[t]]
    BY <1>1 DEF Awake
  <2> QED BY <1>2, <2>1
<1>4. running' \in Thread \cup {Idle} /\ Elects(running', able, cur, prv)
  BY <1>1
<1>5. /\ mode' \in InitModes => running' = Main
      /\ mode' = "STOPPED" => running' = Idle
  BY <1>4 DEF Elects, InitModes
<1>6. \A t \in Thread : t \in able <=> state'[t] = "RUNNABLE"
  BY <1>1
<1> HIDE DEF able
<1>7. mode' = "NORMAL" =>
        /\ running' \in able \/ (running' = Idle /\ able = {})
        /\ policy = "STATIC" /\ running' \in Thread =>
             \/ running' = errorThread'
             \/ \A u \in able : priority'[u] <= priority'[running']
  BY <1>1, <1>4, ElectionFacts
<1> QED BY <1>1, <1>2, <1>3, <1>4, <1>5, <1>6, <1>7 DEF Rescheduled

-----------------------------------------------------------------------------
\* What the invariant asks of the states an action leaves to the election.
FieldsOK ==
  /\ policy \in Policies /\ mode \in Modes
  /\ threadIndex \in Thread /\ errorThread \in {NoThread} \cup (2..threadIndex)
  /\ priority \in [Thread -> 0..ErrorPriority]
  /\ basePriority \in [Thread -> 0..MaxPriority]
  /\ DOMAIN period = Thread
  /\ wakeup \in [Thread -> Nat] /\ notBefore \in [Thread -> Nat]
  /\ now \in Nat /\ lives \in Nat /\ life \in [Thread -> Nat] /\ most \in 0..NThreads

Leaves(st) ==
  \A t \in Thread :
    /\ mode' \in InitModes => notBefore'[t] = 0
    /\ mode' = "NORMAL" /\ notBefore'[t] > now' =>
         st[t] = "STOPPED" \/ (st[t] = "WAITING" /\ wakeup'[t] >= notBefore'[t])
    /\ t <= threadIndex' => life'[t] = lives'
    /\ t > threadIndex' /\ t > most' => st[t] = "STOPPED"

LEMMA Parts == ShapeInv <=> /\ FieldsOK /\ running \in Thread \cup {Idle}
                            /\ state \in [Thread -> ThreadStates]
BY DEF ShapeInv, FieldsOK

LEMMA ModeNames ==
  /\ \A m \in Modes : m \in InitModes \/ m = "NORMAL" \/ m = "STOPPED"
  /\ InitModes \subseteq Modes /\ "NORMAL" \in Modes /\ "STOPPED" \in Modes
  /\ "NORMAL" \notin InitModes /\ "STOPPED" \notin InitModes
BY DEF Modes, InitModes

LEMMA AfterElection ==
  ASSUME NEW st, FieldsOK', ErrorInv', Leaves(st), Rescheduled(st)
  PROVE  ModesInv'
<1>1. ShapeInv'
  BY DEF Rescheduled, ShapeInv, FieldsOK
<1>2. ModeRuns' /\ ReadyRuns'
  BY Numbers DEF Rescheduled, ModeRuns, ReadyRuns, Runs
<1>3. DelayInv'
  <2>1. ASSUME NEW t \in Thread, mode' = "NORMAL", notBefore'[t] > now'
        PROVE  state'[t] = "STOPPED" \/ (state'[t] = "WAITING" /\ wakeup'[t] >= notBefore'[t])
    <3>1. st[t] = "STOPPED" \/ (st[t] = "WAITING" /\ wakeup'[t] >= notBefore'[t])
      BY <2>1 DEF Leaves
    <3>2. wakeup'[t] \in Nat /\ notBefore'[t] \in Nat /\ now' \in Nat
      BY DEF FieldsOK
    <3>3. ~(st[t] = "WAITING" /\ wakeup'[t] <= now')
      BY <2>1, <3>1, <3>2
    <3> QED BY <3>1, <3>3 DEF Rescheduled
  <2> QED BY <2>1 DEF DelayInv, Leaves
<1>4. LivesInv'
  BY DEF Leaves, Rescheduled, LivesInv
<1> QED BY <1>1, <1>2, <1>3, <1>4 DEF ModesInv

\* An action that keeps the running thread.
LEMMA WithoutElection ==
  ASSUME ModesInv, FieldsOK', ErrorInv', Leaves(state'),
         running' \in Thread \cup {Idle}, state' \in [Thread -> ThreadStates],
         mode' = mode, ModeRuns',
         mode = "NORMAL" => running' \in Thread /\ state'[running'] = "RUNNABLE"
  PROVE  ModesInv'
<1>1. ShapeInv'
  BY DEF ShapeInv, FieldsOK
<1>2. ReadyRuns'
  BY Numbers DEF ReadyRuns, Runs
<1>3. DelayInv' /\ LivesInv'
  BY DEF Leaves, DelayInv, LivesInv
<1> QED BY <1>1, <1>2, <1>3 DEF ModesInv

\* A thread's call that leaves it, or another, in another state.
LEMMA LeavingStep ==
  ASSUME ModesInv, NEW t \in Thread, NEW to \in ThreadStates,
         Leaving([state EXCEPT ![t] = to]), FieldsOK', ErrorInv',
         UNCHANGED <<lives, life, most>>, t <= threadIndex \/ t <= most \/ to = "STOPPED",
         \A u \in Thread : u # t => wakeup'[u] = wakeup[u] /\ notBefore'[u] = notBefore[u],
         mode \in InitModes => notBefore'[t] = 0,
         mode = "NORMAL" /\ notBefore'[t] > now' =>
           to = "STOPPED" \/ (to = "WAITING" /\ wakeup'[t] >= notBefore'[t])
  PROVE  ModesInv'
<1> DEFINE st == [state EXCEPT ![t] = to]
<1>1. /\ state \in [Thread -> ThreadStates] /\ st \in [Thread -> ThreadStates]
      /\ UNCHANGED <<mode, threadIndex, now>>
  BY DEF Leaving, ModesInv, ShapeInv, configVars
<1>2. Rescheduled(st)
  <2>1. Reschedule(st, nextActivation, current, prev)
    BY DEF Leaving
  <2> QED BY <1>1, <2>1, RescheduleFacts
<1>3. st[t] = to /\ \A u \in Thread : u # t => st[u] = state[u]
  BY <1>1
<1> HIDE DEF st
<1>4. threadIndex \in Nat /\ t \in Nat /\ most \in Nat
  BY Numbers DEF ModesInv, ShapeInv
<1>5. Leaves(st)
  <2>1. ASSUME NEW u \in Thread
        PROVE  /\ mode' \in InitModes => notBefore'[u] = 0
               /\ mode' = "NORMAL" /\ notBefore'[u] > now' =>
                    st[u] = "STOPPED" \/ (st[u] = "WAITING" /\ wakeup'[u] >= notBefore'[u])
    <3>1. CASE u = t
      BY <1>1, <1>3, <3>1
    <3>2. CASE u # t
      BY <1>1, <1>3, <3>2 DEF ModesInv, DelayInv
    <3> QED BY <3>1, <3>2
  <2>2. ASSUME NEW u \in Thread
        PROVE  /\ u <= threadIndex' => life'[u] = lives'
               /\ u > threadIndex' /\ u > most' => st[u] = "STOPPED"
    <3>1. CASE u = t
      BY <1>1, <1>3, <1>4, <3>1 DEF ModesInv, LivesInv
    <3>2. CASE u # t
      BY <1>1, <1>3, <3>2 DEF ModesInv, LivesInv
    <3> QED BY <3>1, <3>2
  <2> QED BY <2>1, <2>2 DEF Leaves
<1> QED BY <1>2, <1>5, AfterElection

\* Who runs in NORMAL mode was created, or is of a former life, and its delay
\* is over.
LEMMA RunningFacts ==
  ASSUME ModesInv, Runs
  PROVE  /\ running \in Thread /\ mode # "STOPPED"
         /\ mode = "NORMAL" => state[running] = "RUNNABLE" /\ ~(notBefore[running] > now)
         /\ running <= threadIndex \/ running <= most
<1>0. /\ threadIndex \in Thread /\ errorThread \in {NoThread} \cup (2..threadIndex)
      /\ most \in Nat /\ mode \in Modes /\ running \in Thread
  BY Numbers DEF ModesInv, ShapeInv, Runs
<1>1. mode # "STOPPED"
  BY DEF ModesInv, ModeRuns, Runs
<1>2. mode = "NORMAL" => state[running] = "RUNNABLE" /\ ~(notBefore[running] > now)
  BY <1>0 DEF ModesInv, ReadyRuns, DelayInv, Runs
<1>3. CASE mode = "NORMAL"
  <2>1. running \in Nat /\ threadIndex \in Nat /\ state[running] # "STOPPED"
    BY <1>0, <1>2, <1>3, Numbers
  <2>2. ~(running > threadIndex /\ running > most)
    BY <1>0, <2>1 DEF ModesInv, LivesInv
  <2> QED BY <1>0, <1>1, <1>2, <2>1, <2>2
<1>4. CASE mode \in InitModes
  <2>1. running = Main \/ running \in 2..threadIndex
    BY <1>0, <1>4, Numbers DEF ModesInv, ModeRuns
  <2>2. threadIndex \in Nat /\ threadIndex >= 1
    BY <1>0 DEF Thread
  <2> QED BY <1>0, <1>1, <1>2, <2>1, <2>2 DEF Main
<1> QED BY <1>0, <1>1, <1>3, <1>4, ModeNames

LEMMA CreatedFacts ==
  ASSUME ModesInv, NEW t \in Created
  PROVE  t \in Thread /\ t <= threadIndex /\ t # errorThread
<1>1. threadIndex \in Thread /\ t \in 1..threadIndex /\ t # errorThread
  BY DEF ModesInv, ShapeInv, Created
<1> QED BY <1>1, Numbers

LEMMA FieldsKept ==
  ASSUME ModesInv, UNCHANGED <<policy, mode, threadIndex, errorThread, priority, basePriority,
                              period, lives, life, most>>,
         wakeup' \in [Thread -> Nat], notBefore' \in [Thread -> Nat], now' \in Nat
  PROVE  FieldsOK' /\ ErrorInv'
BY DEF ModesInv, ShapeInv, FieldsOK, ErrorInv

LEMMA CallSteps ==
  ASSUME ModesInv,
         \/ Suspend \/ EndPeriod \/ \E d \in Delays : Sleep(d)
         \/ \E t \in Created : Resume(t) \/ StopThread(t) \/ RestartThread(t)
  PROVE  ModesInv'
<1>0. /\ wakeup \in [Thread -> Nat] /\ notBefore \in [Thread -> Nat] /\ now \in Nat
      /\ state \in [Thread -> ThreadStates] /\ threadIndex \in Nat /\ most \in Nat
      /\ {"STOPPED", "RUNNABLE", "WAITING", "WAIT_NEXT_ACTIVATION"} \subseteq ThreadStates
  BY Numbers DEF ModesInv, ShapeInv, ThreadStates
<1>1. Runs
  BY DEF Suspend, EndPeriod, Sleep, Resume, StopThread, RestartThread
<1>2. running \in Thread /\ ~(mode = "NORMAL" /\ notBefore[running] > now)
      /\ \A t \in Thread : mode \in InitModes => notBefore[t] = 0
  BY <1>1, RunningFacts DEF ModesInv, DelayInv
<1>3. UNCHANGED <<mode, threadIndex, errorThread, policy, now, priority, basePriority, period,
                  lives, life, most>>
  BY DEF Suspend, EndPeriod, Sleep, Resume, StopThread, RestartThread, Leaving, configVars,
         fieldVars, historyVars
<1>4. wakeup' \in [Thread -> Nat] /\ notBefore' \in [Thread -> Nat]
  <2>1. CASE Suspend \/ EndPeriod \/ \E t \in Created : StopThread(t)
    BY <1>0, <2>1 DEF Suspend, EndPeriod, StopThread, fieldVars, historyVars
  <2>2. ASSUME NEW d \in Delays, Sleep(d)
        PROVE  wakeup' \in [Thread -> Nat] /\ notBefore' \in [Thread -> Nat]
    <3>1. now + d \in Nat
      BY <1>0, Numbers
    <3> QED BY <1>0, <2>2, <3>1 DEF Sleep, historyVars
  <2>3. ASSUME NEW t \in Created, Resume(t) \/ RestartThread(t)
        PROVE  wakeup' \in [Thread -> Nat] /\ notBefore' \in [Thread -> Nat]
    BY <1>0, <2>3 DEF Resume, RestartThread
  <2> QED BY <2>1, <2>2, <2>3
<1>5. FieldsOK' /\ ErrorInv'
  BY <1>0, <1>3, <1>4, FieldsKept
<1>6. running <= threadIndex \/ running <= most
  BY <1>1, RunningFacts
<1>7. CASE Suspend \/ EndPeriod
  <2>1. UNCHANGED <<wakeup, notBefore>>
    BY <1>7 DEF Suspend, EndPeriod, fieldVars, historyVars
  <2>2. \E to \in ThreadStates : Leaving([state EXCEPT ![running] = to])
    BY <1>0, <1>7 DEF Suspend, EndPeriod
  <2> QED BY <1>2, <1>3, <1>5, <1>6, <2>1, <2>2, LeavingStep
<1>8. ASSUME NEW d \in Delays, Sleep(d)
      PROVE  ModesInv'
  <2>1. Leaving([state EXCEPT ![running] = "WAITING"]) /\ notBefore' = notBefore
    BY <1>8 DEF Sleep, historyVars
  <2>2. \A u \in Thread : u # running => wakeup'[u] = wakeup[u]
    BY <1>0, <1>8 DEF Sleep
  <2> QED BY <1>0, <1>2, <1>3, <1>5, <1>6, <2>1, <2>2, LeavingStep
<1>9. ASSUME NEW t \in Created, Resume(t) \/ RestartThread(t)
      PROVE  ModesInv'
  <2>0. t \in Thread /\ t <= threadIndex
    BY CreatedFacts
  <2>1. \E to \in ThreadStates : Leaving([state EXCEPT ![t] = to])
    BY <1>0, <1>9 DEF Resume, RestartThread
  <2>2. /\ \A u \in Thread : u # t => wakeup'[u] = wakeup[u] /\ notBefore'[u] = notBefore[u]
        /\ notBefore'[t] = 0
    BY <1>0, <1>9, <2>0 DEF Resume, RestartThread
  <2>3. ~(notBefore'[t] > now')
    BY <1>0, <1>3, <2>2
  <2> QED BY <1>3, <1>5, <2>0, <2>1, <2>2, <2>3, LeavingStep
<1>10. ASSUME NEW t \in Created, StopThread(t)
       PROVE  ModesInv'
  <2>0. t \in Thread
    BY CreatedFacts
  <2>1. Leaving([state EXCEPT ![t] = "STOPPED"]) /\ UNCHANGED <<wakeup, notBefore>>
    BY <1>10 DEF StopThread, fieldVars, historyVars
  <2> QED BY <1>0, <1>2, <1>3, <1>5, <2>0, <2>1, LeavingStep
<1> QED BY <1>7, <1>8, <1>9, <1>10

LEMMA TickStep ==
  ASSUME ModesInv, Tick
  PROVE  ModesInv'
<1>1. /\ UNCHANGED <<policy, mode, threadIndex, errorThread, priority, basePriority, period,
                     wakeup, notBefore, lives, life, most>>
      /\ now' = now + 1 /\ Reschedule(state, nextActivation, current, prev)
  BY DEF Tick, configVars, fieldVars, historyVars
<1>2. /\ now \in Nat /\ now + 1 \in Nat /\ notBefore \in [Thread -> Nat]
      /\ wakeup \in [Thread -> Nat] /\ state \in [Thread -> ThreadStates]
  BY DEF ModesInv, ShapeInv
<1>3. FieldsOK' /\ ErrorInv'
  BY <1>1, <1>2, FieldsKept
<1>4. \A t \in Thread : notBefore[t] > now' => notBefore[t] > now
  BY <1>1, <1>2
<1>5. Leaves(state)
  BY <1>1, <1>4 DEF Leaves, ModesInv, DelayInv, LivesInv
<1> QED BY <1>1, <1>2, <1>3, <1>5, RescheduleFacts, AfterElection

LEMMA CreateSteps ==
  ASSUME ModesInv, CreateThread \/ CreateErrorThread
  PROVE  ModesInv'
<1> DEFINE t == threadIndex + 1
<1>0. /\ ShapeInv /\ ModeRuns /\ DelayInv /\ LivesInv /\ ErrorInv
      /\ threadIndex \in Nat /\ threadIndex >= 1 /\ t \in Nat /\ errorThread \in Nat
      /\ errorThread <= threadIndex /\ running \in Thread \cup {Idle}
      /\ state \in [Thread -> ThreadStates] /\ most \in 0..NThreads
  <2>1. /\ ShapeInv /\ ModeRuns /\ DelayInv /\ LivesInv /\ ErrorInv
        /\ running \in Thread \cup {Idle} /\ state \in [Thread -> ThreadStates]
        /\ most \in 0..NThreads
    BY DEF ModesInv, ShapeInv
  <2>2. threadIndex \in 1..NThreads /\ errorThread \in {0} \cup (2..threadIndex)
    BY <2>1 DEF ShapeInv, Thread, NoThread
  <2> QED BY <2>1, <2>2, Numbers
<1>1. \E per : Create(t, per)
  BY DEF CreateThread, CreateErrorThread
<1>2. /\ Runs /\ mode \in InitModes /\ t \in Thread /\ threadIndex' = t
      /\ state' = [state EXCEPT ![t] = "RUNNABLE"]
      /\ wakeup' = [wakeup EXCEPT ![t] = 0]
      /\ life' = [life EXCEPT ![t] = lives]
      /\ notBefore' = [notBefore EXCEPT ![t] = 0]
      /\ UNCHANGED <<policy, mode, now, lives, most>> /\ DOMAIN period' = Thread
  BY <1>0, <1>1 DEF Create, Thread, ShapeInv
<1>3. /\ errorThread' \in {NoThread} \cup (2..t)
      /\ errorThread' = t \/ (errorThread' = errorThread /\ errorThread' # t)
      /\ running' \in Thread /\ running' \in {Main, errorThread'}
  <2>1. CASE CreateThread
    <3>1. errorThread' = errorThread /\ running' = running
      BY <2>1 DEF CreateThread
    <3>2. errorThread \in {NoThread} \cup (2..threadIndex)
      BY <1>0 DEF ShapeInv
    <3>3. running \in Thread /\ running \in {Main, errorThread}
      BY <1>0, <1>2 DEF ModeRuns, Runs
    <3> QED BY <1>0, <3>1, <3>2, <3>3
  <2>2. CASE CreateErrorThread
    BY <1>0, <1>2, <2>2 DEF CreateErrorThread
  <2> QED BY <2>1, <2>2
<1>4. \E p \in 0..ErrorPriority, b \in 0..MaxPriority :
        /\ priority' = [priority EXCEPT ![t] = p]
        /\ basePriority' = [basePriority EXCEPT ![t] = b]
        /\ IF errorThread' = t THEN p = ErrorPriority ELSE p <= MaxPriority
  <2>1. CASE CreateThread
    <3>1. PriorityOf[t] \in 0..MaxPriority /\ PriorityOf[t] \in 0..ErrorPriority
      BY <1>2, Numbers
    <3>2. errorThread' # t
      BY <1>0, <2>1 DEF CreateThread
    <3>3. /\ priority' = [priority EXCEPT ![t] = PriorityOf[t]]
          /\ basePriority' = [basePriority EXCEPT ![t] = PriorityOf[t]]
      BY <2>1 DEF CreateThread
    <3>4. PriorityOf[t] <= MaxPriority
      BY <3>1, Numbers
    <3> QED BY <3>1, <3>2, <3>3, <3>4
  <2>2. CASE CreateErrorThread
    <3>1. ErrorPriority \in 0..ErrorPriority /\ MaxPriority \in 0..MaxPriority
      BY DEF ErrorPriority, MaxPriority
    <3> QED BY <2>2, <3>1 DEF CreateErrorThread
  <2> QED BY <2>1, <2>2
<1> HIDE DEF t
<1>5. t = threadIndex + 1
  BY DEF t
<1>6. FieldsOK'
  BY <1>0, <1>2, <1>3, <1>4 DEF ShapeInv, FieldsOK
<1>7. ErrorInv'
  <2> SUFFICES ASSUME NEW u \in 1..threadIndex'
               PROVE  IF u = errorThread' THEN priority'[u] = ErrorPriority
                      ELSE priority'[u] <= MaxPriority
    BY DEF ErrorInv
  <2>1. u \in Thread /\ priority \in [Thread -> 0..ErrorPriority]
    BY <1>0, <1>2, Numbers DEF ShapeInv
  <2>2. CASE u = t
    BY <1>4, <2>1, <2>2
  <2>3. CASE u # t
    <3>1. u \in 1..threadIndex
      BY <1>0, <1>2, <1>5, <2>3
    <3>2. priority'[u] = priority[u]
      BY <1>4, <2>1, <2>3
    <3>3. u = errorThread' <=> u = errorThread
      BY <1>0, <1>3, <1>5, <2>3, <3>1 DEF CreateThread, CreateErrorThread, NoThread
    <3> QED BY <1>0, <3>1, <3>2, <3>3 DEF ErrorInv
  <2> QED BY <2>2, <2>3
<1>8. Leaves(state')
  <2>1. ASSUME NEW u \in Thread
        PROVE  /\ mode' \in InitModes => notBefore'[u] = 0
               /\ mode' = "NORMAL" /\ notBefore'[u] > now' =>
                    state'[u] = "STOPPED"
                      \/ (state'[u] = "WAITING" /\ wakeup'[u] >= notBefore'[u])
    BY <1>0, <1>2, ModeNames DEF ShapeInv, DelayInv
  <2>2. ASSUME NEW u \in Thread
        PROVE  /\ u <= threadIndex' => life'[u] = lives'
               /\ u > threadIndex' /\ u > most' => state'[u] = "STOPPED"
    <3>1. CASE u = t
      BY <1>0, <1>2, <3>1 DEF ShapeInv
    <3>2. CASE u # t
      <4>1. /\ u \in Nat /\ u <= threadIndex' => u <= threadIndex
            /\ u > threadIndex' => u > threadIndex
        BY <1>0, <1>2, <1>5, <3>2, Numbers
      <4>2. life'[u] = life[u] /\ state'[u] = state[u]
        BY <1>0, <1>2, <3>2 DEF ShapeInv
      <4> QED BY <1>0, <1>2, <4>1, <4>2 DEF LivesInv
    <3> QED BY <3>1, <3>2
  <2> QED BY <2>1, <2>2 DEF Leaves
<1>9. state' \in [Thread -> ThreadStates]
  BY <1>0, <1>2 DEF ThreadStates
<1>10. ModeRuns'
  BY <1>2, <1>3, ModeNames DEF ModeRuns
<1> QED BY <1>2, <1>3, <1>6, <1>7, <1>8, <1>9, <1>10, ModeNames, WithoutElection

LEMMA RaiseStep ==
  ASSUME ModesInv, Raise
  PROVE  ModesInv'
<1>0. /\ ShapeInv /\ DelayInv /\ LivesInv /\ ErrorInv
      /\ state \in [Thread -> ThreadStates] /\ errorThread \in Thread
      /\ errorThread <= threadIndex /\ threadIndex \in Nat
      /\ notBefore \in [Thread -> Nat] /\ now \in Nat /\ ErrorPriority \in 0..ErrorPriority
  BY Numbers DEF ModesInv, ShapeInv, Raise, ErrorPriority
<1>1. /\ priority' = [priority EXCEPT ![errorThread] = ErrorPriority]
      /\ state' = [state EXCEPT ![errorThread] = "RUNNABLE"]
      /\ running' = errorThread /\ notBefore' = [notBefore EXCEPT ![errorThread] = 0]
      /\ DOMAIN period' = Thread
      /\ UNCHANGED <<policy, mode, threadIndex, errorThread, basePriority, wakeup, now,
                     lives, life, most>>
  BY <1>0 DEF Raise, TopPriority, configVars, ShapeInv
<1>2. mode # "STOPPED"
  BY RunningFacts DEF Raise
<1>3. FieldsOK'
  BY <1>0, <1>1 DEF ShapeInv, FieldsOK
<1>4. ErrorInv'
  <2> SUFFICES ASSUME NEW u \in 1..threadIndex
               PROVE  IF u = errorThread THEN priority'[u] = ErrorPriority
                      ELSE priority'[u] <= MaxPriority
    BY <1>1 DEF ErrorInv
  <2>1. u \in Thread /\ priority \in [Thread -> 0..ErrorPriority]
    BY <1>0, Numbers DEF ShapeInv
  <2> QED BY <1>0, <1>1, <2>1 DEF ErrorInv
<1>5. Leaves(state')
  <2>1. ASSUME NEW u \in Thread
        PROVE  /\ mode' \in InitModes => notBefore'[u] = 0
               /\ mode' = "NORMAL" /\ notBefore'[u] > now' =>
                    state'[u] = "STOPPED"
                      \/ (state'[u] = "WAITING" /\ wakeup'[u] >= notBefore'[u])
               /\ u <= threadIndex' => life'[u] = lives'
               /\ u > threadIndex' /\ u > most' => state'[u] = "STOPPED"
    <3>1. CASE u = errorThread
      <4>1. notBefore'[u] = 0 /\ ~(0 > now) /\ u <= threadIndex /\ ~(u > threadIndex)
        BY <1>0, <1>1, <3>1, Numbers
      <4> QED BY <1>0, <1>1, <4>1 DEF LivesInv
    <3>2. CASE u # errorThread
      BY <1>0, <1>1, <3>2 DEF DelayInv, LivesInv
    <3> QED BY <3>1, <3>2
  <2> QED BY <2>1 DEF Leaves
<1>6. state' \in [Thread -> ThreadStates] /\ state'[errorThread] = "RUNNABLE"
  BY <1>0, <1>1 DEF ThreadStates
<1>7. ModeRuns'
  BY <1>1, <1>2 DEF ModeRuns
<1> QED BY <1>0, <1>1, <1>3, <1>4, <1>5, <1>6, <1>7, WithoutElection

LEMMA SuspendTargetStep ==
  ASSUME ModesInv, NEW t \in Created, SuspendTarget(t)
  PROVE  ModesInv'
<1>0. /\ t \in Thread /\ state \in [Thread -> ThreadStates] /\ "STOPPED" \in ThreadStates
      /\ wakeup \in [Thread -> Nat] /\ notBefore \in [Thread -> Nat] /\ now \in Nat
  BY CreatedFacts DEF ModesInv, ShapeInv, ThreadStates
<1>1. /\ Runs /\ t # running /\ state' = [state EXCEPT ![t] = "STOPPED"]
      /\ UNCHANGED <<policy, mode, threadIndex, errorThread, running, priority, basePriority,
                     period, wakeup, now, lives, life, most, notBefore>>
  BY DEF SuspendTarget, configVars, fieldVars, historyVars
<1>2. FieldsOK' /\ ErrorInv'
  BY <1>0, <1>1, FieldsKept
<1>3. running \in Thread /\ (mode = "NORMAL" => state'[running] = "RUNNABLE")
  BY <1>0, <1>1, RunningFacts
<1>4. Leaves(state') /\ state' \in [Thread -> ThreadStates]
  BY <1>0, <1>1 DEF Leaves, ModesInv, DelayInv, LivesInv
<1>5. ModeRuns'
  BY <1>1 DEF ModesInv, ModeRuns
<1> QED BY <1>1, <1>2, <1>3, <1>4, <1>5, WithoutElection

LEMMA DelayedStartStep ==
  ASSUME ModesInv, NEW t \in Created, NEW d \in Delays, DelayedStart(t, d)
  PROVE  ModesInv'
<1>0. /\ t \in Thread /\ t <= threadIndex /\ t # errorThread /\ d \in Nat /\ now + d \in Nat
      /\ state \in [Thread -> ThreadStates] /\ now \in Nat
      /\ wakeup \in [Thread -> Nat] /\ notBefore \in [Thread -> Nat]
      /\ {"DELAYED_START", "WAITING", "RUNNABLE"} \subseteq ThreadStates
  BY CreatedFacts, Numbers DEF ModesInv, ShapeInv, ThreadStates
<1> DEFINE delayed == mode = "NORMAL" /\ period[t] = Infinite /\ d > 0
<1>1. /\ Runs
      /\ priority' = [priority EXCEPT ![t] = basePriority[t]]
      /\ wakeup' = [wakeup EXCEPT ![t] = IF delayed THEN now + d
                                         ELSE IF mode = "NORMAL" THEN @ ELSE d]
      /\ notBefore' = [notBefore EXCEPT ![t] = IF delayed THEN now + d ELSE 0]
      /\ UNCHANGED <<policy, mode, threadIndex, errorThread, now, basePriority, period,
                     lives, life, most>>
  BY <1>0 DEF DelayedStart, StartTime, Leaving, configVars
<1>2. FieldsOK'
  <2>1. basePriority[t] \in 0..ErrorPriority
    BY <1>0, Numbers DEF ModesInv, ShapeInv
  <2>2. priority' \in [Thread -> 0..ErrorPriority]
    BY <1>1, <2>1 DEF ModesInv, ShapeInv
  <2>3. wakeup' \in [Thread -> Nat] /\ notBefore' \in [Thread -> Nat]
    BY <1>0, <1>1
  <2> QED BY <1>0, <1>1, <2>2, <2>3 DEF ModesInv, ShapeInv, FieldsOK
<1>3. ErrorInv'
  <2>1. basePriority[t] <= MaxPriority
    BY <1>0, Numbers DEF ModesInv, ShapeInv
  <2>2. \A u \in 1..threadIndex : u \in Thread
    BY Numbers DEF ModesInv, ShapeInv
  <2>3. \A u \in Thread : priority'[u] = IF u = t THEN basePriority[t] ELSE priority[u]
    BY <1>0, <1>1 DEF ModesInv, ShapeInv
  <2>4. \A u \in 1..threadIndex :
          IF u = errorThread THEN priority[u] = ErrorPriority ELSE priority[u] <= MaxPriority
    BY DEF ModesInv, ErrorInv
  <2> QED BY <1>0, <1>1, <2>1, <2>2, <2>3, <2>4 DEF ErrorInv
<1>4. /\ \A u \in Thread : u # t => wakeup'[u] = wakeup[u] /\ notBefore'[u] = notBefore[u]
      /\ notBefore'[t] = IF delayed THEN now + d ELSE 0
      /\ delayed => wakeup'[t] = now + d
  BY <1>0, <1>1
<1>5. CASE mode = "NORMAL" /\ period[t] = Infinite
  <2>1. Leaving([state EXCEPT ![t] = IF delayed THEN "WAITING" ELSE "RUNNABLE"])
    BY <1>5 DEF DelayedStart
  <2> DEFINE to == IF delayed THEN "WAITING" ELSE "RUNNABLE"
  <2>2. to \in ThreadStates
    BY <1>0
  <2>3. notBefore'[t] > now' => to = "WAITING" /\ wakeup'[t] >= notBefore'[t]
    BY <1>0, <1>1, <1>4
  <2>4. Leaving([state EXCEPT ![t] = to])
    BY <2>1
  <2> HIDE DEF to
  <2> QED BY <1>0, <1>1, <1>2, <1>3, <1>4, <1>5, <2>2, <2>3, <2>4, ModeNames, LeavingStep
<1>6. CASE ~(mode = "NORMAL" /\ period[t] = Infinite)
  <2>0. notBefore'[t] = 0
    BY <1>4, <1>6
  <2>1. /\ running' = running /\ notBefore'[t] = 0
        /\ \/ state' = state
           \/ mode # "NORMAL" /\ state' = [state EXCEPT ![t] = "DELAYED_START"]
    <3>1. \/ UNCHANGED <<running, state>>
          \/ mode # "NORMAL" /\ running' = running
                /\ state' = [state EXCEPT ![t] = "DELAYED_START"]
      BY <1>6 DEF DelayedStart
    <3> QED BY <2>0, <3>1
  <2>2. state' \in [Thread -> ThreadStates]
        /\ \A u \in Thread : u # t => state'[u] = state[u]
    BY <1>0, <2>1
  <2>3. running \in Thread /\ (mode = "NORMAL" => state'[running] = "RUNNABLE")
    BY <1>1, <2>1, RunningFacts
  <2>4. Leaves(state')
    <3>1. ASSUME NEW u \in Thread
          PROVE  /\ mode' \in InitModes => notBefore'[u] = 0
                 /\ mode' = "NORMAL" /\ notBefore'[u] > now' =>
                      state'[u] = "STOPPED"
                        \/ (state'[u] = "WAITING" /\ wakeup'[u] >= notBefore'[u])
                 /\ u <= threadIndex' => life'[u] = lives'
                 /\ u > threadIndex' /\ u > most' => state'[u] = "STOPPED"
      <4>1. CASE u = t
        <5>1. t \in Nat /\ threadIndex \in Nat /\ ~(t > threadIndex) /\ ~(0 > now)
          BY <1>0, Numbers DEF ModesInv, ShapeInv
        <5> QED BY <1>0, <1>1, <2>1, <4>1, <5>1 DEF ModesInv, LivesInv
      <4>2. CASE u # t
        BY <1>1, <1>4, <2>2, <4>2 DEF ModesInv, DelayInv, LivesInv
      <4> QED BY <4>1, <4>2
    <3> QED BY <3>1 DEF Leaves
  <2>5. ModeRuns'
    BY <1>1, <2>1 DEF ModesInv, ModeRuns
  <2> QED BY <1>1, <1>2, <1>3, <2>1, <2>2, <2>3, <2>4, <2>5, WithoutElection
<1> QED BY <1>5, <1>6

LEMMA SetNormalStep ==
  ASSUME ModesInv, SetNormal
  PROVE  ModesInv'
<1> DEFINE starting == {t \in Thread : state[t] = "DELAYED_START"}
           released == {t \in starting : period[t] # Infinite /\ wakeup[t] > 0}
           waiting == {t \in starting \ released : wakeup[t] > 0}
           st == [t \in Thread |-> IF t = Main THEN "STOPPED"
                                   ELSE IF t \in released THEN "WAIT_NEXT_ACTIVATION"
                                   ELSE IF t \in waiting THEN "WAITING"
                                   ELSE IF t \in starting THEN "RUNNABLE" ELSE state[t]]
<1>1. /\ wakeup' = [t \in Thread |-> IF t \in starting \ released
                                     THEN now + wakeup[t] ELSE wakeup[t]]
      /\ notBefore' = [t \in Thread |-> IF t \in waiting
                                        THEN now + wakeup[t] ELSE notBefore[t]]
      /\ \E na : Reschedule(st, na, current, prev)
  BY DEF SetNormal, StartTime
<1>2. /\ mode' = "NORMAL"
      /\ UNCHANGED <<policy, threadIndex, errorThread, priority, basePriority, period, now,
                     lives, life, most>>
  BY DEF SetNormal
<1>3. /\ state \in [Thread -> ThreadStates] /\ now \in Nat /\ wakeup \in [Thread -> Nat]
      /\ notBefore \in [Thread -> Nat] /\ waiting \subseteq starting \ released
      /\ {"STOPPED", "RUNNABLE", "WAITING", "WAIT_NEXT_ACTIVATION"} \subseteq ThreadStates
  BY DEF ModesInv, ShapeInv, ThreadStates
<1>4. st \in [Thread -> ThreadStates]
  BY <1>3
<1>5. /\ \A t \in starting : state[t] = "DELAYED_START"
      /\ \A t \in Thread \ starting : st[t] \in {"STOPPED", state[t]}
      /\ \A t \in waiting : st[t] \in {"STOPPED", "WAITING"}
  OBVIOUS
<1> HIDE DEF starting, released, waiting, st
<1>6. Rescheduled(st)
  BY <1>1, <1>4, RescheduleFacts
<1>7. \A t \in Thread : now + wakeup[t] \in Nat
  BY <1>3
<1>8. wakeup' \in [Thread -> Nat] /\ notBefore' \in [Thread -> Nat]
  BY <1>1, <1>3, <1>7
<1>9. FieldsOK' /\ ErrorInv'
  BY <1>2, <1>3, <1>8, ModeNames DEF ModesInv, ShapeInv, FieldsOK, ErrorInv
<1>10. mode \in InitModes \/ mode = "NORMAL"
  <2>1. Runs
    BY Numbers DEF SetNormal, Runs
  <2> QED BY <2>1, RunningFacts, ModeNames DEF ModesInv, ShapeInv
<1>11. Leaves(st)
  <2>1. ASSUME NEW t \in Thread, notBefore'[t] > now'
        PROVE  st[t] = "STOPPED" \/ (st[t] = "WAITING" /\ wakeup'[t] >= notBefore'[t])
    <3>1. CASE t \in waiting
      <4>1. wakeup'[t] = now + wakeup[t] /\ notBefore'[t] = now + wakeup[t]
        BY <1>1, <1>3, <3>1
      <4> QED BY <1>3, <1>5, <3>1, <4>1
    <3>2. CASE t \notin waiting
      <4>1. notBefore'[t] = notBefore[t] /\ notBefore[t] > now
        BY <1>1, <1>2, <2>1, <3>2
      <4>2. ~(0 > now)
        BY <1>3
      <4>3. mode = "NORMAL"
        BY <1>10, <4>1, <4>2 DEF ModesInv, DelayInv
      <4>4. state[t] = "STOPPED" \/ (state[t] = "WAITING" /\ wakeup[t] >= notBefore[t])
        BY <4>1, <4>3 DEF ModesInv, DelayInv
      <4>5. t \notin starting
        BY <1>5, <4>4
      <4>6. wakeup'[t] = wakeup[t]
        BY <1>1, <4>5
      <4> QED BY <1>5, <4>1, <4>4, <4>5, <4>6
    <3> QED BY <3>1, <3>2
  <2>2. ASSUME NEW t \in Thread, t > threadIndex, t > most
        PROVE  st[t] = "STOPPED"
    <3>1. state[t] = "STOPPED"
      BY <2>2 DEF ModesInv, LivesInv
    <3> QED BY <1>5, <3>1
  <2>3. \A t \in Thread : t <= threadIndex' => life'[t] = lives'
    BY <1>2 DEF ModesInv, LivesInv
  <2> QED BY <1>2, <2>1, <2>2, <2>3, ModeNames DEF Leaves
<1> QED BY <1>6, <1>9, <1>11, AfterElection

LEMMA SetStoppedStep ==
  ASSUME ModesInv, SetStopped
  PROVE  ModesInv'
<1>1. /\ UNCHANGED <<policy, threadIndex, errorThread, priority, basePriority, period,
                     wakeup, notBefore, now, lives, life, most>>
      /\ mode' = "STOPPED" /\ Reschedule(state, nextActivation, current, prev)
  BY DEF SetStopped, fieldVars, historyVars
<1>2. FieldsOK' /\ ErrorInv' /\ state \in [Thread -> ThreadStates]
  BY <1>1, ModeNames DEF ModesInv, ShapeInv, FieldsOK, ErrorInv
<1>3. Leaves(state)
  BY <1>1, ModeNames DEF Leaves, ModesInv, LivesInv
<1> QED BY <1>1, <1>2, <1>3, RescheduleFacts, AfterElection

LEMMA RestartStep ==
  ASSUME ModesInv, NEW m \in InitModes, Restart(m)
  PROVE  ModesInv'
<1> DEFINE st == [state EXCEPT ![Main] = "RUNNABLE"]
<1>0. /\ state \in [Thread -> ThreadStates] /\ "RUNNABLE" \in ThreadStates
      /\ threadIndex \in 1..NThreads /\ most \in 0..NThreads /\ lives \in Nat
      /\ priority \in [Thread -> 0..ErrorPriority] /\ wakeup \in [Thread -> Nat]
      /\ basePriority \in [Thread -> 0..MaxPriority] /\ life \in [Thread -> Nat]
      /\ now \in Nat /\ policy \in Policies /\ DOMAIN period = Thread
  BY DEF ModesInv, ShapeInv, ThreadStates, Thread
<1>1. /\ mode' = m /\ threadIndex' = 1 /\ errorThread' = NoThread
      /\ priority' = [priority EXCEPT ![Main] = 1]
      /\ basePriority' = [basePriority EXCEPT ![Main] = 1]
      /\ DOMAIN period' = Thread
      /\ wakeup' = [wakeup EXCEPT ![Main] = 0]
      /\ lives' = lives + 1
      /\ life' = [life EXCEPT ![Main] = lives + 1]
      /\ most' = IF threadIndex > most THEN threadIndex ELSE most
      /\ notBefore' = [t \in Thread |-> 0]
      /\ UNCHANGED <<policy, now>>
      /\ \E na : Reschedule(st, na, Main, Idle)
  BY <1>0 DEF Restart, FirstIndex
<1>2. st \in [Thread -> ThreadStates]
      /\ \A t \in Thread : t # Main => st[t] = state[t]
  BY <1>0
<1> HIDE DEF st
<1>3. Rescheduled(st)
  BY <1>1, <1>2, RescheduleFacts
<1>4. /\ most' \in 0..NThreads /\ lives + 1 \in Nat
      /\ \A t \in Nat : t > most' => t > threadIndex /\ t > most
  BY <1>0, <1>1
<1>5. Main = 1 /\ 1 \in Thread /\ 1 \in 0..ErrorPriority /\ 1 \in 0..MaxPriority
  BY Numbers DEF Main, ErrorPriority, MaxPriority
<1>6. FieldsOK'
  BY <1>0, <1>1, <1>4, <1>5 DEF FieldsOK, InitModes, Modes
<1>7. ErrorInv'
  <2> SUFFICES ASSUME NEW t \in 1..1
               PROVE  t # NoThread /\ priority'[t] <= MaxPriority
    BY <1>1 DEF ErrorInv
  <2>1. t = Main
    BY <1>5
  <2> QED BY <1>0, <1>1, <1>5, <2>1 DEF NoThread, MaxPriority
<1>8. Leaves(st)
  <2> SUFFICES ASSUME NEW t \in Thread
               PROVE  /\ t <= 1 => life'[t] = lives'
                      /\ t > 1 /\ t > most' => st[t] = "STOPPED"
    BY <1>1, ModeNames DEF Leaves
  <2>1. CASE t = Main
    BY <1>0, <1>1, <1>5, <2>1
  <2>2. CASE t # Main
    <3>1. t \in Nat /\ ~(t <= 1) /\ t # Main
      BY <1>5, <2>2 DEF Thread
    <3>2. t > most' => state[t] = "STOPPED"
      BY <1>4, <3>1 DEF ModesInv, LivesInv
    <3> QED BY <1>2, <3>1, <3>2
  <2> QED BY <2>1, <2>2
<1> QED BY <1>3, <1>6, <1>7, <1>8, AfterElection

-----------------------------------------------------------------------------
LEMMA ModesStart == Init => ModesInv
<1> SUFFICES ASSUME Init
             PROVE  ModesInv
  OBVIOUS
<1>1. /\ mode \in InitModes /\ threadIndex = 1 /\ errorThread = NoThread /\ running = Main
      /\ now = 0 /\ lives = 0 /\ most = 0 /\ policy \in Policies
      /\ \A t \in Thread : state[t] = IF t = Main THEN "RUNNABLE" ELSE "STOPPED"
      /\ priority = [t \in Thread |-> IF t = Main THEN 1 ELSE 0]
      /\ basePriority = priority
      /\ state \in [Thread -> ThreadStates] /\ DOMAIN period = Thread
      /\ wakeup = [t \in Thread |-> 0] /\ notBefore = [t \in Thread |-> 0]
      /\ life = [t \in Thread |-> 0]
  BY DEF Init, InitModes, ThreadStates
<1>2. Main = 1 /\ Main \in Thread /\ NThreads \in Nat \ {0}
  BY Numbers DEF Main
<1>3. {0, 1} \subseteq 0..ErrorPriority /\ {0, 1} \subseteq 0..MaxPriority
      /\ 0 \in Nat /\ 0 \in 0..NThreads
  BY <1>2 DEF ErrorPriority, MaxPriority
<1>4. ShapeInv
  BY <1>1, <1>2, <1>3, ModeNames DEF ShapeInv
<1>5. ModeRuns /\ ReadyRuns /\ DelayInv
  BY <1>1, ModeNames DEF ModeRuns, ReadyRuns, DelayInv
<1>6. LivesInv
  <2> SUFFICES ASSUME NEW t \in Thread, t > 1
               PROVE  state[t] = "STOPPED"
    BY <1>1 DEF LivesInv
  <2> QED BY <1>1, <1>2
<1>7. ErrorInv
  <2> SUFFICES ASSUME NEW t \in 1..1
               PROVE  t # NoThread /\ priority[t] <= MaxPriority
    BY <1>1 DEF ErrorInv
  <2>1. t = Main /\ t # 0
    BY <1>2
  <2>2. priority[t] = 1
    BY <1>1, <1>2, <2>1
  <2> QED BY <2>1, <2>2 DEF NoThread, MaxPriority
<1> QED BY <1>4, <1>5, <1>6, <1>7 DEF ModesInv

LEMMA ModesStep == ModesInv /\ [Next]_vars => ModesInv'
<1> SUFFICES ASSUME ModesInv, [Next]_vars
             PROVE  ModesInv'
  OBVIOUS
<1>1. CASE UNCHANGED vars
  BY <1>1 DEF ModesInv, vars, configVars, electVars, fieldVars, historyVars, ShapeInv, ModeRuns,
              ReadyRuns, Runs, DelayInv, LivesInv, ErrorInv
<1>2. CASE CreateThread \/ CreateErrorThread
  BY <1>2, CreateSteps
<1>3. CASE \/ Suspend \/ EndPeriod \/ \E d \in Delays : Sleep(d)
           \/ \E t \in Created : Resume(t) \/ StopThread(t) \/ RestartThread(t)
  BY <1>3, CallSteps
<1>4. CASE \E t \in Created : SuspendTarget(t) \/ \E d \in Delays : DelayedStart(t, d)
  BY <1>4, SuspendTargetStep, DelayedStartStep
<1>5. CASE SetNormal \/ SetStopped \/ \E m \in InitModes : Restart(m)
  BY <1>5, SetNormalStep, SetStoppedStep, RestartStep
<1>6. CASE Raise \/ Tick
  BY <1>6, RaiseStep, TickStep
<1> QED BY <1>1, <1>2, <1>3, <1>4, <1>5, <1>6 DEF Next

\* The variables keep their types, the error thread is one that this life
\* created, above all its other threads, and a thread whose start is delayed
\* waits for its time or is stopped, whatever is called in which mode
\* (partition.c, error.c, thread.c).
THEOREM ModesInvariant == Spec => []ModesInv
BY ModesStart, ModesStep, PTL DEF Spec

\* While the partition is initialised, after a restart too, only the main
\* thread runs, or the error thread, and nothing of it runs once it is stopped
\* (pok_elect_thread, pok_partition_set_mode).
THEOREM InitRunsMain == Spec => []ModeRuns
<1>1. ModesInv => ModeRuns
  BY DEF ModesInv
<1> QED BY <1>1, ModesInvariant, PTL

\* In NORMAL mode the running thread is runnable, and the processor idles only
\* when no thread is: under both policies, for any number of threads, through
\* faults and restarts (pok_elect_thread, pok_sched_part_rr,
\* pok_sched_part_static, pok_sched_activate_error_thread).
THEOREM ReadyAlwaysRuns == Spec => []ReadyRuns
<1>1. ModesInv => ReadyRuns
  BY DEF ModesInv
<1> QED BY <1>1, ModesInvariant, PTL

\* A thread whose start is delayed does not run before the delay is over
\* (pok_thread_delayed_start, pok_partition_set_mode).
THEOREM DelaysHonoured == Spec => []DelayHonoured
<1>1. ModesInv => DelayHonoured
  <2> SUFFICES ASSUME ModesInv, mode = "NORMAL", Runs
               PROVE  now >= notBefore[running]
    BY DEF DelayHonoured
  <2>1. running \in Thread /\ ~(notBefore[running] > now)
    BY RunningFacts
  <2>2. now \in Nat /\ notBefore[running] \in Nat
    BY <2>1 DEF ModesInv, ShapeInv
  <2> QED BY <2>1, <2>2
<1> QED BY <1>1, ModesInvariant, PTL

\* After a restart whose life created as many threads as any before, no thread
\* of a former life runs in NORMAL mode (pok_partition_reinit).
THEOREM LivesFromScratch == Spec => []FromScratch
<1>1. ModesInv => FromScratch
  <2> SUFFICES ASSUME ModesInv, mode = "NORMAL", Runs, AllReplaced
               PROVE  life[running] = lives
    BY DEF FromScratch
  <2>1. running \in Thread /\ (running <= threadIndex \/ running <= most)
    BY RunningFacts
  <2>2. running \in Nat /\ threadIndex \in Nat /\ most \in Nat
    BY <2>1, Numbers DEF ModesInv, ShapeInv
  <2>3. running <= threadIndex
    BY <2>1, <2>2 DEF AllReplaced
  <2> QED BY <2>1, <2>3 DEF ModesInv, LivesInv
<1> QED BY <1>1, ModesInvariant, PTL

\* Under the static policy the error thread keeps the processor until it gives
\* it up itself, once all threads of former lives were replaced
\* (pok_sched_activate_error_thread, pok_sched_part_static).
THEOREM ErrorThreadKeeps == Spec => ErrorKeepsProcessor
<1> DEFINE Kept == policy = "STATIC" /\ mode = "NORMAL" /\ AllReplaced
                   /\ running = errorThread /\ now' # now => running' = errorThread
<1>1. ModesInv /\ [Next]_vars => [Kept]_vars
  <2> SUFFICES ASSUME ModesInv, Next, policy = "STATIC", mode = "NORMAL", AllReplaced,
                      running = errorThread, now' # now
               PROVE  running' = errorThread
    OBVIOUS
  <2>1. Tick
    BY DEF Next, CreateThread, CreateErrorThread, Create, Raise, SuspendTarget, Resume,
           StopThread, RestartThread, DelayedStart, Suspend, EndPeriod, Sleep, SetNormal,
           SetStopped, Restart, Leaving, fieldVars, historyVars
  <2>2. /\ state \in [Thread -> ThreadStates] /\ errorThread \in 2..threadIndex
        /\ errorThread \in Thread /\ threadIndex \in Nat /\ most \in Nat /\ Runs
        /\ priority \in [Thread -> 0..ErrorPriority]
    <3>1. /\ threadIndex \in 1..NThreads /\ errorThread \in {0} \cup (2..threadIndex)
          /\ running \in (1..NThreads) \cup {NThreads + 1}
          /\ state \in [Thread -> ThreadStates] /\ most \in Nat
          /\ priority \in [Thread -> 0..ErrorPriority]
      BY DEF ModesInv, ShapeInv, Thread, NoThread, Idle
    <3>2. errorThread \in 2..threadIndex /\ running \in 1..NThreads
      BY <3>1, Numbers
    <3> QED BY <3>1, <3>2, Numbers DEF Thread, Runs, Idle
  <2>3. /\ Rescheduled(state)
        /\ UNCHANGED <<policy, mode, threadIndex, errorThread, priority>>
    BY <2>1, <2>2, RescheduleFacts DEF Tick, configVars, fieldVars
  <2>4. state'[errorThread] = "RUNNABLE"
    <3>1. state[errorThread] = "RUNNABLE"
      BY <2>2, RunningFacts
    <3> QED BY <2>2, <2>3, <3>1 DEF Rescheduled
  <2>5. running' \in Thread /\ state'[running'] = "RUNNABLE"
        /\ (running' = errorThread \/ priority[errorThread] <= priority[running'])
    BY <2>2, <2>3, <2>4 DEF Rescheduled
  <2>6. running' <= threadIndex
    <3>1. running' \in Nat
      BY <2>5, Numbers
    <3>2. CASE running' > threadIndex /\ running' > most
      BY <2>3, <2>5, <3>2 DEF Rescheduled, ModesInv, LivesInv
    <3> QED BY <2>2, <3>1, <3>2 DEF AllReplaced
  <2>7. ~(priority[errorThread] <= priority[running']) \/ running' = errorThread
    <3>1. running' \in 1..threadIndex /\ errorThread \in 1..threadIndex
      BY <2>2, <2>5, <2>6 DEF Thread
    <3>2. priority[errorThread] = ErrorPriority
          /\ (running' # errorThread => priority[running'] <= MaxPriority)
      BY <3>1 DEF ModesInv, ErrorInv
    <3>3. priority[running'] \in Nat
      BY <2>2, <2>5 DEF ErrorPriority
    <3> QED BY <3>2, <3>3 DEF MaxPriority, ErrorPriority
  <2> QED BY <2>5, <2>7
<1> QED BY <1>1, ModesInvariant, PTL DEF Spec, ErrorKeepsProcessor

=============================================================================
