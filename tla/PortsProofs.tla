----------------------------- MODULE PortsProofs -----------------------------
(***************************************************************************)
(* Proofs about Ports, for any ports, threads and flushes: no thread sleeps *)
(* at a port it could go on with, a sample that is said to be valid is     *)
(* fresh, and reads return what was written to the port at the other end,  *)
(* in order and never twice.                                               *)
(*                                                                         *)
(* The first needs nothing of the connections.  The others need what the   *)
(* configuration tables give and the kernel never checks, SameKind and     *)
(* Connected.  Three invariants carry them, each on the one before:        *)
(* SleepInv (what threads wait for), FreshInv (what the cells of pok_queue *)
(* are) and OrderInv (in which order they come).                           *)
(***************************************************************************)
EXTENDS Ports, SequenceTheorems, TLAPS

-----------------------------------------------------------------------------
\* Who sleeps, and at which ports.

FlushState ==
  [at : {"none", "ports", "dests", "mark"}, ports : Seq(Port),
   dests : Seq({p \in Port : Direction[p] = "IN"}), len : Nat]

RingTypeOK ==
  /\ off_b \in [Port -> Nat] /\ off_e \in [Port -> Nat]
  /\ \A p \in Port : off_b[p] < Size[p] /\ off_e[p] < Size[p]
  /\ DOMAIN full = Port /\ DOMAIN empty = Port
  /\ DOMAIN pc = Thread /\ DOMAIN request = Thread /\ DOMAIN flushes = Flush
  /\ DOMAIN ready = Port
  /\ \A t \in Thread : request[t].len \in Nat
  /\ \A f \in Flush : /\ flushes[f] \in FlushState
                      /\ flushes[f].at \in {"dests", "mark"} => flushes[f].ports # <<>>

\* A flush that has emptied port p has still to announce the room.
Announces(p) == \E f \in Flush : flushes[f].at = "dests" /\ Head(flushes[f].ports) = p

\* What a call waits for: only at queueing ports, with something to write or
\* read, and for room only behind a full port.
Waiting(t) ==
  LET p == PortOf[t]
  IN /\ Kind[p] = "QUEUEING" /\ ready[p]
     /\ request[t].len \in Nat \ {0}
     /\ request[t].len \in 1..Size[p] \/ Direction[p] = "IN"
     /\ pc[t] = "wait" =>
          \/ Direction[p] = "IN" /\ empty[p]
          \/ Direction[p] = "OUT" /\ (full[p] \/ Announces(p))

SleepInv == \A t \in Thread : pc[t] # "user" => Waiting(t)

LEMMA PortFacts ==
  ASSUME NEW p \in Port
  PROVE  /\ Size[p] \in Nat \ {0} /\ 2 * Size[p] <= Word /\ Word \in Nat
         /\ Direction[p] \in {"IN", "OUT"} /\ Kind[p] \in {"QUEUEING", "SAMPLING"}
BY PortAssumption

LEMMA OffsetRange ==
  ASSUME NEW p \in Port, NEW n \in Nat
  PROVE  n % Size[p] \in Nat /\ n % Size[p] < Size[p]
BY PortFacts

\* Unless a port is full, the room in it is taken to be its size at least.
LEMMA RoomUnlessFull ==
  ASSUME RingTypeOK, NEW p \in Port
  PROVE  /\ AvailableSize(p) \in Nat
         /\ IF full[p] THEN AvailableSize(p) = 0 ELSE AvailableSize(p) >= Size[p]
<1> DEFINE b == off_b[p]
           e == off_e[p]
           s == Size[p]
<1>1. /\ b \in Nat /\ e \in Nat /\ b < s /\ e < s /\ s \in Nat \ {0}
      /\ 2 * s <= Word /\ Word \in Nat
  BY PortFacts DEF RingTypeOK
<1>2. AvailableSize(p) = IF full[p] THEN 0 ELSE IF b < e THEN (b - e) % Word ELSE s - e + b
  BY DEF AvailableSize
<1> HIDE DEF b, e, s
<1>3. ASSUME b < e
      PROVE  (b - e) % Word = Word + b - e
  BY <1>1, <1>3
<1>4. ASSUME b < e
      PROVE  (b - e) % Word >= s /\ (b - e) % Word \in Nat
  BY <1>1, <1>3, <1>4
<1>5. ASSUME ~(b < e)
      PROVE  s - e + b >= s /\ s - e + b \in Nat
  BY <1>1, <1>5
<1>6. CASE full[p]
  BY <1>2, <1>6
<1>7. CASE ~full[p]
  BY <1>2, <1>4, <1>5, <1>7 DEF s
<1> QED BY <1>6, <1>7

LEMMA ConsumedFacts ==
  ASSUME RingTypeOK, NEW p \in Port
  PROVE  ConsumedSize(p) \in 0..Size[p]
BY PortFacts DEF RingTypeOK, ConsumedSize

\* What a write and a get do to a port, its memory left out.
LEMMA WriteRing ==
  ASSUME RingTypeOK, NEW p \in Port, NEW data, Len(data) \in Nat, Write(p, data)
  PROVE  /\ off_b' = off_b /\ off_e' \in [Port -> Nat]
         /\ \A q \in Port : off_e'[q] < Size[q]
         /\ DOMAIN full' = Port /\ DOMAIN empty' = Port
         /\ \A q \in Port : q # p => full'[q] = full[q] /\ empty'[q] = empty[q]
         /\ full[p] => full'[p]
         /\ Kind[p] = "SAMPLING" => off_e' = off_e
<1>1. CASE UNCHANGED ringVars
  BY <1>1 DEF RingTypeOK, ringVars
<1>2. CASE ~UNCHANGED ringVars
  <2>1. /\ empty' = [empty EXCEPT ![p] = FALSE] /\ off_b' = off_b
        /\ IF Kind[p] = "QUEUEING"
           THEN /\ off_e' = [off_e EXCEPT ![p] = (off_e[p] + Len(data)) % Size[p]]
                /\ full' = [full EXCEPT ![p] = full[p] \/ (off_e[p] + Len(data)) % Size[p] = off_b[p]]
           ELSE off_e' = off_e /\ full' = full
    BY <1>2 DEF Write
  <2>2. (off_e[p] + Len(data)) % Size[p] \in Nat /\ (off_e[p] + Len(data)) % Size[p] < Size[p]
    <3>1. off_e[p] + Len(data) \in Nat
      BY DEF RingTypeOK
    <3> QED BY <3>1, OffsetRange
  <2>3. CASE Kind[p] = "QUEUEING"
    BY <2>1, <2>2, <2>3 DEF RingTypeOK
  <2>4. CASE Kind[p] # "QUEUEING"
    BY <2>1, <2>4 DEF RingTypeOK
  <2> QED BY <2>3, <2>4
<1> QED BY <1>1, <1>2

LEMMA GetRing ==
  ASSUME RingTypeOK, NEW p \in Port, NEW len \in Nat, Get(p, len)
  PROVE  /\ off_e' = off_e /\ off_b' \in [Port -> Nat]
         /\ \A q \in Port : off_b'[q] < Size[q]
         /\ DOMAIN full' = Port /\ DOMAIN empty' = Port
         /\ \A q \in Port : q # p => full'[q] = full[q] /\ empty'[q] = empty[q]
         /\ Kind[p] = "SAMPLING" => off_b' = off_b /\ empty' = empty
<1>0. /\ off_b \in [Port -> Nat] /\ \A q \in Port : off_b[q] < Size[q]
      /\ DOMAIN full = Port /\ DOMAIN empty = Port
  BY DEF RingTypeOK
<1>1. CASE Kind[p] = "QUEUEING"
  <2>1. (off_b[p] + len) % Size[p] \in Nat /\ (off_b[p] + len) % Size[p] < Size[p]
    <3>1. off_b[p] + len \in Nat
      BY DEF RingTypeOK
    <3> QED BY <3>1, OffsetRange
  <2> QED BY <1>0, <1>1, <2>1 DEF Get
<1>2. CASE Kind[p] # "QUEUEING"
  BY <1>0, <1>2 DEF Get
<1> QED BY <1>1, <1>2

\* What a step does to the rings of the ports, apart from writes and gets.
LEMMA RingStays ==
  ASSUME RingTypeOK, UNCHANGED <<off_b, off_e, full, empty>>, DOMAIN ready' = Port,
         DOMAIN pc' = Thread, DOMAIN request' = Thread,
         \A t \in Thread : request'[t].len \in Nat, UNCHANGED flushes
  PROVE  RingTypeOK'
BY DEF RingTypeOK

LEMMA SleepEnough ==
  ASSUME SleepInv, \A t \in Thread : pc'[t] # "user" => Waiting(t)'
  PROVE  SleepInv'
BY DEF SleepInv

\* A step that only changes what thread u waits for, and makes no port less
\* full or less empty.
LEMMA SleepElse ==
  ASSUME SleepInv, ready' = ready,
         \A t \in Thread : pc'[t] # "user" =>
             /\ pc'[t] = pc[t] \/ (pc'[t] = "woken" /\ pc[t] = "wait")
             /\ request'[t] = request[t],
         \A t \in Thread : pc'[t] = "wait" =>
             /\ Direction[PortOf[t]] = "IN" /\ empty[PortOf[t]] => empty'[PortOf[t]]
             /\ Direction[PortOf[t]] = "OUT" /\ (full[PortOf[t]] \/ Announces(PortOf[t]))
                  => full'[PortOf[t]] \/ Announces(PortOf[t])'
  PROVE  SleepInv'
<1> SUFFICES ASSUME NEW t \in Thread, pc'[t] # "user"
             PROVE  Waiting(t)'
  BY DEF SleepInv
<1>1. /\ pc'[t] = pc[t] \/ (pc'[t] = "woken" /\ pc[t] = "wait")
      /\ request'[t] = request[t]
  OBVIOUS
<1>2. pc[t] # "user"
  BY <1>1
<1>3. Waiting(t)
  BY <1>2 DEF SleepInv
<1> QED BY <1>1, <1>3 DEF Waiting

\* What sleeping and returning do to the fields of a call.
LEMMA CallFields ==
  ASSUME RingTypeOK, NEW t \in Thread
  PROVE  /\ Return(t) => /\ DOMAIN pc' = Thread /\ DOMAIN request' = Thread
                         /\ \A u \in Thread : request'[u].len \in Nat
                         /\ pc'[t] = "user"
                         /\ \A u \in Thread : u # t => pc'[u] = pc[u] /\ request'[u] = request[u]
         /\ \A r : r.len \in Nat /\ Sleep(t, r) =>
                         /\ DOMAIN pc' = Thread /\ DOMAIN request' = Thread
                         /\ \A u \in Thread : request'[u].len \in Nat
                         /\ pc'[t] = "wait" /\ request'[t] = r /\ UNCHANGED ringVars
                         /\ \A u \in Thread : u # t => pc'[u] = pc[u] /\ request'[u] = request[u]
BY DEF Return, Sleep, RingTypeOK, NoRequest

LEMMA FreshLength ==
  ASSUME NEW p \in Port, NEW len \in Nat
  PROVE  Len(Fresh(p, len)) = len
BY DEF Fresh

LEMMA SendSleeps ==
  ASSUME RingTypeOK, SleepInv, NEW t \in Thread, NEW r, r.len \in 1..Size[PortOf[t]],
         Direction[PortOf[t]] = "OUT", Kind[PortOf[t]] = "QUEUEING", ready[PortOf[t]],
         TrySend(t, r), UNCHANGED <<ready, flushes>>
  PROVE  RingTypeOK' /\ SleepInv'
<1> DEFINE p == PortOf[t]
<1>0. p \in Port /\ r.len \in Nat /\ r.len > 0 /\ r.len <= Size[p]
  BY PortAssumption, PortFacts
<1>1. CASE r.len <= AvailableSize(p) /\ Return(t) /\ Put(p, r.len)
  <2>1. Write(p, Fresh(p, r.len)) /\ Len(Fresh(p, r.len)) \in Nat
    BY <1>0, <1>1, FreshLength DEF Put
  <2>2. /\ off_b' = off_b /\ off_e' \in [Port -> Nat] /\ \A q \in Port : off_e'[q] < Size[q]
        /\ DOMAIN full' = Port /\ DOMAIN empty' = Port
        /\ \A q \in Port : q # p => full'[q] = full[q] /\ empty'[q] = empty[q]
        /\ full[p] => full'[p]
    BY <1>0, <2>1, WriteRing
  <2>3. RingTypeOK'
    BY <1>1, <2>2, CallFields DEF RingTypeOK
  <2>4. \A q \in Port : Announces(q)' <=> Announces(q)
    BY DEF Announces
  <2>5. \A u \in Thread : PortOf[u] \in Port
    BY PortAssumption
  <2>6. \A u \in Thread : pc'[u] # "user" => pc'[u] = pc[u] /\ request'[u] = request[u]
    BY <1>1, CallFields
  <2>7. ASSUME NEW u \in Thread
        PROVE  /\ Direction[PortOf[u]] = "IN" /\ empty[PortOf[u]] => empty'[PortOf[u]]
               /\ Direction[PortOf[u]] = "OUT" /\ (full[PortOf[u]] \/ Announces(PortOf[u]))
                    => full'[PortOf[u]] \/ Announces(PortOf[u])'
    BY <2>2, <2>4, <2>5
  <2>8. SleepInv'
    BY <2>6, <2>7, SleepElse
  <2> QED BY <2>3, <2>8
<1>2. CASE ~(r.len <= AvailableSize(p)) /\ Sleep(t, r)
  <2>1. full[p]
    <3>1. AvailableSize(p) \in Nat /\ (~full[p] => AvailableSize(p) >= Size[p])
      BY <1>0, RoomUnlessFull
    <3>2. Size[p] \in Nat
      BY <1>0, PortFacts
    <3> QED BY <1>0, <1>2, <3>1, <3>2
  <2>2. RingTypeOK'
    BY <1>0, <1>2, CallFields, RingStays DEF RingTypeOK, ringVars
  <2>3. UNCHANGED <<full, empty, ready>> /\ \A q \in Port : Announces(q)' <=> Announces(q)
    BY <1>2 DEF Announces, Sleep, ringVars
  <2>4. ASSUME NEW u \in Thread, pc'[u] # "user"
        PROVE  Waiting(u)'
    <3>1. CASE u = t
      BY <1>0, <1>2, <2>1, <2>3, <3>1, CallFields DEF Waiting
    <3>2. CASE u # t
      <4>1. pc'[u] = pc[u] /\ request'[u] = request[u]
        BY <1>0, <1>2, <3>2, CallFields
      <4>2. Waiting(u) /\ PortOf[u] \in Port
        BY <2>4, <4>1, PortAssumption DEF SleepInv
      <4> QED BY <2>3, <4>1, <4>2 DEF Waiting
    <3> QED BY <3>1, <3>2
  <2> QED BY <2>2, <2>4, SleepEnough
<1> QED BY <1>1, <1>2 DEF TrySend

LEMMA ReceiveSleeps ==
  ASSUME RingTypeOK, SleepInv, NEW t \in Thread, NEW r, r.len \in Nat \ {0},
         Direction[PortOf[t]] = "IN", Kind[PortOf[t]] = "QUEUEING", ready[PortOf[t]],
         TryReceive(t, r), UNCHANGED <<ready, flushes>>
  PROVE  RingTypeOK' /\ SleepInv'
<1> DEFINE p == PortOf[t]
<1>0. p \in Port /\ \A u \in Thread : PortOf[u] \in Port
  BY PortAssumption
<1>1. CASE ~empty[p]
  <2>1. Return(t) /\ \E len \in Nat : Get(p, len)
    <3>1. ConsumedSize(p) \in Nat
      BY <1>0, ConsumedFacts, PortFacts
    <3> QED BY <1>1, <3>1 DEF TryReceive
  <2>2. /\ off_e' = off_e /\ off_b' \in [Port -> Nat] /\ \A q \in Port : off_b'[q] < Size[q]
        /\ DOMAIN full' = Port /\ DOMAIN empty' = Port
        /\ \A q \in Port : q # p => full'[q] = full[q] /\ empty'[q] = empty[q]
    BY <1>0, <2>1, GetRing
  <2>3. RingTypeOK'
    BY <2>1, <2>2, CallFields DEF RingTypeOK
  <2>4. \A q \in Port : Announces(q)' <=> Announces(q)
    BY DEF Announces
  <2>5. \A u \in Thread : pc'[u] # "user" => pc'[u] = pc[u] /\ request'[u] = request[u]
    BY <2>1, CallFields
  <2>6. ASSUME NEW u \in Thread
        PROVE  /\ Direction[PortOf[u]] = "IN" /\ empty[PortOf[u]] => empty'[PortOf[u]]
               /\ Direction[PortOf[u]] = "OUT" /\ (full[PortOf[u]] \/ Announces(PortOf[u]))
                    => full'[PortOf[u]] \/ Announces(PortOf[u])'
    BY <1>0, <1>1, <2>2, <2>4
  <2>7. SleepInv'
    BY <2>5, <2>6, SleepElse
  <2> QED BY <2>3, <2>7
<1>2. CASE empty[p] /\ Sleep(t, r)
  <2>1. RingTypeOK'
    BY <1>2, CallFields, RingStays DEF RingTypeOK, ringVars
  <2>2. UNCHANGED <<full, empty, ready>> /\ \A q \in Port : Announces(q)' <=> Announces(q)
    BY <1>2 DEF Announces, Sleep, ringVars
  <2>3. ASSUME NEW u \in Thread, pc'[u] # "user"
        PROVE  Waiting(u)'
    <3>1. CASE u = t
      BY <1>0, <1>2, <2>2, <3>1, CallFields DEF Waiting
    <3>2. CASE u # t
      <4>1. pc'[u] = pc[u] /\ request'[u] = request[u]
        BY <1>2, <3>2, CallFields
      <4>2. Waiting(u)
        BY <2>3, <4>1 DEF SleepInv
      <4> QED BY <1>0, <2>2, <4>1, <4>2 DEF Waiting
    <3> QED BY <3>1, <3>2
  <2> QED BY <2>1, <2>3, SleepEnough
<1> QED BY <1>1, <1>2 DEF TryReceive

LEMMA CallSleeps ==
  ASSUME RingTypeOK, SleepInv, NEW t \in Thread,
         Send(t) \/ SendAgain(t) \/ Receive(t) \/ ReceiveAgain(t)
  PROVE  RingTypeOK' /\ SleepInv'
<1>0. UNCHANGED <<ready, flushes>> /\ PortOf[t] \in Port
  BY PortAssumption DEF Send, SendAgain, Receive, ReceiveAgain, configVars, flushVars
<1>1. CASE Send(t)
  <2>1. PICK len \in Lengths, d \in Timeouts :
          len <= Size[PortOf[t]] /\ TrySend(t, [len |-> len, timeout |-> Absolute(d)])
    BY <1>1 DEF Send
  <2>2. len \in 1..Size[PortOf[t]]
    BY <1>0, <2>1, PortAssumption, PortFacts
  <2>3. Direction[PortOf[t]] = "OUT" /\ Kind[PortOf[t]] = "QUEUEING" /\ ready[PortOf[t]]
    BY <1>1 DEF Send, Calls
  <2> DEFINE r == [len |-> len, timeout |-> Absolute(d)]
  <2>4. r.len \in 1..Size[PortOf[t]] /\ TrySend(t, r)
    BY <2>1, <2>2
  <2> QED BY <1>0, <2>3, <2>4, SendSleeps
<1>2. CASE Receive(t)
  <2>1. PICK len \in Lengths, d \in Timeouts :
          TryReceive(t, [len |-> len, timeout |-> Absolute(d)])
    BY <1>2 DEF Receive
  <2>2. Direction[PortOf[t]] = "IN" /\ Kind[PortOf[t]] = "QUEUEING" /\ ready[PortOf[t]]
    BY <1>2 DEF Receive, Calls
  <2> DEFINE r == [len |-> len, timeout |-> Absolute(d)]
  <2>3. r.len \in Nat \ {0} /\ TryReceive(t, r)
    BY <2>1, PortAssumption
  <2> QED BY <1>0, <2>2, <2>3, ReceiveSleeps
<1>3. ASSUME SendAgain(t) \/ ReceiveAgain(t)
      PROVE  pc[t] # "user" /\ Waiting(t) /\ request[t].len \in Nat \ {0}
  BY <1>3 DEF SendAgain, ReceiveAgain, WakesUp, SleepInv, Waiting
<1>4. CASE Return(t) /\ UNCHANGED <<ringVars, must_be_flushed, historyVars>>
  <2>1. RingTypeOK'
    BY <1>0, <1>4, CallFields, RingStays DEF RingTypeOK, ringVars
  <2>2. \A u \in Thread : pc'[u] # "user" => pc'[u] = pc[u] /\ request'[u] = request[u]
    BY <1>4, CallFields
  <2>3. UNCHANGED <<full, empty>> /\ \A q \in Port : Announces(q)' <=> Announces(q)
    BY <1>0, <1>4 DEF Announces, ringVars
  <2>4. SleepInv'
    BY <1>0, <2>2, <2>3, PortAssumption, SleepElse
  <2> QED BY <2>1, <2>4
<1>5. CASE SendAgain(t) /\ TrySend(t, request[t])
  <2>1. Direction[PortOf[t]] = "OUT" /\ Direction[PortOf[t]] # "IN"
    BY <1>5 DEF SendAgain, WakesUp
  <2>2. request[t].len \in 1..Size[PortOf[t]] /\ Kind[PortOf[t]] = "QUEUEING" /\ ready[PortOf[t]]
    BY <1>3, <1>5, <2>1 DEF Waiting
  <2> QED BY <1>0, <1>5, <2>1, <2>2, SendSleeps
<1>6. CASE ReceiveAgain(t) /\ TryReceive(t, request[t])
  <2>1. Direction[PortOf[t]] = "IN"
    BY <1>6 DEF ReceiveAgain, WakesUp
  <2>2. /\ request[t].len \in Nat \ {0} /\ Kind[PortOf[t]] = "QUEUEING"
        /\ ready[PortOf[t]]
    BY <1>3, <1>6 DEF Waiting
  <2> QED BY <1>0, <1>6, <2>1, <2>2, ReceiveSleeps
<1> QED BY <1>1, <1>2, <1>4, <1>5, <1>6 DEF SendAgain, ReceiveAgain

\* The steps that put nobody to sleep: what they do to the ports waited for.
LEMMA QuietSleeps ==
  ASSUME RingTypeOK, SleepInv, RingTypeOK', ready' = ready, request' = request,
         \A t \in Thread : pc'[t] = pc[t] \/ (pc'[t] = "woken" /\ pc[t] = "wait"),
         \A t \in Thread : pc'[t] = "wait" =>
             /\ Direction[PortOf[t]] = "IN" /\ empty[PortOf[t]] => empty'[PortOf[t]]
             /\ Direction[PortOf[t]] = "OUT" /\ (full[PortOf[t]] \/ Announces(PortOf[t]))
                  => full'[PortOf[t]] \/ Announces(PortOf[t])'
  PROVE  RingTypeOK' /\ SleepInv'
<1>1. \A t \in Thread : pc'[t] # "user" =>
        /\ pc'[t] = pc[t] \/ (pc'[t] = "woken" /\ pc[t] = "wait")
        /\ request'[t] = request[t]
  OBVIOUS
<1> QED BY <1>1, SleepElse

LEMMA CreateSleeps ==
  ASSUME RingTypeOK, SleepInv, NEW p \in Port, Create(p)
  PROVE  RingTypeOK' /\ SleepInv'
<1>1. /\ ~ready[p] /\ ready' = [ready EXCEPT ![p] = TRUE] /\ off_b' = [off_b EXCEPT ![p] = 0]
      /\ off_e' = [off_e EXCEPT ![p] = 0] /\ full' = [full EXCEPT ![p] = FALSE]
      /\ UNCHANGED <<empty, flushes, pc, request>>
  BY DEF Create, flushVars, callVars
<1>2. RingTypeOK'
  BY <1>1, PortFacts DEF RingTypeOK
<1>3. \A q \in Port : Announces(q)' <=> Announces(q)
  BY <1>1 DEF Announces
<1>4. ASSUME NEW t \in Thread, pc'[t] # "user"
      PROVE  Waiting(t)'
  <2>1. Waiting(t) /\ PortOf[t] \in Port
    BY <1>1, <1>4, PortAssumption DEF SleepInv
  <2>2. PortOf[t] # p
    BY <1>1, <2>1 DEF Waiting
  <2>3. full'[PortOf[t]] = full[PortOf[t]] /\ ready'[PortOf[t]] = ready[PortOf[t]]
    BY <1>1, <2>1, <2>2 DEF RingTypeOK
  <2> QED BY <1>1, <1>3, <2>1, <2>3 DEF Waiting
<1> QED BY <1>2, <1>4, SleepEnough

LEMMA SamplingSleeps ==
  ASSUME RingTypeOK, SleepInv, NEW t \in Thread, SamplingWrite(t) \/ SamplingRead(t)
  PROVE  RingTypeOK' /\ SleepInv'
<1> DEFINE p == PortOf[t]
<1>0. /\ p \in Port /\ Kind[p] = "SAMPLING" /\ Size[p] \in Nat
      /\ UNCHANGED <<ready, flushes, pc, request>> /\ \A u \in Thread : PortOf[u] \in Port
  BY PortAssumption, PortFacts
     DEF SamplingWrite, SamplingRead, Calls, configVars, flushVars, callVars
<1>1. \A q \in Port : Announces(q)' <=> Announces(q)
  BY <1>0 DEF Announces
<1>2. /\ off_b' \in [Port -> Nat] /\ off_e' \in [Port -> Nat]
      /\ \A q \in Port : off_b'[q] < Size[q] /\ off_e'[q] < Size[q]
      /\ DOMAIN full' = Port /\ DOMAIN empty' = Port
      /\ \A q \in Port : q # p => full'[q] = full[q] /\ empty'[q] = empty[q]
  <2>1. CASE SamplingWrite(t)
    <3>1. Write(p, Fresh(p, Size[p])) /\ Len(Fresh(p, Size[p])) \in Nat
      BY <1>0, <2>1, FreshLength DEF SamplingWrite, Put
    <3> QED BY <1>0, <3>1, WriteRing DEF RingTypeOK
  <2>2. CASE SamplingRead(t)
    BY <1>0, <2>2, GetRing DEF SamplingRead, RingTypeOK
  <2> QED BY <2>1, <2>2
<1>3. RingTypeOK'
  BY <1>0, <1>2 DEF RingTypeOK
<1>4. ASSUME NEW u \in Thread, pc'[u] = "wait"
      PROVE  PortOf[u] # p
  BY <1>0, <1>4 DEF SleepInv, Waiting
<1>5. ASSUME NEW u \in Thread, pc'[u] = "wait"
      PROVE  full'[PortOf[u]] = full[PortOf[u]] /\ empty'[PortOf[u]] = empty[PortOf[u]]
  BY <1>0, <1>2, <1>4, <1>5
<1> QED BY <1>0, <1>1, <1>3, <1>5, QuietSleeps

LEMMA SleepStays ==
  ASSUME RingTypeOK, SleepInv, UNCHANGED <<ready, ringVars, flushes, callVars>>
  PROVE  RingTypeOK' /\ SleepInv'
<1>1. RingTypeOK'
  BY RingStays DEF ringVars, callVars, RingTypeOK
<1> QED BY <1>1 DEF SleepInv, Waiting, Announces, ringVars, callVars

LEMMA BroadcastFacts ==
  ASSUME RingTypeOK, NEW p, Broadcast(p)
  PROVE  /\ request' = request /\ DOMAIN pc' = Thread
         /\ \A t \in Thread : pc'[t] = pc[t] \/ (pc'[t] = "woken" /\ pc[t] = "wait")
         /\ \A t \in Thread : pc'[t] = "wait" => PortOf[t] # p
BY DEF Broadcast, RingTypeOK

\* The steps of flush f that touch no ring.
LEMMA FlushElse ==
  ASSUME RingTypeOK, SleepInv, NEW f \in Flush, NEW s \in FlushState,
         flushes' = [flushes EXCEPT ![f] = s],
         s.at # "dests" => flushes[f].at # "dests",
         s.at = "dests" => flushes[f].at = "dests" /\ s.ports = flushes[f].ports,
         s.at # "mark",
         UNCHANGED <<ready, ringVars, callVars>>
  PROVE  RingTypeOK' /\ SleepInv'
<1>1. RingTypeOK'
  BY DEF RingTypeOK, ringVars, callVars
<1>2. \A q \in Port : Announces(q)' <=> Announces(q)
  <2>1. DOMAIN flushes = Flush
    BY DEF RingTypeOK
  <2> QED BY <2>1 DEF Announces
<1> QED BY <1>1, <1>2, PortAssumption, QuietSleeps DEF ringVars, callVars

LEMMA FlushFields ==
  ASSUME RingTypeOK, NEW f \in Flush
  PROVE  /\ NoFlush \in FlushState
         /\ \A q \in Seq(Port) : /\ [NoFlush EXCEPT !.at = "ports", !.ports = q] \in FlushState
                                /\ [flushes[f] EXCEPT !.ports = q] \in FlushState
                                /\ [flushes[f] EXCEPT !.ports = q].at = flushes[f].at
         /\ [flushes[f] EXCEPT !.at = "mark"] \in FlushState
         /\ flushes[f].ports \in Seq(Port)
         /\ flushes[f].dests \in Seq({p \in Port : Direction[p] = "IN"})
<1>1. flushes[f] \in FlushState
  BY DEF RingTypeOK
<1>2. NoFlush \in FlushState
  BY DEF FlushState, NoFlush
<1>3. /\ [flushes[f] EXCEPT !.at = "mark"] \in FlushState
      /\ flushes[f].ports \in Seq(Port)
      /\ flushes[f].dests \in Seq({p \in Port : Direction[p] = "IN"})
  BY <1>1 DEF FlushState
<1>4. ASSUME NEW q \in Seq(Port)
      PROVE  /\ [flushes[f] EXCEPT !.ports = q] \in FlushState
             /\ [flushes[f] EXCEPT !.ports = q].at = flushes[f].at
  BY <1>1 DEF FlushState
<1>5. ASSUME NEW q \in Seq(Port)
      PROVE  [NoFlush EXCEPT !.at = "ports", !.ports = q] \in FlushState
  BY <1>2 DEF FlushState
<1> QED BY <1>2, <1>3, <1>4, <1>5

LEMMA FlushTakeSleeps ==
  ASSUME RingTypeOK, SleepInv, NEW f \in Flush, FlushTake(f)
  PROVE  RingTypeOK' /\ SleepInv'
<1> DEFINE p == Head(flushes[f].ports)
           len == ConsumedSize(p)
           s == [flushes[f] EXCEPT !.at = "dests", !.dests = Destinations[p], !.len = len]
<1>0. /\ flushes[f].at = "ports" /\ flushes[f].ports \in Seq(Port) /\ flushes[f].ports # <<>>
      /\ p \in Port /\ Tail(flushes[f].ports) \in Seq(Port)
      /\ UNCHANGED <<ready, callVars>> /\ DOMAIN flushes = Flush
  <2>1. flushes[f].ports \in Seq(Port)
    BY FlushFields
  <2>2. flushes[f].at = "ports" /\ flushes[f].ports # <<>> /\ UNCHANGED <<ready, callVars>>
    BY DEF FlushTake, configVars
  <2> QED BY <2>1, <2>2 DEF RingTypeOK
<1>1. CASE ToFlush(p)
  <2>1. Get(p, len) /\ flushes' = [flushes EXCEPT ![f] = s] /\ Direction[p] = "OUT"
    BY <1>1 DEF FlushTake, ToFlush
  <2>2. len \in Nat
    BY <1>0, ConsumedFacts, PortFacts
  <2>3. /\ off_e' = off_e /\ off_b' \in [Port -> Nat] /\ \A q \in Port : off_b'[q] < Size[q]
        /\ DOMAIN full' = Port /\ DOMAIN empty' = Port
        /\ \A q \in Port : q # p => full'[q] = full[q] /\ empty'[q] = empty[q]
    BY <1>0, <2>1, <2>2, GetRing
  <2>4. s \in FlushState
    <3>1. flushes[f] \in FlushState /\ Destinations[p] \in Seq({q \in Port : Direction[q] = "IN"})
      BY <1>0, PortAssumption DEF RingTypeOK
    <3> HIDE DEF len, p
    <3> QED BY <2>2, <3>1 DEF FlushState
  <2>5. RingTypeOK'
    BY <1>0, <2>1, <2>3, <2>4 DEF RingTypeOK, callVars
  <2>6. \A q \in Port : Announces(q) => Announces(q)'
    <3>1. \A g \in Flush : g # f => flushes'[g] = flushes[g]
      BY <2>1
    <3> QED BY <1>0, <3>1 DEF Announces
  <2>7. Announces(p)'
    <3>1. s.at = "dests" /\ s.ports = flushes[f].ports
      BY DEF RingTypeOK, FlushState
    <3>2. flushes'[f] = s
      BY <1>0, <2>1
    <3>3. flushes'[f].at = "dests" /\ Head(flushes'[f].ports) = p
      BY <3>1, <3>2
    <3> QED BY <3>3 DEF Announces
  <2>8. ASSUME NEW t \in Thread
        PROVE  /\ Direction[PortOf[t]] = "IN" /\ empty[PortOf[t]] => empty'[PortOf[t]]
               /\ Direction[PortOf[t]] = "OUT" /\ (full[PortOf[t]] \/ Announces(PortOf[t]))
                    => full'[PortOf[t]] \/ Announces(PortOf[t])'
    <3>1. PortOf[t] \in Port
      BY PortAssumption
    <3> QED BY <2>1, <2>3, <2>6, <2>7, <3>1
  <2> QED BY <1>0, <2>5, <2>8, QuietSleeps DEF callVars
<1>2. CASE ~ToFlush(p)
  <2>1. /\ flushes' = [flushes EXCEPT ![f] = [flushes[f] EXCEPT !.ports = Tail(flushes[f].ports)]]
        /\ UNCHANGED ringVars
    BY <1>2 DEF FlushTake
  <2>2. /\ [flushes[f] EXCEPT !.ports = Tail(flushes[f].ports)] \in FlushState
        /\ [flushes[f] EXCEPT !.ports = Tail(flushes[f].ports)].at = "ports"
    BY <1>0, FlushFields
  <2> QED BY <1>0, <2>1, <2>2, FlushElse
<1> QED BY <1>1, <1>2

LEMMA FlushWriteSleeps ==
  ASSUME RingTypeOK, SleepInv, NEW f \in Flush, FlushWrite(f)
  PROVE  RingTypeOK' /\ SleepInv'
<1> DEFINE d == Head(flushes[f].dests)
           s == [flushes[f] EXCEPT !.dests = Tail(flushes[f].dests)]
           data == SubSeq(buffer, 1, flushes[f].len)
<1>0. /\ flushes[f].at = "dests" /\ flushes[f] \in FlushState /\ d \in Port /\ Direction[d] = "IN"
      /\ Tail(flushes[f].dests) \in Seq({p \in Port : Direction[p] = "IN"})
      /\ ready' = ready /\ flushes' = [flushes EXCEPT ![f] = s] /\ DOMAIN flushes = Flush
  <2>1. flushes[f] \in FlushState /\ flushes[f].dests \in Seq({p \in Port : Direction[p] = "IN"})
    BY FlushFields DEF RingTypeOK
  <2>2. /\ flushes[f].at = "dests" /\ flushes[f].dests # <<>> /\ ready' = ready
        /\ flushes' = [flushes EXCEPT ![f] = s]
    BY DEF FlushWrite, configVars
  <2> QED BY <2>1, <2>2 DEF RingTypeOK
<1>1. s \in FlushState /\ s.at = "dests" /\ s.ports = flushes[f].ports
  BY <1>0 DEF FlushState
<1>2. CASE ready[d]
  <2>1. Write(d, data) /\ Broadcast(d)
    BY <1>2 DEF FlushWrite
  <2>2. Len(data) \in Nat
    <3>1. flushes[f].len \in Nat
      BY <1>0 DEF FlushState
    <3> QED BY <3>1
  <2>3. /\ off_b' = off_b /\ off_e' \in [Port -> Nat] /\ \A q \in Port : off_e'[q] < Size[q]
        /\ DOMAIN full' = Port /\ DOMAIN empty' = Port
        /\ \A q \in Port : q # d => full'[q] = full[q] /\ empty'[q] = empty[q]
    BY <1>0, <2>1, <2>2, WriteRing
  <2>4. /\ request' = request /\ DOMAIN pc' = Thread
        /\ \A t \in Thread : pc'[t] = pc[t] \/ (pc'[t] = "woken" /\ pc[t] = "wait")
        /\ \A t \in Thread : pc'[t] = "wait" => PortOf[t] # d
    BY <2>1, BroadcastFacts
  <2>5. RingTypeOK'
    BY <1>0, <1>1, <2>3, <2>4 DEF RingTypeOK
  <2>6. \A q \in Port : Announces(q)' <=> Announces(q)
    BY <1>0, <1>1 DEF Announces
  <2>7. ASSUME NEW t \in Thread, pc'[t] = "wait"
        PROVE  /\ Direction[PortOf[t]] = "IN" /\ empty[PortOf[t]] => empty'[PortOf[t]]
               /\ Direction[PortOf[t]] = "OUT" /\ (full[PortOf[t]] \/ Announces(PortOf[t]))
                    => full'[PortOf[t]] \/ Announces(PortOf[t])'
    <3>1. PortOf[t] \in Port /\ PortOf[t] # d
      BY <2>4, <2>7, PortAssumption
    <3> QED BY <2>3, <2>6, <3>1
  <2> QED BY <1>0, <2>4, <2>5, <2>7, QuietSleeps
<1>3. CASE ~ready[d]
  <2>1. UNCHANGED <<ready, ringVars, callVars>>
    BY <1>0, <1>3 DEF FlushWrite
  <2> QED BY <1>0, <1>1, <2>1, FlushElse
<1> QED BY <1>2, <1>3

LEMMA FlushRoomSleeps ==
  ASSUME RingTypeOK, SleepInv, NEW f \in Flush, FlushRoom(f)
  PROVE  RingTypeOK' /\ SleepInv'
<1> DEFINE p == Head(flushes[f].ports)
           s == [flushes[f] EXCEPT !.at = "mark"]
<1>0. /\ flushes[f] \in FlushState /\ flushes[f].ports # <<>> /\ s \in FlushState
      /\ s.at = "mark" /\ s.ports = flushes[f].ports
  <2>1. flushes[f] \in FlushState /\ flushes[f].ports # <<>> /\ s \in FlushState
    BY FlushFields DEF RingTypeOK, FlushRoom
  <2> QED BY <2>1 DEF FlushState
<1>1. /\ flushes' = [flushes EXCEPT ![f] = s]
      /\ UNCHANGED <<ready, ringVars>> /\ Broadcast(p) /\ DOMAIN flushes = Flush
  BY DEF FlushRoom, configVars, RingTypeOK
<1>2. /\ request' = request /\ DOMAIN pc' = Thread
      /\ \A t \in Thread : pc'[t] = pc[t] \/ (pc'[t] = "woken" /\ pc[t] = "wait")
      /\ \A t \in Thread : pc'[t] = "wait" => PortOf[t] # p
  BY <1>1, BroadcastFacts
<1>3. RingTypeOK'
  BY <1>0, <1>1, <1>2 DEF RingTypeOK, ringVars
<1>4. \A q \in Port : q # p /\ Announces(q) => Announces(q)'
  BY <1>1 DEF Announces
<1>5. ASSUME NEW t \in Thread, pc'[t] = "wait"
      PROVE  /\ Direction[PortOf[t]] = "IN" /\ empty[PortOf[t]] => empty'[PortOf[t]]
             /\ Direction[PortOf[t]] = "OUT" /\ (full[PortOf[t]] \/ Announces(PortOf[t]))
                  => full'[PortOf[t]] \/ Announces(PortOf[t])'
  <2>1. PortOf[t] \in Port /\ PortOf[t] # p
    BY <1>2, <1>5, PortAssumption
  <2> QED BY <1>1, <1>4, <2>1 DEF ringVars
<1> QED BY <1>1, <1>2, <1>3, <1>5, QuietSleeps

LEMMA FlushSleeps ==
  ASSUME RingTypeOK, SleepInv, NEW f \in Flush,
         \/ FlushStart(f) \/ FlushResume(f) \/ FlushTake(f) \/ FlushWrite(f)
         \/ FlushRoom(f) \/ FlushUnmark(f) \/ FlushEnd(f)
  PROVE  RingTypeOK' /\ SleepInv'
<1>1. CASE FlushStart(f)
  <2>1. PICK o \in FlushOrders :
          flushes' = [flushes EXCEPT ![f] = [NoFlush EXCEPT !.at = "ports", !.ports = o]]
    BY <1>1 DEF FlushStart
  <2>2. o \in Seq(Port)
    BY PortAssumption
  <2>3. [NoFlush EXCEPT !.at = "ports", !.ports = o].at = "ports"
    BY DEF NoFlush
  <2>4. flushes[f].at # "dests" /\ UNCHANGED <<ready, ringVars, callVars>>
    <3>1. NoFlush.at # "dests"
      BY DEF NoFlush
    <3> QED BY <1>1, <3>1 DEF FlushStart, configVars
  <2> QED BY <2>1, <2>2, <2>3, <2>4, FlushFields, FlushElse
<1>2. CASE FlushResume(f)
  <2>1. UNCHANGED <<ready, ringVars, flushes, callVars>>
    BY <1>2 DEF FlushResume, configVars, flushVars
  <2> QED BY <2>1, SleepStays
<1>3. CASE FlushUnmark(f)
  <2>1. /\ flushes[f].at = "mark" /\ UNCHANGED <<ready, ringVars, callVars>>
        /\ flushes' = [flushes EXCEPT ![f] =
             [NoFlush EXCEPT !.at = "ports", !.ports = Tail(flushes[f].ports)]]
    BY <1>3 DEF FlushUnmark, configVars
  <2>2. [NoFlush EXCEPT !.at = "ports", !.ports = Tail(flushes[f].ports)].at = "ports"
    BY DEF NoFlush
  <2>3. Tail(flushes[f].ports) \in Seq(Port)
    <3>1. flushes[f].ports \in Seq(Port) /\ flushes[f].ports # <<>>
      BY <2>1, FlushFields DEF RingTypeOK
    <3> QED BY <3>1
  <2> QED BY <2>1, <2>2, <2>3, FlushFields, FlushElse
<1>4. CASE FlushEnd(f)
  <2>1. /\ flushes[f].at = "ports" /\ UNCHANGED <<ready, ringVars, callVars>>
        /\ flushes' = [flushes EXCEPT ![f] = NoFlush]
    BY <1>4 DEF FlushEnd, configVars
  <2>2. NoFlush.at # "dests" /\ NoFlush.at # "mark"
    BY DEF NoFlush
  <2> QED BY <2>1, <2>2, FlushFields, FlushElse
<1> QED BY <1>1, <1>2, <1>3, <1>4, FlushTakeSleeps, FlushWriteSleeps, FlushRoomSleeps

LEMMA SleepStep ==
  ASSUME RingTypeOK, SleepInv, [Next]_vars
  PROVE  RingTypeOK' /\ SleepInv'
<1>1. CASE Tick \/ UNCHANGED vars
  <2>1. UNCHANGED <<ready, ringVars, flushes, callVars>>
    BY <1>1 DEF Tick, vars, configVars, flushVars
  <2> QED BY <2>1, SleepStays
<1> QED BY <1>1, CreateSleeps, CallSleeps, SamplingSleeps, FlushSleeps DEF Next

LEMMA SleepStart == Init => RingTypeOK /\ SleepInv
<1> SUFFICES ASSUME Init
             PROVE  RingTypeOK /\ SleepInv
  OBVIOUS
<1>1. NoFlush \in FlushState
  BY DEF FlushState, NoFlush
<1>2. RingTypeOK
  <2>1. \A p \in Port : 0 < Size[p]
    BY PortFacts
  <2>2. NoRequest.len \in Nat /\ NoFlush.at = "none"
    BY DEF NoRequest, NoFlush
  <2>3. /\ \A f \in Flush : flushes[f] = NoFlush
        /\ \A t \in Thread : request[t] = NoRequest
    BY DEF Init
  <2> QED BY <1>1, <2>1, <2>2, <2>3 DEF Init, RingTypeOK
<1> QED BY <1>2 DEF Init, SleepInv

\* No thread sleeps at a port with room or cells for it, whatever flushes
\* interrupt one another (the loops of pok_port_queueing_send and _receive
\* against the broadcasts of the flushes).
THEOREM PortWakeupsReach == Spec => []NoMissedWakeup
<1>1. ASSUME RingTypeOK, SleepInv
      PROVE  NoMissedWakeup
  <2> SUFFICES ASSUME NEW t \in Thread, pc[t] = "wait"
               PROVE  LET p == PortOf[t]
                      IN \/ Direction[p] = "IN" /\ empty[p]
                         \/ Direction[p] = "OUT" /\ request[t].len > AvailableSize(p)
                         \/ Announces(p)
    BY DEF NoMissedWakeup, Announces
  <2>1. Waiting(t) /\ PortOf[t] \in Port
    BY <1>1, PortAssumption DEF SleepInv
  <2>2. full[PortOf[t]] => AvailableSize(PortOf[t]) = 0
    BY <1>1, <2>1, RoomUnlessFull
  <2>3. Direction[PortOf[t]] = "OUT" => request[t].len > 0
    BY <2>1, PortFacts DEF Waiting
  <2> QED BY <2>1, <2>2, <2>3 DEF Waiting
<1> QED BY <1>1, SleepStart, SleepStep, PTL DEF Spec

-----------------------------------------------------------------------------
\* What the cells of pok_queue hold.  Ports that are ready have parts of their
\* own, nobody wrote behind them, and what is there or in the buffer of the
\* flushes was sent.
Segment(p) == index[p] .. index[p] + Size[p] - 1

MemoryInv ==
  /\ index \in [Port -> Nat] /\ available \in 0..PoolSize
  /\ DOMAIN pool = 0 .. PoolSize - 1 /\ DOMAIN buffer = 1..PoolSize
  /\ \A p \in Port : ready[p] => index[p] + Size[p] <= PoolSize - available
  /\ \A p, q \in Port : ready[p] /\ ready[q] /\ p # q =>
       index[p] + Size[p] <= index[q] \/ index[q] + Size[q] <= index[p]
  /\ \A p \in Port : ~empty[p] => ready[p]
  /\ \A i \in DOMAIN pool : i >= PoolSize - available => pool[i] = None

IsAmong(c, counts) == c = None \/ \E q \in Port : \E n \in 1..counts[q] : c = <<q, n>>

MessageInv ==
  /\ sent \in [Port -> Nat] /\ DOMAIN must_be_flushed = Port
  /\ \A i \in DOMAIN pool : IsAmong(pool[i], sent)
  /\ \A i \in DOMAIN buffer : IsAmong(buffer[i], sent)

\* A flush that has taken the message of port q: until it removes the mark.
Carries(f, q) == flushes[f].at \in {"dests", "mark"} /\ Head(flushes[f].ports) = q

\* A flush that carries a sample is not left, for nobody waits at a sampling
\* port: it has the processor, and the buffer keeps its sample.
CarryInv ==
  \A f \in Flush : \A q \in Port : Carries(f, q) =>
    /\ Kind[q] = "SAMPLING" =>
         /\ kernel = f /\ must_be_flushed[q]
         /\ flushes[f].at = "dests" => buffer[1] = <<q, sent[q]>>
    /\ flushes[f].at = "dests" =>
         /\ flushes[f].len \in 1..PoolSize
         /\ \A i \in DOMAIN flushes[f].dests : Kind[flushes[f].dests[i]] = Kind[q]

\* A sampling port that was written holds the last sample of its writer.
SampleInv ==
  /\ now \in Nat /\ last_receive \in [Port -> Nat] /\ DOMAIN since = Port /\ DOMAIN got = Port
  /\ \A p \in Port : Kind[p] = "SAMPLING" =>
       /\ off_b[p] = 0 /\ off_e[p] = 0
       /\ Direction[p] = "IN" => since[p] = last_receive[p]
       /\ Direction[p] = "OUT" /\ ~empty[p] => pool[index[p]] = <<p, sent[p]>>

\* A destination has the sample of a port that is still to be flushed only
\* while a flush delivers it, and then from this instant.
NewInv ==
  \A q, d \in Port :
    Kind[d] = "SAMPLING" /\ Direction[d] = "IN" /\ ready[d]
      /\ Kind[q] = "SAMPLING" /\ must_be_flushed[q] /\ pool[index[d]] = <<q, sent[q]>>
    => since[d] = now /\ \E f \in Flush : Carries(f, q)

FreshInv == MemoryInv /\ MessageInv /\ CarryInv /\ SampleInv /\ NewInv /\ ValidIsFresh

LEMMA ModFacts ==
  ASSUME NEW s \in Nat \ {0}, NEW n \in Int
  PROVE  n % s \in Nat /\ n % s < s /\ 0 % s = 0
OBVIOUS

LEMMA SegmentFacts ==
  ASSUME MemoryInv, NEW p \in Port, ready[p]
  PROVE  /\ Segment(p) \subseteq DOMAIN pool /\ index[p] \in Segment(p)
         /\ index[p] \in Nat /\ Size[p] \in Nat \ {0} /\ Size[p] <= PoolSize /\ PoolSize \in Nat
         /\ \A i \in DOMAIN pool : i >= PoolSize - available => i \notin Segment(p)
         /\ \A q \in Port : ready[q] /\ q # p => index[q] \notin Segment(p)
         /\ \A n \in Int : index[p] + (n % Size[p]) \in Segment(p)
<1>1. /\ index[p] \in Nat /\ Size[p] \in Nat \ {0} /\ PoolSize \in Nat
      /\ available \in 0..PoolSize /\ index[p] + Size[p] <= PoolSize - available
      /\ DOMAIN pool = 0 .. PoolSize - 1
  BY PortFacts, PortAssumption DEF MemoryInv
<1>2. ASSUME NEW q \in Port, ready[q], q # p
      PROVE  index[q] \notin Segment(p)
  <2>1. /\ index[q] \in Nat /\ Size[q] \in Nat \ {0}
        /\ index[p] + Size[p] <= index[q] \/ index[q] + Size[q] <= index[p]
    BY <1>2, PortFacts DEF MemoryInv
  <2> QED BY <1>1, <2>1 DEF Segment
<1>3. ASSUME NEW n \in Int
      PROVE  index[p] + (n % Size[p]) \in Segment(p)
  <2> DEFINE m == n % Size[p]
  <2>0. Size[p] \in Nat \ {0} /\ n \in Int
    BY <1>1
  <2>1. m \in Nat /\ m < Size[p]
    BY ONLY <2>0, ModFacts
  <2> HIDE DEF m
  <2>2. index[p] + m \in Segment(p)
    BY <1>1, <2>1 DEF Segment
  <2> QED BY <2>2 DEF m
<1>4. /\ Segment(p) \subseteq DOMAIN pool /\ index[p] \in Segment(p) /\ Size[p] <= PoolSize
      /\ \A i \in DOMAIN pool : i >= PoolSize - available => i \notin Segment(p)
  BY <1>1 DEF Segment
<1> QED BY <1>1, <1>2, <1>3, <1>4

LEMMA StoredFacts ==
  ASSUME RingTypeOK, MemoryInv, NEW p \in Port, ready[p], NEW data, Len(data) \in Nat
  PROVE  /\ DOMAIN Stored(p, data) = DOMAIN pool
         /\ \A i \in DOMAIN pool :
              \/ Stored(p, data)[i] = pool[i]
              \/ i \in Segment(p) /\ \E k \in 1..Len(data) : Stored(p, data)[i] = data[k]
         /\ off_e[p] = 0 /\ Len(data) > 0 => Stored(p, data)[index[p]] = data[1]
<1>1. /\ DOMAIN pool = 0 .. PoolSize - 1 /\ index[p] \in Nat /\ Size[p] \in Nat \ {0}
      /\ off_e[p] \in Nat /\ Segment(p) \subseteq DOMAIN pool /\ index[p] \in Segment(p)
      /\ PoolSize \in Nat
  BY SegmentFacts DEF MemoryInv, RingTypeOK
<1> DEFINE place(i) == (i - index[p] - off_e[p]) % Size[p]
<1>2. ASSUME NEW i \in DOMAIN pool
      PROVE  place(i) \in Nat
  <2>1. i - index[p] - off_e[p] \in Int
    BY <1>1
  <2> QED BY <1>1, <2>1, ModFacts
<1>3. Stored(p, data) = [i \in DOMAIN pool |->
        IF i \in Segment(p) /\ place(i) < Len(data) THEN data[place(i) + 1] ELSE pool[i]]
  BY DEF Stored, Segment
<1>4. ASSUME off_e[p] = 0
      PROVE  place(index[p]) = 0
  <2>1. index[p] - index[p] - off_e[p] = 0
    BY <1>1, <1>4
  <2> QED BY <1>1, <2>1, ModFacts
<1> HIDE DEF place
<1>5. ASSUME NEW i \in DOMAIN pool
      PROVE  \/ Stored(p, data)[i] = pool[i]
             \/ i \in Segment(p) /\ \E k \in 1..Len(data) : Stored(p, data)[i] = data[k]
  <2>1. CASE i \in Segment(p) /\ place(i) < Len(data)
    <3>1. place(i) + 1 \in 1..Len(data)
      BY <1>2, <2>1
    <3> QED BY <1>3, <2>1, <3>1
  <2>2. CASE ~(i \in Segment(p) /\ place(i) < Len(data))
    BY <1>3, <2>2
  <2> QED BY <2>1, <2>2
<1>6. ASSUME off_e[p] = 0, Len(data) > 0
      PROVE  Stored(p, data)[index[p]] = data[1]
  <2>1. place(index[p]) = 0 /\ 0 + 1 = 1
    BY <1>4, <1>6
  <2> QED BY <1>1, <1>3, <1>6, <2>1
<1> QED BY <1>3, <1>5, <1>6

\* What a write to port p does to the memory.
LEMMA MemoryWrite ==
  ASSUME RingTypeOK, MemoryInv, NEW p \in Port, ready[p], NEW data, Len(data) \in Nat,
         Write(p, data), UNCHANGED configVars, DOMAIN buffer' = DOMAIN buffer
  PROVE  /\ MemoryInv'
         /\ \A i \in DOMAIN pool :
              \/ pool'[i] = pool[i]
              \/ i \in Segment(p) /\ \E k \in 1..Len(data) : pool'[i] = data[k]
         /\ \A q \in Port : ready[q] /\ q # p => pool'[index[q]] = pool[index[q]]
<1>1. \/ pool' = pool /\ empty' = empty
      \/ pool' = Stored(p, data) /\ empty' = [empty EXCEPT ![p] = FALSE]
  BY DEF Write, ringVars
<1>2. /\ DOMAIN pool' = DOMAIN pool
      /\ \A i \in DOMAIN pool :
           \/ pool'[i] = pool[i]
           \/ i \in Segment(p) /\ \E k \in 1..Len(data) : pool'[i] = data[k]
  BY <1>1, StoredFacts
<1>3. /\ Segment(p) \subseteq DOMAIN pool
      /\ \A i \in DOMAIN pool : i >= PoolSize - available => i \notin Segment(p)
      /\ \A q \in Port : ready[q] /\ q # p => index[q] \notin Segment(p)
  BY SegmentFacts
<1>4. \A i \in DOMAIN pool : i >= PoolSize - available => pool'[i] = None
  BY <1>2, <1>3 DEF MemoryInv
<1>5. \A q \in Port : ~empty'[q] => ready[q]
  BY <1>1 DEF MemoryInv, RingTypeOK
<1>6. UNCHANGED <<index, available, ready>>
  BY DEF configVars
<1>7. MemoryInv'
  BY <1>2, <1>4, <1>5, <1>6 DEF MemoryInv
<1>8. ASSUME NEW q \in Port, ready[q], q # p
      PROVE  pool'[index[q]] = pool[index[q]]
  <2>1. index[q] \in DOMAIN pool /\ index[q] \notin Segment(p)
    BY <1>3, <1>8, SegmentFacts
  <2> QED BY <1>2, <2>1
<1> QED BY <1>2, <1>7, <1>8

\* A step that keeps the cells of pok_queue.
LEMMA MemoryStays ==
  ASSUME MemoryInv, UNCHANGED <<configVars, pool>>, DOMAIN buffer' = DOMAIN buffer,
         \A p \in Port : ~empty'[p] => ~empty[p]
  PROVE  MemoryInv'
BY DEF MemoryInv, configVars

-----------------------------------------------------------------------------
\* The steps.  No sample is on its way while the processor is free, or while
\* the flush that has it looks for a port.
Idle == \A f \in Flush : \A q \in Port : Carries(f, q) => Kind[q] = "QUEUEING"

LEMMA IdleUnlessCarried ==
  ASSUME CarryInv, \/ kernel = "free"
                   \/ kernel \in Flush /\ flushes[kernel].at \notin {"dests", "mark"}
  PROVE  Idle
<1> SUFFICES ASSUME NEW f \in Flush, NEW q \in Port, Carries(f, q), Kind[q] # "QUEUEING"
             PROVE  FALSE
  BY DEF Idle
<1>1. kernel = f
  BY PortFacts DEF CarryInv
<1> QED BY <1>1, PortAssumption DEF Carries

\* Without a sample on its way no destination has that of a port to be flushed.
LEMMA IdleFacts ==
  ASSUME NewInv, Idle, NEW q \in Port, NEW d \in Port,
         Kind[d] = "SAMPLING", Direction[d] = "IN", ready[d],
         Kind[q] = "SAMPLING", must_be_flushed[q]
  PROVE  pool[index[d]] # <<q, sent[q]>>
BY DEF NewInv, Idle

LEMMA CellsAreWritten ==
  ASSUME NEW a, NEW b
  PROVE  <<a, b>> # None
<1>1. Len(<<a, b>>) = 2 /\ Len(None) = 0
  BY DEF None
<1> QED BY <1>1

\* A step that writes nothing, while no sample is on its way.
LEMMA FreshAside ==
  ASSUME FreshInv, Idle,
         UNCHANGED <<configVars, pool, buffer, sent, must_be_flushed, last_receive, since>>,
         \A p \in Port : ~empty'[p] => ~empty[p],
         \A p \in Port : Kind[p] = "SAMPLING" => off_b'[p] = off_b[p] /\ off_e'[p] = off_e[p],
         now' \in Nat, DOMAIN got' = Port, ValidIsFresh',
         \A f \in Flush : \A q \in Port : Carries(f, q)' => flushes'[f] = flushes[f]
  PROVE  FreshInv'
<1>0. UNCHANGED <<ready, index>>
  BY DEF configVars
<1>1. MemoryInv'
  BY MemoryStays DEF FreshInv
<1>2. MessageInv'
  BY DEF FreshInv, MessageInv, IsAmong
<1>3. CarryInv'
  <2> SUFFICES ASSUME NEW f \in Flush, NEW q \in Port, Carries(f, q)'
               PROVE  /\ Kind[q] # "SAMPLING"
                      /\ flushes'[f].at = "dests" =>
                           /\ flushes'[f].len \in 1..PoolSize
                           /\ \A i \in DOMAIN flushes'[f].dests :
                                Kind[flushes'[f].dests[i]] = Kind[q]
    BY DEF CarryInv
  <2>1. flushes'[f] = flushes[f] /\ Carries(f, q)
    BY DEF Carries
  <2> QED BY <2>1 DEF FreshInv, CarryInv, Idle
<1>4. SampleInv'
  BY <1>0 DEF FreshInv, SampleInv
<1>5. NewInv'
  <2> SUFFICES ASSUME NEW q \in Port, NEW d \in Port,
                      Kind[d] = "SAMPLING", Direction[d] = "IN", ready'[d],
                      Kind[q] = "SAMPLING", must_be_flushed'[q]
               PROVE  pool'[index'[d]] # <<q, sent'[q]>>
    BY DEF NewInv
  <2> QED BY <1>0, IdleFacts DEF FreshInv
<1> QED BY <1>1, <1>2, <1>3, <1>4, <1>5 DEF FreshInv

\* A new port has a part of pok_queue that nobody wrote.
LEMMA CreateFresh ==
  ASSUME RingTypeOK, FreshInv, NEW p \in Port, Create(p)
  PROVE  FreshInv'
<1>1. /\ ~ready[p] /\ Size[p] <= available /\ kernel = "free"
      /\ ready' = [ready EXCEPT ![p] = TRUE]
      /\ index' = [index EXCEPT ![p] = PoolSize - available]
      /\ available' = available - Size[p]
      /\ off_b' = [off_b EXCEPT ![p] = 0] /\ off_e' = [off_e EXCEPT ![p] = 0]
      /\ UNCHANGED <<empty, last_receive, pool, since, must_be_flushed, flushes, buffer,
                     kernel, now, sent, got>>
  BY DEF Create, flushVars, historyVars
<1>2. /\ Size[p] \in Nat \ {0} /\ PoolSize \in Nat /\ available \in 0..PoolSize
      /\ index \in [Port -> Nat] /\ DOMAIN ready = Port
  BY PortFacts, PortAssumption DEF FreshInv, MemoryInv, RingTypeOK
<1>3. \A q \in Port : q # p => ready'[q] = ready[q] /\ index'[q] = index[q]
  BY <1>1, <1>2
<1>4. index'[p] = PoolSize - available /\ index'[p] \in DOMAIN pool /\ pool[index'[p]] = None
  <2>1. PoolSize - available \in 0 .. PoolSize - 1 /\ PoolSize - available >= PoolSize - available
    BY <1>1, <1>2
  <2>2. index'[p] = PoolSize - available
    BY <1>1, <1>2
  <2> QED BY <2>1, <2>2 DEF FreshInv, MemoryInv
<1>5. MemoryInv'
  <2>1. index' \in [Port -> Nat] /\ available' \in 0..PoolSize
    BY <1>1, <1>2
  <2>2. ASSUME NEW q \in Port, ready'[q]
        PROVE  index'[q] + Size[q] <= PoolSize - available'
    <3>1. CASE q = p
      BY <1>1, <1>2, <3>1
    <3>2. CASE q # p
      <4>1. index'[q] = index[q] /\ index[q] + Size[q] <= PoolSize - available
        BY <1>3, <2>2, <3>2 DEF FreshInv, MemoryInv
      <4>2. index[q] \in Nat /\ Size[q] \in Nat
        BY <1>2, PortFacts
      <4> QED BY <1>1, <1>2, <4>1, <4>2
    <3> QED BY <3>1, <3>2
  <2>3. ASSUME NEW q \in Port, ready'[q], q # p
        PROVE  index'[q] + Size[q] <= index'[p]
    BY <1>1, <1>2, <1>3, <2>3 DEF FreshInv, MemoryInv
  <2>4. ASSUME NEW q \in Port, NEW r \in Port, ready'[q], ready'[r], q # r
        PROVE  index'[q] + Size[q] <= index'[r] \/ index'[r] + Size[r] <= index'[q]
    <3>1. CASE q = p \/ r = p
      BY <2>3, <2>4, <3>1
    <3>2. CASE q # p /\ r # p
      BY <1>3, <2>4, <3>2 DEF FreshInv, MemoryInv
    <3> QED BY <3>1, <3>2
  <2>5. \A q \in Port : ~empty'[q] => ready'[q]
    BY <1>1, <1>2 DEF FreshInv, MemoryInv
  <2>6. ASSUME NEW i \in DOMAIN pool', i >= PoolSize - available'
        PROVE  pool'[i] = None
    <3>1. i \in 0 .. PoolSize - 1 /\ i >= PoolSize - available
      BY <1>1, <1>2, <2>6 DEF FreshInv, MemoryInv
    <3> QED BY <1>1, <3>1 DEF FreshInv, MemoryInv
  <2>7. DOMAIN pool' = 0 .. PoolSize - 1 /\ DOMAIN buffer' = 1..PoolSize
    BY <1>1 DEF FreshInv, MemoryInv
  <2> QED BY <2>1, <2>2, <2>4, <2>5, <2>6, <2>7 DEF MemoryInv
<1>6. MessageInv' /\ CarryInv'
  BY <1>1 DEF FreshInv, MessageInv, IsAmong, CarryInv, Carries
<1>7. SampleInv'
  <2>1. /\ now' \in Nat /\ last_receive' \in [Port -> Nat] /\ DOMAIN since' = Port
        /\ DOMAIN got' = Port
    BY <1>1 DEF FreshInv, SampleInv
  <2>2. ASSUME NEW q \in Port, Kind[q] = "SAMPLING"
        PROVE  /\ off_b'[q] = 0 /\ off_e'[q] = 0
               /\ Direction[q] = "IN" => since'[q] = last_receive'[q]
    BY <1>1, <2>2 DEF FreshInv, SampleInv, RingTypeOK
  <2>3. ASSUME NEW q \in Port, Kind[q] = "SAMPLING", Direction[q] = "OUT", ~empty'[q]
        PROVE  pool'[index'[q]] = <<q, sent'[q]>>
    <3>1. q # p
      BY <1>1, <2>3 DEF FreshInv, MemoryInv
    <3> QED BY <1>1, <1>3, <2>3, <3>1 DEF FreshInv, SampleInv
  <2> QED BY <2>1, <2>2, <2>3 DEF SampleInv
<1>8. NewInv'
  <2>1. Idle
    BY <1>1, IdleUnlessCarried DEF FreshInv
  <2> SUFFICES ASSUME NEW q \in Port, NEW d \in Port,
                      Kind[d] = "SAMPLING", Direction[d] = "IN", ready'[d],
                      Kind[q] = "SAMPLING", must_be_flushed'[q]
               PROVE  pool'[index'[d]] # <<q, sent'[q]>>
    BY DEF NewInv
  <2>2. CASE d = p
    BY <1>1, <1>4, <2>2, CellsAreWritten
  <2>3. CASE d # p
    BY <1>1, <1>3, <2>1, <2>3, IdleFacts DEF FreshInv
  <2> QED BY <2>2, <2>3
<1>9. ValidIsFresh'
  BY <1>1 DEF FreshInv, ValidIsFresh
<1> QED BY <1>5, <1>6, <1>7, <1>8, <1>9 DEF FreshInv

\* The cells of a message were sent once it is written.
LEMMA FreshCells ==
  ASSUME MessageInv, NEW p \in Port, NEW len \in Nat \ {0},
         sent' = [sent EXCEPT ![p] = sent[p] + IF Kind[p] = "QUEUEING" THEN len ELSE 1]
  PROVE  /\ sent' \in [Port -> Nat] /\ \A q \in Port : sent[q] <= sent'[q]
         /\ \A q \in Port : q # p => sent'[q] = sent[q]
         /\ sent'[p] > sent[p] /\ \A c : IsAmong(c, sent) => IsAmong(c, sent')
         /\ \A k \in 1..len : IsAmong(Fresh(p, len)[k], sent')
         /\ Kind[p] = "SAMPLING" => Fresh(p, len)[1] = <<p, sent'[p]>>
<1>1. sent \in [Port -> Nat] /\ sent[p] \in Nat
  BY DEF MessageInv
<1>2. /\ sent' \in [Port -> Nat] /\ \A q \in Port : q # p => sent'[q] = sent[q]
      /\ sent'[p] = IF Kind[p] = "QUEUEING" THEN sent[p] + len ELSE sent[p] + 1
      /\ sent'[p] \in Nat /\ sent'[p] > sent[p]
  BY <1>1
<1>3. \A q \in Port : sent[q] <= sent'[q] /\ sent[q] \in Nat /\ sent'[q] \in Nat
  BY <1>1, <1>2
<1>4. ASSUME NEW c, IsAmong(c, sent)
      PROVE  IsAmong(c, sent')
  <2>1. CASE c = None
    BY <2>1 DEF IsAmong
  <2>2. CASE \E q \in Port : \E n \in 1..sent[q] : c = <<q, n>>
    <3>1. PICK q \in Port : \E n \in 1..sent[q] : c = <<q, n>>
      BY <2>2
    <3>2. PICK n \in 1..sent[q] : c = <<q, n>>
      BY <3>1
    <3>3. n \in 1..sent'[q]
      BY <1>3
    <3> QED BY <3>2, <3>3 DEF IsAmong
  <2> QED BY <1>4, <2>1, <2>2 DEF IsAmong
<1>5. ASSUME NEW k \in 1..len
      PROVE  IsAmong(Fresh(p, len)[k], sent')
  <2> DEFINE n == IF Kind[p] = "QUEUEING" THEN sent[p] + k ELSE sent[p] + 1
  <2>1. Fresh(p, len)[k] = <<p, n>>
    BY DEF Fresh
  <2>2. n \in 1..sent'[p]
    BY <1>1, <1>2
  <2>3. \E i \in 1..sent'[p] : <<p, n>> = <<p, i>>
    BY <2>2
  <2> HIDE DEF n
  <2>4. IsAmong(<<p, n>>, sent')
    BY <2>3 DEF IsAmong
  <2> QED BY <2>1, <2>4
<1>6. Kind[p] = "SAMPLING" => Fresh(p, len)[1] = <<p, sent'[p]>>
  BY <1>2 DEF Fresh
<1> QED BY <1>2, <1>3, <1>4, <1>5, <1>6

\* What a write to port p does to the fields of the sampling ports.
LEMMA SampleFields ==
  ASSUME RingTypeOK, SampleInv, NEW p \in Port, NEW data, Write(p, data)
  PROVE  /\ last_receive' \in [Port -> Nat] /\ DOMAIN since' = Port
         /\ \A q \in Port : q # p => /\ last_receive'[q] = last_receive[q]
                                     /\ since'[q] = since[q] /\ empty'[q] = empty[q]
         /\ \A q \in Port : Kind[q] = "SAMPLING" => off_b'[q] = 0 /\ off_e'[q] = 0
         /\ Kind[p] = "SAMPLING" /\ Len(data) <= Size[p] =>
              /\ pool' = Stored(p, data) /\ last_receive'[p] = now
              /\ since'[p] = IF pool' = pool THEN since[p] ELSE now
         /\ Kind[p] = "SAMPLING" /\ ~(Len(data) <= Size[p]) => UNCHANGED ringVars
<1>1. CASE Kind[p] = "SAMPLING" /\ Len(data) <= Size[p]
  BY <1>1 DEF Write, Accepts, SampleInv, RingTypeOK
<1>2. CASE UNCHANGED ringVars /\ ~(Kind[p] = "SAMPLING" /\ Len(data) <= Size[p])
  BY <1>2 DEF ringVars, SampleInv
<1>3. CASE Kind[p] = "QUEUEING" /\ Accepts(p, Len(data))
  <2>1. /\ UNCHANGED <<off_b, last_receive, since>>
        /\ \A q \in Port : q # p => off_e'[q] = off_e[q] /\ empty'[q] = empty[q]
    BY <1>3 DEF Write, RingTypeOK
  <2> QED BY <1>3, <2>1 DEF SampleInv
<1> QED BY <1>1, <1>2, <1>3, PortFacts DEF Write, Accepts

\* A program writes into a port.
LEMMA PutFresh ==
  ASSUME RingTypeOK, FreshInv, NEW p \in Port, NEW len \in 1..Size[p],
         kernel = "free", ready[p], Direction[p] = "OUT",
         Put(p, len), UNCHANGED <<configVars, flushVars, kernel, now>>
  PROVE  FreshInv'
<1> DEFINE data == Fresh(p, len)
<1>0. /\ len \in Nat \ {0} /\ Len(data) = len /\ len <= Size[p] /\ Direction[p] # "IN"
      /\ UNCHANGED <<index, ready, flushes, buffer, got>> /\ Write(p, data)
      /\ must_be_flushed' = [must_be_flushed EXCEPT ![p] = TRUE]
      /\ sent' = [sent EXCEPT ![p] = sent[p] + IF Kind[p] = "QUEUEING" THEN len ELSE 1]
      /\ DOMAIN must_be_flushed = Port
  <2>1. len \in Nat \ {0} /\ len <= Size[p]
    BY PortFacts
  <2> QED BY <2>1, FreshLength DEF Put, configVars, flushVars, FreshInv, MessageInv
<1>1. /\ sent' \in [Port -> Nat] /\ \A q \in Port : q # p => sent'[q] = sent[q]
      /\ sent'[p] > sent[p] /\ \A c : IsAmong(c, sent) => IsAmong(c, sent')
      /\ \A k \in 1..len : IsAmong(data[k], sent')
      /\ Kind[p] = "SAMPLING" => data[1] = <<p, sent'[p]>>
  BY <1>0, FreshCells DEF FreshInv
<1> HIDE DEF data
<1>2. /\ MemoryInv'
      /\ \A i \in DOMAIN pool : \/ pool'[i] = pool[i]
                                \/ i \in Segment(p) /\ \E k \in 1..len : pool'[i] = data[k]
      /\ \A q \in Port : ready[q] /\ q # p => pool'[index[q]] = pool[index[q]]
  BY <1>0, MemoryWrite DEF FreshInv
<1>3. /\ last_receive' \in [Port -> Nat] /\ DOMAIN since' = Port
      /\ \A q \in Port : q # p => /\ last_receive'[q] = last_receive[q]
                                  /\ since'[q] = since[q] /\ empty'[q] = empty[q]
      /\ \A q \in Port : Kind[q] = "SAMPLING" => off_b'[q] = 0 /\ off_e'[q] = 0
      /\ Kind[p] = "SAMPLING" => pool' = Stored(p, data)
  BY <1>0, SampleFields DEF FreshInv
<1>4. MessageInv'
  <2>1. \A i \in DOMAIN pool' : IsAmong(pool'[i], sent')
    <3>1. DOMAIN pool' = DOMAIN pool
      BY <1>2 DEF FreshInv, MemoryInv
    <3> QED BY <1>1, <1>2, <3>1 DEF FreshInv, MessageInv
  <2>2. \A i \in DOMAIN buffer' : IsAmong(buffer'[i], sent')
    BY <1>0, <1>1 DEF FreshInv, MessageInv
  <2> QED BY <1>0, <1>1, <2>1, <2>2 DEF MessageInv
<1>5. Idle
  BY IdleUnlessCarried DEF FreshInv
<1>6. CarryInv'
  <2> SUFFICES ASSUME NEW f \in Flush, NEW q \in Port, Carries(f, q)'
               PROVE  /\ Kind[q] # "SAMPLING"
                      /\ flushes'[f].at = "dests" =>
                           /\ flushes'[f].len \in 1..PoolSize
                           /\ \A i \in DOMAIN flushes'[f].dests :
                                Kind[flushes'[f].dests[i]] = Kind[q]
    BY DEF CarryInv
  <2>1. flushes'[f] = flushes[f] /\ Carries(f, q)
    BY <1>0 DEF Carries
  <2> QED BY <1>5, <2>1 DEF FreshInv, CarryInv, Idle
<1>7. SampleInv'
  <2>1. ASSUME NEW q \in Port, Kind[q] = "SAMPLING", Direction[q] = "IN"
        PROVE  since'[q] = last_receive'[q]
    <3>1. q # p
      BY <1>0, <2>1
    <3> QED BY <1>3, <2>1, <3>1 DEF FreshInv, SampleInv
  <2>2. ASSUME NEW q \in Port, Kind[q] = "SAMPLING", Direction[q] = "OUT", ~empty'[q]
        PROVE  pool'[index'[q]] = <<q, sent'[q]>>
    <3>1. CASE q = p
      <4>1. off_e[p] = 0
        BY <2>2, <3>1 DEF FreshInv, SampleInv
      <4>2. Stored(p, data)[index[p]] = data[1]
        <5>1. MemoryInv /\ Len(data) \in Nat /\ Len(data) > 0
          BY <1>0 DEF FreshInv
        <5> QED BY <4>1, <5>1, StoredFacts
      <4>3. index'[q] = index[p] /\ pool' = Stored(p, data) /\ data[1] = <<p, sent'[p]>>
        BY <1>0, <1>1, <1>3, <2>2, <3>1
      <4> QED BY <3>1, <4>2, <4>3
    <3>2. CASE q # p
      <4>1. ~empty[q]
        BY <1>3, <2>2, <3>2
      <4>2. ready[q]
        BY <4>1 DEF FreshInv, MemoryInv
      <4> QED BY <1>0, <1>1, <1>2, <2>2, <3>2, <4>1, <4>2 DEF FreshInv, SampleInv
    <3> QED BY <3>1, <3>2
  <2> QED BY <1>0, <1>3, <2>1, <2>2 DEF FreshInv, SampleInv
<1>8. NewInv'
  <2> SUFFICES ASSUME NEW q \in Port, NEW d \in Port,
                      Kind[d] = "SAMPLING", Direction[d] = "IN", ready'[d],
                      Kind[q] = "SAMPLING", must_be_flushed'[q]
               PROVE  pool'[index'[d]] # <<q, sent'[q]>>
    BY DEF NewInv
  <2>1. d # p /\ ready[d] /\ pool'[index'[d]] = pool[index[d]]
    BY <1>0, <1>2
  <2>2. CASE q = p
    <3>1. index[d] \in DOMAIN pool
      BY <2>1, SegmentFacts DEF FreshInv
    <3>2. IsAmong(pool[index[d]], sent)
      BY <3>1 DEF FreshInv, MessageInv
    <3>3. ASSUME NEW r \in Port, NEW n \in 1..sent[r], <<r, n>> = <<p, sent'[p]>>
          PROVE  FALSE
      <4>1. r = p /\ n = sent'[p] /\ sent[p] \in Nat
        BY <3>3 DEF FreshInv, MessageInv
      <4> QED BY <1>1, <4>1
    <3> QED BY <2>1, <2>2, <3>2, <3>3, CellsAreWritten DEF IsAmong
  <2>3. CASE q # p
    <3>1. must_be_flushed[q] /\ sent'[q] = sent[q]
      BY <1>0, <1>1, <2>3
    <3> QED BY <1>5, <2>1, <3>1, IdleFacts DEF FreshInv
  <2> QED BY <2>2, <2>3
<1>9. ValidIsFresh'
  BY <1>0 DEF FreshInv, ValidIsFresh
<1> QED BY <1>2, <1>4, <1>6, <1>7, <1>8, <1>9 DEF FreshInv

\* No flush is left because of a sampling port.
LEMMA NobodyToWake ==
  ASSUME SleepInv, NEW p \in Port, Kind[p] = "SAMPLING", Broadcast(p)
  PROVE  kernel' = kernel
<1>1. \A t \in Thread : ~(PortOf[t] = p /\ pc[t] = "wait")
  BY DEF SleepInv, Waiting
<1> QED BY <1>1 DEF Broadcast

LEMMA ConsumedSome ==
  ASSUME RingTypeOK, MemoryInv, NEW p \in Port, ~empty[p]
  PROVE  /\ ConsumedSize(p) \in 1..PoolSize /\ ready[p]
         /\ off_b[p] = 0 /\ off_e[p] = 0 => ConsumedSize(p) = Size[p]
<1>1. ready[p]
  BY DEF MemoryInv
<1>2. Size[p] \in Nat \ {0} /\ Size[p] <= PoolSize /\ PoolSize \in Nat
  BY <1>1, SegmentFacts
<1>3. off_b[p] \in Nat /\ off_e[p] \in Nat /\ off_b[p] < Size[p] /\ off_e[p] < Size[p]
  BY DEF RingTypeOK
<1> QED BY <1>1, <1>2, <1>3 DEF ConsumedSize

\* What the first cells of a port are.
LEMMA ContentsCells ==
  ASSUME RingTypeOK, MemoryInv, MessageInv, NEW p \in Port, ready[p], NEW len \in Nat \ {0}
  PROVE  /\ \A i \in 1..len : IsAmong(Contents(p, len)[i], sent)
         /\ off_b[p] = 0 => Contents(p, len)[1] = pool[index[p]]
<1>1. ASSUME NEW i \in 1..len
      PROVE  IsAmong(Contents(p, len)[i], sent)
  <2> DEFINE k == index[p] + ((off_b[p] + i - 1) % Size[p])
  <2>1. off_b[p] + i - 1 \in Int
    BY DEF RingTypeOK
  <2>2. k \in DOMAIN pool
    BY <2>1, SegmentFacts
  <2>3. Contents(p, len)[i] = pool[k]
    BY DEF Contents
  <2> QED BY <2>2, <2>3 DEF MessageInv
<1>2. ASSUME off_b[p] = 0
      PROVE  Contents(p, len)[1] = pool[index[p]]
  <2>1. off_b[p] + 1 - 1 = 0 /\ 0 % Size[p] = 0 /\ index[p] \in Nat
    BY <1>2, PortFacts, ModFacts, SegmentFacts
  <2>2. Contents(p, len)[1] = pool[index[p] + ((off_b[p] + 1 - 1) % Size[p])]
    BY DEF Contents
  <2>3. index[p] + 0 = index[p]
    BY <2>1
  <2> QED BY <2>1, <2>2, <2>3
<1> QED BY <1>1, <1>2

\* Queueing ports are connected to queueing ports, and sampling ports to
\* sampling ports.
SameKind == \A p \in Port : \A i \in DOMAIN Destinations[p] : Kind[Destinations[p][i]] = Kind[p]

LEMMA FlushTakeFresh ==
  ASSUME SameKind, RingTypeOK, FreshInv, NEW f \in Flush, FlushTake(f)
  PROVE  FreshInv'
<1> DEFINE p == Head(flushes[f].ports)
           len == ConsumedSize(p)
<1>0. /\ kernel = f /\ flushes[f].at = "ports" /\ p \in Port /\ DOMAIN flushes = Flush
      /\ UNCHANGED <<configVars, must_be_flushed, kernel, now, sent, got>>
      /\ flushes[f] \in FlushState
  <2>1. flushes[f].ports \in Seq(Port) /\ flushes[f].ports # <<>>
    BY FlushFields DEF FlushTake
  <2> QED BY <2>1 DEF FlushTake, historyVars, RingTypeOK
<1>1. Idle
  BY <1>0, IdleUnlessCarried DEF FreshInv
<1>2. \A g \in Flush : g # f => flushes'[g] = flushes[g]
  BY <1>0 DEF FlushTake
<1>3. now' \in Nat /\ DOMAIN got' = Port /\ ValidIsFresh'
  BY <1>0 DEF FreshInv, SampleInv, ValidIsFresh
<1>4. CASE ~ToFlush(p)
  <2>1. /\ flushes' = [flushes EXCEPT ![f] = [flushes[f] EXCEPT !.ports = Tail(flushes[f].ports)]]
        /\ UNCHANGED <<ringVars, buffer>>
    BY <1>4 DEF FlushTake
  <2>2. flushes'[f].at = "ports"
    BY <1>0, <2>1 DEF FlushState
  <2>3. \A g \in Flush : \A q \in Port : Carries(g, q)' => flushes'[g] = flushes[g]
    BY <1>2, <2>2 DEF Carries
  <2> QED BY <1>0, <1>1, <1>3, <2>1, <2>3, FreshAside DEF ringVars
<1>5. CASE ToFlush(p)
  <2> DEFINE s == [flushes[f] EXCEPT !.at = "dests", !.dests = Destinations[p], !.len = len]
  <2>1. /\ ~empty[p] /\ must_be_flushed[p] /\ Direction[p] = "OUT" /\ Get(p, len)
        /\ flushes' = [flushes EXCEPT ![f] = s]
        /\ buffer' = [i \in DOMAIN buffer |-> IF i <= len THEN Contents(p, len)[i] ELSE buffer[i]]
        /\ UNCHANGED <<pool, last_receive, since>>
    BY <1>5 DEF FlushTake, ToFlush, Get
  <2>2. len \in 1..PoolSize /\ ready[p] /\ len \in Nat \ {0} /\ PoolSize \in Nat
    BY <1>0, <2>1, ConsumedSome, PortAssumption DEF FreshInv
  <2>3. /\ \A i \in 1..len : IsAmong(Contents(p, len)[i], sent)
        /\ off_b[p] = 0 => Contents(p, len)[1] = pool[index[p]]
    BY <1>0, <2>2, ContentsCells DEF FreshInv
  <2>4. /\ flushes'[f].at = "dests" /\ flushes'[f].ports = flushes[f].ports
        /\ flushes'[f].dests = Destinations[p] /\ flushes'[f].len = len
    BY <1>0, <2>1 DEF FlushState
  <2> HIDE DEF len, p, s
  <2>5. /\ \A q \in Port : ~empty'[q] => ~empty[q]
        /\ \A q \in Port : Kind[q] = "SAMPLING" => off_b'[q] = off_b[q] /\ off_e'[q] = off_e[q]
    <3>1. CASE Kind[p] = "QUEUEING"
      <4>1. off_e' = off_e /\ \A q \in Port : q # p => off_b'[q] = off_b[q] /\ empty'[q] = empty[q]
        BY <1>0, <2>1, <3>1 DEF Get, RingTypeOK
      <4> QED BY <2>1, <3>1, <4>1
    <3>2. CASE Kind[p] # "QUEUEING"
      BY <2>1, <3>2 DEF Get
    <3> QED BY <3>1, <3>2
  <2>6. MemoryInv'
    BY <1>0, <2>1, <2>5, MemoryStays DEF FreshInv
  <2>7. MessageInv'
    <3>1. ASSUME NEW i \in DOMAIN buffer'
          PROVE  IsAmong(buffer'[i], sent')
      <4>1. i \in DOMAIN buffer /\ DOMAIN buffer = 1..PoolSize
        BY <2>1 DEF FreshInv, MemoryInv
      <4>2. CASE i <= len
        <5>1. i \in 1..len /\ buffer'[i] = Contents(p, len)[i]
          BY <2>1, <2>2, <4>1, <4>2
        <5> QED BY <1>0, <2>3, <5>1
      <4>3. CASE ~(i <= len)
        BY <1>0, <2>1, <4>1, <4>3 DEF FreshInv, MessageInv
      <4> QED BY <4>2, <4>3
    <3> QED BY <1>0, <2>1, <3>1 DEF FreshInv, MessageInv
  <2>8. CarryInv'
    <3> SUFFICES ASSUME NEW g \in Flush, NEW q \in Port, Carries(g, q)'
                 PROVE  /\ Kind[q] = "SAMPLING" =>
                             /\ kernel' = g /\ must_be_flushed'[q]
                             /\ flushes'[g].at = "dests" => buffer'[1] = <<q, sent'[q]>>
                        /\ flushes'[g].at = "dests" =>
                             /\ flushes'[g].len \in 1..PoolSize
                             /\ \A i \in DOMAIN flushes'[g].dests :
                                  Kind[flushes'[g].dests[i]] = Kind[q]
      BY DEF CarryInv
    <3>1. CASE g = f
      <4>1. q = p
        BY <2>4, <3>1 DEF Carries, p
      <4>2. ASSUME Kind[p] = "SAMPLING"
            PROVE  buffer'[1] = <<p, sent'[p]>>
        <5>1. off_b[p] = 0 /\ pool[index[p]] = <<p, sent[p]>>
          BY <1>0, <2>1, <4>2 DEF FreshInv, SampleInv
        <5>2. 1 \in DOMAIN buffer /\ 1 <= len
          BY <2>2 DEF FreshInv, MemoryInv
        <5>3. buffer'[1] = Contents(p, len)[1]
          BY <2>1, <5>2
        <5> QED BY <1>0, <2>3, <5>1, <5>3
      <4>3. \A i \in DOMAIN Destinations[p] : Kind[Destinations[p][i]] = Kind[p]
        BY <1>0 DEF SameKind
      <4> QED BY <1>0, <2>1, <2>2, <2>4, <3>1, <4>1, <4>2, <4>3
    <3>2. CASE g # f
      <4>1. flushes'[g] = flushes[g] /\ Carries(g, q)
        BY <1>2, <3>2 DEF Carries
      <4> QED BY <1>1, <4>1 DEF FreshInv, CarryInv, Idle
    <3> QED BY <3>1, <3>2
  <2>9. UNCHANGED <<index, ready>>
    BY <1>0 DEF configVars
  <2>10. SampleInv'
    BY <1>0, <2>1, <2>5, <2>9 DEF FreshInv, SampleInv
  <2>11. NewInv'
    <3> SUFFICES ASSUME NEW q \in Port, NEW d \in Port,
                        Kind[d] = "SAMPLING", Direction[d] = "IN", ready'[d],
                        Kind[q] = "SAMPLING", must_be_flushed'[q]
                 PROVE  pool'[index'[d]] # <<q, sent'[q]>>
      BY DEF NewInv
    <3> QED BY <1>0, <1>1, <2>1, <2>9, IdleFacts DEF FreshInv
  <2> QED BY <1>3, <2>6, <2>7, <2>8, <2>10, <2>11 DEF FreshInv
<1> QED BY <1>4, <1>5

LEMMA FlushWriteFresh ==
  ASSUME RingTypeOK, SleepInv, FreshInv, NEW f \in Flush, FlushWrite(f)
  PROVE  FreshInv'
<1> DEFINE o == Head(flushes[f].ports)
           d == Head(flushes[f].dests)
           data == SubSeq(buffer, 1, flushes[f].len)
<1>0. /\ kernel = f /\ flushes[f].at = "dests" /\ DOMAIN flushes = Flush
      /\ d \in Port /\ Direction[d] = "IN" /\ o \in Port
      /\ UNCHANGED <<configVars, must_be_flushed, buffer, now, sent, got>>
      /\ flushes' = [flushes EXCEPT ![f] = [flushes[f] EXCEPT !.dests = Tail(flushes[f].dests)]]
      /\ flushes[f].dests # <<>> /\ flushes[f] \in FlushState
  <2>1. /\ flushes[f].dests \in Seq({p \in Port : Direction[p] = "IN"}) /\ flushes[f].dests # <<>>
        /\ flushes[f].ports \in Seq(Port) /\ flushes[f].at = "dests"
    BY FlushFields DEF FlushWrite
  <2>2. flushes[f].ports # <<>>
    BY <2>1 DEF RingTypeOK
  <2>3. d \in Port /\ Direction[d] = "IN" /\ o \in Port
    BY ONLY <2>1, <2>2
  <2>4. DOMAIN flushes = Flush /\ flushes[f] \in FlushState
    BY DEF RingTypeOK
  <2>5. /\ kernel = f
        /\ UNCHANGED <<configVars, must_be_flushed, buffer, now, sent, got>>
        /\ flushes' = [flushes EXCEPT ![f] = [flushes[f] EXCEPT !.dests = Tail(flushes[f].dests)]]
    BY DEF FlushWrite, historyVars
  <2> QED BY <2>1, <2>3, <2>4, <2>5
<1>1. /\ Carries(f, o) /\ flushes[f].len \in 1..PoolSize /\ Kind[d] = Kind[o]
      /\ \A i \in DOMAIN flushes[f].dests : Kind[flushes[f].dests[i]] = Kind[o]
      /\ Kind[o] = "SAMPLING" => must_be_flushed[o] /\ buffer[1] = <<o, sent[o]>>
  <2>1. Carries(f, o)
    BY <1>0 DEF Carries
  <2>2. /\ flushes[f].len \in 1..PoolSize
        /\ \A i \in DOMAIN flushes[f].dests : Kind[flushes[f].dests[i]] = Kind[o]
        /\ Kind[o] = "SAMPLING" => must_be_flushed[o] /\ buffer[1] = <<o, sent[o]>>
    BY <1>0, <2>1 DEF FreshInv, CarryInv
  <2>3. 1 \in DOMAIN flushes[f].dests /\ d = flushes[f].dests[1]
    BY <1>0 DEF FlushState
  <2> QED BY <2>1, <2>2, <2>3
<1>2. /\ Len(data) = flushes[f].len /\ Len(data) \in Nat /\ Len(data) > 0
      /\ \A k \in 1..Len(data) : data[k] = buffer[k] /\ k \in DOMAIN buffer
  <2>1. DOMAIN buffer = 1..PoolSize /\ PoolSize \in Nat /\ flushes[f].len \in 1..PoolSize
    BY <1>1, PortAssumption DEF FreshInv, MemoryInv
  <2> QED BY <2>1
<1>3. /\ \A g \in Flush : g # f => flushes'[g] = flushes[g]
      /\ flushes'[f].at = "dests" /\ flushes'[f].ports = flushes[f].ports
      /\ flushes'[f].len = flushes[f].len /\ flushes'[f].dests = Tail(flushes[f].dests)
  BY <1>0 DEF FlushState
<1>4. ready[d] => Write(d, data) /\ Broadcast(d)
  BY DEF FlushWrite
<1>5. ~ready[d] => UNCHANGED <<ringVars, kernel>>
  BY DEF FlushWrite
<1> HIDE DEF d, data, o
<1>6. \A g \in Flush : \A q \in Port : Carries(g, q)' <=> Carries(g, q)
  BY <1>0, <1>3 DEF Carries
<1>7. UNCHANGED <<index, ready>>
  BY <1>0 DEF configVars
<1>8. /\ MemoryInv'
      /\ \A i \in DOMAIN pool : pool'[i] = pool[i] \/ \E k \in 1..Len(data) : pool'[i] = data[k]
      /\ \A q \in Port : ready[q] /\ q # d => pool'[index[q]] = pool[index[q]]
  <2>1. CASE ready[d]
    BY <1>0, <1>2, <1>4, <2>1, MemoryWrite DEF FreshInv
  <2>2. CASE ~ready[d]
    BY <1>0, <1>5, <2>2, MemoryStays DEF FreshInv, ringVars
  <2> QED BY <2>1, <2>2
<1>9. MessageInv'
  <2>1. ASSUME NEW i \in DOMAIN pool'
        PROVE  IsAmong(pool'[i], sent')
    <3>1. i \in DOMAIN pool
      BY <1>8 DEF FreshInv, MemoryInv
    <3> QED BY <1>0, <1>2, <1>8, <3>1 DEF FreshInv, MessageInv
  <2> QED BY <1>0, <2>1 DEF FreshInv, MessageInv
<1>10. Kind[o] = "SAMPLING" => kernel' = kernel
  BY <1>0, <1>1, <1>4, <1>5, NobodyToWake
<1>11. CarryInv'
  <2> SUFFICES ASSUME NEW g \in Flush, NEW q \in Port, Carries(g, q)'
               PROVE  /\ Kind[q] = "SAMPLING" =>
                           /\ kernel' = g /\ must_be_flushed'[q]
                           /\ flushes'[g].at = "dests" => buffer'[1] = <<q, sent'[q]>>
                      /\ flushes'[g].at = "dests" =>
                           /\ flushes'[g].len \in 1..PoolSize
                           /\ \A i \in DOMAIN flushes'[g].dests :
                                Kind[flushes'[g].dests[i]] = Kind[q]
    BY DEF CarryInv
  <2>1. Carries(g, q)
    BY <1>6
  <2>2. CASE g = f
    <3>1. q = o
      BY <2>1, <2>2 DEF Carries, o
    <3>2. \A i \in DOMAIN flushes'[f].dests : Kind[flushes'[f].dests[i]] = Kind[o]
      <4>1. flushes[f].dests \in Seq(Port)
        BY <1>0 DEF FlushState
      <4> QED BY <1>0, <1>1, <1>3, <4>1
    <3> QED BY <1>0, <1>1, <1>3, <1>10, <2>2, <3>1, <3>2
  <2>3. CASE g # f
    <3>1. Kind[q] # "SAMPLING"
      BY <1>0, <2>1, <2>3 DEF FreshInv, CarryInv
    <3> QED BY <1>3, <2>1, <2>3, <3>1 DEF FreshInv, CarryInv
  <2> QED BY <2>2, <2>3
<1>12. \/ UNCHANGED <<pool, since, last_receive>>
       \/ /\ Kind[d] = "SAMPLING" => pool'[index[d]] = <<o, sent[o]>> /\ since'[d] = now /\ last_receive'[d] = now
          /\ ready[d]
  <2>1. CASE Kind[d] = "SAMPLING" /\ ready[d] /\ Len(data) <= Size[d]
    <3>1. /\ pool' = Stored(d, data) /\ last_receive'[d] = now
          /\ since'[d] = IF pool' = pool THEN since[d] ELSE now
      BY <1>0, <1>4, <2>1, SampleFields DEF FreshInv
    <3>2. pool'[index[d]] = <<o, sent[o]>>
      <4>1. off_e[d] = 0
        BY <1>0, <2>1 DEF FreshInv, SampleInv
      <4>2. Stored(d, data)[index[d]] = data[1]
        <5>1. MemoryInv
          BY DEF FreshInv
        <5> QED BY <1>0, <1>2, <2>1, <4>1, <5>1, StoredFacts
      <4>3. data[1] = buffer[1]
        <5>1. 1 \in 1..Len(data)
          BY <1>2
        <5> QED BY <1>2, <5>1
      <4> QED BY <1>1, <2>1, <3>1, <4>2, <4>3
    <3>3. pool' = pool => since[d] = now
      BY <1>0, <1>1, <2>1, <3>2 DEF FreshInv, NewInv
    <3> QED BY <2>1, <3>1, <3>2, <3>3
  <2>2. CASE Kind[d] = "SAMPLING" /\ ready[d] /\ ~(Len(data) <= Size[d])
    BY <1>0, <1>4, <2>2, SampleFields DEF FreshInv, ringVars
  <2>3. CASE ~ready[d]
    BY <1>5, <2>3 DEF ringVars
  <2> QED BY <2>1, <2>2, <2>3
<1>13. /\ last_receive' \in [Port -> Nat] /\ DOMAIN since' = Port
       /\ \A q \in Port : q # d => /\ last_receive'[q] = last_receive[q]
                                   /\ since'[q] = since[q] /\ empty'[q] = empty[q]
       /\ \A q \in Port : Kind[q] = "SAMPLING" => off_b'[q] = 0 /\ off_e'[q] = 0
  <2>1. CASE ready[d]
    BY <1>0, <1>4, <2>1, SampleFields DEF FreshInv
  <2>2. CASE ~ready[d]
    BY <1>5, <2>2 DEF FreshInv, SampleInv, ringVars
  <2> QED BY <2>1, <2>2
<1>14. SampleInv'
  <2>1. ASSUME NEW q \in Port, Kind[q] = "SAMPLING", Direction[q] = "IN"
        PROVE  since'[q] = last_receive'[q]
    BY <1>12, <1>13, <2>1 DEF FreshInv, SampleInv
  <2>2. ASSUME NEW q \in Port, Kind[q] = "SAMPLING", Direction[q] = "OUT", ~empty'[q]
        PROVE  pool'[index'[q]] = <<q, sent'[q]>>
    <3>1. q # d
      BY <1>0, <2>2
    <3>2. ~empty[q]
      BY <1>13, <2>2, <3>1
    <3>3. ready[q]
      BY <3>2 DEF FreshInv, MemoryInv
    <3> QED BY <1>0, <1>7, <1>8, <2>2, <3>1, <3>2, <3>3 DEF FreshInv, SampleInv
  <2> QED BY <1>0, <1>13, <2>1, <2>2 DEF FreshInv, SampleInv
<1>15. NewInv'
  <2> SUFFICES ASSUME NEW q \in Port, NEW e \in Port,
                      Kind[e] = "SAMPLING", Direction[e] = "IN", ready'[e],
                      Kind[q] = "SAMPLING", must_be_flushed'[q],
                      pool'[index'[e]] = <<q, sent'[q]>>
               PROVE  since'[e] = now' /\ \E g \in Flush : Carries(g, q)'
    BY DEF NewInv
  <2>1. CASE pool'[index[e]] = pool[index[e]] /\ since'[e] = since[e]
    <3>1. since[e] = now /\ \E g \in Flush : Carries(g, q)
      BY <1>0, <1>7, <2>1 DEF FreshInv, NewInv
    <3> QED BY <1>0, <1>6, <2>1, <3>1
  <2>2. CASE e = d /\ pool'[index[d]] = <<o, sent[o]>> /\ since'[d] = now
    <3>1. q = o
      BY <1>0, <1>7, <2>2
    <3> QED BY <1>0, <1>1, <1>6, <2>2, <3>1
  <2>3. e # d => pool'[index[e]] = pool[index[e]] /\ since'[e] = since[e]
    BY <1>7, <1>8, <1>13
  <2> QED BY <1>12, <2>1, <2>2, <2>3
<1>16. ValidIsFresh'
  BY <1>0 DEF FreshInv, ValidIsFresh
<1> QED BY <1>8, <1>9, <1>11, <1>14, <1>15, <1>16 DEF FreshInv

LEMMA FlushRoomFresh ==
  ASSUME RingTypeOK, SleepInv, FreshInv, NEW f \in Flush, FlushRoom(f)
  PROVE  FreshInv'
<1> DEFINE o == Head(flushes[f].ports)
<1>0. /\ kernel = f /\ flushes[f].at = "dests" /\ o \in Port
      /\ flushes[f] \in FlushState /\ DOMAIN flushes = Flush
      /\ flushes' = [flushes EXCEPT ![f] = [flushes[f] EXCEPT !.at = "mark"]] /\ Broadcast(o)
      /\ UNCHANGED <<configVars, ringVars, must_be_flushed, buffer, now, sent, got>>
  <2>1. flushes[f].ports \in Seq(Port) /\ flushes[f].at = "dests"
    BY FlushFields DEF FlushRoom
  <2>2. flushes[f].ports # <<>>
    BY <2>1 DEF RingTypeOK
  <2> QED BY <2>1, <2>2 DEF FlushRoom, historyVars, RingTypeOK
<1>1. /\ \A g \in Flush : g # f => flushes'[g] = flushes[g]
      /\ flushes'[f].at = "mark" /\ flushes'[f].ports = flushes[f].ports
  BY <1>0 DEF FlushState
<1>2. \A g \in Flush : \A q \in Port : Carries(g, q)' <=> Carries(g, q)
  BY <1>0, <1>1 DEF Carries
<1>3. Kind[o] = "SAMPLING" => kernel' = kernel
  BY <1>0, NobodyToWake
<1>4. CarryInv'
  <2> SUFFICES ASSUME NEW g \in Flush, NEW q \in Port, Carries(g, q)'
               PROVE  /\ Kind[q] = "SAMPLING" =>
                           /\ kernel' = g /\ must_be_flushed'[q]
                           /\ flushes'[g].at = "dests" => buffer'[1] = <<q, sent'[q]>>
                      /\ flushes'[g].at = "dests" =>
                           /\ flushes'[g].len \in 1..PoolSize
                           /\ \A i \in DOMAIN flushes'[g].dests :
                                Kind[flushes'[g].dests[i]] = Kind[q]
    BY DEF CarryInv
  <2>1. Carries(g, q)
    BY <1>2
  <2>2. CASE g = f
    <3>1. q = o
      BY <2>1, <2>2 DEF Carries
    <3>2. Kind[q] = "SAMPLING" => kernel = f /\ must_be_flushed[q]
      BY <2>1, <2>2 DEF FreshInv, CarryInv
    <3> QED BY <1>0, <1>1, <1>3, <2>2, <3>1, <3>2
  <2>3. CASE g # f
    <3>1. Kind[q] # "SAMPLING"
      BY <1>0, <2>1, <2>3 DEF FreshInv, CarryInv
    <3> QED BY <1>1, <2>1, <2>3, <3>1 DEF FreshInv, CarryInv
  <2> QED BY <2>2, <2>3
<1>5. UNCHANGED <<index, ready, pool, since, last_receive, empty, off_b, off_e>>
  BY <1>0 DEF configVars, ringVars
<1>6. MemoryInv' /\ MessageInv' /\ ValidIsFresh'
  BY <1>0, <1>5, MemoryStays DEF FreshInv, MessageInv, ValidIsFresh
<1>7. SampleInv'
  BY <1>0, <1>5 DEF FreshInv, SampleInv
<1>8. NewInv'
  BY <1>0, <1>2, <1>5 DEF FreshInv, NewInv
<1> QED BY <1>4, <1>6, <1>7, <1>8 DEF FreshInv

LEMMA FlushUnmarkFresh ==
  ASSUME RingTypeOK, FreshInv, NEW f \in Flush, FlushUnmark(f)
  PROVE  FreshInv'
<1> DEFINE o == Head(flushes[f].ports)
           s == [NoFlush EXCEPT !.at = "ports", !.ports = Tail(flushes[f].ports)]
<1>0. /\ kernel = f /\ flushes[f].at = "mark" /\ DOMAIN flushes = Flush
      /\ must_be_flushed' = [must_be_flushed EXCEPT ![o] = FALSE]
      /\ flushes' = [flushes EXCEPT ![f] = s] /\ s.at = "ports"
      /\ UNCHANGED <<configVars, ringVars, buffer, kernel, now, sent, got>>
  BY DEF FlushUnmark, historyVars, RingTypeOK, NoFlush
<1> HIDE DEF s
<1>1. \A g \in Flush : \A q \in Port : Carries(g, q)' => g # f /\ Carries(g, q) /\ flushes'[g] = flushes[g]
  BY <1>0 DEF Carries
<1>2. \A q \in Port : must_be_flushed'[q] => q # o /\ must_be_flushed[q]
  BY <1>0 DEF FreshInv, MessageInv
<1>3. UNCHANGED <<index, ready, pool, since, last_receive, empty, off_b, off_e>>
  BY <1>0 DEF configVars, ringVars
<1>4. MemoryInv' /\ MessageInv' /\ ValidIsFresh'
  BY <1>0, <1>3, MemoryStays DEF FreshInv, MessageInv, ValidIsFresh
<1>5. SampleInv'
  BY <1>0, <1>3 DEF FreshInv, SampleInv
<1>6. CarryInv'
  <2> SUFFICES ASSUME NEW g \in Flush, NEW q \in Port, Carries(g, q)'
               PROVE  /\ Kind[q] # "SAMPLING"
                      /\ flushes'[g].at = "dests" =>
                           /\ flushes'[g].len \in 1..PoolSize
                           /\ \A i \in DOMAIN flushes'[g].dests :
                                Kind[flushes'[g].dests[i]] = Kind[q]
    BY DEF CarryInv
  <2>1. g # f /\ Carries(g, q) /\ flushes'[g] = flushes[g]
    BY <1>1
  <2> QED BY <1>0, <2>1 DEF FreshInv, CarryInv
<1>7. NewInv'
  <2> SUFFICES ASSUME NEW q \in Port, NEW e \in Port,
                      Kind[e] = "SAMPLING", Direction[e] = "IN", ready'[e],
                      Kind[q] = "SAMPLING", must_be_flushed'[q],
                      pool'[index'[e]] = <<q, sent'[q]>>
               PROVE  since'[e] = now' /\ \E g \in Flush : Carries(g, q)'
    BY DEF NewInv
  <2>1. since[e] = now /\ \E g \in Flush : Carries(g, q)
    BY <1>0, <1>2, <1>3 DEF FreshInv, NewInv
  <2>2. PICK g \in Flush : Carries(g, q)
    BY <2>1
  <2>3. g # f
    BY <1>2, <2>2 DEF Carries
  <2>4. Carries(g, q)'
    BY <1>0, <2>2, <2>3 DEF Carries
  <2> QED BY <1>0, <1>3, <2>1, <2>4
<1> QED BY <1>4, <1>5, <1>6, <1>7 DEF FreshInv

\* A program reads a port: what is valid is as young as the port says.
LEMMA GetFresh ==
  ASSUME RingTypeOK, FreshInv, NEW p \in Port, NEW len \in Nat, kernel = "free", ~empty[p],
         Get(p, len), NEW cells, NEW valid \in BOOLEAN, Obtain(p, cells, valid),
         valid => /\ Kind[p] = "SAMPLING" /\ Direction[p] = "IN"
                  /\ last_receive[p] + Refresh[p] >= now,
         UNCHANGED <<configVars, must_be_flushed, flushVars, kernel, now>>
  PROVE  FreshInv'
<1>1. Idle
  BY IdleUnlessCarried DEF FreshInv
<1>2. /\ UNCHANGED <<buffer, flushes, pool, last_receive, since, sent>>
      /\ got' = [got EXCEPT ![p] = [cells |-> cells, valid |-> valid,
                                    age |-> IF valid THEN now - since[p] ELSE 0]]
  BY DEF Get, Obtain, flushVars
<1>3. DOMAIN got' = Port /\ now' \in Nat
  BY <1>2 DEF FreshInv, SampleInv
<1>4. ValidIsFresh'
  <2> SUFFICES ASSUME NEW q \in Port, got'[q].valid
               PROVE  got'[q].age <= Refresh[q]
    BY DEF ValidIsFresh
  <2>1. CASE q # p
    <3>1. got'[q] = got[q]
      BY <1>2, <2>1
    <3> QED BY <3>1 DEF FreshInv, ValidIsFresh
  <2>2. CASE q = p
    <3>1. got'[p].valid = valid /\ got'[p].age = IF valid THEN now - since[p] ELSE 0
      BY <1>2 DEF FreshInv, SampleInv
    <3>2. /\ valid /\ since[p] = last_receive[p] /\ last_receive[p] + Refresh[p] >= now
          /\ last_receive[p] \in Nat /\ now \in Nat /\ Refresh[p] \in Nat
      BY <2>2, <3>1, PortAssumption DEF FreshInv, SampleInv
    <3> QED BY <2>2, <3>1, <3>2
  <2> QED BY <2>1, <2>2
<1>5. /\ \A q \in Port : ~empty'[q] => ~empty[q]
      /\ \A q \in Port : Kind[q] = "SAMPLING" => off_b'[q] = off_b[q] /\ off_e'[q] = off_e[q]
  <2>1. CASE Kind[p] = "QUEUEING"
    <3>1. off_e' = off_e /\ \A q \in Port : q # p => off_b'[q] = off_b[q] /\ empty'[q] = empty[q]
      BY <2>1 DEF Get, RingTypeOK
    <3> QED BY <2>1, <3>1
  <2>2. CASE Kind[p] # "QUEUEING"
    BY <2>2 DEF Get
  <2> QED BY <2>1, <2>2
<1> QED BY <1>1, <1>2, <1>3, <1>4, <1>5, FreshAside

\* A step that touches no port, made while the processor is free.
LEMMA FreshStays ==
  ASSUME FreshInv, Idle,
         UNCHANGED <<configVars, ringVars, must_be_flushed, buffer, historyVars>>,
         now' = now \/ now' = now + 1,
         \A f \in Flush : \A q \in Port : Carries(f, q)' => flushes'[f] = flushes[f]
  PROVE  FreshInv'
<1>1. now' \in Nat /\ DOMAIN got' = Port /\ ValidIsFresh'
  BY DEF FreshInv, SampleInv, ValidIsFresh, historyVars
<1> QED BY <1>1, FreshAside DEF ringVars, historyVars

LEMMA TryFresh ==
  ASSUME RingTypeOK, FreshInv, NEW t \in Thread, NEW r, kernel = "free",
         ready[PortOf[t]], Kind[PortOf[t]] = "QUEUEING",
         UNCHANGED <<configVars, flushVars, kernel, now>>
  PROVE  /\ Direction[PortOf[t]] = "OUT" /\ r.len \in 1..Size[PortOf[t]] /\ TrySend(t, r) => FreshInv'
         /\ Direction[PortOf[t]] = "IN" /\ r.len \in Nat /\ TryReceive(t, r) => FreshInv'
         /\ UNCHANGED <<ringVars, must_be_flushed, historyVars>> => FreshInv'
<1> DEFINE p == PortOf[t]
<1>0. p \in Port
  BY PortAssumption
<1>1. ASSUME UNCHANGED <<ringVars, must_be_flushed, historyVars>>
      PROVE  FreshInv'
  BY <1>1, IdleUnlessCarried, FreshStays DEF FreshInv, flushVars
<1>2. ASSUME Direction[p] = "OUT", r.len \in 1..Size[p], TrySend(t, r)
      PROVE  FreshInv'
  <2>1. CASE Put(p, r.len)
    BY <1>0, <1>2, <2>1, PutFresh
  <2> QED BY <1>1, <1>2, <2>1 DEF TrySend, Sleep
<1>3. ASSUME Direction[p] = "IN", r.len \in Nat, TryReceive(t, r)
      PROVE  FreshInv'
  <2> DEFINE rlen == IF r.len > ConsumedSize(p) THEN ConsumedSize(p) ELSE r.len
  <2>1. CASE ~empty[p]
    <3>1. /\ Get(p, rlen) /\ Obtain(p, Contents(p, rlen), FALSE) /\ UNCHANGED must_be_flushed
      BY <1>3, <2>1 DEF TryReceive
    <3>2. rlen \in Nat
      BY <1>0, <1>3, ConsumedFacts, PortFacts
    <3> HIDE DEF rlen
    <3>3. FALSE \in BOOLEAN
      OBVIOUS
    <3> QED BY <1>0, <2>1, <3>1, <3>2, <3>3, GetFresh
  <2>2. CASE empty[p]
    BY <1>1, <1>3, <2>2 DEF TryReceive, Sleep
  <2> QED BY <2>1, <2>2
<1> QED BY <1>1, <1>2, <1>3

LEMMA CallFresh ==
  ASSUME RingTypeOK, SleepInv, FreshInv, NEW t \in Thread,
         Send(t) \/ SendAgain(t) \/ Receive(t) \/ ReceiveAgain(t)
  PROVE  FreshInv'
<1>0. UNCHANGED <<configVars, flushVars, kernel, now>> /\ PortOf[t] \in Port /\ kernel = "free"
  BY PortAssumption DEF Send, SendAgain, Receive, ReceiveAgain, Calls, WakesUp
<1>1. CASE Send(t)
  <2>1. PICK len \in Lengths, d \in Timeouts :
          len <= Size[PortOf[t]] /\ TrySend(t, [len |-> len, timeout |-> Absolute(d)])
    BY <1>1 DEF Send
  <2>2. len \in 1..Size[PortOf[t]]
    BY <1>0, <2>1, PortAssumption, PortFacts
  <2>3. Direction[PortOf[t]] = "OUT" /\ Kind[PortOf[t]] = "QUEUEING" /\ ready[PortOf[t]]
    BY <1>1 DEF Send, Calls
  <2> DEFINE r == [len |-> len, timeout |-> Absolute(d)]
  <2>4. r.len \in 1..Size[PortOf[t]] /\ TrySend(t, r)
    BY <2>1, <2>2
  <2> QED BY <1>0, <2>3, <2>4, TryFresh
<1>2. CASE Receive(t)
  <2>1. PICK len \in Lengths, d \in Timeouts :
          TryReceive(t, [len |-> len, timeout |-> Absolute(d)])
    BY <1>2 DEF Receive
  <2>2. Direction[PortOf[t]] = "IN" /\ Kind[PortOf[t]] = "QUEUEING" /\ ready[PortOf[t]]
    BY <1>2 DEF Receive, Calls
  <2> DEFINE r == [len |-> len, timeout |-> Absolute(d)]
  <2>3. r.len \in Nat /\ TryReceive(t, r)
    BY <2>1, PortAssumption
  <2> QED BY <1>0, <2>2, <2>3, TryFresh
<1>3. ASSUME SendAgain(t) \/ ReceiveAgain(t)
      PROVE  /\ Kind[PortOf[t]] = "QUEUEING" /\ ready[PortOf[t]] /\ request[t].len \in Nat
             /\ request[t].len \in 1..Size[PortOf[t]] \/ Direction[PortOf[t]] = "IN"
  BY <1>3 DEF SendAgain, ReceiveAgain, WakesUp, SleepInv, Waiting, RingTypeOK
<1>4. CASE SendAgain(t)
  <2>1. /\ Direction[PortOf[t]] = "OUT"
        /\ UNCHANGED <<ringVars, must_be_flushed, historyVars>> \/ TrySend(t, request[t])
    BY <1>4 DEF SendAgain, WakesUp
  <2> QED BY <1>0, <1>3, <1>4, <2>1, TryFresh
<1>5. CASE ReceiveAgain(t)
  <2>1. /\ Direction[PortOf[t]] = "IN"
        /\ UNCHANGED <<ringVars, must_be_flushed, historyVars>> \/ TryReceive(t, request[t])
    BY <1>5 DEF ReceiveAgain, WakesUp
  <2> QED BY <1>0, <1>3, <1>5, <2>1, TryFresh
<1> QED BY <1>1, <1>2, <1>4, <1>5

LEMMA SamplingFresh ==
  ASSUME RingTypeOK, FreshInv, NEW t \in Thread, SamplingWrite(t) \/ SamplingRead(t)
  PROVE  FreshInv'
<1> DEFINE p == PortOf[t]
<1>0. /\ p \in Port /\ Size[p] \in 1..Size[p] /\ Size[p] \in Nat
      /\ UNCHANGED <<configVars, flushVars, kernel, now>> /\ kernel = "free" /\ ready[p]
  <2>1. p \in Port
    BY PortAssumption
  <2>2. Size[p] \in Nat \ {0}
    BY <2>1, PortFacts
  <2> QED BY <2>1, <2>2 DEF SamplingWrite, SamplingRead, Calls
<1>1. CASE SamplingWrite(t)
  <2>1. Put(p, Size[p]) /\ Direction[p] = "OUT"
    BY <1>1 DEF SamplingWrite, Calls
  <2> QED BY <1>0, <2>1, PutFresh
<1>2. CASE SamplingRead(t)
  <2> DEFINE valid == last_receive[p] + Refresh[p] >= now
  <2>1. /\ ~empty[p] /\ Get(p, Size[p]) /\ Obtain(p, Contents(p, Size[p]), valid)
        /\ Kind[p] = "SAMPLING" /\ Direction[p] = "IN" /\ UNCHANGED must_be_flushed
    BY <1>2 DEF SamplingRead, Calls
  <2>2. valid \in BOOLEAN /\ (valid => last_receive[p] + Refresh[p] >= now)
    OBVIOUS
  <2> HIDE DEF valid
  <2> QED BY <1>0, <2>1, <2>2, GetFresh
<1> QED BY <1>1, <1>2

LEMMA FlushFresh ==
  ASSUME SameKind, RingTypeOK, SleepInv, FreshInv, NEW f \in Flush,
         \/ FlushStart(f) \/ FlushResume(f) \/ FlushTake(f) \/ FlushWrite(f)
         \/ FlushRoom(f) \/ FlushUnmark(f) \/ FlushEnd(f)
  PROVE  FreshInv'
<1>0. DOMAIN flushes = Flush
  BY DEF RingTypeOK
<1>1. CASE FlushStart(f)
  <2>1. PICK o \in FlushOrders :
          flushes' = [flushes EXCEPT ![f] = [NoFlush EXCEPT !.at = "ports", !.ports = o]]
    BY <1>1 DEF FlushStart
  <2>2. flushes'[f].at = "ports"
    BY <1>0, <2>1 DEF NoFlush
  <2>3. \A g \in Flush : \A q \in Port : Carries(g, q)' => flushes'[g] = flushes[g]
    BY <1>0, <2>1, <2>2 DEF Carries
  <2>4. Idle
    BY <1>1, IdleUnlessCarried DEF FlushStart, FreshInv
  <2> QED BY <1>1, <2>3, <2>4, FreshStays DEF FlushStart
<1>2. CASE FlushResume(f)
  <2>1. Idle
    BY <1>2, IdleUnlessCarried DEF FlushResume, FreshInv
  <2> QED BY <1>2, <2>1, FreshStays DEF FlushResume, flushVars
<1>3. CASE FlushEnd(f)
  <2>1. kernel = f /\ flushes[f].at = "ports" /\ flushes' = [flushes EXCEPT ![f] = NoFlush]
    BY <1>3 DEF FlushEnd
  <2>2. Idle
    BY <2>1, IdleUnlessCarried DEF FreshInv
  <2>3. \A g \in Flush : \A q \in Port : Carries(g, q)' => flushes'[g] = flushes[g]
    <3>1. NoFlush.at \notin {"dests", "mark"}
      BY DEF NoFlush
    <3> QED BY <1>0, <2>1, <3>1 DEF Carries
  <2> QED BY <1>3, <2>2, <2>3, FreshStays DEF FlushEnd
<1> QED BY <1>1, <1>2, <1>3, FlushTakeFresh, FlushWriteFresh, FlushRoomFresh, FlushUnmarkFresh

LEMMA FreshStep ==
  ASSUME SameKind, RingTypeOK, SleepInv, FreshInv, [Next]_vars
  PROVE  FreshInv'
<1>1. CASE Tick
  <2>1. Idle
    BY <1>1, IdleUnlessCarried DEF Tick, FreshInv
  <2> QED BY <1>1, <2>1, FreshStays DEF Tick, flushVars
<1>2. CASE UNCHANGED vars
  BY <1>2 DEF vars, configVars, ringVars, flushVars, historyVars, FreshInv, MemoryInv,
     MessageInv, CarryInv, Carries, SampleInv, NewInv, ValidIsFresh
<1> QED BY <1>1, <1>2, CreateFresh, CallFresh, SamplingFresh, FlushFresh DEF Next

LEMMA FreshStart == Init => FreshInv
<1> SUFFICES ASSUME Init
             PROVE  FreshInv
  OBVIOUS
<1>1. PoolSize \in Nat
  BY PortAssumption
<1>2. MemoryInv /\ MessageInv
  BY <1>1 DEF Init, MemoryInv, MessageInv, IsAmong
<1>3. CarryInv /\ SampleInv /\ NewInv
  BY DEF Init, CarryInv, Carries, NoFlush, SampleInv, NewInv
<1>4. ValidIsFresh
  BY DEF Init, ValidIsFresh, Nothing
<1> QED BY <1>2, <1>3, <1>4 DEF FreshInv

\* What a sampling read says is valid came at most a refresh period ago, if
\* ports are connected to ports of their kind: no flush delivers a sample a
\* second time, whatever interrupts it (the mark of pok_port_flush against
\* pok_port_sampling_read).
THEOREM ValidAlwaysFresh == ASSUME SameKind PROVE Spec => []ValidIsFresh
<1> DEFINE Inv == RingTypeOK /\ SleepInv /\ FreshInv
<1>1. Init => Inv
  BY SleepStart, FreshStart
<1>2. Inv /\ [Next]_vars => Inv'
  BY SleepStep, FreshStep
<1>3. Inv => ValidIsFresh
  BY DEF FreshInv
<1> QED BY <1>1, <1>2, <1>3, PTL DEF Spec

-----------------------------------------------------------------------------
\* The order of what is read.  Each IN port has one source, each queueing port
\* one destination, and connected sampling ports hold as much.  With a second
\* destination of a queueing port, a flush that was left when it woke a reader
\* of the first may find another message in the one buffer, or a later one of
\* the same port delivered there before it goes on.
Connected ==
  /\ SameKind
  /\ \A d \in Port : \A p, q \in Sources(d) : p = q
  /\ \A p \in Port :
       /\ Direction[p] = "IN" => Destinations[p] = <<>>
       /\ Kind[p] = "QUEUEING" => Len(Destinations[p]) <= 1
       /\ Kind[p] = "SAMPLING" =>
            \A i \in DOMAIN Destinations[p] : Size[Destinations[p][i]] = Size[p]

\* The cells of a ring by their distance from its beginning.
At(p, i) == pool[index[p] + ((off_b[p] + i) % Size[p])]
Used(p) == 0 .. ConsumedSize(p) - 1

\* The ports whose cells a port holds.
Origins(p) == IF Direction[p] = "OUT" THEN {p} ELSE Sources(p)

RingOrdered(p) ==
  /\ empty[p] => off_b[p] = off_e[p]
  /\ ~empty[p] /\ ~full[p] => off_b[p] # off_e[p]
  /\ \A i \in Used(p) : At(p, i) \in Origins(p) \X Nat
  /\ \A i, j \in Used(p) : i < j => At(p, i)[2] < At(p, j)[2]

RingsInv == \A p \in Port : Kind[p] = "QUEUEING" => RingOrdered(p)

InGot(d) == {got[d].cells[i][2] : i \in DOMAIN got[d].cells}
InRing(p) == {At(p, i)[2] : i \in Used(p)}
Precedes(A, B) == \A x \in A : \A y \in B : x < y

\* What was read from d, what is in its ring, and what is in the ring of its
\* source q come in this order.
LineOrdered(q, d) ==
  /\ Precedes(InGot(d), InRing(d))
  /\ Precedes(InGot(d), InRing(q))
  /\ Precedes(InRing(d), InRing(q))

LinesInv ==
  \A d \in Port : \A q \in Sources(d) :
    Kind[d] = "QUEUEING" /\ Direction[d] = "IN" /\ Direction[q] = "OUT" => LineOrdered(q, d)

\* So does what a flush carries from q to d.  It is not left before it is
\* written there.
BufferOrdered(f, q, d) ==
  /\ kernel = f /\ empty[q] /\ Direction[q] = "OUT" /\ q \in Sources(d)
  /\ Len(flushes[f].dests) = 1
  /\ \A i \in 1..flushes[f].len :
       /\ buffer[i] \in {q} \X Nat
       /\ \A j \in 1 .. i - 1 : buffer[j][2] < buffer[i][2]
       /\ Precedes(InGot(d) \cup InRing(d), {buffer[i][2]})

Loaded(f, q) ==
  /\ Carries(f, q) /\ Kind[q] = "QUEUEING"
  /\ flushes[f].at = "dests" /\ flushes[f].dests # <<>>

CarriedInv ==
  \A f \in Flush : \A q \in Port :
    Loaded(f, q) => BufferOrdered(f, q, Head(flushes[f].dests))

GotInv ==
  \A p \in Port : LET c == got[p].cells IN
    /\ c # <<>> => Direction[p] = "IN"
    /\ c \in Seq(Port \X Nat) /\ Len(c) \in Nat /\ DOMAIN c = 1..Len(c)
    /\ \A i \in DOMAIN c : c[i] \in Sources(p) \X Nat /\ c[i][2] <= sent[c[i][1]]
    /\ Kind[p] = "QUEUEING" => \A i \in 2..Len(c) : c[i][2] > c[i - 1][2]

\* A sampling port holds one sample in all its cells, no older than the last
\* one read, and so does what a flush carries from one.
HoldsOne(p) ==
  ~empty[p] => /\ pool[index[p]] \in Origins(p) \X Nat
               /\ \A i \in Segment(p) : pool[i] = pool[index[p]]

ReadBehind(p) ==
  got[p].cells # <<>> =>
    /\ ~empty[p] /\ Len(got[p].cells) = Size[p]
    /\ \A i \in 1..Size[p] : got[p].cells[i] = got[p].cells[1]
    /\ got[p].cells[1][2] <= pool[index[p]][2]

CarriesOne(f, q) ==
  Carries(f, q) /\ flushes[f].at = "dests" /\ Kind[q] = "SAMPLING" =>
    /\ flushes[f].len = Size[q]
    /\ \A i \in 1..Size[q] : buffer[i] = buffer[1]
    /\ \A i \in DOMAIN flushes[f].dests : q \in Sources(flushes[f].dests[i])

SamplesInv ==
  /\ \A p \in Port : Kind[p] = "SAMPLING" => HoldsOne(p) /\ ReadBehind(p)
  /\ \A f \in Flush : \A q \in Port : CarriesOne(f, q)

OrderInv == RingsInv /\ LinesInv /\ CarriedInv /\ GotInv /\ SamplesInv

\* An offset that has gone round once.
LEMMA RoundOnce ==
  ASSUME NEW s \in Nat \ {0}, NEW n \in Int, n < s + s, -s <= n
  PROVE  n % s = IF n < 0 THEN n + s ELSE IF n < s THEN n ELSE n - s
OBVIOUS

LEMMA RoundSum ==
  ASSUME NEW s \in Nat \ {0}, NEW x \in Nat, NEW y \in Nat, x < s, y <= s
  PROVE  (x + y) % s = IF x + y < s THEN x + y ELSE x + y - s
<1> DEFINE n == x + y
<1>1. n \in Int /\ n < s + s /\ -s <= n /\ ~(n < 0)
  OBVIOUS
<1> HIDE DEF n
<1>2. n % s = IF n < s THEN n ELSE n - s
  BY <1>1, RoundOnce
<1> QED BY <1>2 DEF n

\* A ring of s cells, the k used ones from b to e: how far cells are from e.
LEMMA FromEnd ==
  ASSUME NEW s \in Nat \ {0}, NEW b \in Nat, NEW k \in 0..s, NEW e \in Nat, b < s, e < s,
         e = IF b + k < s THEN b + k ELSE b + k - s,
         NEW i \in 0 .. s - 1
  PROVE  (((b + i) % s) - e) % s = IF k = s THEN i ELSE IF i < k THEN i + s - k ELSE i - k
<1>1. (b + i) % s = IF b + i < s THEN b + i ELSE b + i - s
  <2>1. i \in Nat /\ i <= s
    OBVIOUS
  <2> QED BY <2>1, RoundSum
<1> DEFINE n == ((b + i) % s) - e
<1>2. n = (IF b + i < s THEN b + i ELSE b + i - s) - e
  BY <1>1
<1>3. n \in Int /\ n < s + s /\ -s <= n
  BY <1>2
<1> HIDE DEF n
<1>4. n % s = IF n < 0 THEN n + s ELSE IF n < s THEN n ELSE n - s
  BY <1>3, RoundOnce
<1>5. n % s = IF k = s THEN i ELSE IF i < k THEN i + s - k ELSE i - k
  BY <1>2, <1>3, <1>4
<1> QED BY <1>5 DEF n

\* The end and the beginning after len cells went in and out.
LEMMA EndMoves ==
  ASSUME NEW s \in Nat \ {0}, NEW b \in Nat, NEW k \in 0..s, NEW e \in Nat, b < s, e < s,
         e = IF b + k < s THEN b + k ELSE b + k - s,
         NEW len \in 1..s
  PROVE  (e + len) % s = LET m == IF k + len <= s THEN k + len ELSE k + len - s
                         IN IF b + m < s THEN b + m ELSE b + m - s
<1>1. len \in Nat /\ len <= s
  OBVIOUS
<1>2. (e + len) % s = IF e + len < s THEN e + len ELSE e + len - s
  BY <1>1, RoundSum
<1> QED BY <1>2

LEMMA BeginningMoves ==
  ASSUME NEW s \in Nat \ {0}, NEW b \in Nat, NEW k \in 0..s, NEW e \in Nat, b < s, e < s,
         e = IF b + k < s THEN b + k ELSE b + k - s,
         NEW len \in 1..s, len <= k
  PROVE  LET c == (b + len) % s
         IN /\ c \in Nat /\ c < s
            /\ e = IF c + (k - len) < s THEN c + (k - len) ELSE c + (k - len) - s
            /\ \A i \in 0 .. s - 1 : i + len < s => (c + i) % s = (b + (i + len)) % s
<1> DEFINE c == (b + len) % s
<1>1. len \in Nat /\ len <= s
  OBVIOUS
<1>2. c = IF b + len < s THEN b + len ELSE b + len - s
  BY <1>1, RoundSum
<1>3. c \in Nat /\ c < s
  BY <1>2
<1> HIDE DEF c
<1>4. e = IF c + (k - len) < s THEN c + (k - len) ELSE c + (k - len) - s
  BY <1>2
<1>5. ASSUME NEW i \in 0 .. s - 1, i + len < s
      PROVE  (c + i) % s = (b + (i + len)) % s
  <2>1. i \in Nat /\ i <= s /\ i + len \in Nat /\ i + len <= s
    BY <1>5
  <2>2. (c + i) % s = IF c + i < s THEN c + i ELSE c + i - s
    BY <1>3, <2>1, RoundSum
  <2>3. (b + (i + len)) % s = IF b + (i + len) < s THEN b + (i + len) ELSE b + (i + len) - s
    BY <2>1, RoundSum
  <2> QED BY <1>2, <1>5, <2>2, <2>3
<1> QED BY <1>3, <1>4, <1>5 DEF c

LEMMA EndsFacts ==
  ASSUME RingTypeOK, NEW p \in Port, RingOrdered(p)
  PROVE  /\ Size[p] \in Nat \ {0} /\ off_b[p] \in Nat /\ off_e[p] \in Nat
         /\ off_b[p] < Size[p] /\ off_e[p] < Size[p]
         /\ ConsumedSize(p) \in 0..Size[p]
         /\ IF empty[p] THEN ConsumedSize(p) = 0 ELSE ConsumedSize(p) > 0
         /\ ~full[p] => ConsumedSize(p) < Size[p]
         /\ off_e[p] = IF off_b[p] + ConsumedSize(p) < Size[p] THEN off_b[p] + ConsumedSize(p)
                       ELSE off_b[p] + ConsumedSize(p) - Size[p]
<1>1. /\ off_b[p] \in Nat /\ off_e[p] \in Nat /\ Size[p] \in Nat \ {0}
      /\ off_b[p] < Size[p] /\ off_e[p] < Size[p]
  BY PortFacts DEF RingTypeOK
<1>2. /\ empty[p] => off_b[p] = off_e[p]
      /\ ~empty[p] /\ ~full[p] => off_b[p] # off_e[p]
  BY DEF RingOrdered
<1>3. CASE empty[p]
  BY <1>1, <1>2, <1>3 DEF ConsumedSize
<1>4. CASE ~empty[p]
  BY <1>1, <1>2, <1>4 DEF ConsumedSize
<1> QED BY <1>1, <1>3, <1>4

\* Where the cells of a ring are.
LEMMA AtFacts ==
  ASSUME RingTypeOK, MemoryInv, NEW p \in Port, ready[p], NEW i \in Nat
  PROVE  index[p] + ((off_b[p] + i) % Size[p]) \in Segment(p) \cap DOMAIN pool
<1>1. off_b[p] + i \in Int
  BY DEF RingTypeOK
<1> QED BY <1>1, SegmentFacts

\* A get takes the first cells; the others stay.
LEMMA GetOrdered ==
  ASSUME RingTypeOK, NEW p \in Port, Kind[p] = "QUEUEING", RingOrdered(p), ~empty[p],
         NEW len \in 1..ConsumedSize(p), Get(p, len), index' = index
  PROVE  /\ RingOrdered(p)'
         /\ \A i \in Used(p)' : i + len \in Used(p) /\ At(p, i)' = At(p, i + len)
         /\ \A i \in 1..len : i - 1 \in Used(p) /\ Contents(p, len)[i] = At(p, i - 1)
         /\ len = ConsumedSize(p) => empty'[p]
<1> DEFINE s == Size[p]
           b == off_b[p]
           e == off_e[p]
           k == ConsumedSize(p)
           c == (b + len) % s
<1>1. /\ s \in Nat \ {0} /\ b \in Nat /\ e \in Nat /\ b < s /\ e < s /\ k \in 0..s
      /\ e = IF b + k < s THEN b + k ELSE b + k - s
  BY EndsFacts
<1>2. /\ off_b' = [off_b EXCEPT ![p] = c] /\ off_e' = off_e /\ pool' = pool
      /\ empty' = [empty EXCEPT ![p] = (c = e)]
      /\ full' = [full EXCEPT ![p] = full[p] /\ c # e]
  BY DEF Get
<1>3. off_b'[p] = c /\ off_e'[p] = e /\ empty'[p] = (c = e)
  BY <1>2 DEF RingTypeOK
<1>4. len \in 1..s /\ len <= k
  BY <1>1
<1>5. /\ c \in Nat /\ c < s
      /\ e = IF c + (k - len) < s THEN c + (k - len) ELSE c + (k - len) - s
      /\ \A i \in 0 .. s - 1 : i + len < s => (c + i) % s = (b + (i + len)) % s
  <2> HIDE DEF s, b, e, k
  <2> QED BY <1>1, <1>4, BeginningMoves
<1>6. ConsumedSize(p)' = IF c = e THEN 0 ELSE IF c < e THEN e - c ELSE s - c + e
  BY <1>3 DEF ConsumedSize
<1> HIDE DEF s, b, e, k, c
<1>7. ConsumedSize(p)' = k - len
  BY <1>1, <1>4, <1>5, <1>6
<1>8. ASSUME NEW i \in Used(p)'
      PROVE  i + len \in Used(p) /\ At(p, i)' = At(p, i + len) /\ i \in Nat
  <2>1. i \in 0 .. k - len - 1
    BY <1>7, <1>8 DEF Used
  <2>2. i + len \in 0 .. k - 1 /\ i \in 0 .. s - 1 /\ i + len < s
    BY <1>1, <1>4, <2>1
  <2>3. (c + i) % s = (b + (i + len)) % s
    BY <1>5, <2>2
  <2>4. At(p, i)' = pool[index[p] + ((c + i) % s)]
    BY <1>2, <1>3 DEF At, s
  <2>5. At(p, i + len) = pool[index[p] + ((b + (i + len)) % s)]
    BY DEF At, b, s
  <2> QED BY <2>2, <2>3, <2>4, <2>5 DEF Used, k
<1>9. ASSUME NEW i \in 1..len
      PROVE  i - 1 \in Used(p) /\ Contents(p, len)[i] = At(p, i - 1)
  <2>1. i - 1 \in 0 .. k - 1
    BY <1>1, <1>4
  <2>2. b + i - 1 = b + (i - 1)
    BY <1>1
  <2>3. Contents(p, len)[i] = pool[index[p] + ((b + i - 1) % s)]
    BY DEF Contents, b, s
  <2>4. At(p, i - 1) = pool[index[p] + ((b + (i - 1)) % s)]
    BY DEF At, b, s
  <2> QED BY <2>1, <2>2, <2>3, <2>4 DEF Used, k
<1>10. ASSUME len = k
       PROVE  empty'[p]
  <2>1. c = e
    BY <1>1, <1>4, <1>5, <1>10
  <2> QED BY <1>3, <2>1
<1>11. RingOrdered(p)'
  <2>1. ASSUME NEW i \in Used(p)'
        PROVE  At(p, i)' \in Origins(p) \X Nat
    BY <1>8 DEF RingOrdered
  <2>2. ASSUME NEW i \in Used(p)', NEW j \in Used(p)', i < j
        PROVE  At(p, i)'[2] < At(p, j)'[2]
    <3>1. i + len < j + len
      BY <1>4, <1>8, <2>2
    <3> QED BY <1>8, <3>1 DEF RingOrdered
  <2>3. (empty'[p] => off_b'[p] = off_e'[p]) /\ (~empty'[p] => off_b'[p] # off_e'[p])
    BY <1>3
  <2>4. Origins(p)' = Origins(p)
    BY DEF Origins
  <2> QED BY <2>1, <2>2, <2>3, <2>4 DEF RingOrdered
<1> QED BY <1>8, <1>9, <1>10, <1>11 DEF k

\* A message of p's, later than all in its ring.
Follows(p, data) ==
  \A i \in 1..Len(data) : /\ data[i] \in Origins(p) \X Nat
                          /\ \A j \in 1 .. i - 1 : data[j][2] < data[i][2]
                          /\ Precedes(InRing(p), {data[i][2]})

\* A write into a ring that is not full: the new cells follow those it had or,
\* when there was not the room, they are all it has then.
LEMMA WriteOrdered ==
  ASSUME RingTypeOK, MemoryInv, NEW p \in Port, Kind[p] = "QUEUEING", ready[p],
         RingOrdered(p), ~full[p], NEW data, Len(data) \in 1..Size[p],
         Write(p, data), index' = index,
         Follows(p, data)
  PROVE  /\ RingOrdered(p)'
         /\ \A i \in Used(p)' : \/ i \in Used(p) /\ At(p, i)' = At(p, i)
                                \/ \E j \in 1..Len(data) : At(p, i)' = data[j]
<1> DEFINE s == Size[p]
           b == off_b[p]
           e == off_e[p]
           k == ConsumedSize(p)
           len == Len(data)
           m == IF k + len <= s THEN k + len ELSE k + len - s
           n == (e + len) % s
<1>1. /\ s \in Nat \ {0} /\ b \in Nat /\ e \in Nat /\ b < s /\ e < s /\ k \in 0..s /\ k < s
      /\ e = IF b + k < s THEN b + k ELSE b + k - s
      /\ len \in 1..s
  BY EndsFacts
<1>2. /\ off_b' = off_b /\ off_e' = [off_e EXCEPT ![p] = n] /\ pool' = Stored(p, data)
      /\ empty' = [empty EXCEPT ![p] = FALSE]
      /\ full' = [full EXCEPT ![p] = full[p] \/ n = b]
  <2>1. Accepts(p, Len(data))
    BY <1>1 DEF Accepts
  <2> QED BY <2>1 DEF Write
<1>3. off_b'[p] = b /\ off_e'[p] = n /\ ~empty'[p] /\ (full'[p] <=> n = b)
  BY <1>2 DEF RingTypeOK
<1>4. /\ n = IF b + m < s THEN b + m ELSE b + m - s
      /\ \A i \in 0 .. s - 1 :
           (((b + i) % s) - e) % s = IF k = s THEN i ELSE IF i < k THEN i + s - k ELSE i - k
  <2> HIDE DEF s, b, e, k, len
  <2>1. (e + len) % s = LET c == IF k + len <= s THEN k + len ELSE k + len - s
                        IN IF b + c < s THEN b + c ELSE b + c - s
    BY <1>1, EndMoves
  <2>2. \A i \in 0 .. s - 1 :
          (((b + i) % s) - e) % s = IF k = s THEN i ELSE IF i < k THEN i + s - k ELSE i - k
    BY <1>1, FromEnd
  <2> QED BY <2>1, <2>2
<1>5. ConsumedSize(p)' = IF b < n THEN n - b ELSE s - b + n
  BY <1>3 DEF ConsumedSize
<1>6. m \in 1..s
  BY <1>1
<1> HIDE DEF n, m
<1>7. ConsumedSize(p)' = m
  BY <1>1, <1>4, <1>5, <1>6
<1>8. ASSUME NEW i \in 0 .. s - 1
      PROVE  At(p, i)' = LET y == IF i < k THEN i + s - k ELSE i - k
                         IN IF y < len THEN data[y + 1] ELSE At(p, i)
  <2> DEFINE x == index[p] + ((b + i) % s)
             y == IF i < k THEN i + s - k ELSE i - k
  <2>1. x \in Segment(p) /\ x \in DOMAIN pool
    BY AtFacts
  <2>2. At(p, i)' = Stored(p, data)[x] /\ At(p, i) = pool[x]
    BY <1>2, <1>3 DEF At
  <2>3. x - index[p] - e = ((b + i) % s) - e
    <3>1. b + i \in Int
      BY <1>1
    <3>2. (b + i) % s \in Nat
      BY <1>1, <3>1, ModFacts
    <3>3. index[p] \in Nat
      BY SegmentFacts
    <3> QED BY <1>1, <3>2, <3>3
  <2>4. (x - index[p] - e) % s = y
    BY <1>1, <1>4, <2>3
  <2>5. Stored(p, data)[x] = IF (x - index[p] - e) % s < len
                             THEN data[((x - index[p] - e) % s) + 1] ELSE pool[x]
    BY <2>1 DEF Stored, Segment
  <2> HIDE DEF x, y
  <2>6. Stored(p, data)[x] = IF y < len THEN data[y + 1] ELSE pool[x]
    BY <2>4, <2>5
  <2> QED BY <2>2, <2>6 DEF y
<1>9. Used(p)' = 0 .. m - 1 /\ Used(p) = 0 .. k - 1
  BY <1>7 DEF Used
<1> HIDE DEF s, b, e, k, len
<1>10. ASSUME NEW i \in Used(p)'
       PROVE  /\ i \in 0 .. s - 1
              /\ IF k + len <= s
                 THEN IF i < k THEN At(p, i)' = At(p, i)
                               ELSE i - k + 1 \in 1..len /\ At(p, i)' = data[i - k + 1]
                 ELSE i + s - k + 1 \in 1..len /\ At(p, i)' = data[i + s - k + 1]
  <2>1. i \in 0 .. m - 1 /\ i \in 0 .. s - 1
    BY <1>1, <1>6, <1>9
  <2>2. At(p, i)' = LET y == IF i < k THEN i + s - k ELSE i - k
                    IN IF y < len THEN data[y + 1] ELSE At(p, i)
    BY <1>8, <2>1 DEF s, k, len
  <2>3. CASE k + len <= s /\ i < k
    BY <1>1, <2>1, <2>2, <2>3
  <2>4. CASE k + len <= s /\ ~(i < k)
    <3>1. i - k < len /\ i - k + 1 \in 1..len
      BY <1>1, <2>1, <2>4 DEF m
    <3> QED BY <2>1, <2>2, <2>4, <3>1
  <2>5. CASE ~(k + len <= s)
    <3>1. i < k /\ i + s - k < len /\ i + s - k + 1 \in 1..len
      BY <1>1, <2>1, <2>5 DEF m
    <3> QED BY <2>1, <2>2, <2>5, <3>1
  <2> QED BY <2>3, <2>4, <2>5
<1>11. ASSUME NEW i \in Used(p)'
       PROVE  \/ i \in Used(p) /\ At(p, i)' = At(p, i)
              \/ \E j \in 1..len : At(p, i)' = data[j]
  <2>1. i \in 0 .. s - 1 /\ (i < k => i \in Used(p))
    BY <1>1, <1>9, <1>10
  <2> QED BY <1>10, <2>1
<1>12. ASSUME NEW i \in Used(p)'
       PROVE  At(p, i)' \in Origins(p) \X Nat
  BY <1>11 DEF RingOrdered, Follows, len
<1>13. ASSUME NEW i \in Used(p)', NEW j \in Used(p)', i < j
       PROVE  At(p, i)'[2] < At(p, j)'[2]
  <2>0. i \in Int /\ j \in Int /\ k \in Int /\ s \in Int /\ len \in Int
    BY <1>1, <1>10
  <2>1. CASE k + len <= s /\ j < k
    <3>1. i \in Used(p) /\ j \in Used(p) /\ i < k
      BY <1>1, <1>9, <1>10, <1>13, <2>0, <2>1
    <3>2. At(p, i)' = At(p, i) /\ At(p, j)' = At(p, j)
      BY <1>10, <2>1, <3>1
    <3> QED BY <1>13, <3>1, <3>2 DEF RingOrdered
  <2>2. CASE k + len <= s /\ ~(j < k) /\ i < k
    <3>1. At(p, i)' = At(p, i) /\ At(p, j)' = data[j - k + 1] /\ j - k + 1 \in 1..len
      BY <1>10, <2>2
    <3>2. i \in 0 .. k - 1
      <4>1. i \in 0 .. s - 1
        BY <1>10
      <4> QED BY <1>1, <2>2, <4>1
    <3>3. At(p, i)[2] \in InRing(p)
      BY <1>9, <3>2 DEF InRing
    <3> QED BY <3>1, <3>3 DEF Precedes, Follows, len
  <2>3. CASE k + len <= s /\ ~(i < k)
    <3>1. ~(j < k)
      BY <1>13, <2>0, <2>3
    <3>2. /\ At(p, i)' = data[i - k + 1] /\ At(p, j)' = data[j - k + 1]
          /\ i - k + 1 \in 1..len /\ j - k + 1 \in 1..len
      BY <1>10, <2>3, <3>1
    <3>3. i - k + 1 \in 1 .. (j - k + 1) - 1
      BY <1>13, <2>0, <3>2
    <3> QED BY <3>2, <3>3 DEF Follows, len
  <2>4. CASE ~(k + len <= s)
    <3>1. /\ At(p, i)' = data[i + s - k + 1] /\ At(p, j)' = data[j + s - k + 1]
          /\ i + s - k + 1 \in 1..len /\ j + s - k + 1 \in 1..len
      BY <1>10, <2>4
    <3>2. i + s - k + 1 \in 1 .. (j + s - k + 1) - 1
      BY <1>13, <2>0, <3>1
    <3> QED BY <3>1, <3>2 DEF Follows, len
  <2> QED BY <2>1, <2>2, <2>3, <2>4
<1>14. RingOrdered(p)'
  <2>1. Origins(p)' = Origins(p)
    BY DEF Origins
  <2>2. (empty'[p] => off_b'[p] = off_e'[p]) /\ (~empty'[p] /\ ~full'[p] => off_b'[p] # off_e'[p])
    BY <1>3
  <2> QED BY <1>12, <1>13, <2>1, <2>2 DEF RingOrdered
<1> QED BY <1>11, <1>14 DEF len

-----------------------------------------------------------------------------
\* The steps.  A ring that a step leaves alone.
SameRing(p) ==
  /\ off_b'[p] = off_b[p] /\ off_e'[p] = off_e[p]
  /\ full'[p] = full[p] /\ empty'[p] = empty[p]
  /\ \A i \in Used(p) : At(p, i)' = At(p, i)

LEMMA SameRingFacts ==
  ASSUME NEW p \in Port, SameRing(p)
  PROVE  /\ Used(p)' = Used(p) /\ InRing(p)' = InRing(p)
         /\ RingOrdered(p) => RingOrdered(p)'
<1>1. Used(p)' = Used(p)
  BY DEF SameRing, Used, ConsumedSize
<1>2. InRing(p)' = InRing(p)
  BY <1>1 DEF SameRing, InRing
<1>3. ASSUME RingOrdered(p)
      PROVE  RingOrdered(p)'
  <2>1. \A i \in Used(p)' : At(p, i)' = At(p, i)
    BY <1>1 DEF SameRing
  <2>2. Origins(p)' = Origins(p)
    BY DEF Origins
  <2> QED BY <1>1, <1>3, <2>1, <2>2 DEF RingOrdered, SameRing
<1> QED BY <1>1, <1>2, <1>3

LEMMA RingsUntouched ==
  ASSUME NEW p \in Port, index'[p] = index[p],
         UNCHANGED <<off_b, off_e, full, empty, pool>>
  PROVE  SameRing(p)
BY DEF SameRing, At

\* Two ports that are ready share no cell.
LEMMA SegmentsApart ==
  ASSUME MemoryInv, NEW p \in Port, NEW q \in Port, ready[p], ready[q], p # q
  PROVE  \A i \in Segment(p) : i \notin Segment(q)
<1>1. /\ index[q] \in Nat /\ Size[q] \in Nat \ {0} /\ index[p] \in Nat /\ Size[p] \in Nat \ {0}
      /\ index[p] + Size[p] <= index[q] \/ index[q] + Size[q] <= index[p]
  BY PortFacts DEF MemoryInv
<1> QED BY <1>1 DEF Segment

LEMMA UsedMeansReady ==
  ASSUME RingTypeOK, MemoryInv, NEW p \in Port, NEW i \in Used(p)
  PROVE  ready[p] /\ i \in Nat /\ ~empty[p]
<1>1. ConsumedSize(p) \in Int
  BY ConsumedFacts, PortFacts
<1>2. ~empty[p]
  <2>1. empty[p] => ConsumedSize(p) = 0
    BY DEF ConsumedSize
  <2> QED BY <2>1 DEF Used
<1> QED BY <1>1, <1>2 DEF Used, MemoryInv

\* The cells of other ports stay when port p is written.
LEMMA WriteElsewhere ==
  ASSUME RingTypeOK, MemoryInv, NEW p \in Port, ready[p], NEW data, Len(data) \in Nat,
         Write(p, data), UNCHANGED configVars, NEW q \in Port, q # p
  PROVE  /\ SameRing(q)
         /\ ready[q] => \A i \in Segment(q) : pool'[i] = pool[i]
<1>1. /\ off_b' = off_b /\ off_e'[q] = off_e[q] /\ full'[q] = full[q] /\ empty'[q] = empty[q]
      /\ pool' = pool \/ pool' = Stored(p, data)
  BY DEF Write, ringVars, RingTypeOK
<1>2. ASSUME ready[q], NEW i \in Segment(q)
      PROVE  pool'[i] = pool[i]
  <2>1. i \in DOMAIN pool /\ i \notin Segment(p)
    BY <1>2, SegmentFacts, SegmentsApart
  <2> QED BY <1>1, <2>1, StoredFacts
<1>3. ASSUME NEW i \in Used(q)
      PROVE  At(q, i)' = At(q, i)
  <2>1. ready[q] /\ i \in Nat
    BY <1>3, UsedMeansReady
  <2>2. index[q] + ((off_b[q] + i) % Size[q]) \in Segment(q)
    BY <2>1, AtFacts
  <2>3. index' = index
    BY DEF configVars
  <2> QED BY <1>1, <1>2, <2>1, <2>2, <2>3 DEF At
<1> QED BY <1>1, <1>2, <1>3 DEF SameRing

LEMMA GetElsewhere ==
  ASSUME RingTypeOK, NEW p \in Port, NEW len, Get(p, len), index' = index,
         NEW q \in Port, q # p \/ Kind[p] = "SAMPLING"
  PROVE  SameRing(q)
<1>1. /\ off_b'[q] = off_b[q] /\ off_e' = off_e /\ full'[q] = full[q] /\ empty'[q] = empty[q]
      /\ pool' = pool
  BY DEF Get, RingTypeOK
<1> QED BY <1>1 DEF SameRing, At

\* Nothing waits in the buffer while the processor is free, or while the flush
\* that has it carries nothing to a queueing port.
Unloaded == \A f \in Flush : \A q \in Port : ~Loaded(f, q)

LEMMA UnloadedUnlessCarried ==
  ASSUME CarriedInv, \/ kernel = "free"
                     \/ kernel \in Flush /\ \A q \in Port : ~Loaded(kernel, q)
  PROVE  Unloaded
<1> SUFFICES ASSUME NEW f \in Flush, NEW q \in Port, Loaded(f, q)
             PROVE  FALSE
  BY DEF Unloaded
<1>1. kernel = f
  BY DEF CarriedInv, BufferOrdered
<1> QED BY <1>1, PortAssumption

\* A line that only gets shorter.
LEMMA LineKept ==
  ASSUME NEW q \in Port, NEW d \in Port, LineOrdered(q, d), InGot(d)' \subseteq InGot(d),
         InRing(d)' \subseteq InRing(d), InRing(q)' \subseteq InRing(q)
  PROVE  LineOrdered(q, d)'
BY DEF LineOrdered, Precedes

\* A step that touches no port while the buffer is not in use.
LEMMA OrderStays ==
  ASSUME OrderInv, Unloaded,
         UNCHANGED <<index, off_b, off_e, full, empty, pool, buffer, historyVars>>,
         \A f \in Flush : flushes'[f].at = "dests" => flushes'[f] = flushes[f]
  PROVE  OrderInv'
<1>0. sent' = sent /\ got' = got
  BY DEF historyVars
<1>1. \A p \in Port : SameRing(p)
  BY RingsUntouched
<1>2. \A p \in Port : InRing(p)' = InRing(p) /\ (RingOrdered(p) => RingOrdered(p)')
  BY <1>1, SameRingFacts
<1>3. \A p \in Port : InGot(p)' = InGot(p)
  BY <1>0 DEF InGot
<1>4. RingsInv'
  BY <1>2 DEF OrderInv, RingsInv
<1>8. LinesInv'
  <2> SUFFICES ASSUME NEW d \in Port, NEW q \in Sources(d),
                      Kind[d] = "QUEUEING", Direction[d] = "IN", Direction[q] = "OUT"
               PROVE  LineOrdered(q, d)'
    BY DEF LinesInv, Sources
  <2>1. LineOrdered(q, d) /\ q \in Port
    BY DEF OrderInv, LinesInv, Sources
  <2> QED BY <1>2, <1>3, <2>1, LineKept
<1>5. CarriedInv'
  BY DEF CarriedInv, Loaded, Carries, Unloaded
<1>6. GotInv'
  BY <1>0 DEF OrderInv, GotInv
<1>7. SamplesInv'
  <2>1. \A p \in Port : Origins(p)' = Origins(p) /\ Segment(p)' = Segment(p)
    BY DEF Origins, Segment
  <2>2. \A p \in Port : /\ HoldsOne(p) => HoldsOne(p)'
                        /\ ReadBehind(p) => ReadBehind(p)'
    BY <1>0, <2>1 DEF HoldsOne, ReadBehind
  <2>3. \A f \in Flush : \A q \in Port : CarriesOne(f, q) => CarriesOne(f, q)'
    BY DEF CarriesOne, Carries
  <2> QED BY <2>2, <2>3 DEF OrderInv, SamplesInv
<1> QED BY <1>4, <1>5, <1>6, <1>7, <1>8 DEF OrderInv

LEMMA CreateOrder ==
  ASSUME RingTypeOK, FreshInv, OrderInv, NEW p \in Port, Create(p)
  PROVE  OrderInv'
<1>1. /\ ~ready[p] /\ kernel = "free" /\ index' = [index EXCEPT ![p] = PoolSize - available]
      /\ off_b' = [off_b EXCEPT ![p] = 0] /\ off_e' = [off_e EXCEPT ![p] = 0]
      /\ full' = [full EXCEPT ![p] = FALSE]
      /\ UNCHANGED <<empty, pool, flushes, buffer, kernel, sent, got>>
      /\ empty[p] /\ index \in [Port -> Nat]
  BY DEF Create, flushVars, historyVars, FreshInv, MemoryInv
<1>2. \A q \in Port : q # p => SameRing(q)
  BY <1>1 DEF RingTypeOK, SameRing, At
<1>3. Used(p)' = {} /\ InRing(p)' = {} /\ RingOrdered(p)'
  <2>1. ConsumedSize(p)' = 0 /\ off_b'[p] = 0 /\ off_e'[p] = 0 /\ empty'[p]
    BY <1>1 DEF ConsumedSize, RingTypeOK
  <2>2. Used(p)' = {}
    BY <2>1 DEF Used
  <2> QED BY <2>1, <2>2 DEF InRing, RingOrdered
<1>4. \A q \in Port : /\ InRing(q)' \subseteq InRing(q)
                      /\ RingOrdered(q) => RingOrdered(q)'
  BY <1>2, <1>3, SameRingFacts
<1>5. \A q \in Port : InGot(q)' = InGot(q)
  BY <1>1 DEF InGot
<1>6. RingsInv'
  BY <1>4 DEF OrderInv, RingsInv
<1>7. LinesInv'
  <2> SUFFICES ASSUME NEW d \in Port, NEW q \in Sources(d),
                      Kind[d] = "QUEUEING", Direction[d] = "IN", Direction[q] = "OUT"
               PROVE  LineOrdered(q, d)'
    BY DEF LinesInv, Sources
  <2>1. LineOrdered(q, d) /\ q \in Port
    BY DEF OrderInv, LinesInv, Sources
  <2> QED BY <1>4, <1>5, <2>1, LineKept
<1>8. CarriedInv'
  <2>1. Unloaded
    BY <1>1, UnloadedUnlessCarried DEF OrderInv
  <2> QED BY <1>1, <2>1 DEF CarriedInv, Loaded, Carries, Unloaded
<1>9. GotInv'
  BY <1>1 DEF OrderInv, GotInv
<1>10. SamplesInv'
  <2> SUFFICES ASSUME NEW q \in Port, Kind[q] = "SAMPLING"
               PROVE  HoldsOne(q)' /\ ReadBehind(q)'
    BY <1>1 DEF OrderInv, SamplesInv, CarriesOne, Carries
  <2>1. HoldsOne(q) /\ ReadBehind(q)
    BY DEF OrderInv, SamplesInv
  <2>2. CASE empty[q]
    BY <1>1, <2>1, <2>2 DEF HoldsOne, ReadBehind
  <2>3. CASE ~empty[q]
    <3>1. index'[q] = index[q]
      BY <1>1, <2>3
    <3>2. Segment(q)' = Segment(q) /\ Origins(q)' = Origins(q)
      BY <3>1 DEF Segment, Origins
    <3> QED BY <1>1, <2>1, <3>1, <3>2 DEF HoldsOne, ReadBehind
  <2> QED BY <2>2, <2>3
<1> QED BY <1>6, <1>7, <1>8, <1>9, <1>10 DEF OrderInv

\* What a ring holds was sent by a port connected to it.
LEMMA RingSent ==
  ASSUME RingTypeOK, MemoryInv, MessageInv, NEW p \in Port, RingOrdered(p), NEW i \in Used(p)
  PROVE  /\ At(p, i) \in Origins(p) \X Nat /\ At(p, i)[1] \in Origins(p)
         /\ At(p, i)[2] \in Nat /\ At(p, i)[2] <= sent[At(p, i)[1]]
         /\ IsAmong(At(p, i), sent)
<1>1. At(p, i) \in Origins(p) \X Nat
  BY DEF RingOrdered
<1>2. IsAmong(At(p, i), sent)
  <2>1. ready[p] /\ i \in Nat
    BY UsedMeansReady
  <2> QED BY <2>1, AtFacts DEF At, MessageInv
<1> HIDE DEF At
<1>3. At(p, i) = <<At(p, i)[1], At(p, i)[2]>>
  BY <1>1
<1>4. PICK q \in Port : \E n \in 1..sent[q] : At(p, i) = <<q, n>>
  BY <1>2, <1>3, CellsAreWritten DEF IsAmong
<1>5. PICK n \in 1..sent[q] : At(p, i) = <<q, n>>
  BY <1>4
<1>6. At(p, i)[1] = q /\ At(p, i)[2] = n /\ n <= sent[q]
  BY <1>5 DEF MessageInv
<1> QED BY <1>1, <1>2, <1>6

\* What was read from d, or is in it, was sent by its only source.
LEMMA BehindSent ==
  ASSUME Connected, RingTypeOK, MemoryInv, MessageInv, GotInv, NEW d \in Port, NEW q \in Sources(d),
         Direction[d] = "IN"
  PROVE  /\ \A x \in InGot(d) : x \in Nat /\ x <= sent[q]
         /\ RingOrdered(d) => \A x \in InRing(d) : x \in Nat /\ x <= sent[q]
<1>1. Origins(d) = Sources(d) /\ \A o \in Sources(d) : o = q
  BY DEF Origins, Connected
<1>2. ASSUME NEW x \in InGot(d)
      PROVE  x \in Nat /\ x <= sent[q]
  <2>1. PICK i \in DOMAIN got[d].cells : x = got[d].cells[i][2]
    BY DEF InGot
  <2>2. got[d].cells[i] \in Sources(d) \X Nat /\ got[d].cells[i][2] <= sent[got[d].cells[i][1]]
    BY DEF GotInv
  <2> QED BY <1>1, <2>1, <2>2
<1>3. ASSUME RingOrdered(d), NEW x \in InRing(d)
      PROVE  x \in Nat /\ x <= sent[q]
  <2>1. PICK i \in Used(d) : x = At(d, i)[2]
    BY DEF InRing
  <2>2. At(d, i)[1] \in Origins(d) /\ At(d, i)[2] \in Nat /\ At(d, i)[2] <= sent[At(d, i)[1]]
    BY <1>3, RingSent
  <2> QED BY <1>1, <2>1, <2>2
<1> QED BY <1>2, <1>3

\* The sampling ports that a step of port p leaves alone.
LEMMA SamplesElsewhere ==
  ASSUME FreshInv, OrderInv, NEW p \in Port, index' = index,
         \A q \in Port : q # p => /\ SameRing(q) /\ got'[q].cells = got[q].cells
                                  /\ ready[q] => \A i \in Segment(q) : pool'[i] = pool[i],
         Kind[p] = "SAMPLING" => HoldsOne(p)' /\ ReadBehind(p)',
         \A f \in Flush : \A q \in Port : CarriesOne(f, q)'
  PROVE  SamplesInv'
<1> SUFFICES ASSUME NEW q \in Port, Kind[q] = "SAMPLING", q # p
             PROVE  HoldsOne(q)' /\ ReadBehind(q)'
  BY DEF SamplesInv
<1>1. /\ SameRing(q) /\ got'[q].cells = got[q].cells /\ HoldsOne(q) /\ ReadBehind(q)
      /\ empty'[q] = empty[q]
  BY DEF OrderInv, SamplesInv, SameRing
<1>2. CASE empty[q]
  BY <1>1, <1>2 DEF HoldsOne, ReadBehind
<1>3. CASE ~empty[q]
  <2>1. ready[q]
    BY <1>3 DEF FreshInv, MemoryInv
  <2>2. index[q] \in Segment(q)
    BY <2>1, SegmentFacts DEF FreshInv
  <2>3. \A i \in Segment(q) : pool'[i] = pool[i]
    BY <2>1
  <2>4. Segment(q)' = Segment(q) /\ Origins(q)' = Origins(q)
    BY DEF Segment, Origins
  <2> QED BY <1>1, <2>2, <2>3, <2>4 DEF HoldsOne, ReadBehind
<1> QED BY <1>2, <1>3

\* A write of a whole sample puts it into all cells of a sampling port.
LEMMA StoredWhole ==
  ASSUME MemoryInv, NEW p \in Port, ready[p], off_e[p] = 0, NEW data, Len(data) = Size[p],
         NEW i \in Segment(p)
  PROVE  \E k \in 1..Size[p] : Stored(p, data)[i] = data[k]
<1> DEFINE x == i - index[p] - off_e[p]
           y == x % Size[p]
<1>1. /\ i \in DOMAIN pool /\ index[p] \in Nat /\ Size[p] \in Nat \ {0}
      /\ DOMAIN pool = 0 .. PoolSize - 1 /\ PoolSize \in Nat
  BY SegmentFacts DEF MemoryInv
<1>2. x \in Int
  BY <1>1
<1>3. Stored(p, data)[i] = IF i \in Segment(p) /\ y < Len(data) THEN data[y + 1] ELSE pool[i]
  BY <1>1 DEF Stored, Segment
<1> HIDE DEF x
<1>4. y \in Nat /\ y < Size[p]
  BY <1>1, <1>2, ModFacts
<1> HIDE DEF y
<1>5. y + 1 \in 1..Size[p]
  BY <1>1, <1>4
<1> QED BY <1>3, <1>4, <1>5

LEMMA FreshFollows ==
  ASSUME RingTypeOK, MemoryInv, MessageInv, NEW p \in Port, Kind[p] = "QUEUEING",
         Direction[p] = "OUT", RingOrdered(p), NEW len \in Nat
  PROVE  /\ Follows(p, Fresh(p, len))
         /\ \A i \in 1..len : Fresh(p, len)[i][2] \in Nat /\ Fresh(p, len)[i][2] > sent[p]
<1>1. sent[p] \in Nat /\ Len(Fresh(p, len)) = len
  BY FreshLength DEF MessageInv
<1>2. \A i \in 1..len : /\ Fresh(p, len)[i] = <<p, sent[p] + i>>
                        /\ Fresh(p, len)[i][2] = sent[p] + i /\ sent[p] + i \in Nat
  BY <1>1 DEF Fresh
<1>3. ASSUME NEW i \in 1..len
      PROVE  /\ Fresh(p, len)[i] \in Origins(p) \X Nat
             /\ \A j \in 1 .. i - 1 : Fresh(p, len)[j][2] < Fresh(p, len)[i][2]
             /\ Fresh(p, len)[i][2] \in Nat /\ Fresh(p, len)[i][2] > sent[p]
  <2>1. Origins(p) = {p}
    BY DEF Origins
  <2>2. Fresh(p, len)[i] \in Origins(p) \X Nat
    BY <1>2, <2>1
  <2>3. ASSUME NEW j \in 1 .. i - 1
        PROVE  Fresh(p, len)[j][2] < Fresh(p, len)[i][2]
    <3>1. j \in 1..len /\ sent[p] + j < sent[p] + i
      BY <1>1
    <3> QED BY <1>2, <3>1
  <2>4. Fresh(p, len)[i][2] = sent[p] + i /\ sent[p] + i > sent[p] /\ sent[p] + i \in Nat
    BY <1>1, <1>2
  <2> QED BY <2>2, <2>3, <2>4
<1>4. ASSUME NEW i \in Used(p)
      PROVE  At(p, i)[2] \in Nat /\ At(p, i)[2] <= sent[p]
  BY RingSent DEF Origins
<1>5. ASSUME NEW i \in 1..len, NEW x \in InRing(p)
      PROVE  x < Fresh(p, len)[i][2]
  <2>1. x \in Nat /\ x <= sent[p]
    BY <1>4 DEF InRing
  <2> QED BY <1>1, <1>3, <2>1
<1> QED BY <1>1, <1>3, <1>5 DEF Follows, Precedes

\* A program writes into a queueing port.
LEMMA SendOrder ==
  ASSUME Connected, RingTypeOK, FreshInv, OrderInv, NEW p \in Port, NEW len \in 1..Size[p],
         Kind[p] = "QUEUEING", ~full[p],
         kernel = "free", ready[p], Direction[p] = "OUT",
         Put(p, len), UNCHANGED <<configVars, flushVars, kernel, now>>
  PROVE  OrderInv'
<1> DEFINE data == Fresh(p, len)
<1>1. /\ len \in Nat \ {0} /\ Len(data) = len /\ UNCHANGED <<index, flushes, buffer, got>>
      /\ Write(p, data) /\ sent' = [sent EXCEPT ![p] = sent[p] + len]
      /\ MemoryInv /\ MessageInv /\ GotInv /\ RingOrdered(p)
  <2>1. len \in Nat \ {0}
    BY PortFacts
  <2> QED BY <2>1, FreshLength DEF Put, configVars, flushVars, FreshInv, OrderInv, RingsInv
<1>2. /\ Follows(p, data)
      /\ \A i \in 1..len : data[i][2] \in Nat /\ data[i][2] > sent[p]
  BY <1>1, FreshFollows
<1> HIDE DEF data
<1>3. /\ RingOrdered(p)'
      /\ \A i \in Used(p)' : \/ i \in Used(p) /\ At(p, i)' = At(p, i)
                             \/ \E j \in 1..len : At(p, i)' = data[j]
  BY <1>1, <1>2, WriteOrdered
<1>4. \A x \in InRing(p)' : x \in InRing(p) \/ (x \in Nat /\ x > sent[p])
  <2> SUFFICES ASSUME NEW i \in Used(p)'
               PROVE  At(p, i)'[2] \in InRing(p) \/ (At(p, i)'[2] \in Nat /\ At(p, i)'[2] > sent[p])
    BY DEF InRing
  <2> QED BY <1>2, <1>3 DEF InRing
<1>5. \A q \in Port : q # p => SameRing(q) /\ (ready[q] => \A i \in Segment(q) : pool'[i] = pool[i])
  BY <1>1, WriteElsewhere
<1>6. \A q \in Port : q # p => InRing(q)' = InRing(q) /\ (RingOrdered(q) => RingOrdered(q)')
  BY <1>5, SameRingFacts
<1>7. \A q \in Port : InGot(q)' = InGot(q)
  BY <1>1 DEF InGot
<1>8. RingsInv'
  BY <1>3, <1>6 DEF OrderInv, RingsInv
<1>9. LinesInv'
  <2> SUFFICES ASSUME NEW d \in Port, NEW q \in Sources(d),
                      Kind[d] = "QUEUEING", Direction[d] = "IN", Direction[q] = "OUT"
               PROVE  LineOrdered(q, d)'
    BY DEF LinesInv, Sources
  <2>1. LineOrdered(q, d) /\ q \in Port /\ d # p
    BY DEF OrderInv, LinesInv, Sources
  <2>2. CASE q = p
    <3>1. RingOrdered(d)
      BY DEF OrderInv, RingsInv
    <3>2. \A x \in InGot(d) \cup InRing(d) : x \in Nat /\ x <= sent[p]
      BY <1>1, <2>2, <3>1, BehindSent
    <3>3. sent[p] \in Nat
      BY <1>1 DEF MessageInv
    <3>4. \A x \in InGot(d) \cup InRing(d) : \A y \in InRing(p)' : x < y
      <4>1. \A x \in InGot(d) \cup InRing(d) : \A y \in InRing(p) : x < y
        BY <2>1, <2>2 DEF LineOrdered, Precedes
      <4> QED BY <1>4, <3>2, <3>3, <4>1
    <3>5. \A x \in InGot(d) : \A y \in InRing(d) : x < y
      BY <2>1 DEF LineOrdered, Precedes
    <3> QED BY <1>6, <1>7, <2>1, <2>2, <3>4, <3>5 DEF LineOrdered, Precedes
  <2>3. CASE q # p
    BY <1>6, <1>7, <2>1, <2>3, LineKept
  <2> QED BY <2>2, <2>3
<1>10. CarriedInv'
  <2>1. Unloaded
    BY UnloadedUnlessCarried DEF OrderInv
  <2> QED BY <1>1, <2>1 DEF CarriedInv, Loaded, Carries, Unloaded
<1>11. GotInv'
  <2>1. \A q \in Port : sent[q] <= sent'[q] /\ sent[q] \in Nat /\ sent'[q] \in Nat
    BY <1>1 DEF MessageInv
  <2>2. ASSUME NEW q \in Port, NEW i \in DOMAIN got[q].cells
        PROVE  got[q].cells[i] \in Sources(q) \X Nat /\ got[q].cells[i][2] <= sent'[got[q].cells[i][1]]
    <3>1. got[q].cells[i] \in Sources(q) \X Nat /\ got[q].cells[i][2] <= sent[got[q].cells[i][1]]
      BY <1>1 DEF GotInv
    <3>2. got[q].cells[i][1] \in Port /\ got[q].cells[i][2] \in Nat
      BY <3>1 DEF Sources
    <3> QED BY <2>1, <3>1, <3>2
  <2> QED BY <1>1, <2>2 DEF GotInv
<1>12. SamplesInv'
  <2>1. \A f \in Flush : \A q \in Port : CarriesOne(f, q)'
    BY <1>1 DEF OrderInv, SamplesInv, CarriesOne, Carries
  <2> QED BY <1>1, <1>5, <2>1, SamplesElsewhere
<1> QED BY <1>8, <1>9, <1>10, <1>11, <1>12 DEF OrderInv

-----------------------------------------------------------------------------
LEMMA SourceFacts ==
  ASSUME Connected, NEW d \in Port, NEW q \in Sources(d)
  PROVE  /\ q \in Port /\ Kind[q] = Kind[d] /\ Direction[q] = "OUT"
         /\ \A o \in Sources(d) : o = q
         /\ Kind[d] = "SAMPLING" => Size[d] = Size[q]
<1>1. PICK i \in DOMAIN Destinations[q] : Destinations[q][i] = d
  BY DEF Sources
<1>2. Direction[q] = "OUT"
  <2>1. DOMAIN <<>> = {}
    OBVIOUS
  <2> QED BY <1>1, <2>1, PortFacts DEF Connected, Sources
<1> QED BY <1>1, <1>2 DEF Connected, SameKind, Sources

\* A step that leaves the rings of the queueing ports alone.
LEMMA QueuesKept ==
  ASSUME Connected, OrderInv,
         \A q \in Port : Kind[q] = "QUEUEING" => SameRing(q) /\ got'[q] = got[q]
  PROVE  RingsInv' /\ LinesInv'
<1>1. \A q \in Port : Kind[q] = "QUEUEING" =>
         InRing(q)' = InRing(q) /\ InGot(q)' = InGot(q) /\ (RingOrdered(q) => RingOrdered(q)')
  BY SameRingFacts DEF InGot
<1>2. RingsInv'
  BY <1>1 DEF OrderInv, RingsInv
<1>3. LinesInv'
  <2> SUFFICES ASSUME NEW d \in Port, NEW q \in Sources(d),
                      Kind[d] = "QUEUEING", Direction[d] = "IN", Direction[q] = "OUT"
               PROVE  LineOrdered(q, d)'
    BY DEF LinesInv, Sources
  <2>1. LineOrdered(q, d) /\ q \in Port /\ Kind[q] = "QUEUEING"
    BY SourceFacts DEF OrderInv, LinesInv
  <2> QED BY <1>1, <2>1, LineKept
<1> QED BY <1>2, <1>3

\* What was read was sent, however much is sent then.
LEMMA GotKept ==
  ASSUME GotInv, got' = got, \A q \in Port : sent[q] \in Nat /\ sent'[q] \in Nat /\ sent[q] <= sent'[q]
  PROVE  GotInv'
<1>1. ASSUME NEW q \in Port, NEW i \in DOMAIN got[q].cells
      PROVE  /\ got[q].cells[i] \in Sources(q) \X Nat
             /\ got[q].cells[i][2] <= sent'[got[q].cells[i][1]]
  <2>1. got[q].cells[i] \in Sources(q) \X Nat /\ got[q].cells[i][2] <= sent[got[q].cells[i][1]]
    BY DEF GotInv
  <2>2. got[q].cells[i][1] \in Port /\ got[q].cells[i][2] \in Nat
    BY <2>1 DEF Sources
  <2> QED BY <2>1, <2>2
<1> QED BY <1>1 DEF GotInv

\* A whole sample c is written into sampling port p.
LEMMA SampleWritten ==
  ASSUME Connected, RingTypeOK, FreshInv, OrderInv, NEW p \in Port, Kind[p] = "SAMPLING", ready[p],
         NEW data, NEW c \in Origins(p) \X Nat, Len(data) = Size[p],
         \A k \in 1..Len(data) : data[k] = c,
         Write(p, data), UNCHANGED configVars, got' = got,
         got[p].cells # <<>> => got[p].cells[1][2] <= c[2],
         \A f \in Flush : \A q \in Port : CarriesOne(f, q)'
  PROVE  RingsInv' /\ LinesInv' /\ SamplesInv'
<1>1. /\ index' = index /\ MemoryInv /\ SampleInv /\ Size[p] \in Nat \ {0} /\ off_e[p] = 0
      /\ Len(data) \in Nat /\ Len(data) <= Size[p]
  BY PortFacts DEF configVars, FreshInv, SampleInv
<1>2. \A q \in Port : q # p =>
        SameRing(q) /\ got'[q] = got[q] /\ (ready[q] => \A i \in Segment(q) : pool'[i] = pool[i])
  BY <1>1, WriteElsewhere
<1>3. RingsInv' /\ LinesInv'
  BY <1>2, QueuesKept
<1>4. pool' = Stored(p, data) /\ ~empty'[p]
  <2>1. Accepts(p, Len(data))
    BY <1>1 DEF Accepts
  <2> QED BY <2>1 DEF Write, RingTypeOK
<1>5. \A i \in Segment(p) : pool'[i] = c
  BY <1>1, <1>4, StoredWhole
<1>6. index'[p] \in Segment(p) /\ Segment(p)' = Segment(p) /\ Origins(p)' = Origins(p)
  BY <1>1, SegmentFacts DEF Segment, Origins
<1>7. HoldsOne(p)'
  BY <1>5, <1>6 DEF HoldsOne
<1>8. ReadBehind(p)'
  <2>1. ReadBehind(p)
    BY DEF OrderInv, SamplesInv
  <2> QED BY <1>4, <1>5, <1>6, <2>1 DEF ReadBehind
<1>9. SamplesInv'
  BY <1>1, <1>2, <1>7, <1>8, SamplesElsewhere
<1> QED BY <1>3, <1>9

\* A program writes into a sampling port.
LEMMA SamplingWriteOrder ==
  ASSUME Connected, RingTypeOK, FreshInv, OrderInv, NEW t \in Thread, SamplingWrite(t)
  PROVE  OrderInv'
<1> DEFINE p == PortOf[t]
           c == <<p, sent[p] + 1>>
           data == Fresh(p, Size[p])
<1>1. /\ p \in Port /\ kernel = "free" /\ Kind[p] = "SAMPLING" /\ Direction[p] = "OUT" /\ ready[p]
      /\ Write(p, data) /\ sent' = [sent EXCEPT ![p] = sent[p] + 1] /\ sent[p] \in Nat
      /\ UNCHANGED configVars /\ UNCHANGED <<flushes, buffer, kernel, got>>
      /\ GotInv /\ sent \in [Port -> Nat]
  BY PortAssumption DEF SamplingWrite, Calls, Put, flushVars, FreshInv, MessageInv, OrderInv
<1>2. Size[p] \in Nat /\ Len(data) = Size[p]
  BY <1>1, PortFacts, FreshLength
<1>3. \A k \in 1..Len(data) : data[k] = c
  BY <1>1, <1>2 DEF Fresh
<1>4. c \in Origins(p) \X Nat
  BY <1>1 DEF Origins
<1>5. \A f \in Flush : \A q \in Port : CarriesOne(f, q)'
  BY <1>1 DEF OrderInv, SamplesInv, CarriesOne, Carries
<1>6. got[p].cells = <<>>
  BY <1>1 DEF GotInv
<1> HIDE DEF c, data, p
<1>7. RingsInv' /\ LinesInv' /\ SamplesInv'
  BY <1>1, <1>2, <1>3, <1>4, <1>5, <1>6, SampleWritten
<1>8. CarriedInv'
  <2>1. Unloaded
    BY <1>1, UnloadedUnlessCarried DEF OrderInv
  <2> QED BY <1>1, <2>1 DEF CarriedInv, Loaded, Carries, Unloaded
<1>9. GotInv'
  <2>1. \A q \in Port : sent[q] \in Nat /\ sent'[q] \in Nat /\ sent[q] <= sent'[q]
    BY <1>1
  <2> QED BY <1>1, <2>1, GotKept
<1> QED BY <1>7, <1>8, <1>9 DEF OrderInv

LEMMA AmongSent ==
  ASSUME MessageInv, NEW c, IsAmong(c, sent), c = <<c[1], c[2]>>
  PROVE  c[2] <= sent[c[1]]
<1>1. PICK q \in Port : \E n \in 1..sent[q] : c = <<q, n>>
  BY CellsAreWritten DEF IsAmong
<1>2. PICK n \in 1..sent[q] : c = <<q, n>>
  BY <1>1
<1> QED BY <1>2 DEF MessageInv

\* Port p was read: its reader got these cells.
LEMMA GotReplaced ==
  ASSUME GotInv, NEW p \in Port, Direction[p] = "IN", NEW cells, got'[p].cells = cells, sent' = sent,
         \A q \in Port : q # p => got'[q] = got[q],
         cells \in Seq(Port \X Nat), Len(cells) \in Nat, DOMAIN cells = 1..Len(cells),
         \A i \in DOMAIN cells : cells[i] \in Sources(p) \X Nat /\ cells[i][2] <= sent[cells[i][1]],
         Kind[p] = "QUEUEING" => \A i \in 2..Len(cells) : cells[i][2] > cells[i - 1][2]
  PROVE  GotInv'
<1> SUFFICES ASSUME NEW q \in Port
             PROVE  LET c == got'[q].cells IN
                    /\ c # <<>> => Direction[q] = "IN"
                    /\ c \in Seq(Port \X Nat) /\ Len(c) \in Nat /\ DOMAIN c = 1..Len(c)
                    /\ \A i \in DOMAIN c : c[i] \in Sources(q) \X Nat /\ c[i][2] <= sent[c[i][1]]
                    /\ Kind[q] = "QUEUEING" => \A i \in 2..Len(c) : c[i][2] > c[i - 1][2]
  BY DEF GotInv
<1>1. CASE q = p
  BY <1>1
<1>2. CASE q # p
  <2>1. got'[q] = got[q]
    BY <1>2
  <2> QED BY <2>1 DEF GotInv
<1> QED BY <1>1, <1>2

LEMMA ContentsFacts ==
  ASSUME NEW p \in Port, NEW len \in Nat
  PROVE  /\ Len(Contents(p, len)) = len /\ DOMAIN Contents(p, len) = 1..len
         /\ \A i \in 1..len : Contents(p, len)[i] = pool[index[p] + ((off_b[p] + i - 1) % Size[p])]
BY DEF Contents

LEMMA ContentsAreCells ==
  ASSUME NEW p \in Port, NEW len \in Nat, \A i \in 1..len : Contents(p, len)[i] \in Port \X Nat
  PROVE  Contents(p, len) \in Seq(Port \X Nat)
<1>1. Contents(p, len) \in [1..len -> Port \X Nat]
  BY DEF Contents
<1> QED BY <1>1

\* All cells read from a sampling port are its sample.
LEMMA SampleContents ==
  ASSUME RingTypeOK, MemoryInv, NEW p \in Port, Kind[p] = "SAMPLING", ~empty[p], HoldsOne(p)
  PROVE  \A i \in 1..Size[p] : Contents(p, Size[p])[i] = pool[index[p]]
<1> SUFFICES ASSUME NEW i \in 1..Size[p]
             PROVE  Contents(p, Size[p])[i] = pool[index[p]]
  OBVIOUS
<1>1. ready[p] /\ off_b[p] + i - 1 \in Int /\ Size[p] \in Nat
  BY PortFacts DEF RingTypeOK, MemoryInv
<1>2. index[p] + ((off_b[p] + i - 1) % Size[p]) \in Segment(p)
  BY <1>1, SegmentFacts
<1> QED BY <1>1, <1>2, ContentsFacts DEF HoldsOne

\* A program reads a sampling port.
LEMMA SamplingReadOrder ==
  ASSUME Connected, RingTypeOK, FreshInv, OrderInv, NEW t \in Thread, SamplingRead(t)
  PROVE  OrderInv'
<1> DEFINE p == PortOf[t]
           cells == Contents(p, Size[p])
           c == pool[index[p]]
<1>1. /\ p \in Port /\ kernel = "free" /\ Kind[p] = "SAMPLING" /\ Direction[p] = "IN" /\ ready[p]
      /\ ~empty[p] /\ Get(p, Size[p]) /\ UNCHANGED configVars
      /\ got' = [got EXCEPT ![p] = [cells |-> cells, valid |-> last_receive[p] + Refresh[p] >= now,
           age |-> IF last_receive[p] + Refresh[p] >= now THEN now - since[p] ELSE 0]]
      /\ UNCHANGED <<flushes, buffer, kernel, sent>> /\ DOMAIN got = Port
      /\ GotInv /\ MemoryInv /\ MessageInv /\ HoldsOne(p) /\ Size[p] \in Nat \ {0}
  BY PortAssumption, PortFacts
  DEF SamplingRead, Calls, Obtain, flushVars, FreshInv, SampleInv, OrderInv, SamplesInv
<1>2. UNCHANGED <<off_b, off_e, full, empty, pool, index>>
  BY <1>1 DEF Get, configVars
<1>3. /\ \A i \in 1..Size[p] : cells[i] = c
      /\ Len(cells) = Size[p] /\ DOMAIN cells = 1..Size[p]
  BY <1>1, SampleContents, ContentsFacts
<1>4. c \in Sources(p) \X Nat /\ c[2] <= sent[c[1]]
  <2>1. c \in Sources(p) \X Nat
    BY <1>1 DEF HoldsOne, Origins
  <2>2. IsAmong(c, sent)
    BY <1>1, SegmentFacts DEF MessageInv
  <2> HIDE DEF c
  <2> QED BY <1>1, <2>1, <2>2, AmongSent
<1>5. got'[p].cells = cells /\ \A q \in Port : q # p => got'[q] = got[q]
  BY <1>1
<1> HIDE DEF p, cells, c
<1>6. GotInv'
  <2>1. cells \in Seq(Port \X Nat)
    <3>1. c \in Port \X Nat
      BY <1>4 DEF Sources
    <3>2. \A i \in 1..Size[p] : Contents(p, Size[p])[i] \in Port \X Nat
      BY <1>3, <3>1 DEF cells
    <3>3. Size[p] \in Nat
      BY <1>1
    <3> QED BY <1>1, <3>2, <3>3, ContentsAreCells DEF cells
  <2>2. Len(cells) \in Nat /\ DOMAIN cells = 1..Len(cells)
    BY <1>1, <1>3
  <2>3. \A i \in DOMAIN cells : cells[i] \in Sources(p) \X Nat /\ cells[i][2] <= sent[cells[i][1]]
    BY <1>3, <1>4
  <2>4. Kind[p] # "QUEUEING" /\ sent' = sent
    BY <1>1
  <2> QED BY <1>1, <1>5, <2>1, <2>2, <2>3, <2>4, GotReplaced
<1>7. \A q \in Port : SameRing(q)
  BY <1>2, RingsUntouched
<1>8. RingsInv' /\ LinesInv'
  <2>1. \A q \in Port : Kind[q] = "QUEUEING" => q # p
    BY <1>1
  <2> QED BY <1>5, <1>7, <2>1, QueuesKept
<1>9. CarriedInv'
  <2>1. Unloaded
    BY <1>1, UnloadedUnlessCarried DEF OrderInv
  <2> QED BY <1>1, <2>1 DEF CarriedInv, Loaded, Carries, Unloaded
<1>10. SamplesInv'
  <2>1. \A f \in Flush : \A q \in Port : CarriesOne(f, q)'
    BY <1>1 DEF OrderInv, SamplesInv, CarriesOne, Carries
  <2>2. HoldsOne(p)'
    <3>1. Segment(p)' = Segment(p) /\ Origins(p)' = Origins(p)
      BY <1>2 DEF Segment, Origins
    <3> QED BY <1>1, <1>2, <3>1 DEF HoldsOne
  <2>3. ReadBehind(p)'
    <3>1. 1 \in 1..Size[p] /\ c[2] \in Nat
      BY <1>1, <1>4
    <3> QED BY <1>1, <1>2, <1>3, <1>5, <3>1 DEF ReadBehind, c
  <2> QED BY <1>1, <1>2, <1>5, <1>7, <2>1, <2>2, <2>3, SamplesElsewhere
<1> QED BY <1>6, <1>8, <1>9, <1>10 DEF OrderInv

\* A program takes the first cells of a queueing port.
LEMMA ReceiveOrder ==
  ASSUME Connected, RingTypeOK, FreshInv, OrderInv, NEW p \in Port, kernel = "free",
         Kind[p] = "QUEUEING", Direction[p] = "IN", ~empty[p], NEW len \in 1..ConsumedSize(p),
         Get(p, len), Obtain(p, Contents(p, len), FALSE), UNCHANGED <<configVars, flushVars, kernel>>
  PROVE  OrderInv'
<1> DEFINE cells == Contents(p, len)
<1>1. /\ RingOrdered(p) /\ GotInv /\ MemoryInv /\ MessageInv
      /\ UNCHANGED <<index, flushes, buffer, pool, sent>> /\ DOMAIN got = Port
      /\ got' = [got EXCEPT ![p] = [cells |-> cells, valid |-> FALSE, age |-> 0]]
  BY DEF OrderInv, RingsInv, Get, Obtain, configVars, flushVars, FreshInv, SampleInv
<1>2. got'[p].cells = cells /\ \A q \in Port : q # p => got'[q] = got[q]
  BY <1>1
<1>3. /\ RingOrdered(p)'
      /\ \A i \in Used(p)' : i + len \in Used(p) /\ At(p, i)' = At(p, i + len)
      /\ \A i \in 1..len : i - 1 \in Used(p) /\ cells[i] = At(p, i - 1)
  BY <1>1, GetOrdered
<1>4. len \in Nat \ {0} /\ Len(cells) = len /\ DOMAIN cells = 1..len
  <2>1. ConsumedSize(p) \in Int
    BY <1>1, EndsFacts
  <2>2. len \in Nat \ {0}
    BY <2>1
  <2> QED BY <2>2, ContentsFacts
<1> HIDE DEF cells
<1>5. \A i \in Used(p) : i \in Nat /\ At(p, i)[2] \in Nat
  BY <1>1, RingSent, UsedMeansReady
<1>6. \A i \in 1..len : /\ cells[i] \in Sources(p) \X Nat /\ cells[i][2] <= sent[cells[i][1]]
                        /\ cells[i][2] \in InRing(p)
  BY <1>1, <1>3, RingSent DEF Origins, InRing
<1>7. ASSUME NEW i \in 2..len
      PROVE  cells[i][2] > cells[i - 1][2]
  <2>1. i \in 1..len /\ i - 1 \in 1..len /\ (i - 1) - 1 < i - 1
    BY <1>4
  <2>2. At(p, (i - 1) - 1)[2] < At(p, i - 1)[2]
    BY <1>1, <1>3, <2>1 DEF RingOrdered
  <2> QED BY <1>3, <1>5, <2>1, <2>2
<1>8. GotInv'
  <2>1. cells \in Seq(Port \X Nat)
    <3>1. \A i \in 1..len : cells[i] \in Port \X Nat
      BY <1>6 DEF Sources
    <3> QED BY <1>4, <3>1, ContentsAreCells DEF cells
  <2> QED BY <1>1, <1>2, <1>4, <1>6, <1>7, <2>1, GotReplaced
<1>9. InRing(p)' \subseteq InRing(p) /\ InGot(p)' \subseteq InRing(p)
  BY <1>2, <1>3, <1>4, <1>6 DEF InRing, InGot
<1>10. Precedes(InGot(p)', InRing(p)')
  <2> SUFFICES ASSUME NEW i \in 1..len, NEW j \in Used(p)'
               PROVE  cells[i][2] < At(p, j)'[2]
    BY <1>2, <1>4 DEF Precedes, InGot, InRing
  <2>1. i - 1 \in Used(p) /\ j + len \in Used(p) /\ At(p, j)' = At(p, j + len)
    BY <1>3
  <2>2. j \in Nat
    BY <1>3, <2>1 DEF Used
  <2>3. i - 1 < j + len
    BY <1>4, <2>2
  <2> QED BY <1>1, <1>3, <2>1, <2>3 DEF RingOrdered
<1>11. \A q \in Port : q # p => SameRing(q)
  BY <1>1, GetElsewhere
<1>12. \A q \in Port : q # p => InRing(q)' = InRing(q) /\ InGot(q)' = InGot(q) /\ (RingOrdered(q) => RingOrdered(q)')
  BY <1>2, <1>11, SameRingFacts DEF InGot
<1>13. RingsInv'
  BY <1>3, <1>12 DEF OrderInv, RingsInv
<1>14. LinesInv'
  <2> SUFFICES ASSUME NEW d \in Port, NEW q \in Sources(d),
                      Kind[d] = "QUEUEING", Direction[d] = "IN", Direction[q] = "OUT"
               PROVE  LineOrdered(q, d)'
    BY DEF LinesInv, Sources
  <2>1. LineOrdered(q, d) /\ q \in Port /\ q # p
    BY DEF OrderInv, LinesInv, Sources
  <2>2. CASE d = p
    <3>1. InRing(q)' = InRing(q)
      BY <1>12, <2>1
    <3>2. Precedes(InRing(p), InRing(q))
      BY <2>1, <2>2 DEF LineOrdered
    <3>3. Precedes(InGot(p)', InRing(q)') /\ Precedes(InRing(p)', InRing(q)')
      BY <1>9, <3>1, <3>2 DEF Precedes
    <3> QED BY <1>10, <2>2, <3>3 DEF LineOrdered, Precedes
  <2>3. CASE d # p
    BY <1>12, <2>1, <2>3, LineKept
  <2> QED BY <2>2, <2>3
<1>15. CarriedInv'
  <2>1. Unloaded
    BY UnloadedUnlessCarried DEF OrderInv
  <2> QED BY <1>1, <2>1 DEF CarriedInv, Loaded, Carries, Unloaded
<1>16. SamplesInv'
  <2>1. \A f \in Flush : \A q \in Port : CarriesOne(f, q)'
    BY <1>1 DEF OrderInv, SamplesInv, CarriesOne, Carries
  <2> QED BY <1>1, <1>2, <1>11, <2>1, SamplesElsewhere
<1> QED BY <1>8, <1>13, <1>14, <1>15, <1>16 DEF OrderInv

LEMMA OneElement ==
  ASSUME NEW S, NEW s \in Seq(S), s # <<>>
  PROVE  1 \in DOMAIN s /\ Head(s) = s[1] /\ Head(s) \in S /\ (Len(s) <= 1 => Len(s) = 1)
<1>1. Len(s) \in Nat /\ Len(s) # 0 /\ DOMAIN s = 1..Len(s)
  OBVIOUS
<1>2. 1 \in DOMAIN s /\ (Len(s) <= 1 => Len(s) = 1)
  BY <1>1
<1>3. Head(s) = s[1] /\ s[1] \in S
  BY <1>2
<1> QED BY <1>2, <1>3

LEMMA OneTail ==
  ASSUME NEW S, NEW s \in Seq(S), Len(s) = 1
  PROVE  Tail(s) = <<>>
<1>1. Tail(s) \in Seq(S)
  OBVIOUS
<1>2. Len(Tail(s)) = 0
  OBVIOUS
<1> QED BY <1>1, <1>2, EmptySeq

LEMMA TryOrder ==
  ASSUME Connected, RingTypeOK, FreshInv, OrderInv, NEW t \in Thread, NEW r, kernel = "free",
         ready[PortOf[t]], Kind[PortOf[t]] = "QUEUEING",
         UNCHANGED <<configVars, flushVars, kernel, now>>
  PROVE  /\ Direction[PortOf[t]] = "OUT" /\ r.len \in 1..Size[PortOf[t]] /\ TrySend(t, r) => OrderInv'
         /\ Direction[PortOf[t]] = "IN" /\ r.len \in Nat \ {0} /\ TryReceive(t, r) => OrderInv'
         /\ UNCHANGED <<ringVars, must_be_flushed, historyVars>> => OrderInv'
<1> DEFINE p == PortOf[t]
<1>0. p \in Port /\ Unloaded
  BY PortAssumption, UnloadedUnlessCarried DEF OrderInv
<1>1. ASSUME UNCHANGED <<ringVars, must_be_flushed, historyVars>>
      PROVE  OrderInv'
  BY <1>0, <1>1, OrderStays DEF configVars, ringVars, flushVars
<1>2. ASSUME Direction[p] = "OUT", r.len \in 1..Size[p], TrySend(t, r)
      PROVE  OrderInv'
  <2>1. CASE r.len <= AvailableSize(p) /\ Put(p, r.len)
    <3>1. ~full[p]
      <4>1. full[p] => AvailableSize(p) = 0
        BY <1>0, RoomUnlessFull
      <4>2. r.len > 0
        <5>1. Size[p] \in Nat
          BY <1>0, PortFacts
        <5> QED BY <1>2, <5>1
      <4>3. r.len \in Int /\ AvailableSize(p) \in Nat
        BY <1>0, <1>2, RoomUnlessFull
      <4>4. AvailableSize(p) # 0
        BY <2>1, <4>2, <4>3
      <4> QED BY <4>1, <4>4
    <3> QED BY <1>0, <1>2, <2>1, <3>1, SendOrder
  <2> QED BY <1>1, <1>2, <2>1 DEF TrySend, Sleep
<1>3. ASSUME Direction[p] = "IN", r.len \in Nat \ {0}, TryReceive(t, r)
      PROVE  OrderInv'
  <2> DEFINE len == IF r.len > ConsumedSize(p) THEN ConsumedSize(p) ELSE r.len
  <2>1. CASE ~empty[p]
    <3>1. /\ Get(p, len) /\ Obtain(p, Contents(p, len), FALSE)
      BY <1>3, <2>1 DEF TryReceive
    <3>2. len \in 1..ConsumedSize(p)
      <4>1. ConsumedSize(p) \in 1..PoolSize /\ PoolSize \in Nat
        BY <1>0, <2>1, ConsumedSome, PortAssumption DEF FreshInv
      <4> QED BY <1>3, <4>1
    <3> HIDE DEF len
    <3> QED BY <1>0, <1>3, <2>1, <3>1, <3>2, ReceiveOrder
  <2>2. CASE empty[p]
    BY <1>1, <1>3, <2>2 DEF TryReceive, Sleep
  <2> QED BY <2>1, <2>2
<1> QED BY <1>1, <1>2, <1>3

LEMMA CallOrder ==
  ASSUME Connected, RingTypeOK, SleepInv, FreshInv, OrderInv, NEW t \in Thread,
         Send(t) \/ SendAgain(t) \/ Receive(t) \/ ReceiveAgain(t)
  PROVE  OrderInv'
<1>0. UNCHANGED <<configVars, flushVars, kernel, now>> /\ PortOf[t] \in Port /\ kernel = "free"
  BY PortAssumption DEF Send, SendAgain, Receive, ReceiveAgain, Calls, WakesUp
<1>1. CASE Send(t)
  <2>1. PICK len \in Lengths, d \in Timeouts :
          len <= Size[PortOf[t]] /\ TrySend(t, [len |-> len, timeout |-> Absolute(d)])
    BY <1>1 DEF Send
  <2>2. len \in 1..Size[PortOf[t]]
    BY <1>0, <2>1, PortAssumption, PortFacts
  <2>3. Direction[PortOf[t]] = "OUT" /\ Kind[PortOf[t]] = "QUEUEING" /\ ready[PortOf[t]]
    BY <1>1 DEF Send, Calls
  <2> DEFINE r == [len |-> len, timeout |-> Absolute(d)]
  <2>4. r.len \in 1..Size[PortOf[t]] /\ TrySend(t, r)
    BY <2>1, <2>2
  <2> QED BY <1>0, <2>3, <2>4, TryOrder
<1>2. CASE Receive(t)
  <2>1. PICK len \in Lengths, d \in Timeouts :
          TryReceive(t, [len |-> len, timeout |-> Absolute(d)])
    BY <1>2 DEF Receive
  <2>2. Direction[PortOf[t]] = "IN" /\ Kind[PortOf[t]] = "QUEUEING" /\ ready[PortOf[t]]
    BY <1>2 DEF Receive, Calls
  <2> DEFINE r == [len |-> len, timeout |-> Absolute(d)]
  <2>3. r.len \in Nat \ {0} /\ TryReceive(t, r)
    BY <2>1, PortAssumption
  <2> QED BY <1>0, <2>2, <2>3, TryOrder
<1>3. ASSUME SendAgain(t) \/ ReceiveAgain(t)
      PROVE  /\ Kind[PortOf[t]] = "QUEUEING" /\ ready[PortOf[t]] /\ request[t].len \in Nat \ {0}
             /\ request[t].len \in 1..Size[PortOf[t]] \/ Direction[PortOf[t]] = "IN"
  BY <1>3 DEF SendAgain, ReceiveAgain, WakesUp, SleepInv, Waiting
<1>4. CASE SendAgain(t)
  <2>1. /\ Direction[PortOf[t]] = "OUT"
        /\ UNCHANGED <<ringVars, must_be_flushed, historyVars>> \/ TrySend(t, request[t])
    BY <1>4 DEF SendAgain, WakesUp
  <2> QED BY <1>0, <1>3, <1>4, <2>1, TryOrder
<1>5. CASE ReceiveAgain(t)
  <2>1. /\ Direction[PortOf[t]] = "IN"
        /\ UNCHANGED <<ringVars, must_be_flushed, historyVars>> \/ TryReceive(t, request[t])
    BY <1>5 DEF ReceiveAgain, WakesUp
  <2> QED BY <1>0, <1>3, <1>5, <2>1, TryOrder
<1> QED BY <1>1, <1>2, <1>4, <1>5

\* The flush takes all a port holds.  It goes to the only destination of a
\* queueing port, and to those of a sampling port, which hold as much.
LEMMA FlushTakeOrder ==
  ASSUME Connected, RingTypeOK, FreshInv, OrderInv, NEW f \in Flush, FlushTake(f)
  PROVE  OrderInv'
<1>a. PICK p \in Port : p = Head(flushes[f].ports)
  <2>1. flushes[f].ports \in Seq(Port) /\ flushes[f].ports # <<>>
    BY FlushFields DEF FlushTake
  <2> QED BY <2>1
<1> DEFINE len == ConsumedSize(p)
<1>0. /\ kernel = f /\ flushes[f].at = "ports" /\ DOMAIN flushes = Flush
      /\ UNCHANGED <<index, kernel, sent, got>> /\ flushes[f] \in FlushState
      /\ GotInv /\ MemoryInv /\ MessageInv /\ CarriedInv /\ SampleInv
  BY DEF FlushTake, historyVars, configVars, RingTypeOK, FreshInv, OrderInv
<1>1. \A g \in Flush : g # f => flushes'[g] = flushes[g]
  BY <1>0 DEF FlushTake
<1>2. Unloaded
  <2>1. \A q \in Port : ~Loaded(f, q)
    BY <1>0 DEF Loaded
  <2> QED BY <1>0, <2>1, UnloadedUnlessCarried
<1>3. CASE ~ToFlush(p)
  <2>1. /\ flushes' = [flushes EXCEPT ![f] = [flushes[f] EXCEPT !.ports = Tail(flushes[f].ports)]]
        /\ UNCHANGED <<ringVars, buffer>>
    BY <1>a, <1>3 DEF FlushTake
  <2>2. flushes'[f].at = "ports"
    BY <1>0, <2>1 DEF FlushState
  <2>3. \A g \in Flush : flushes'[g].at = "dests" => flushes'[g] = flushes[g]
    BY <1>1, <2>2
  <2> QED BY <1>0, <1>2, <2>1, <2>3, OrderStays DEF ringVars, historyVars
<1>4. CASE ToFlush(p)
  <2> DEFINE s == [flushes[f] EXCEPT !.at = "dests", !.dests = Destinations[p], !.len = len]
  <2>1. /\ ~empty[p] /\ Direction[p] = "OUT" /\ Get(p, len)
        /\ flushes' = [flushes EXCEPT ![f] = s]
        /\ buffer' = [i \in DOMAIN buffer |-> IF i <= len THEN Contents(p, len)[i] ELSE buffer[i]]
        /\ pool' = pool
    BY <1>a, <1>4 DEF FlushTake, ToFlush, Get
  <2>2. len \in 1..PoolSize /\ PoolSize \in Nat /\ DOMAIN buffer = 1..PoolSize /\ len \in Nat \ {0}
    BY <1>0, <2>1, ConsumedSome, PortAssumption DEF MemoryInv
  <2>3. /\ flushes'[f].at = "dests" /\ flushes'[f].ports = flushes[f].ports
        /\ flushes'[f].dests = Destinations[p] /\ flushes'[f].len = len
    BY <1>0, <2>1 DEF FlushState
  <2>4. \A i \in 1..len : buffer'[i] = Contents(p, len)[i]
    BY <2>1, <2>2
  <2>5. \A q \in Port : Carries(f, q)' => q = p
    BY <1>a, <2>3 DEF Carries
  <2> HIDE DEF s
  <2>6. GotInv'
    BY <1>0 DEF GotInv
  <2>7. \A q \in Port : q # p \/ Kind[p] = "SAMPLING" => SameRing(q)
    BY <1>0, <2>1, GetElsewhere
  <2>8. CASE Kind[p] = "QUEUEING"
    <3>1. RingOrdered(p) /\ len \in 1..ConsumedSize(p)
      BY <1>0, <2>2, <2>8 DEF OrderInv, RingsInv
    <3>2. /\ RingOrdered(p)' /\ empty'[p]
          /\ \A i \in 1..len : i - 1 \in Used(p) /\ Contents(p, len)[i] = At(p, i - 1)
      BY <1>0, <2>1, <2>8, <3>1, GetOrdered
    <3>3. InRing(p)' = {}
      <4>1. ConsumedSize(p)' = 0
        BY <3>2 DEF ConsumedSize
      <4> QED BY <4>1 DEF InRing, Used
    <3> HIDE DEF len
    <3>4. \A q \in Port : InRing(q)' \subseteq InRing(q) /\ InGot(q)' = InGot(q) /\ (RingOrdered(q) => RingOrdered(q)')
      BY <1>0, <2>7, <3>2, <3>3, SameRingFacts DEF InGot
    <3>5. RingsInv'
      BY <3>4 DEF OrderInv, RingsInv
    <3>6. LinesInv'
      <4> SUFFICES ASSUME NEW d \in Port, NEW q \in Sources(d),
                          Kind[d] = "QUEUEING", Direction[d] = "IN", Direction[q] = "OUT"
                   PROVE  LineOrdered(q, d)'
        BY DEF LinesInv, Sources
      <4>1. LineOrdered(q, d) /\ q \in Port
        BY DEF OrderInv, LinesInv, Sources
      <4> QED BY <3>4, <4>1, LineKept
    <3>7. SamplesInv'
      <4>1. \A g \in Flush : \A q \in Port : CarriesOne(g, q)'
        <5> SUFFICES ASSUME NEW g \in Flush, NEW q \in Port, Carries(g, q)', Kind[q] = "SAMPLING"
                     PROVE  FALSE
          BY DEF CarriesOne
        <5>1. g # f
          BY <2>5, <2>8
        <5>2. Carries(g, q)
          BY <1>1, <5>1 DEF Carries
        <5> QED BY <1>0, <5>1, <5>2 DEF FreshInv, CarryInv
      <4> QED BY <1>0, <2>1, <2>7, <2>8, <4>1, SamplesElsewhere
    <3>8. CarriedInv'
      <4> SUFFICES ASSUME NEW g \in Flush, NEW q \in Port, Loaded(g, q)'
                   PROVE  BufferOrdered(g, q, Head(flushes[g].dests))'
        BY DEF CarriedInv
      <4>1. g = f
        <5>1. g # f => Loaded(g, q)
          BY <1>1 DEF Loaded, Carries
        <5> QED BY <1>2, <5>1 DEF Unloaded
      <4>2. q = p
        BY <2>5, <4>1 DEF Loaded
      <4> DEFINE d == Head(Destinations[p])
      <4>3. /\ Destinations[p] \in Seq({e \in Port : Direction[e] = "IN"}) /\ Destinations[p] # <<>>
            /\ Len(Destinations[p]) <= 1
        BY <1>0, <2>3, <2>8, <4>1, PortAssumption DEF Loaded, Connected
      <4>4. /\ Len(Destinations[p]) = 1 /\ d \in Port /\ Direction[d] = "IN" /\ p \in Sources(d)
        <5>1. 1 \in DOMAIN Destinations[p] /\ d = Destinations[p][1] /\ Len(Destinations[p]) = 1
          BY <4>3, OneElement
        <5> QED BY <1>0, <4>3, <5>1 DEF Sources
      <4> HIDE DEF d
      <4>5. Kind[d] = "QUEUEING" /\ LineOrdered(p, d)
        BY <1>0, <2>1, <2>8, <4>4, SourceFacts DEF OrderInv, LinesInv
      <4>6. InGot(d)' = InGot(d) /\ InRing(d)' \subseteq InRing(d)
        BY <3>4, <4>4
      <4>7. ASSUME NEW i \in 1..len
            PROVE  /\ buffer'[i] \in {p} \X Nat
                   /\ \A j \in 1 .. i - 1 : buffer'[j][2] < buffer'[i][2]
                   /\ Precedes(InGot(d)' \cup InRing(d)', {buffer'[i][2]})
        <5>1. buffer'[i] = At(p, i - 1) /\ i - 1 \in Used(p)
          BY <2>4, <3>2
        <5>2. At(p, i - 1) \in {p} \X Nat /\ At(p, i - 1)[2] \in InRing(p)
          BY <2>1, <3>1, <5>1 DEF RingOrdered, Origins, InRing
        <5>3. ASSUME NEW j \in 1 .. i - 1
              PROVE  buffer'[j][2] < buffer'[i][2]
          <6>1. j \in 1..len /\ j - 1 < i - 1
            BY <2>2
          <6>2. buffer'[j] = At(p, j - 1) /\ j - 1 \in Used(p)
            BY <2>4, <3>2, <6>1
          <6> QED BY <3>1, <5>1, <6>1, <6>2 DEF RingOrdered
        <5>4. Precedes(InGot(d)' \cup InRing(d)', {buffer'[i][2]})
          BY <4>5, <4>6, <5>1, <5>2 DEF LineOrdered, Precedes
        <5> QED BY <5>1, <5>2, <5>3, <5>4
      <4>8. BufferOrdered(f, p, d)'
        BY <1>0, <2>1, <2>3, <3>2, <4>4, <4>7 DEF BufferOrdered, Sources
      <4> QED BY <2>3, <4>1, <4>2, <4>8 DEF d
    <3> QED BY <2>6, <3>5, <3>6, <3>7, <3>8 DEF OrderInv
  <2>9. CASE Kind[p] = "SAMPLING"
    <3>1. /\ HoldsOne(p) /\ len = Size[p] /\ ready[p]
          /\ \A q \in Port : Kind[q] = "SAMPLING" => HoldsOne(q) /\ ReadBehind(q)
      BY <1>0, <2>1, <2>9, ConsumedSome DEF OrderInv, SamplesInv, SampleInv
    <3>2. \A i \in 1..Size[p] : Contents(p, Size[p])[i] = pool[index[p]]
      BY <1>0, <2>1, <2>9, <3>1, SampleContents
    <3> HIDE DEF len
    <3>3. RingsInv' /\ LinesInv'
      BY <1>0, <2>7, <2>9, QueuesKept
    <3>4. CarriedInv'
      <4> SUFFICES ASSUME NEW g \in Flush, NEW q \in Port, Loaded(g, q)'
                   PROVE  FALSE
        BY DEF CarriedInv
      <4>1. g # f => Loaded(g, q)
        BY <1>1 DEF Loaded, Carries
      <4>2. g = f => Kind[q] = "SAMPLING"
        BY <2>5, <2>9 DEF Loaded
      <4> QED BY <1>2, <4>1, <4>2 DEF Unloaded, Loaded
    <3>5. \A g \in Flush : \A q \in Port : CarriesOne(g, q)'
      <4> SUFFICES ASSUME NEW g \in Flush, NEW q \in Port, Carries(g, q)', Kind[q] = "SAMPLING"
                   PROVE  /\ flushes'[g].len = Size[q]
                          /\ \A i \in 1..Size[q] : buffer'[i] = buffer'[1]
                          /\ \A i \in DOMAIN flushes'[g].dests : q \in Sources(flushes'[g].dests[i])
        BY DEF CarriesOne, Sources
      <4>1. g = f
        <5>1. g # f => Carries(g, q)
          BY <1>1 DEF Carries
        <5> QED BY <1>0, <5>1 DEF FreshInv, CarryInv
      <4>2. q = p
        BY <2>5, <4>1
      <4>3. 1 \in 1..len
        BY <2>2
      <4>4. \A i \in 1..Size[p] : buffer'[i] = pool[index[p]]
        BY <2>4, <3>1, <3>2
      <4>5. \A i \in DOMAIN Destinations[p] : p \in Sources(Destinations[p][i])
        BY <1>0 DEF Sources
      <4> QED BY <2>3, <3>1, <4>1, <4>2, <4>3, <4>4, <4>5
    <3>6. SamplesInv'
      <4>1. HoldsOne(p)' /\ ReadBehind(p)'
        <5>1. SameRing(p) /\ Segment(p)' = Segment(p) /\ Origins(p)' = Origins(p)
          BY <1>0, <2>7, <2>9 DEF Segment, Origins
        <5> QED BY <1>0, <2>1, <2>9, <3>1, <5>1 DEF HoldsOne, ReadBehind, SameRing
      <4> QED BY <1>0, <2>1, <2>7, <2>9, <3>5, <4>1, SamplesElsewhere
    <3> QED BY <2>6, <3>3, <3>4, <3>6 DEF OrderInv
  <2> QED BY <1>0, <2>8, <2>9, PortFacts
<1> QED BY <1>3, <1>4

\* What the flush carries is put behind what the destination has, or lost.
LEMMA FlushWriteOrder ==
  ASSUME Connected, RingTypeOK, SleepInv, FreshInv, OrderInv, NEW f \in Flush, FlushWrite(f)
  PROVE  OrderInv'
<1>1. /\ flushes[f].dests \in Seq({p \in Port : Direction[p] = "IN"}) /\ flushes[f].dests # <<>>
      /\ flushes[f].ports \in Seq(Port) /\ flushes[f].ports # <<>>
      /\ kernel = f /\ flushes[f].at = "dests" /\ DOMAIN flushes = Flush /\ flushes[f] \in FlushState
  BY FlushFields DEF FlushWrite, RingTypeOK
<1>2. PICK o \in Port : o = Head(flushes[f].ports)
  BY <1>1
<1>3. PICK d \in Port : d = Head(flushes[f].dests) /\ Direction[d] = "IN" /\ d = flushes[f].dests[1]
                        /\ 1 \in DOMAIN flushes[f].dests
  BY <1>1, OneElement
<1> DEFINE len == flushes[f].len
           data == SubSeq(buffer, 1, len)
<1>4. /\ UNCHANGED <<configVars, index, buffer, sent, got>>
      /\ flushes' = [flushes EXCEPT ![f] = [flushes[f] EXCEPT !.dests = Tail(flushes[f].dests)]]
      /\ IF ready[d] THEN Write(d, data) ELSE UNCHANGED ringVars
      /\ GotInv /\ MemoryInv /\ MessageInv /\ CarriedInv /\ CarryInv
  BY <1>3 DEF FlushWrite, historyVars, configVars, FreshInv, OrderInv
<1>5. /\ \A g \in Flush : g # f => flushes'[g] = flushes[g]
      /\ flushes'[f].ports = flushes[f].ports /\ flushes'[f].dests = Tail(flushes[f].dests)
      /\ flushes'[f].at = "dests" /\ flushes'[f].len = flushes[f].len
  BY <1>1, <1>4 DEF FlushState
<1>6. \A g \in Flush : \A q \in Port : /\ Carries(g, q)' => Carries(g, q)
                                       /\ Carries(f, q) => q = o
  BY <1>1, <1>2, <1>5 DEF Carries
<1>7. Carries(f, o) /\ Kind[d] = Kind[o] /\ len \in 1..PoolSize
  BY <1>1, <1>2, <1>3, <1>4 DEF Carries, CarryInv
<1>8. /\ Len(data) = len /\ len \in Nat \ {0}
      /\ \A k \in 1..len : data[k] = buffer[k]
  <2>1. DOMAIN buffer = 1..PoolSize /\ PoolSize \in Nat
    BY <1>4, PortAssumption DEF MemoryInv
  <2> QED BY <1>7, <2>1
<1> HIDE DEF len, data
<1>9. GotInv'
  BY <1>4 DEF GotInv
<1>10. \A q \in Port : q # d => SameRing(q) /\ (ready[q] => \A i \in Segment(q) : pool'[i] = pool[i])
  <2>1. CASE ready[d]
    BY <1>4, <1>8, <2>1, WriteElsewhere
  <2>2. CASE ~ready[d]
    BY <1>4, <2>2, RingsUntouched DEF ringVars
  <2> QED BY <2>1, <2>2
<1>11. \A g \in Flush : \A q \in Port : CarriesOne(g, q)'
  <2> SUFFICES ASSUME NEW g \in Flush, NEW q \in Port, Carries(g, q)', Kind[q] = "SAMPLING"
               PROVE  /\ flushes'[g].at = "dests" => flushes'[g].len = Size[q]
                      /\ flushes'[g].at = "dests" => \A i \in 1..Size[q] : buffer'[i] = buffer'[1]
                      /\ flushes'[g].at = "dests" =>
                           \A i \in DOMAIN flushes'[g].dests : q \in Sources(flushes'[g].dests[i])
    BY DEF CarriesOne, Sources
  <2>1. Carries(g, q) /\ CarriesOne(g, q)
    BY <1>6 DEF OrderInv, SamplesInv
  <2>2. g = f
    BY <1>1, <1>4, <2>1 DEF CarryInv
  <2>3. \A i \in DOMAIN flushes'[f].dests : i + 1 \in DOMAIN flushes[f].dests
                                            /\ flushes'[f].dests[i] = flushes[f].dests[i + 1]
    BY <1>1, <1>5
  <2> QED BY <1>1, <1>4, <1>5, <2>1, <2>2, <2>3 DEF CarriesOne
<1>12. CASE Kind[o] = "SAMPLING"
  <2>1. /\ len = Size[o] /\ \A i \in 1..Size[o] : buffer[i] = buffer[1]
        /\ o \in Sources(d) /\ buffer[1] = <<o, sent[o]>>
    BY <1>1, <1>3, <1>4, <1>7, <1>12 DEF OrderInv, SamplesInv, CarriesOne, CarryInv, len
  <2>2. Size[d] = Size[o] /\ \A q \in Sources(d) : q = o
    BY <1>7, <1>12, <2>1, SourceFacts
  <2> DEFINE c == <<o, sent[o]>>
  <2>3. \A k \in 1..Len(data) : data[k] = c
    BY <1>8, <2>1
  <2>4. c \in Origins(d) \X Nat
    BY <1>3, <1>4, <2>1 DEF Origins, MessageInv
  <2>5. got[d].cells # <<>> => got[d].cells[1][2] <= c[2]
    <3> SUFFICES ASSUME got[d].cells # <<>>
                 PROVE  got[d].cells[1][2] <= sent[o]
      OBVIOUS
    <3>1. Len(got[d].cells) = Size[d] /\ DOMAIN got[d].cells = 1..Len(got[d].cells)
      BY <1>4, <1>7, <1>12 DEF OrderInv, SamplesInv, ReadBehind, GotInv
    <3>2. 1 \in DOMAIN got[d].cells
      BY <3>1, PortFacts
    <3>3. /\ got[d].cells[1] \in Sources(d) \X Nat
          /\ got[d].cells[1][2] <= sent[got[d].cells[1][1]]
      BY <1>4, <3>2 DEF GotInv
    <3> QED BY <2>2, <3>3
  <2> HIDE DEF c
  <2>6. RingsInv' /\ LinesInv' /\ SamplesInv'
    <3>1. CASE ready[d]
      BY <1>4, <1>7, <1>8, <1>11, <1>12, <2>1, <2>2, <2>3, <2>4, <2>5, <3>1, SampleWritten
    <3>2. CASE ~ready[d]
      <4>1. UNCHANGED <<off_b, off_e, full, empty, pool>>
        BY <1>4, <3>2 DEF ringVars
      <4>2. \A q \in Port : SameRing(q) /\ got'[q] = got[q]
        BY <1>4, <4>1, RingsUntouched
      <4>3. HoldsOne(d)' /\ ReadBehind(d)'
        <5>1. Segment(d)' = Segment(d) /\ Origins(d)' = Origins(d)
          BY <1>4 DEF Segment, Origins
        <5>2. HoldsOne(d) /\ ReadBehind(d)
          BY <1>7, <1>12 DEF OrderInv, SamplesInv
        <5> QED BY <1>4, <4>1, <5>1, <5>2 DEF HoldsOne, ReadBehind
      <4> QED BY <1>4, <1>10, <1>11, <4>2, <4>3, QueuesKept, SamplesElsewhere
    <3> QED BY <3>1, <3>2
  <2>7. CarriedInv'
    <3> SUFFICES ASSUME NEW g \in Flush, NEW q \in Port, Loaded(g, q)'
                 PROVE  FALSE
      BY DEF CarriedInv
    <3>1. Kind[q] = "QUEUEING" /\ Carries(g, q) /\ g # f
      BY <1>6, <1>12 DEF Loaded
    <3>2. Loaded(g, q)
      BY <1>5, <3>1 DEF Loaded
    <3> QED BY <1>1, <1>4, <3>1, <3>2 DEF CarriedInv, BufferOrdered
  <2> QED BY <1>9, <2>6, <2>7 DEF OrderInv
<1>13. CASE Kind[o] = "QUEUEING"
  <2>1. BufferOrdered(f, o, d)
    <3>1. Loaded(f, o)
      BY <1>1, <1>7, <1>13 DEF Loaded
    <3> QED BY <1>3, <1>4, <3>1 DEF CarriedInv
  <2>2. /\ empty[o] /\ Direction[o] = "OUT" /\ o \in Sources(d) /\ Kind[d] = "QUEUEING" /\ o # d
        /\ \A q \in Sources(d) : q = o
    BY <1>3, <1>7, <1>13, <2>1, SourceFacts DEF BufferOrdered
  <2>3. flushes'[f].dests = <<>>
    <3>1. Len(flushes[f].dests) = 1
      BY <2>1 DEF BufferOrdered
    <3>2. Tail(flushes[f].dests) = <<>>
      BY <1>1, <3>1, OneTail
    <3> QED BY <1>5, <3>2
  <2>4. CarriedInv'
    <3> SUFFICES ASSUME NEW g \in Flush, NEW q \in Port, Loaded(g, q)'
                 PROVE  FALSE
      BY DEF CarriedInv
    <3>1. Carries(g, q) /\ g # f
      BY <1>6, <2>3 DEF Loaded
    <3>2. Loaded(g, q)
      BY <1>5, <3>1 DEF Loaded
    <3> QED BY <1>1, <1>4, <3>1, <3>2 DEF CarriedInv, BufferOrdered
  <2>5. Follows(d, data)
    <3> SUFFICES ASSUME NEW i \in 1..len
                 PROVE  /\ data[i] \in Origins(d) \X Nat
                        /\ \A j \in 1 .. i - 1 : data[j][2] < data[i][2]
                        /\ Precedes(InRing(d), {data[i][2]})
      BY <1>8 DEF Follows
    <3>1. /\ buffer[i] \in {o} \X Nat
          /\ \A j \in 1 .. i - 1 : buffer[j][2] < buffer[i][2]
          /\ Precedes(InGot(d) \cup InRing(d), {buffer[i][2]})
      BY <2>1 DEF BufferOrdered, len
    <3>2. \A j \in 1 .. i - 1 : j \in 1..len
      BY <1>8
    <3>3. Origins(d) = Sources(d)
      BY <1>3 DEF Origins
    <3> QED BY <1>8, <2>2, <3>1, <3>2, <3>3 DEF Precedes
  <2>6. /\ RingOrdered(d)'
        /\ \A i \in Used(d)' : \/ i \in Used(d) /\ At(d, i)' = At(d, i)
                               \/ \E j \in 1..len : At(d, i)' = data[j]
    <3>1. RingOrdered(d)
      BY <2>2 DEF OrderInv, RingsInv
    <3>2. CASE ready[d] /\ Accepts(d, len)
      <4>1. ~full[d] /\ Len(data) \in 1..Size[d] /\ Write(d, data)
        BY <1>4, <1>8, <2>2, <3>2, PortFacts DEF Accepts
      <4> QED BY <1>4, <1>8, <2>2, <2>5, <3>1, <3>2, <4>1, WriteOrdered
    <3>3. CASE ~(ready[d] /\ Accepts(d, len))
      <4>1. UNCHANGED ringVars
        BY <1>4, <1>8, <3>3 DEF Write
      <4>2. SameRing(d)
        BY <1>4, <4>1, RingsUntouched DEF ringVars
      <4> QED BY <3>1, <4>2, SameRingFacts DEF SameRing
    <3> QED BY <3>2, <3>3
  <2>7. \A q \in Port : q # d => InRing(q)' = InRing(q) /\ (RingOrdered(q) => RingOrdered(q)')
    BY <1>10, SameRingFacts
  <2>8. \A q \in Port : InGot(q)' = InGot(q)
    BY <1>4 DEF InGot
  <2>9. RingsInv'
    BY <2>6, <2>7 DEF OrderInv, RingsInv
  <2>10. \A x \in InRing(d)' : x \in InRing(d) \/ \E j \in 1..len : x = data[j][2]
    BY <2>6 DEF InRing
  <2>11. LinesInv'
    <3> SUFFICES ASSUME NEW e \in Port, NEW q \in Sources(e),
                        Kind[e] = "QUEUEING", Direction[e] = "IN", Direction[q] = "OUT"
                 PROVE  LineOrdered(q, e)'
      BY DEF LinesInv, Sources
    <3>1. LineOrdered(q, e) /\ q \in Port /\ q # d
      BY <1>3 DEF OrderInv, LinesInv, Sources
    <3>2. CASE e # d
      BY <2>7, <2>8, <3>1, <3>2, LineKept
    <3>3. CASE e = d
      <4>1. q = o /\ InRing(o)' = {}
        <5>1. InRing(o) = {}
          BY <2>2 DEF InRing, Used, ConsumedSize
        <5> QED BY <2>2, <2>7, <3>3, <5>1
      <4>2. Precedes(InGot(d), InRing(d))
        BY <3>1, <3>3 DEF LineOrdered
      <4>3. \A j \in 1..len : \A x \in InGot(d) : x < data[j][2]
        BY <1>8, <2>1 DEF BufferOrdered, Precedes, len
      <4>4. Precedes(InGot(d)', InRing(d)')
        BY <2>8, <2>10, <4>2, <4>3 DEF Precedes
      <4> QED BY <3>3, <4>1, <4>4 DEF LineOrdered, Precedes
    <3> QED BY <3>2, <3>3
  <2>12. SamplesInv'
    BY <1>4, <1>10, <1>11, <2>2, SamplesElsewhere
  <2> QED BY <1>9, <2>4, <2>9, <2>11, <2>12 DEF OrderInv
<1> QED BY <1>12, <1>13, PortFacts

LEMMA FlushOrder ==
  ASSUME Connected, RingTypeOK, SleepInv, FreshInv, OrderInv, NEW f \in Flush,
         \/ FlushStart(f) \/ FlushResume(f) \/ FlushTake(f) \/ FlushWrite(f)
         \/ FlushRoom(f) \/ FlushUnmark(f) \/ FlushEnd(f)
  PROVE  OrderInv'
<1>0. DOMAIN flushes = Flush /\ CarriedInv
  BY DEF RingTypeOK, OrderInv
<1>1. ASSUME FlushStart(f) \/ FlushResume(f) \/ FlushRoom(f) \/ FlushUnmark(f) \/ FlushEnd(f)
      PROVE  /\ UNCHANGED <<index, off_b, off_e, full, empty, pool, buffer, historyVars>>
             /\ Unloaded
             /\ \A g \in Flush : g # f => flushes'[g] = flushes[g]
             /\ flushes'[f].at = "dests" => flushes'[f] = flushes[f]
  <2>1. UNCHANGED <<index, off_b, off_e, full, empty, pool, buffer, historyVars>>
    BY <1>1 DEF FlushStart, FlushResume, FlushRoom, FlushUnmark, FlushEnd, configVars, ringVars,
       flushVars
  <2>2. Unloaded
    <3>1. \/ kernel = "free"
          \/ kernel = f /\ (flushes[f].at # "dests" \/ flushes[f].dests = <<>>)
      BY <1>1 DEF FlushStart, FlushResume, FlushRoom, FlushUnmark, FlushEnd
    <3> QED BY <1>0, <3>1, UnloadedUnlessCarried DEF Loaded
  <2>3. /\ \A g \in Flush : g # f => flushes'[g] = flushes[g]
        /\ flushes'[f].at \in {"ports", "mark", "none"} \/ flushes'[f] = flushes[f]
    <3>1. CASE FlushStart(f)
      BY <1>0, <3>1 DEF FlushStart, NoFlush
    <3>2. CASE FlushResume(f)
      BY <3>2 DEF FlushResume, flushVars
    <3>3. CASE FlushRoom(f)
      <4>1. flushes[f] \in FlushState
        BY DEF RingTypeOK
      <4> QED BY <1>0, <3>3, <4>1 DEF FlushRoom, FlushState
    <3>4. CASE FlushUnmark(f)
      BY <1>0, <3>4 DEF FlushUnmark, NoFlush
    <3>5. CASE FlushEnd(f)
      BY <1>0, <3>5 DEF FlushEnd, NoFlush
    <3> QED BY <1>1, <3>1, <3>2, <3>3, <3>4, <3>5
  <2> QED BY <2>1, <2>2, <2>3
<1>2. ASSUME FlushStart(f) \/ FlushResume(f) \/ FlushRoom(f) \/ FlushUnmark(f) \/ FlushEnd(f)
      PROVE  OrderInv'
  <2>1. \A g \in Flush : flushes'[g].at = "dests" => flushes'[g] = flushes[g]
    BY <1>1, <1>2
  <2> QED BY <1>1, <1>2, <2>1, OrderStays
<1> QED BY <1>2, FlushTakeOrder, FlushWriteOrder

LEMMA OrderStep ==
  ASSUME Connected, RingTypeOK, SleepInv, FreshInv, OrderInv, [Next]_vars
  PROVE  OrderInv'
<1>1. CASE Tick
  <2>1. Unloaded
    BY <1>1, UnloadedUnlessCarried DEF Tick, OrderInv
  <2> QED BY <1>1, <2>1, OrderStays DEF Tick, configVars, ringVars, flushVars
<1>2. CASE UNCHANGED vars
  <2>1. UNCHANGED <<index, off_b, off_e, full, empty, pool, buffer, flushes, kernel, sent, got>>
    BY <1>2 DEF vars, configVars, ringVars, flushVars, historyVars
  <2>2. \A p \in Port : SameRing(p) /\ got'[p] = got[p]
    BY <2>1, RingsUntouched
  <2>3. RingsInv' /\ LinesInv'
    BY <2>2, QueuesKept
  <2>5. CarriedInv'
    <3>1. \A p \in Port : InRing(p)' = InRing(p) /\ InGot(p)' = InGot(p)
      BY <2>2, SameRingFacts DEF InGot
    <3> SUFFICES ASSUME NEW f \in Flush, NEW q \in Port, Loaded(f, q)'
                 PROVE  BufferOrdered(f, q, Head(flushes[f].dests))'
      BY DEF CarriedInv
    <3>2. Loaded(f, q) /\ flushes[f] \in FlushState
      BY <2>1 DEF Loaded, Carries, RingTypeOK
    <3>3. PICK d \in Port : d = Head(flushes[f].dests)
      BY <3>2, OneElement DEF Loaded, FlushState
    <3>4. BufferOrdered(f, q, d)
      BY <3>2, <3>3 DEF OrderInv, CarriedInv
    <3>5. BufferOrdered(f, q, d)'
      BY <2>1, <3>1, <3>4 DEF BufferOrdered, Sources
    <3> QED BY <2>1, <3>3, <3>5
  <2>4. GotInv' /\ SamplesInv'
    <3>1. GotInv'
      BY <2>1 DEF OrderInv, GotInv
    <3>2. \A p \in Port : Kind[p] = "SAMPLING" => HoldsOne(p)' /\ ReadBehind(p)'
      BY <2>1 DEF OrderInv, SamplesInv, HoldsOne, ReadBehind, Segment, Origins
    <3>3. \A f \in Flush : \A q \in Port : CarriesOne(f, q)'
      BY <2>1 DEF OrderInv, SamplesInv, CarriesOne, Carries
    <3> QED BY <3>1, <3>2, <3>3 DEF SamplesInv
  <2> QED BY <2>3, <2>4, <2>5 DEF OrderInv
<1> QED BY <1>1, <1>2, CreateOrder, CallOrder, SamplingWriteOrder, SamplingReadOrder, FlushOrder DEF Next

LEMMA OrderStart == Init => OrderInv
<1> SUFFICES ASSUME Init
             PROVE  OrderInv
  OBVIOUS
<1>1. \A p \in Port : /\ empty[p] /\ off_b[p] = 0 /\ off_e[p] = 0 /\ got[p].cells = <<>>
                      /\ ConsumedSize(p) = 0
  BY DEF Init, Nothing, ConsumedSize
<1>2. \A p \in Port : Used(p) = {} /\ InRing(p) = {} /\ InGot(p) = {}
  BY <1>1 DEF Used, InRing, InGot
<1>3. RingsInv /\ LinesInv
  BY <1>1, <1>2 DEF RingsInv, RingOrdered, LinesInv, LineOrdered, Precedes
<1>4. CarriedInv /\ \A f \in Flush : \A q \in Port : CarriesOne(f, q)
  <2>1. \A f \in Flush : flushes[f].at = "none"
    BY DEF Init, NoFlush
  <2> QED BY <2>1 DEF CarriedInv, Loaded, CarriesOne
<1>5. GotInv
  <2>1. <<>> \in Seq(Port \X Nat) /\ Len(<<>>) = 0 /\ DOMAIN <<>> = {}
    OBVIOUS
  <2>2. \A i \in 2..0 : FALSE
    OBVIOUS
  <2> SUFFICES ASSUME NEW p \in Port
               PROVE  LET c == got[p].cells IN
                      /\ c # <<>> => Direction[p] = "IN"
                      /\ c \in Seq(Port \X Nat) /\ Len(c) \in Nat /\ DOMAIN c = 1..Len(c)
                      /\ \A i \in DOMAIN c : c[i] \in Sources(p) \X Nat /\ c[i][2] <= sent[c[i][1]]
                      /\ Kind[p] = "QUEUEING" => \A i \in 2..Len(c) : c[i][2] > c[i - 1][2]
    BY DEF GotInv
  <2>3. got[p].cells = <<>>
    BY <1>1
  <2> QED BY <2>1, <2>2, <2>3
<1>6. SamplesInv
  BY <1>1, <1>4 DEF SamplesInv, HoldsOne, ReadBehind
<1> QED BY <1>3, <1>4, <1>5, <1>6 DEF OrderInv

\* A read returns only what was written to the port connected to this one, in
\* the order it was written, through every wrap-around, overrun, partial read
\* and flush within a flush (pok_port_get, pok_port_write and the one buffer
\* of pok_port_flush).
THEOREM ReadsInOrder == ASSUME Connected PROVE Spec => []InOrder
<1> DEFINE Inv == RingTypeOK /\ SleepInv /\ FreshInv /\ OrderInv
<1>1. Init => Inv
  BY SleepStart, FreshStart, OrderStart
<1>2. Inv /\ [Next]_vars => Inv'
  BY SleepStep, FreshStep, OrderStep DEF Connected
<1>3. Inv => InOrder
  <2> SUFFICES ASSUME Inv, NEW p \in Port
               PROVE  LET c == got[p].cells IN
                      /\ \A i \in DOMAIN c : c[i] # None /\ c[i][1] \in Sources(p)
                      /\ Kind[p] = "QUEUEING" => \A i \in 2..Len(c) : c[i][2] > c[i - 1][2]
                      /\ Kind[p] = "SAMPLING" => \A i \in 2..Len(c) : c[i] = c[1]
    BY DEF InOrder
  <2> DEFINE c == got[p].cells
  <2>1. /\ Len(c) \in Nat /\ DOMAIN c = 1..Len(c)
        /\ \A i \in DOMAIN c : c[i] \in Sources(p) \X Nat
        /\ Kind[p] = "QUEUEING" => \A i \in 2..Len(c) : c[i][2] > c[i - 1][2]
        /\ Kind[p] = "SAMPLING" => ReadBehind(p)
    BY DEF OrderInv, GotInv, SamplesInv
  <2>2. ASSUME NEW i \in DOMAIN c
        PROVE  c[i] # None /\ c[i][1] \in Sources(p)
    <3>1. c[i] = <<c[i][1], c[i][2]>> /\ c[i][1] \in Sources(p)
      BY <2>1
    <3> QED BY <3>1, CellsAreWritten
  <2>3. ASSUME Kind[p] = "SAMPLING", NEW i \in 2..Len(c)
        PROVE  c[i] = c[1]
    <3>1. Len(c) # 0 /\ i \in 1..Len(c)
      BY <2>1
    <3>2. c # <<>>
      <4>1. Len(<<>>) = 0
        OBVIOUS
      <4> QED BY <3>1, <4>1
    <3> QED BY <2>1, <2>3, <3>1, <3>2 DEF ReadBehind
  <2> QED BY <2>1, <2>2, <2>3
<1> QED BY <1>1, <1>2, <1>3, PTL DEF Spec

-----------------------------------------------------------------------------
\* What changes what was read.  A receive gets cells of the ring; they follow
\* those read before.
LEMMA ReceiveAdvances ==
  ASSUME Connected, RingTypeOK, FreshInv, OrderInv, NEW p \in Port,
         Kind[p] = "QUEUEING", Direction[p] = "IN", ~empty[p], got[p].cells # <<>>,
         NEW len \in 1..ConsumedSize(p)
  PROVE  Contents(p, len)[1][2] > got[p].cells[Len(got[p].cells)][2]
<1> DEFINE old == got[p].cells
           n == Len(old)
<1>1. /\ RingOrdered(p) /\ GotInv /\ MemoryInv /\ MessageInv /\ LinesInv
  BY DEF OrderInv, RingsInv, FreshInv
<1>2. /\ old \in Seq(Port \X Nat) /\ n \in Nat /\ DOMAIN old = 1..n
      /\ \A i \in DOMAIN old : old[i] \in Sources(p) \X Nat
  BY <1>1 DEF GotInv
<1>3. n # 0
  BY <1>2, EmptySeq
<1>4. n \in DOMAIN old
  BY <1>2, <1>3
<1>5. PICK q \in Sources(p) : q = old[n][1]
  BY <1>2, <1>4
<1>6. LineOrdered(q, p)
  BY <1>1, SourceFacts DEF LinesInv
<1>7. old[n][2] \in InGot(p)
  BY <1>4 DEF InGot
<1>8. /\ ConsumedSize(p) \in Nat /\ ConsumedSize(p) > 0
      /\ off_b[p] \in Nat
  BY <1>1, EndsFacts
<1>9. 0 \in Used(p) /\ len \in Nat /\ 1 \in 1..len
  BY <1>8 DEF Used
<1>10. Contents(p, len)[1] = At(p, 0)
  <2>1. off_b[p] + 1 - 1 = off_b[p] + 0
    BY <1>8
  <2> QED BY <1>9, <2>1, ContentsFacts DEF At
<1>11. old[n][2] < At(p, 0)[2]
  BY <1>6, <1>7, <1>9 DEF LineOrdered, Precedes, InRing
<1>12. old[n][2] \in Nat /\ At(p, 0)[2] \in Nat
  BY <1>1, <1>2, <1>4, <1>9, RingSent
<1> QED BY <1>10, <1>11, <1>12

\* A sampling read gets the sample it got before, or a later one.
LEMMA SamplingAdvances ==
  ASSUME Connected, RingTypeOK, FreshInv, OrderInv, NEW p \in Port,
         Kind[p] = "SAMPLING", Direction[p] = "IN", ~empty[p], got[p].cells # <<>>
  PROVE  LET old == got[p].cells
             new == Contents(p, Size[p])
         IN new[1][2] > old[Len(old)][2] \/ new = old
<1> DEFINE old == got[p].cells
           new == Contents(p, Size[p])
           c == pool[index[p]]
<1>1. GotInv /\ MemoryInv /\ HoldsOne(p) /\ ReadBehind(p) /\ Size[p] \in Nat \ {0} /\ Origins(p) = Sources(p)
  BY PortFacts DEF OrderInv, SamplesInv, FreshInv, Origins
<1>2. /\ old \in Seq(Port \X Nat) /\ Len(old) = Size[p]
      /\ \A i \in DOMAIN old : old[i] \in Sources(p) \X Nat
      /\ \A i \in 1..Size[p] : old[i] = old[1]
      /\ old[1][2] <= c[2]
  BY <1>1 DEF GotInv, ReadBehind
<1>3. DOMAIN old = 1..Size[p] /\ 1 \in 1..Size[p] /\ Size[p] \in 1..Size[p]
  BY <1>1, <1>2
<1>4. c \in Sources(p) \X Nat
  BY <1>1 DEF HoldsOne
<1>5. /\ \A i \in 1..Size[p] : new[i] = c
      /\ Len(new) = Size[p] /\ new \in Seq(Port \X Nat)
  <2>1. \A i \in 1..Size[p] : new[i] = c
    BY <1>1, SampleContents
  <2>2. c \in Port \X Nat
    BY <1>4 DEF Sources
  <2> QED BY <1>1, <2>1, <2>2, ContentsFacts, ContentsAreCells
<1> HIDE DEF old, new, c
<1>6. old[1] \in Sources(p) \X Nat /\ old[Len(old)] = old[1] /\ new[1] = c
  BY <1>2, <1>3, <1>5
<1>7. CASE c[2] # old[1][2]
  <2>1. c[2] \in Nat /\ old[1][2] \in Nat
    BY <1>4, <1>6
  <2>2. c[2] > old[1][2]
    BY <1>2, <1>7, <2>1
  <2> QED BY <1>6, <2>2 DEF old, new
<1>8. CASE c[2] = old[1][2]
  <2>1. c[1] = old[1][1]
    BY <1>4, <1>6, SourceFacts
  <2>2. c = old[1]
    BY <1>4, <1>6, <1>8, <2>1
  <2>3. \A i \in 1..Size[p] : new[i] = old[i]
    BY <1>2, <1>5, <2>2
  <2>4. new = old
    BY <1>1, <1>2, <1>5, <2>3, SeqEqual
  <2> QED BY <2>4 DEF old, new
<1> QED BY <1>7, <1>8

\* No cell is received twice, and no sample is read behind a newer one
\* (pok_port_queueing_receive and pok_port_sampling_read, against the flushes).
THEOREM ReadsAlwaysAdvance == ASSUME Connected PROVE Spec => ReadsAdvance
<1> DEFINE Inv == RingTypeOK /\ SleepInv /\ FreshInv /\ OrderInv
           Advances == \A p \in Port : got'[p] # got[p] =>
                         LET old == got[p].cells
                             new == got'[p].cells
                         IN \/ old = <<>>
                            \/ new[1][2] > old[Len(old)][2]
                            \/ Kind[p] = "SAMPLING" /\ new = old
<1>1. Init => Inv
  BY SleepStart, FreshStart, OrderStart
<1>2. Inv /\ [Next]_vars => Inv'
  BY SleepStep, FreshStep, OrderStep DEF Connected
<1>3. Inv /\ [Next]_vars => [Advances]_vars
  <2> SUFFICES ASSUME Inv, Next
               PROVE  Advances
    OBVIOUS
  <2>0. DOMAIN got = Port
    BY DEF FreshInv, SampleInv
  <2>1. CASE got' = got
    BY <2>1
  <2>2. ASSUME NEW t \in Thread, NEW r, r.len \in Nat \ {0}, TryReceive(t, r), got' # got,
               Direction[PortOf[t]] = "IN", Kind[PortOf[t]] = "QUEUEING"
        PROVE  Advances
    <3>1. PICK p \in Port : p = PortOf[t]
      BY PortAssumption
    <3>2. ~empty[p]
      BY <2>2, <3>1 DEF TryReceive, Sleep, historyVars
    <3> DEFINE len == IF r.len > ConsumedSize(p) THEN ConsumedSize(p) ELSE r.len
    <3>3. Obtain(p, Contents(p, len), FALSE)
      BY <2>2, <3>1, <3>2 DEF TryReceive
    <3>4. len \in 1..ConsumedSize(p)
      <4>1. ConsumedSize(p) \in 1..PoolSize /\ PoolSize \in Nat
        BY <3>2, ConsumedSome, PortAssumption DEF FreshInv
      <4> QED BY <2>2, <4>1
    <3> HIDE DEF len
    <3>5. got'[p].cells = Contents(p, len) /\ \A q \in Port : q # p => got'[q] = got[q]
      BY <2>0, <3>3 DEF Obtain
    <3>6. got[p].cells # <<>> => Contents(p, len)[1][2] > got[p].cells[Len(got[p].cells)][2]
      BY <2>2, <3>1, <3>2, <3>4, ReceiveAdvances
    <3> QED BY <3>5, <3>6
  <2>3. ASSUME NEW t \in Thread, Receive(t) \/ ReceiveAgain(t), got' # got
        PROVE  Advances
    <3>1. CASE Receive(t)
      <4>1. PICK n \in Lengths, d \in Timeouts : TryReceive(t, [len |-> n, timeout |-> Absolute(d)])
        BY <3>1 DEF Receive
      <4> DEFINE r == [len |-> n, timeout |-> Absolute(d)]
      <4>2. r.len \in Nat \ {0} /\ TryReceive(t, r)
        BY <4>1, PortAssumption
      <4>3. Direction[PortOf[t]] = "IN" /\ Kind[PortOf[t]] = "QUEUEING"
        BY <3>1 DEF Receive, Calls
      <4> HIDE DEF r
      <4> QED BY <2>2, <2>3, <4>2, <4>3
    <3>2. CASE ReceiveAgain(t)
      <4>1. /\ pc[t] # "user" /\ Direction[PortOf[t]] = "IN"
            /\ TryReceive(t, request[t]) \/ UNCHANGED historyVars
        BY <3>2 DEF ReceiveAgain, WakesUp
      <4>2. request[t].len \in Nat \ {0} /\ Kind[PortOf[t]] = "QUEUEING"
        BY <4>1 DEF SleepInv, Waiting
      <4> QED BY <2>2, <2>3, <4>1, <4>2 DEF historyVars
    <3> QED BY <2>3, <3>1, <3>2
  <2>4. ASSUME NEW t \in Thread, SamplingRead(t)
        PROVE  Advances
    <3>1. PICK p \in Port : p = PortOf[t]
      BY PortAssumption
    <3>2. /\ Kind[p] = "SAMPLING" /\ Direction[p] = "IN" /\ ~empty[p]
          /\ Obtain(p, Contents(p, Size[p]), last_receive[p] + Refresh[p] >= now)
      BY <2>4, <3>1 DEF SamplingRead, Calls
    <3>3. got'[p].cells = Contents(p, Size[p]) /\ \A q \in Port : q # p => got'[q] = got[q]
      BY <2>0, <3>2 DEF Obtain
    <3>4. got[p].cells # <<>> =>
            \/ Contents(p, Size[p])[1][2] > got[p].cells[Len(got[p].cells)][2]
            \/ Contents(p, Size[p]) = got[p].cells
      BY <3>2, SamplingAdvances
    <3> QED BY <3>2, <3>3, <3>4
  <2>5. ASSUME got' # got
        PROVE  \E t \in Thread : Receive(t) \/ ReceiveAgain(t) \/ SamplingRead(t)
    <3>1. ASSUME NEW t \in Thread, Send(t) \/ SendAgain(t) \/ SamplingWrite(t)
          PROVE  got' = got
      BY <3>1 DEF Send, SendAgain, SamplingWrite, TrySend, Put, Sleep, historyVars
    <3>2. ASSUME NEW p \in Port, Create(p)
          PROVE  got' = got
      BY <3>2 DEF Create, historyVars
    <3>3. ASSUME NEW f \in Flush, \/ FlushStart(f) \/ FlushResume(f) \/ FlushTake(f) \/ FlushWrite(f)
                                 \/ FlushRoom(f) \/ FlushUnmark(f) \/ FlushEnd(f)
          PROVE  got' = got
      BY <3>3 DEF FlushStart, FlushResume, FlushTake, FlushWrite, FlushRoom, FlushUnmark, FlushEnd,
         historyVars
    <3>4. CASE Tick
      BY <2>5, <3>4 DEF Tick, historyVars
    <3> QED BY <2>5, <3>1, <3>2, <3>3, <3>4 DEF Next
  <2> QED BY <2>1, <2>3, <2>4, <2>5
<1>4. (Spec => [][Advances]_vars) => (Spec => ReadsAdvance)
  BY DEF ReadsAdvance
<1> QED BY <1>1, <1>2, <1>3, <1>4, PTL DEF Spec
=============================================================================
