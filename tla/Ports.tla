-------------------------------- MODULE Ports --------------------------------
(***************************************************************************)
(* Queueing and sampling ports between partitions: kernel/middleware.  A   *)
(* program writes into its OUT ports; flushes, made by the partition       *)
(* scheduler, move what they hold to the IN ports of other partitions,     *)
(* where programs read it.  All ports share one memory, pok_queue.         *)
(*                                                                         *)
(* A system call is one action up to the point where it waits for a port's *)
(* event.  A flush is not: a broadcast that wakes a thread reschedules, so *)
(* the flush may be left there for another thread, on the kernel stack of  *)
(* the thread it interrupted, and a second one be made before it goes on.  *)
(* Which ready thread runs is left open, and so is when flushes come:      *)
(* every policy and every table does one of the things allowed here.       *)
(*                                                                         *)
(* A port's lock is never held across a switch, so nobody waits for it: it *)
(* does not appear.  The exception, the pointer check of a sampling read,  *)
(* cannot fail while all ports have one size.                              *)
(***************************************************************************)
EXTENDS Integers, Sequences, FiniteSets

CONSTANTS
  Port,
  Direction,     \* of each port: "IN" or "OUT"
  Kind,          \* of each port: "QUEUEING" or "SAMPLING"
  Size,          \* of each port, in cells
  Destinations,  \* of each OUT port: a sequence of IN ports
  FlushOrders,   \* the ports a flush looks at, in order: of all partitions
                 \* or of one, as the flushing policy says
  Refresh,       \* refresh period of the sampling ports
  PoolSize,      \* size of pok_queue
  Word,          \* 2^32: pok_port_size_t is uint32_t; any power of two
                 \* of at least twice all sizes behaves the same
  Thread,
  PortOf,        \* the port each thread uses
  Lengths,       \* how much a call sends, or receives at most
  Timeouts,      \* 0 for not waiting
  Flush,         \* the flushes that may be under way at once
  MaxSent,       \* bound: cells, or samples, sent to each port
  MaxTime        \* bound: the clock stops there

ASSUME PortAssumption ==
  /\ Direction \in [Port -> {"IN", "OUT"}]
  /\ Kind \in [Port -> {"QUEUEING", "SAMPLING"}]
  /\ Size \in [Port -> Nat \ {0}]
  /\ Word \in Nat /\ \A p \in Port : 2 * Size[p] <= Word
  /\ Destinations \in [Port -> Seq({p \in Port : Direction[p] = "IN"})]
  /\ \A o \in FlushOrders : o \in Seq(Port)
  /\ PortOf \in [Thread -> Port]
  /\ Refresh \in [Port -> Nat] /\ PoolSize \in Nat
  /\ Lengths \subseteq Nat \ {0} /\ Timeouts \subseteq Nat
  /\ MaxSent \in Nat /\ MaxTime \in Nat
  /\ "free" \notin Flush

None == <<>>   \* a cell nobody wrote

VARIABLES
  ready, index, off_b, off_e, full, empty, must_be_flushed, last_receive,
                 \* fields of pok_ports
  available,     \* available_size of pok_queue
  pool,          \* data of pok_queue: its cells
  buffer,        \* pok_buffer_flush, one for all flushes
  flushes,       \* where each flush is
  kernel,        \* the flush that has the processor, or "free"
  now,           \* pok_tick_counter
  pc,            \* where a thread is: in "user" code, asleep ("wait") in the
                 \* event wait of its call, or made ready ("woken") in it
  request,       \* the length and time-out of that call
  deadline,      \* when its event wait ends
  \* History:
  sent,          \* of each OUT port: how many cells, or samples, were written
  got,           \* of each IN port: what its last read returned
  since          \* of each IN port: when the sample it holds first got there

ringVars == <<off_b, off_e, full, empty, last_receive, pool, since>>
configVars == <<ready, index, available>>
flushVars == <<buffer, flushes>>
callVars == <<pc, request, deadline>>
historyVars == <<sent, got>>
vars == <<configVars, ringVars, must_be_flushed, flushVars, kernel, now,
          callVars, historyVars>>

NoFlush == [at |-> "none", ports |-> <<>>, dests |-> <<>>, len |-> 0]
NoRequest == [len |-> 0, timeout |-> 0]
Nothing == [cells |-> <<>>, valid |-> FALSE, age |-> 0]

Init ==
  /\ ready = [p \in Port |-> FALSE]
  /\ index = [p \in Port |-> 0]
  /\ off_b = [p \in Port |-> 0] /\ off_e = [p \in Port |-> 0]
  /\ full = [p \in Port |-> FALSE] /\ empty = [p \in Port |-> TRUE]
  /\ must_be_flushed = [p \in Port |-> FALSE]
  /\ last_receive = [p \in Port |-> 0]
  /\ available = PoolSize
  /\ pool = [i \in 0 .. PoolSize - 1 |-> None]
  /\ buffer = [i \in 1..PoolSize |-> None]
  /\ flushes = [f \in Flush |-> NoFlush]
  /\ kernel = "free"
  /\ now = 0
  /\ pc = [t \in Thread |-> "user"]
  /\ request = [t \in Thread |-> NoRequest]
  /\ deadline = [t \in Thread |-> 0]
  /\ sent = [p \in Port |-> 0]
  /\ got = [p \in Port |-> Nothing]
  /\ since = [p \in Port |-> 0]

-----------------------------------------------------------------------------
\* The ring of a port: kernel/middleware/portutils.c.

\* pok_port_available_size.  The free space is taken for the used one, with
\* its ends exchanged: unless the port is full, the result is never less than
\* its size.
AvailableSize(p) ==
  IF full[p] THEN 0
  ELSE IF off_b[p] < off_e[p] THEN (off_b[p] - off_e[p]) % Word
  ELSE Size[p] - off_e[p] + off_b[p]

\* pok_port_consumed_size
ConsumedSize(p) ==
  IF empty[p] THEN 0
  ELSE IF off_b[p] < off_e[p] THEN off_e[p] - off_b[p]
  ELSE Size[p] - off_b[p] + off_e[p]

\* What pok_port_get copies: a sampling port has its offsets at 0.
Contents(p, len) ==
  [i \in 1..len |-> pool[index[p] + ((off_b[p] + i - 1) % Size[p])]]

GetAgain(p, len) == UNCHANGED ringVars   \* mutant: off_b does not move

\* pok_port_get of a port that is not empty: a partial get of a queueing port
\* leaves it full.
Get(p, len) ==
  /\ IF Kind[p] = "QUEUEING"
     THEN LET b == (off_b[p] + len) % Size[p]
          IN /\ off_b' = [off_b EXCEPT ![p] = b]
             /\ empty' = [empty EXCEPT ![p] = b = off_e[p]]
             /\ full' = [full EXCEPT ![p] = @ /\ b # off_e[p]]
     ELSE UNCHANGED <<off_b, empty, full>>
  /\ UNCHANGED <<off_e, last_receive, pool, since>>

\* pok_port_write refuses only a full port, and what is longer than the port.
Accepts(p, len) == len <= Size[p] /\ (Kind[p] = "QUEUEING" => ~full[p])

\* Mutant: the index is not counted from the port's beginning.
StoredAtQueue(p, data) ==
  [i \in DOMAIN pool |->
     LET k == (i - off_e[p]) % Size[p] IN IF i < Size[p] /\ k < Len(data) THEN data[k + 1] ELSE pool[i]]

\* The cells of pok_queue behind the write.
Stored(p, data) ==
  [i \in DOMAIN pool |->
     LET k == (i - index[p] - off_e[p]) % Size[p]
     IN IF i \in index[p] .. index[p] + Size[p] - 1 /\ k < Len(data)
        THEN data[k + 1] ELSE pool[i]]

\* pok_port_write
Write(p, data) ==
  IF ~Accepts(p, Len(data)) THEN UNCHANGED ringVars
  ELSE /\ pool' = Stored(p, data)
       /\ empty' = [empty EXCEPT ![p] = FALSE]
       /\ UNCHANGED off_b
       /\ IF Kind[p] = "QUEUEING"
          THEN LET e == (off_e[p] + Len(data)) % Size[p]
               IN /\ off_e' = [off_e EXCEPT ![p] = e]
                  /\ full' = [full EXCEPT ![p] = @ \/ e = off_b[p]]
                  /\ UNCHANGED <<last_receive, since>>
          ELSE /\ last_receive' = [last_receive EXCEPT ![p] = now]
               /\ since' = [since EXCEPT ![p] = IF pool' = pool THEN @ ELSE now]
               /\ UNCHANGED <<off_e, full>>

-----------------------------------------------------------------------------
\* pok_port_create: the port gets the next part of pok_queue.  Creating a port
\* that is ready, or one too large for what is left, changes nothing.
Create(p) ==
  /\ kernel = "free"
  /\ ~ready[p] /\ Size[p] <= available
  /\ ready' = [ready EXCEPT ![p] = TRUE]
  /\ index' = [index EXCEPT ![p] = PoolSize - available]
  /\ available' = available - Size[p]
  /\ off_b' = [off_b EXCEPT ![p] = 0]
  /\ off_e' = [off_e EXCEPT ![p] = 0]
  /\ full' = [full EXCEPT ![p] = FALSE]
  /\ UNCHANGED <<empty, last_receive, pool, since, must_be_flushed, flushVars,
                 kernel, now, callVars, historyVars>>

\* A thread calls a service of its port.
Calls(t, direction, kind) ==
  /\ kernel = "free"
  /\ pc[t] = "user"
  /\ ready[PortOf[t]]
  /\ Direction[PortOf[t]] = direction /\ Kind[PortOf[t]] = kind

\* The time-out a call computes once, at its start: an absolute time.
Absolute(timeout) == IF timeout = 0 THEN 0 ELSE timeout + now

\* pok_lockobj_eventwait takes that time for a duration.
Sleep(t, r) ==
  /\ pc' = [pc EXCEPT ![t] = "wait"]
  /\ request' = [request EXCEPT ![t] = r]
  /\ deadline' = [deadline EXCEPT ![t] = now + r.timeout]
  /\ UNCHANGED <<ringVars, must_be_flushed, historyVars>>

Return(t) ==
  /\ pc' = [pc EXCEPT ![t] = "user"]
  /\ request' = [request EXCEPT ![t] = NoRequest]
  /\ deadline' = [deadline EXCEPT ![t] = 0]

\* A thread runs again in the wait of its call; the clock says for what.
WakesUp(t, direction) ==
  /\ kernel = "free"
  /\ pc[t] = "woken" \/ (pc[t] = "wait" /\ now >= deadline[t])
  /\ Direction[PortOf[t]] = direction

TimedOut(t) == now >= deadline[t]

\* The next cells a program writes, all different: of a sample one stands for
\* all.
Fresh(p, len) ==
  [i \in 1..len |-> <<p, IF Kind[p] = "QUEUEING" THEN sent[p] + i ELSE sent[p] + 1>>]

Put(p, len) ==
  /\ Write(p, Fresh(p, len))
  /\ must_be_flushed' = [must_be_flushed EXCEPT ![p] = TRUE]
  /\ sent' = [sent EXCEPT ![p] = @ + IF Kind[p] = "QUEUEING" THEN len ELSE 1]
  /\ UNCHANGED got

\* pok_port_queueing_send, its loop and what follows.
TrySend(t, r) ==
  LET p == PortOf[t]
  IN IF r.len <= AvailableSize(p) THEN Return(t) /\ Put(p, r.len)
     ELSE r.timeout # 0 /\ Sleep(t, r)

Send(t) ==
  /\ Calls(t, "OUT", "QUEUEING")
  /\ \E len \in Lengths, d \in Timeouts :
       /\ len <= Size[PortOf[t]]
       /\ sent[PortOf[t]] + len <= MaxSent
       /\ TrySend(t, [len |-> len, timeout |-> Absolute(d)])
  /\ UNCHANGED <<configVars, flushVars, kernel, now>>

SendAgain(t) ==
  /\ WakesUp(t, "OUT")
  /\ IF TimedOut(t) THEN Return(t) /\ UNCHANGED <<ringVars, must_be_flushed, historyVars>>
     ELSE TrySend(t, request[t])
  /\ UNCHANGED <<configVars, flushVars, kernel, now>>

\* What the caller of a receive or read gets.
Obtain(p, cells, valid) ==
  /\ got' = [got EXCEPT ![p] =
       [cells |-> cells, valid |-> valid, age |-> IF valid THEN now - since[p] ELSE 0]]
  /\ UNCHANGED sent

\* pok_port_queueing_receive, its loop and what follows.
TryReceive(t, r) ==
  LET p == PortOf[t]
      rlen == IF r.len > ConsumedSize(p) THEN ConsumedSize(p) ELSE r.len
  IN IF ~empty[p]
     THEN /\ Return(t)
          /\ Get(p, rlen)
          /\ Obtain(p, Contents(p, rlen), FALSE)
          /\ UNCHANGED must_be_flushed
     ELSE r.timeout # 0 /\ Sleep(t, r)

Receive(t) ==
  /\ Calls(t, "IN", "QUEUEING")
  /\ \E len \in Lengths, d \in Timeouts :
       TryReceive(t, [len |-> len, timeout |-> Absolute(d)])
  /\ UNCHANGED <<configVars, flushVars, kernel, now>>

ReceiveAgain(t) ==
  /\ WakesUp(t, "IN")
  /\ IF TimedOut(t) THEN Return(t) /\ UNCHANGED <<ringVars, must_be_flushed, historyVars>>
     ELSE TryReceive(t, request[t])
  /\ UNCHANGED <<configVars, flushVars, kernel, now>>

\* pok_port_sampling_write, of a whole sample.
SamplingWrite(t) ==
  LET p == PortOf[t]
  IN /\ Calls(t, "OUT", "SAMPLING")
     /\ sent[p] < MaxSent
     /\ Put(p, Size[p])
     /\ UNCHANGED <<configVars, flushVars, kernel, now, callVars>>

\* pok_port_sampling_read of a port that is not empty: the message is valid
\* while its refresh period is not over.
SamplingRead(t) ==
  LET p == PortOf[t]
  IN /\ Calls(t, "IN", "SAMPLING")
     /\ ~empty[p]
     /\ Get(p, Size[p])
     /\ Obtain(p, Contents(p, Size[p]), last_receive[p] + Refresh[p] >= now)
     /\ UNCHANGED <<configVars, must_be_flushed, flushVars, kernel, now, callVars>>

-----------------------------------------------------------------------------
\* pok_lockobj_eventbroadcast on the port: who it wakes may run at once.
Broadcast(p) ==
  LET sleepers == {t \in Thread : PortOf[t] = p /\ pc[t] = "wait"}
  IN /\ pc' = [t \in Thread |-> IF t \in sleepers THEN "woken" ELSE pc[t]]
     /\ kernel' = IF sleepers = {} THEN kernel ELSE "free"
     /\ UNCHANGED <<request, deadline>>

\* pok_port_flushall or pok_port_flush_partition is called.
FlushStart(f) ==
  /\ kernel = "free" /\ flushes[f] = NoFlush
  /\ \E o \in FlushOrders :
       flushes' = [flushes EXCEPT ![f] = [NoFlush EXCEPT !.at = "ports", !.ports = o]]
  /\ kernel' = f
  /\ UNCHANGED <<configVars, ringVars, must_be_flushed, buffer, now, callVars,
                 historyVars>>

\* The scheduler returns to a flush it left.
FlushResume(f) ==
  /\ kernel = "free" /\ flushes[f] # NoFlush
  /\ kernel' = f
  /\ UNCHANGED <<configVars, ringVars, must_be_flushed, flushVars, now, callVars,
                 historyVars>>

ToFlush(p) == Direction[p] = "OUT" /\ ~empty[p] /\ must_be_flushed[p]

\* One turn of the loop over the ports, up to the loop over the destinations.
FlushTake(f) ==
  LET p == Head(flushes[f].ports)
      len == ConsumedSize(p)
  IN /\ kernel = f /\ flushes[f].at = "ports" /\ flushes[f].ports # <<>>
     /\ IF ToFlush(p)
        THEN /\ Get(p, len)
             /\ buffer' = [i \in DOMAIN buffer |->
                             IF i <= len THEN Contents(p, len)[i] ELSE buffer[i]]
             /\ flushes' = [flushes EXCEPT ![f] =
                  [@ EXCEPT !.at = "dests", !.dests = Destinations[p], !.len = len]]
        ELSE /\ flushes' = [flushes EXCEPT ![f].ports = Tail(@)]
             /\ UNCHANGED <<ringVars, buffer>>
     /\ UNCHANGED <<configVars, must_be_flushed, kernel, now, callVars, historyVars>>

\* The buffer goes to the next destination, whatever it holds by now; a port
\* that is not ready, or full, misses it.
FlushWrite(f) ==
  LET d == Head(flushes[f].dests)
  IN /\ kernel = f /\ flushes[f].at = "dests" /\ flushes[f].dests # <<>>
     /\ flushes' = [flushes EXCEPT ![f].dests = Tail(@)]
     /\ IF ready[d]
        THEN Write(d, SubSeq(buffer, 1, flushes[f].len)) /\ Broadcast(d)
        ELSE UNCHANGED <<ringVars, callVars, kernel>>
     /\ UNCHANGED <<configVars, must_be_flushed, buffer, now, historyVars>>

\* Mutant: threads that wait for room are not told.
FlushRoomQuietly(f) ==
  /\ kernel = f /\ flushes[f].at = "dests" /\ flushes[f].dests = <<>>
  /\ flushes' = [flushes EXCEPT ![f].at = "mark"]
  /\ UNCHANGED <<configVars, ringVars, must_be_flushed, buffer, kernel, now, callVars,
                 historyVars>>

\* Threads that wait for room are told.
FlushRoom(f) ==
  /\ kernel = f /\ flushes[f].at = "dests" /\ flushes[f].dests = <<>>
  /\ flushes' = [flushes EXCEPT ![f].at = "mark"]
  /\ Broadcast(Head(flushes[f].ports))
  /\ UNCHANGED <<configVars, ringVars, must_be_flushed, buffer, now, historyVars>>

\* Mutant: the port stays marked.
FlushMarked(f) ==
  /\ kernel = f /\ flushes[f].at = "mark"
  /\ flushes' = [flushes EXCEPT ![f] =
       [NoFlush EXCEPT !.at = "ports", !.ports = Tail(flushes[f].ports)]]
  /\ UNCHANGED <<configVars, ringVars, must_be_flushed, buffer, kernel, now, callVars,
                 historyVars>>

\* The mark is removed last, whatever was sent meanwhile.
FlushUnmark(f) ==
  /\ kernel = f /\ flushes[f].at = "mark"
  /\ must_be_flushed' = [must_be_flushed EXCEPT ![Head(flushes[f].ports)] = FALSE]
  /\ flushes' = [flushes EXCEPT ![f] =
       [NoFlush EXCEPT !.at = "ports", !.ports = Tail(flushes[f].ports)]]
  /\ UNCHANGED <<configVars, ringVars, buffer, kernel, now, callVars, historyVars>>

FlushEnd(f) ==
  /\ kernel = f /\ flushes[f].at = "ports" /\ flushes[f].ports = <<>>
  /\ flushes' = [flushes EXCEPT ![f] = NoFlush]
  /\ kernel' = "free"
  /\ UNCHANGED <<configVars, ringVars, must_be_flushed, buffer, now, callVars,
                 historyVars>>

Tick ==
  /\ kernel = "free" /\ now < MaxTime
  /\ now' = now + 1
  /\ UNCHANGED <<configVars, ringVars, must_be_flushed, flushVars, kernel, callVars,
                 historyVars>>

Next ==
  \/ \E p \in Port : Create(p)
  \/ \E t \in Thread : \/ Send(t) \/ SendAgain(t)
                        \/ Receive(t) \/ ReceiveAgain(t)
                        \/ SamplingWrite(t) \/ SamplingRead(t)
  \/ \E f \in Flush : \/ FlushStart(f) \/ FlushResume(f) \/ FlushTake(f)
                       \/ FlushWrite(f) \/ FlushRoom(f) \/ FlushUnmark(f)
                       \/ FlushEnd(f)
  \/ Tick

Spec == Init /\ [][Next]_vars

-----------------------------------------------------------------------------
Cell == {None} \cup (Port \X (1..MaxSent))

Sources(p) == {q \in Port : \E i \in DOMAIN Destinations[q] : Destinations[q][i] = p}

\* A read returns only what was written to a port connected to this one, in
\* the order it was written: no cell of another port, of another message or
\* that nobody wrote, through any wrap-around, overrun, partial read and
\* flush within a flush.
InOrder ==
  \A p \in Port : LET c == got[p].cells IN
    /\ \A i \in DOMAIN c : c[i] # None /\ c[i][1] \in Sources(p)
    /\ Kind[p] = "QUEUEING" => \A i \in 2..Len(c) : c[i][2] > c[i - 1][2]
    /\ Kind[p] = "SAMPLING" => \A i \in 2..Len(c) : c[i] = c[1]

\* No cell is received twice and no sample is read behind a newer one.
ReadsAdvance ==
  [][\A p \in Port : got'[p] # got[p] =>
       LET old == got[p].cells
           new == got'[p].cells
       IN \/ old = <<>>
          \/ new[1][2] > old[Len(old)][2]
          \/ Kind[p] = "SAMPLING" /\ new = old]_vars

\* A thread sleeps in a receive only while its port is empty, and in a send
\* only while its port is full or a flush has still to announce the room.
NoMissedWakeup ==
  \A t \in Thread : pc[t] = "wait" =>
    LET p == PortOf[t]
    IN \/ Direction[p] = "IN" /\ empty[p]
       \/ Direction[p] = "OUT" /\ request[t].len > AvailableSize(p)
       \/ \E f \in Flush : flushes[f].at = "dests" /\ Head(flushes[f].ports) = p

\* A sampling read that says its message is valid returns one that came at
\* most a refresh period ago: an old sample is never delivered again as new.
ValidIsFresh == \A p \in Port : got[p].valid => got[p].age <= Refresh[p]
=============================================================================
