------------------------------- MODULE Buffers -------------------------------
(***************************************************************************)
(* The buffers and blackboards a partition's threads talk through          *)
(* (libpok/middleware), each a monitor in shared memory built from one     *)
(* event (libpok/core/event*.c), whose lock and wait are those of LockObj. *)
(*                                                                         *)
(* The threads share one buffer or one blackboard, created and initialised *)
(* before they start.  A system call is one step and a word copied is one; *)
(* any thread that is not blocked may take the next step, whatever the     *)
(* policy and the processors.  No budget runs out at the instant its       *)
(* thread waits for the lock, which would return without it                *)
(* (sched.c:262).  Arguments that are rejected before the lock is taken    *)
(* are left out.                                                           *)
(***************************************************************************)
EXTENDS WaitQueue

CONSTANTS
  Thread, Priority,   \* the threads, and the priority of each
  Kinds,              \* what they share: "buffer" or "blackboard"
  Message, Blank,     \* the messages, and what memory holds at first
  MsgSize,            \* msgsize, in words
  MaxMessages,        \* size of the buffer is MsgSize * MaxMessages
  Lengths,            \* the lengths messages are sent and displayed with
  Polls               \* the calls that may be made with timeout 0

ASSUME BuffersAssumption ==
  /\ Priority \in [Thread -> Nat]
  /\ Blank \notin Message
  /\ Kinds \subseteq {"buffer", "blackboard"}
  /\ MsgSize \in Nat \ {0} /\ MaxMessages \in Nat \ {0}
  /\ Lengths \subseteq 1..MsgSize
  /\ Polls \subseteq {"send", "receive"}

Size == MsgSize * MaxMessages
Words == 0 .. MsgSize - 1

VARIABLES
  kind,           \* of the object shared
  data,           \* its part of pok_buffers_data or pok_blackboards_data
  off_e, off_b, full, empty,   \* fields of pok_buffers
  value, waiters, \* of the event: its lock, and the threads waiting for that
  sleeping,       \* the threads that wait for the event
  pc,             \* where each thread is
  call,           \* its call
  copied,         \* the words it has copied
  local,          \* the message it sends, or what it has received
  taken           \* History: the message received last

ringVars == <<off_e, off_b, full, empty>>
lockVars == <<value, waiters, sleeping>>
callVars == <<call, copied, local>>
vars == <<kind, data, ringVars, lockVars, pc, callVars, taken>>

Calls == [op : {"send", "receive", "display", "read"}, len : 1..MsgSize, poll : BOOLEAN]

NoCall == [op |-> "read", len |-> 1, poll |-> FALSE]
NoMessage == [w \in Words |-> Blank]

Writes(t) == call[t].op \in {"send", "display"}

\* pok_buffer_init and pok_buffer_create, pok_blackboard_init and
\* pok_blackboard_create, pok_event_create.
Init ==
  /\ kind \in Kinds
  /\ data = [w \in 0 .. Size + MsgSize - 1 |-> Blank]
  /\ off_e = 0 /\ off_b = 0 /\ full = FALSE /\ empty = TRUE
  /\ value = 1 /\ waiters = <<>> /\ sleeping = {}
  /\ pc = [t \in Thread |-> "user"]
  /\ call = [t \in Thread |-> NoCall]
  /\ copied = [t \in Thread |-> 0]
  /\ local = [t \in Thread |-> NoMessage]
  /\ taken = Blank

At(t, where) == pc[t] = where /\ t \notin Queued(waiters)
GoTo(t, where) == pc' = [pc EXCEPT ![t] = where] /\ UNCHANGED callVars

\* The call is over, and with it what it had on its stack.
Return(t) ==
  /\ pc' = [pc EXCEPT ![t] = "user"]
  /\ call' = [call EXCEPT ![t] = NoCall]
  /\ copied' = [copied EXCEPT ![t] = 0]
  /\ local' = [local EXCEPT ![t] = NoMessage]

LockNothing(t) == UNCHANGED <<value, waiters>>   \* mutant: the lock is not taken

LockInFront(t) ==   \* mutant: a thread passes its equals
  IF value > 0
  THEN value' = value - 1 /\ UNCHANGED waiters
  ELSE waiters' = <<t>> \o waiters /\ UNCHANGED value

\* pok_event_lock
Lock(t) ==
  IF value > 0
  THEN value' = value - 1 /\ UNCHANGED waiters
  ELSE waiters' = EnqueuePriority(waiters, t, Priority) /\ UNCHANGED value

\* pok_event_unlock
Unlock ==
  IF value = 0 /\ waiters # <<>>
  THEN waiters' = Tail(waiters) /\ UNCHANGED value
  ELSE value' = 1 /\ UNCHANGED waiters

-----------------------------------------------------------------------------
\* A thread calls pok_buffer_send, with message m, or one of the others.
Enter(t, c, m) ==
  /\ At(t, "user")
  /\ c.op \in IF kind = "buffer" THEN {"send", "receive"} ELSE {"display", "read"}
  /\ c.poll => c.op \in Polls
  /\ c.len \in IF c.op \in {"send", "display"} THEN Lengths ELSE {MsgSize}
  /\ call' = [call EXCEPT ![t] = c]
  /\ copied' = [copied EXCEPT ![t] = 0]
  /\ local' = [local EXCEPT ![t] = [w \in Words |-> m]]
  /\ Lock(t)
  /\ pc' = [pc EXCEPT ![t] = IF kind = "buffer" THEN "test" ELSE "copy"]
  /\ UNCHANGED <<kind, data, ringVars, sleeping, taken>>

MustWait(t) == IF call[t].op = "send" THEN full ELSE empty

\* The loop both calls of a buffer start with.  A receiver that does not want
\* to wait unlocks the event and tests again.
Test(t) ==
  /\ At(t, "test")
  /\ \/ ~MustWait(t) /\ GoTo(t, "copy") /\ UNCHANGED lockVars
     \/ /\ MustWait(t) /\ call[t].poll
        /\ Unlock
        /\ IF call[t].op = "send" THEN Return(t) ELSE UNCHANGED <<pc, callVars>>
        /\ UNCHANGED sleeping
     \/ /\ MustWait(t) /\ ~call[t].poll
        /\ Unlock
        /\ sleeping' = sleeping \cup {t}
        /\ GoTo(t, "sleep")
  /\ UNCHANGED <<kind, data, ringVars, taken>>

\* pok_lockobj_eventwait behind its switch.  A thread whose time is over when
\* it runs again returns TIMEOUT, be it woken by then or not.
Wake(t) ==
  /\ At(t, "sleep")
  /\ Lock(t)
  /\ sleeping' = sleeping \ {t}
  /\ \/ t \notin sleeping /\ GoTo(t, "test")
     \/ GoTo(t, "timeout")
  /\ UNCHANGED <<kind, data, ringVars, taken>>

GiveUp(t) ==
  /\ At(t, "timeout")
  /\ Unlock
  /\ Return(t)
  /\ UNCHANGED <<kind, data, ringVars, sleeping, taken>>

\* memcpy to or from the first free or oldest word.
Copy(t) ==
  LET w == copied[t]
      there == w + IF kind = "blackboard" THEN 0
                   ELSE IF Writes(t) THEN off_e ELSE off_b
  IN /\ At(t, "copy")
     /\ IF Writes(t)
        THEN data' = [data EXCEPT ![there] = local[t][w]] /\ UNCHANGED local
        ELSE local' = [local EXCEPT ![t][w] = data[there]] /\ UNCHANGED data
     /\ copied' = [copied EXCEPT ![t] = w + 1]
     /\ pc' = IF w + 1 < call[t].len THEN pc
              ELSE [pc EXCEPT ![t] = IF kind = "buffer" THEN "update" ELSE "unlock"]
     /\ UNCHANGED <<kind, ringVars, lockVars, call, taken>>

Past(offset, t) == (offset + call[t].len) % Size

PutUnmarked(t) ==   \* mutant: a full buffer is not marked
  /\ call[t].op = "send"
  /\ off_e' = Past(off_e, t)
  /\ empty' = FALSE
  /\ UNCHANGED <<off_b, full, taken>>

Put(t) ==
  /\ call[t].op = "send"
  /\ off_e' = Past(off_e, t)
  /\ full' = (full \/ off_e' = off_b)
  /\ empty' = FALSE
  /\ UNCHANGED <<off_b, taken>>

Take(t) ==
  /\ call[t].op = "receive"
  /\ off_b' = Past(off_b, t)
  /\ empty' = (empty \/ off_b' = off_e)
  /\ full' = FALSE
  /\ taken' = local[t][0]
  /\ UNCHANGED off_e

Update(t) ==
  /\ At(t, "update")
  /\ Put(t) \/ Take(t)
  /\ GoTo(t, "unlock")
  /\ UNCHANGED <<kind, data, lockVars>>

Leave(t) ==
  /\ At(t, "unlock")
  /\ Unlock
  /\ IF kind = "buffer" THEN GoTo(t, "broadcast") ELSE Return(t)
  /\ UNCHANGED <<kind, data, ringVars, sleeping, taken>>

SignalOne(t) ==   \* mutant: a signal in place of the broadcast
  /\ At(t, "broadcast")
  /\ IF sleeping = {} THEN UNCHANGED sleeping
     ELSE \E u \in sleeping : sleeping' = sleeping \ {u}
  /\ Return(t)
  /\ UNCHANGED <<kind, data, ringVars, value, waiters, taken>>

\* pok_event_broadcast
Broadcast(t) ==
  /\ At(t, "broadcast")
  /\ sleeping' = {}
  /\ Return(t)
  /\ UNCHANGED <<kind, data, ringVars, value, waiters, taken>>

Work(t) ==
  \/ Test(t) \/ Wake(t) \/ GiveUp(t) \/ Copy(t) \/ Update(t) \/ Leave(t)
  \/ Broadcast(t)

Next == \E t \in Thread : Work(t) \/ \E c \in Calls, m \in Message : Enter(t, c, m)

\* Every thread is given the processor now and then.
Spec == Init /\ [][Next]_vars /\ \A t \in Thread : WF_vars(Work(t))

-----------------------------------------------------------------------------
\* The messages a buffer holds, the oldest first.
Count ==
  IF full THEN MaxMessages ELSE ((off_e - off_b + Size) % Size) \div MsgSize

Contents ==
  LET word(k, w) == data[((off_b + (k - 1) * MsgSize) % Size) + w]
  IN [k \in 1..Count |-> IF \A w \in Words : word(k, w) = word(k, 0)
                         THEN word(k, 0) ELSE Blank]

\* A buffer is a bounded queue, whichever threads send and receive, wait and
\* time out at the same time: messages leave it whole, once, and in the order
\* they came, and none is written over one not yet received.
Queue == INSTANCE BoundedBuffer WITH queue <- Contents
ImplementsBuffer == Queue!Spec

\* No thread sleeps on what has come true already: while one waits for room
\* that there is, or for a message that there is, another is on its way to
\* wake it.  The test of the loop and the wait behind it are one to the lock.
NoMissedWakeup ==
  \A t \in sleeping :
    MustWait(t) \/ \E u \in Thread : pc[u] \in {"unlock", "broadcast"}

\* A reader of a blackboard gets one message as it was displayed, or what the
\* blackboard held at first, never a mixture.
BoardReadWhole ==
  \A t \in Thread :
    call[t].op = "read" /\ pc[t] = "unlock" =>
      \A w \in Words : local[t][w] = local[t][0]

\* Every thread that waits for the lock gets it, threads of higher priority
\* permitting: every way out of the calls gives it back.
LockServed == \A t \in Thread : t \in Queued(waiters) ~> t \notin Queued(waiters)
=============================================================================
