------------------------------ MODULE MCBuffers ------------------------------
(***************************************************************************)
(* Three threads of one priority, one that sends, one that receives and    *)
(* one that does both, and a buffer of two messages of two words: they     *)
(* find it full, empty and taken, and the waits of several end together.   *)
(***************************************************************************)
EXTENDS Buffers

CONSTANTS Sender, Receiver

MCPriority == [t \in Thread |-> 1]

MCNext ==
  \/ \E t \in Thread : Work(t)
  \/ \E t \in Thread, c \in Calls, m \in Message :
       /\ c.op \in {"send", "display"} => t # Receiver
       /\ c.op \in {"receive", "read"} => t # Sender /\ \A n \in Message : m <= n
       /\ Enter(t, c, m)

MCSpec == Init /\ [][MCNext]_vars /\ \A t \in Thread : WF_vars(Work(t))
=============================================================================
