---------------------------- MODULE BoundedBuffer ----------------------------
(***************************************************************************)
(* What a buffer of a partition promises: a first-in first-out queue of    *)
(* at most MaxMessages messages.                                           *)
(***************************************************************************)
EXTENDS Integers, Sequences

CONSTANTS Message, MaxMessages

VARIABLES queue,
          taken   \* the message received last

vars == <<queue, taken>>

Init == queue = <<>>

Put(m) ==
  /\ Len(queue) < MaxMessages
  /\ queue' = Append(queue, m)
  /\ UNCHANGED taken

Take ==
  /\ queue # <<>>
  /\ taken' = Head(queue)
  /\ queue' = Tail(queue)

Next == Take \/ \E m \in Message : Put(m)

Spec == Init /\ [][Next]_vars
=============================================================================
