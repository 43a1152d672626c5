----------------------------- MODULE SerialLine -----------------------------
(***************************************************************************)
(* What the users of a serial device opened for DMA transmission rely on:  *)
(* a line that takes a few buffers ahead, sends each of them once, in the  *)
(* order in which it took them, and reports each one after it was sent.    *)
(***************************************************************************)
EXTENDS Naturals, Sequences

CONSTANTS
  Buffers,    \* What can be written.
  Nothing,    \* Stands for no buffer.
  Size        \* Buffers the line takes before it has reported the first.

VARIABLES
  waiting,    \* Buffers taken and not yet reported, in order.
  sent,       \* The buffer that was sent and is still to be reported.
  reported    \* The last buffer reported.

Init == waiting = <<>> /\ sent = Nothing /\ reported = Nothing

Take ==
  /\ Len(waiting) < Size
  /\ \E b \in Buffers : waiting' = Append(waiting, b)
  /\ UNCHANGED <<sent, reported>>

Send ==
  /\ sent = Nothing
  /\ waiting # <<>>
  /\ sent' = Head(waiting)
  /\ UNCHANGED <<waiting, reported>>

Report ==
  /\ sent # Nothing
  /\ reported' = sent
  /\ waiting' = Tail(waiting)
  /\ sent' = Nothing

Next == Take \/ Send \/ Report

Spec == Init /\ [][Next]_<<waiting, sent, reported>>
=============================================================================
