--------------------------- MODULE DescriptorPool ---------------------------
(***************************************************************************)
(* What the holders of scatter-gather descriptors rely on: a descriptor is *)
(* free or belongs to one holder; a holder is given as many as it asked    *)
(* for or none, and gives back all it has.                                 *)
(***************************************************************************)
EXTENDS Integers, FiniteSets

CONSTANTS
  Descriptors,  (* the descriptors of the pool                              *)
  Clients       (* who may hold some of them                                *)

VARIABLES
  free,         \* descriptors nobody holds
  hold          \* the descriptors of each holder

vars == <<free, hold>>

Init ==
  /\ free = Descriptors
  /\ hold = [h \in Clients |-> {}]

Grab(h, S) ==
  /\ hold[h] = {}
  /\ S \subseteq free
  /\ free' = free \ S
  /\ hold' = [hold EXCEPT ![h] = S]

Drop(h) ==
  /\ free' = free \cup hold[h]
  /\ hold' = [hold EXCEPT ![h] = {}]

Next == \E h \in Clients :
          \/ Drop(h)
          \/ \E S \in SUBSET Descriptors : Grab(h, S)

Spec == Init /\ [][Next]_vars
=============================================================================
