---------------------------- MODULE CopyService ----------------------------
(***************************************************************************)
(* What a caller of nu_pdma_memcpy and nu_pdma_mempush relies on: each     *)
(* request is run once, at most Width of them at a time, and its answer    *)
(* says whether the engine moved all of it. How threads, semaphores and    *)
(* interrupts bring that about is PdmaMemfun.tla's business.               *)
(***************************************************************************)
EXTENDS Integers, FiniteSets

CONSTANTS
  Clients,  (* who asks                                                     *)
  Width     (* transfers that may run at the same time                      *)

VARIABLES
  phase,    \* of each client's request
  ending,   \* how the engine ended it: "no" (not yet), "done" or "abort"
  answer    \* what the client was told: "none" (nothing yet), "all", "less"

vars == <<phase, ending, answer>>

Init ==
  /\ phase = [c \in Clients |-> "idle"]
  /\ ending = [c \in Clients |-> "no"]
  /\ answer = [c \in Clients |-> "none"]

Step(c, from, to) ==
  /\ phase[c] = from
  /\ phase' = [phase EXCEPT ![c] = to]

Ask(c) ==
  /\ Step(c, "idle", "asked")
  /\ ending' = [ending EXCEPT ![c] = "no"]
  /\ answer' = [answer EXCEPT ![c] = "none"]

Run(c) ==
  /\ Cardinality({d \in Clients : phase[d] = "running"}) < Width
  /\ Step(c, "asked", "running")
  /\ UNCHANGED <<ending, answer>>

Move(c) ==
  /\ Step(c, "running", "moved")
  /\ \E e \in {"done", "abort"} : ending' = [ending EXCEPT ![c] = e]
  /\ UNCHANGED answer

Answer(c) ==
  /\ Step(c, "moved", "answered")
  /\ answer' = [answer EXCEPT ![c] = IF ending[c] = "done" THEN "all" ELSE "less"]
  /\ UNCHANGED ending

Leave(c) ==
  /\ Step(c, "answered", "idle")
  /\ UNCHANGED <<ending, answer>>

Next == \E c \in Clients : Ask(c) \/ Run(c) \/ Move(c) \/ Answer(c) \/ Leave(c)

Spec == Init /\ [][Next]_vars
=============================================================================
