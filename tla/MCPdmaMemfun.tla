---------------------------- MODULE MCPdmaMemfun ----------------------------
(* Instances of PdmaMemfun for TLC.                                        *)
EXTENDS PdmaMemfun, TLC

CONSTANTS t1, t2, t3

(* One thread more urgent than two others of equal priority.               *)
MixedPrio == (t1 :> 1) @@ (t2 :> 2) @@ (t3 :> 2)

EqualPrio == [t \in Threads |-> 5]
=============================================================================
