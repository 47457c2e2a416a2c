------------------------- MODULE LivenessDataflow -------------------------
(***************************************************************************)
(* What the live-variable analysis of newton-irPass-LLVMIR-                *)
(* livenessAnalysis.cpp promises: the least assignment of live-out sets to *)
(* basic blocks that solves the live-variable equations of the function.   *)
(* Nothing is said of the order in which blocks are visited.               *)
(***************************************************************************)
EXTENDS LiveVariables

VARIABLES fn, live, done

vars == <<fn, live, done>>

Init ==
  /\ fn \in Functions
  /\ live = [b \in Blocks(fn) |-> {}]
  /\ done = FALSE

\* Bring one block up to date with its successors.
Improve(b) ==
  /\ ~done
  /\ live' = [live EXCEPT ![b] = Flow(fn, live, b)]
  /\ UNCHANGED <<fn, done>>

\* Stop, and only with a solution in hand.
Finish ==
  /\ ~done
  /\ Solution(fn, live)
  /\ done' = TRUE
  /\ UNCHANGED <<fn, live>>

Next == Finish \/ \E b \in Blocks(fn) : Improve(b)

Spec == Init /\ [][Next]_vars /\ WF_vars(Next)
=============================================================================
