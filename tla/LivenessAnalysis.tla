------------------------- MODULE LivenessAnalysis -------------------------
(***************************************************************************)
(* livenessAnalysis(): fill upwardExposedVariables and killedVariables in  *)
(* one walk over the function, then sweep over the blocks in layout order, *)
(* recomputing each live-out set, until a sweep changes nothing.           *)
(***************************************************************************)
EXTENDS LiveVariables

VARIABLES
  fn,         \* the function being analysed
  phase,      \* "init", "sweep", "done"
  blk,        \* position of the loop over the function's blocks
  ins,        \* position of initBasicBlock's loop over a block
  upwardExposed, killed, liveOut,   \* the maps of LivenessState
  changed     \* the flag of the while loop

vars == <<fn, phase, blk, ins, upwardExposed, killed, liveOut, changed>>

Abstract ==
  INSTANCE LivenessDataflow WITH live <- liveOut, done <- (phase = "done")

NoValues == [b \in Blocks(fn) |-> {}]

TypeOK ==
  /\ phase \in {"init", "sweep", "done"}
  /\ blk \in 1..(Len(fn.code) + 1)
  /\ ins \in Nat \ {0}
  /\ upwardExposed \in [Blocks(fn) -> SUBSET Values]
  /\ killed \in [Blocks(fn) -> SUBSET Values]
  /\ liveOut \in [Blocks(fn) -> SUBSET Values]
  /\ changed \in BOOLEAN

Init ==
  /\ fn \in Functions
  /\ phase = "init"
  /\ blk = 1 /\ ins = 1
  /\ upwardExposed = NoValues
  /\ killed = NoValues
  /\ liveOut = NoValues
  /\ changed = TRUE

\* Mutant: the lookup in killedVariables is forgotten.
InitBasicBlock_NoKillTest ==
  /\ phase = "init"
  /\ blk \in Blocks(fn)
  /\ ins <= Len(fn.code[blk])
  /\ LET instr == fn.code[blk][ins]
     IN  /\ upwardExposed' = [upwardExposed EXCEPT ![blk] = @ \cup Uses(instr)]
         /\ killed' = [killed EXCEPT ![blk] = @ \cup Defs(instr)]
  /\ ins' = ins + 1
  /\ UNCHANGED <<fn, phase, blk, liveOut, changed>>

\* One iteration of initBasicBlock: the operands are looked up before the
\* instruction itself is killed.
InitBasicBlock ==
  /\ phase = "init"
  /\ blk \in Blocks(fn)
  /\ ins <= Len(fn.code[blk])
  /\ LET instr == fn.code[blk][ins]
     IN  /\ upwardExposed' = [upwardExposed EXCEPT
              ![blk] = @ \cup (Uses(instr) \ killed[blk])]
         /\ killed' = [killed EXCEPT ![blk] = @ \cup Defs(instr)]
  /\ ins' = ins + 1
  /\ UNCHANGED <<fn, phase, blk, liveOut, changed>>

InitNextBasicBlock ==
  /\ phase = "init"
  /\ blk \in Blocks(fn)
  /\ ins > Len(fn.code[blk])
  /\ blk' = blk + 1 /\ ins' = 1
  /\ UNCHANGED <<fn, phase, upwardExposed, killed, liveOut, changed>>

\* Mutant: the live-out sets are cleared at the start of each sweep.
BeginSweep_Clears ==
  /\ phase \in {"init", "sweep"}
  /\ blk = Len(fn.code) + 1
  /\ changed
  /\ phase' = "sweep" /\ blk' = 1 /\ changed' = FALSE
  /\ liveOut' = NoValues
  /\ UNCHANGED <<fn, ins, upwardExposed, killed>>

\* Mutant: the flag is never lowered.
BeginSweep_KeepsFlag ==
  /\ phase \in {"init", "sweep"}
  /\ blk = Len(fn.code) + 1
  /\ changed
  /\ phase' = "sweep" /\ blk' = 1
  /\ UNCHANGED <<fn, ins, upwardExposed, killed, liveOut, changed>>

\* while (changed) { changed = false; ... }
BeginSweep ==
  /\ phase \in {"init", "sweep"}
  /\ blk = Len(fn.code) + 1
  /\ changed
  /\ phase' = "sweep" /\ blk' = 1 /\ changed' = FALSE
  /\ UNCHANGED <<fn, ins, upwardExposed, killed, liveOut>>

\* Mutant: the difference with the successor's killed variables is dropped.
computeLiveOut_NoKill(b) ==
  UNION {upwardExposed[s] \cup liveOut[s] : s \in fn.succ[b]}

computeLiveOutVariables(b) ==
  UNION {upwardExposed[s] \cup (liveOut[s] \ killed[s]) : s \in fn.succ[b]}

\* Mutant: the flag tells only of the last block visited.
Recompute_LastBlockFlag ==
  /\ phase = "sweep"
  /\ blk \in Blocks(fn)
  /\ LET computed == computeLiveOutVariables(blk)
     IN  /\ changed' = (computed # liveOut[blk])
         /\ liveOut' = [liveOut EXCEPT ![blk] = computed]
  /\ blk' = blk + 1
  /\ UNCHANGED <<fn, phase, ins, upwardExposed, killed>>

Recompute ==
  /\ phase = "sweep"
  /\ blk \in Blocks(fn)
  /\ LET computed == computeLiveOutVariables(blk)
     IN  /\ changed' = (changed \/ computed # liveOut[blk])
         /\ liveOut' = [liveOut EXCEPT ![blk] = computed]
  /\ blk' = blk + 1
  /\ UNCHANGED <<fn, phase, ins, upwardExposed, killed>>

\* Mutant: one sweep is taken to be enough.
Stop_AfterOneSweep ==
  /\ phase = "sweep"
  /\ blk = Len(fn.code) + 1
  /\ phase' = "done"
  /\ UNCHANGED <<fn, blk, ins, upwardExposed, killed, liveOut, changed>>

Stop ==
  /\ phase = "sweep"
  /\ blk = Len(fn.code) + 1
  /\ ~changed
  /\ phase' = "done"
  /\ UNCHANGED <<fn, blk, ins, upwardExposed, killed, liveOut, changed>>

Next ==
  \/ InitBasicBlock \/ InitNextBasicBlock
  \/ BeginSweep \/ Recompute \/ Stop

Spec == Init /\ [][Next]_vars /\ WF_vars(Next)

-----------------------------------------------------------------------------
(* Properties *)

\* How many instructions of block b the first walk has processed.
Scanned(b) ==
  IF phase # "init" \/ b < blk THEN Len(fn.code[b])
  ELSE IF b = blk THEN ins - 1 ELSE 0

\* The block-local sets hold exactly what the walk has seen so far: a use is
\* exposed only if no earlier instruction of its block defines the value.
\* (initBasicBlock inspects operands before it kills the instruction.)
LocalSetsExact ==
  \A b \in Blocks(fn) :
    /\ upwardExposed[b] = ExposedBefore(fn, b, Scanned(b))
    /\ killed[b] = KilledBefore(fn, b, Scanned(b))

\* Blocks of the running sweep already visited while the flag is still down
\* satisfy their equations: what makes a clean sweep a proof of stability.
CleanPrefix ==
  phase \in {"sweep", "done"} /\ ~changed =>
    \A b \in Blocks(fn) : b < blk => liveOut[b] = computeLiveOutVariables(b)

\* Every recorded liveness already follows from the current sets, so that a
\* recomputation can only add values.
Justified ==
  \A b \in Blocks(fn) : liveOut[b] \subseteq Flow(fn, liveOut, b)

\* When the while loop exits every equation holds.
SolvedWhenDone == phase = "done" => Solution(fn, liveOut)

\* A value is reported live-out of b only if some path from b reaches a use
\* of it with no definition in between, and every such value is reported:
\* the meaning of liveness, stated on paths and not on equations.
LivePath(b, v) ==
  \E p \in UNION {[1..n -> Blocks(fn)] : n \in 1..Len(fn.code)} :
    LET n == Len(p)
    IN  /\ p[1] \in fn.succ[b]
        /\ \A k \in 1..(n - 1) :
             p[k + 1] \in fn.succ[p[k]] /\ v \notin Killed(fn, p[k])
        /\ v \in Exposed(fn, p[n])
LiveOnPaths ==
  phase = "done" =>
    \A b \in Blocks(fn) : \A v \in Values : v \in liveOut[b] <=> LivePath(b, v)

\* No sweep ever withdraws a value from a live-out set: this is what bounds
\* the number of sweeps.
OnlyGrows == [][\A b \in Blocks(fn) : liveOut[b] \subseteq liveOut'[b]]_vars

\* The while loop terminates on every control-flow graph.
Terminates == <>(phase = "done")

\* The analysis implements the abstract specification.
ImplementsDataflow == Abstract!Spec
=============================================================================
