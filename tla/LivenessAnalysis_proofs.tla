---------------------- MODULE LivenessAnalysis_proofs ----------------------
(***************************************************************************)
(* Proofs about the live-variable analysis, for every set of functions.    *)
(*                                                                         *)
(* The argument: the local sets are exact after each instruction, so that  *)
(* computeLiveOutVariables is the right-hand side of the equations; every  *)
(* recorded fact is already justified by the equations, so recomputing     *)
(* only adds (and stays below every solution); and a block visited while   *)
(* the flag is down still satisfies its equation at the end of the sweep.  *)
(***************************************************************************)
EXTENDS LivenessAnalysis, FiniteSetTheorems,
        WellFoundedInduction, TLAPS

Position ==
  /\ phase = "init" => changed /\ liveOut = NoValues
  /\ phase = "done" => ~changed /\ blk = Len(fn.code) + 1
  /\ phase = "init" /\ blk \in Blocks(fn) => ins <= Len(fn.code[blk]) + 1

IInv ==
  /\ fn \in Functions
  /\ TypeOK
  /\ Position
  /\ LocalSetsExact
  /\ CleanPrefix
  /\ Justified

-----------------------------------------------------------------------------
(* Facts about the functions and their equations *)

\* The blocks of a function and their instructions.
LEMMA FunctionFacts ==
  ASSUME NEW f \in Functions
  PROVE  /\ Len(f.code) \in Nat
         /\ Blocks(f) = 1..Len(f.code)
         /\ \A b \in Blocks(f) : /\ Len(f.code[b]) \in Nat
                                 /\ DOMAIN f.code[b] = 1..Len(f.code[b])
                                 /\ f.succ[b] \subseteq Blocks(f)
<1>1. /\ f.code \in Seq(Seq(Instructions))
      /\ f.succ \in [DOMAIN f.code -> SUBSET DOMAIN f.code]
  BY FunctionsAssumption
<1>2. \A b \in DOMAIN f.code : f.code[b] \in Seq(Instructions)
  BY <1>1
<1> QED
  BY <1>1, <1>2 DEF Blocks

\* What an instruction uses and defines are values.
LEMMA InstructionFacts ==
  ASSUME NEW f \in Functions, NEW b \in Blocks(f), NEW i \in DOMAIN f.code[b]
  PROVE  /\ Uses(f.code[b][i]) \subseteq Values
         /\ Defs(f.code[b][i]) \subseteq Values
<1> DEFINE instr == f.code[b][i]
<1>1. instr \in Instructions
  BY FunctionsAssumption DEF Blocks
<1>2. /\ instr.val \in Values
      /\ instr.args \in Seq(Values \cup Constants)
  BY <1>1 DEF Instructions
<1>3. \A k \in DOMAIN instr.args : instr.args[k] \in Values \cup Constants
  BY <1>2
<1> QED BY <1>2, <1>3 DEF Uses, Seen, Defs

\* One more instruction adds its definitions, and those of its uses that no
\* earlier instruction of the block defines.
LEMMA LocalStep ==
  ASSUME NEW f \in Functions, NEW b \in Blocks(f), NEW i \in DOMAIN f.code[b]
  PROVE  /\ KilledBefore(f, b, i)
              = KilledBefore(f, b, i - 1) \cup Defs(f.code[b][i])
         /\ ExposedBefore(f, b, i)
              = ExposedBefore(f, b, i - 1)
                  \cup (Uses(f.code[b][i]) \ KilledBefore(f, b, i - 1))
<1>1. /\ DOMAIN f.code[b] = 1..Len(f.code[b]) /\ Len(f.code[b]) \in Nat
      /\ i \in Nat /\ i >= 1
  BY FunctionFacts
<1>2. \A j \in DOMAIN f.code[b] :
        /\ j \in Nat
        /\ j <= i <=> j = i \/ j <= i - 1
        /\ j < i <=> j <= i - 1
  BY <1>1
<1>3. /\ Uses(f.code[b][i]) \subseteq Values
      /\ Defs(f.code[b][i]) \subseteq Values
  BY InstructionFacts
<1>4. i <= i
  BY <1>1
<1>5. KilledBefore(f, b, i)
        = KilledBefore(f, b, i - 1) \cup Defs(f.code[b][i])
  BY <1>2, <1>3, <1>4 DEF KilledBefore
<1>6. \A v \in Values :
        v \notin KilledBefore(f, b, i - 1)
          <=> \A j \in DOMAIN f.code[b] : j < i => v \notin Defs(f.code[b][j])
  BY <1>2 DEF KilledBefore
<1>7. ExposedBefore(f, b, i)
        = ExposedBefore(f, b, i - 1)
            \cup (Uses(f.code[b][i]) \ KilledBefore(f, b, i - 1))
  BY <1>2, <1>3, <1>4, <1>6 DEF ExposedBefore
<1> QED BY <1>5, <1>7

\* Nothing is used or defined in front of the first instruction.
LEMMA LocalStart ==
  ASSUME NEW f \in Functions, NEW b \in Blocks(f)
  PROVE  KilledBefore(f, b, 0) = {} /\ ExposedBefore(f, b, 0) = {}
<1>1. \A i \in DOMAIN f.code[b] : ~(i <= 0)
  BY FunctionFacts
<1> QED BY <1>1 DEF KilledBefore, ExposedBefore

\* The right-hand side is monotone in the assignment.
LEMMA FlowMonotone ==
  ASSUME NEW f \in Functions, NEW b \in Blocks(f), NEW out1, NEW out2,
         \A s \in Blocks(f) : out1[s] \subseteq out2[s]
  PROVE  Flow(f, out1, b) \subseteq Flow(f, out2, b)
  BY FunctionFacts DEF Flow

\* Once every local set is complete, what the code computes is the
\* right-hand side of the block's equation.
LEMMA ComputesFlow ==
  ASSUME fn \in Functions, TypeOK, LocalSetsExact, phase # "init",
         NEW b \in Blocks(fn)
  PROVE  computeLiveOutVariables(b) = Flow(fn, liveOut, b)
<1>1. \A s \in Blocks(fn) :
        upwardExposed[s] = Exposed(fn, s) /\ killed[s] = Killed(fn, s)
  BY DEF LocalSetsExact, Exposed, Killed, Scanned
<1>2. fn.succ[b] \subseteq Blocks(fn)
  BY FunctionFacts
<1>3. \A s \in Blocks(fn) : upwardExposed[s] \subseteq Values
                            /\ liveOut[s] \subseteq Values
  BY DEF TypeOK
<1> QED BY <1>1, <1>2, <1>3 DEF computeLiveOutVariables, Flow

-----------------------------------------------------------------------------
(* The inductive invariant *)

\* The analysis starts with empty sets.
LEMMA InitIInv == Init => IInv
<1> SUFFICES ASSUME Init PROVE IInv
  OBVIOUS
<1> USE DEF Init
<1>1. fn \in Functions
  OBVIOUS
<1>2. /\ Len(fn.code) \in Nat /\ Blocks(fn) = 1..Len(fn.code)
      /\ \A b \in Blocks(fn) : Len(fn.code[b]) \in Nat
  BY <1>1, FunctionFacts
<1>3. TypeOK
  BY <1>2 DEF TypeOK, NoValues
<1>4. Position
  BY <1>2 DEF Position
<1>5. LocalSetsExact
  <2>1. \A b \in Blocks(fn) : Scanned(b) = 0
    BY <1>2 DEF Scanned
  <2>2. \A b \in Blocks(fn) : upwardExposed[b] = {} /\ killed[b] = {}
    BY DEF NoValues
  <2> QED BY <1>1, <2>1, <2>2, LocalStart DEF LocalSetsExact
<1>6. CleanPrefix /\ Justified
  BY DEF CleanPrefix, Justified, NoValues
<1> QED BY <1>1, <1>3, <1>4, <1>5, <1>6 DEF IInv

\* The walk that fills the local sets leaves everything else alone.
LEMMA ScanStep ==
  ASSUME IInv, InitBasicBlock PROVE IInv'
<1> USE DEF InitBasicBlock
<1> DEFINE instr == fn.code[blk][ins]
<1>1. /\ fn \in Functions /\ TypeOK /\ Position /\ LocalSetsExact
  BY DEF IInv
<1>2. /\ Len(fn.code) \in Nat /\ Blocks(fn) = 1..Len(fn.code)
      /\ Len(fn.code[blk]) \in Nat
      /\ ins \in DOMAIN fn.code[blk] /\ ins \in Nat /\ ins >= 1
  BY <1>1, FunctionFacts DEF TypeOK
<1>3. Uses(instr) \subseteq Values /\ Defs(instr) \subseteq Values
  BY <1>1, <1>2, InstructionFacts
<1>4. TypeOK'
  <2>1. /\ upwardExposed' \in [Blocks(fn) -> SUBSET Values]
        /\ killed' \in [Blocks(fn) -> SUBSET Values]
    BY <1>1, <1>3 DEF TypeOK
  <2> QED BY <1>1, <1>2, <2>1 DEF TypeOK, Blocks
<1>5. Position'
  BY <1>1, <1>2 DEF Position, NoValues, Blocks
<1>6. LocalSetsExact'
  <2> SUFFICES ASSUME NEW b \in Blocks(fn)
               PROVE  /\ upwardExposed'[b] = ExposedBefore(fn, b, Scanned(b)')
                      /\ killed'[b] = KilledBefore(fn, b, Scanned(b)')
    BY DEF LocalSetsExact
  <2>1. /\ upwardExposed[b] = ExposedBefore(fn, b, Scanned(b))
        /\ killed[b] = KilledBefore(fn, b, Scanned(b))
    BY <1>1 DEF LocalSetsExact
  <2>2. CASE b # blk
    <3>1. Scanned(b)' = Scanned(b)
      BY <2>2 DEF Scanned
    <3>2. upwardExposed'[b] = upwardExposed[b] /\ killed'[b] = killed[b]
      BY <1>1, <2>2 DEF TypeOK
    <3> QED BY <2>1, <3>1, <3>2
  <2>3. CASE b = blk
    <3>1. Scanned(b) = ins - 1 /\ Scanned(b)' = ins
      BY <2>3, <1>2 DEF Scanned
    <3>2. /\ upwardExposed'[b] = upwardExposed[b] \cup (Uses(instr) \ killed[b])
          /\ killed'[b] = killed[b] \cup Defs(instr)
      BY <1>1, <2>3 DEF TypeOK
    <3>3. /\ KilledBefore(fn, b, ins)
                = KilledBefore(fn, b, ins - 1) \cup Defs(instr)
          /\ ExposedBefore(fn, b, ins)
                = ExposedBefore(fn, b, ins - 1)
                    \cup (Uses(instr) \ KilledBefore(fn, b, ins - 1))
      BY <2>3, <1>1, <1>2, LocalStep
    <3> QED BY <2>1, <3>1, <3>2, <3>3
  <2> QED BY <2>2, <2>3
<1>7. CleanPrefix'
  BY DEF CleanPrefix
<1>8. Justified'
  BY DEF IInv, Justified
<1> QED BY <1>1, <1>4, <1>5, <1>6, <1>7, <1>8 DEF IInv

\* The first walk goes on to the next block.
LEMMA NextBlockStep ==
  ASSUME IInv, InitNextBasicBlock PROVE IInv'
<1> USE DEF InitNextBasicBlock
<1>1. /\ fn \in Functions /\ TypeOK /\ Position /\ LocalSetsExact
  BY DEF IInv
<1>2. /\ Len(fn.code) \in Nat /\ Blocks(fn) = 1..Len(fn.code)
      /\ \A b \in Blocks(fn) : Len(fn.code[b]) \in Nat
      /\ blk \in Nat /\ ins \in Nat
  BY <1>1, FunctionFacts DEF TypeOK
<1>3. TypeOK'
  BY <1>1, <1>2 DEF TypeOK, Blocks
<1>4. Position'
  BY <1>1, <1>2 DEF Position, NoValues, Blocks
<1>5. LocalSetsExact'
  <2>1. \A b \in Blocks(fn) : Scanned(b)' = Scanned(b)
    <3> TAKE b \in Blocks(fn)
    <3>1. b \in Nat
      BY <1>2
    <3>2. CASE b = blk
      BY <1>1, <1>2, <3>2 DEF Scanned, Position
    <3>3. CASE b < blk
      BY <1>2, <3>1, <3>3 DEF Scanned
    <3>4. CASE b > blk
      BY <1>2, <3>1, <3>4 DEF Scanned
    <3> QED BY <1>2, <3>1, <3>2, <3>3, <3>4
  <2> QED BY <1>1, <2>1 DEF LocalSetsExact
<1>6. CleanPrefix'
  BY DEF CleanPrefix
<1>7. Justified'
  BY DEF IInv, Justified
<1> QED BY <1>1, <1>3, <1>4, <1>5, <1>6, <1>7 DEF IInv

\* Entering a sweep: every block has been walked, so the sets are complete.
LEMMA BeginSweepStep ==
  ASSUME IInv, BeginSweep PROVE IInv'
<1> USE DEF BeginSweep
<1>1. /\ fn \in Functions /\ TypeOK /\ Position /\ LocalSetsExact
  BY DEF IInv
<1>2. /\ Len(fn.code) \in Nat /\ Blocks(fn) = 1..Len(fn.code)
  BY <1>1, FunctionFacts
<1>3. TypeOK'
  <2>1. phase' \in {"init", "sweep", "done"} /\ changed' \in BOOLEAN
    OBVIOUS
  <2>2. blk' \in 1..(Len(fn.code) + 1)
    BY <1>2
  <2> QED BY <1>1, <2>1, <2>2 DEF TypeOK, Blocks
<1>4. Position'
  BY DEF Position
<1>5. LocalSetsExact'
  <2>1. \A b \in Blocks(fn) : Scanned(b)' = Scanned(b)
    BY <1>2 DEF Scanned
  <2> QED BY <1>1, <2>1 DEF LocalSetsExact
<1>6. CleanPrefix'
  <2>1. \A b \in Blocks(fn) : ~(b < 1)
    BY <1>2
  <2> QED BY <2>1 DEF CleanPrefix
<1>7. Justified'
  BY DEF IInv, Justified
<1> QED BY <1>1, <1>3, <1>4, <1>5, <1>6, <1>7 DEF IInv

\* A recomputation installs the right-hand side, which contains the old set.
LEMMA RecomputeGrows ==
  ASSUME IInv, Recompute
  PROVE  /\ liveOut' \in [Blocks(fn) -> SUBSET Values]
         /\ liveOut'[blk] = Flow(fn, liveOut, blk)
         /\ \A b \in Blocks(fn) : b # blk => liveOut'[b] = liveOut[b]
         /\ \A b \in Blocks(fn) : liveOut[b] \subseteq liveOut'[b]
         /\ ~changed' => ~changed /\ liveOut' = liveOut
<1> USE DEF Recompute
<1>1. fn \in Functions /\ TypeOK /\ LocalSetsExact /\ Justified
  BY DEF IInv
<1>2. computeLiveOutVariables(blk) = Flow(fn, liveOut, blk)
  BY <1>1, ComputesFlow
<1>3. liveOut' = [liveOut EXCEPT ![blk] = Flow(fn, liveOut, blk)]
  BY <1>2
<1>4. Flow(fn, liveOut, blk) \subseteq Values
  BY DEF Flow
<1>5. liveOut[blk] \subseteq Flow(fn, liveOut, blk)
  BY <1>1 DEF Justified
<1>6. ~changed' => ~changed /\ liveOut[blk] = Flow(fn, liveOut, blk)
  BY <1>1, <1>2 DEF TypeOK
<1> QED BY <1>1, <1>3, <1>4, <1>5, <1>6 DEF TypeOK

\* A block is brought up to date; nothing else is written.
LEMMA RecomputeStep ==
  ASSUME IInv, Recompute PROVE IInv'
<1> USE DEF Recompute
<1>1. /\ fn \in Functions /\ TypeOK /\ Position /\ LocalSetsExact
      /\ CleanPrefix /\ Justified
  BY DEF IInv
<1>2. /\ Len(fn.code) \in Nat /\ Blocks(fn) = 1..Len(fn.code)
      /\ blk \in Nat
  BY <1>1, FunctionFacts DEF TypeOK
<1>3. TypeOK'
  <2>1. changed' \in BOOLEAN
    OBVIOUS
  <2>2. blk' \in 1..(Len(fn.code) + 1)
    BY <1>2
  <2> QED BY <1>1, <2>1, <2>2, RecomputeGrows DEF TypeOK, Blocks
<1>4. Position'
  BY DEF Position
<1>5. LocalSetsExact'
  <2>1. \A b \in Blocks(fn) : Scanned(b)' = Scanned(b)
    BY DEF Scanned
  <2> QED BY <1>1, <2>1 DEF LocalSetsExact
<1>6. CleanPrefix'
  <2> SUFFICES ASSUME ~changed', NEW b \in Blocks(fn), b < blk'
               PROVE  liveOut'[b] = computeLiveOutVariables(b)'
    BY DEF CleanPrefix
  <2>1. ~changed /\ liveOut' = liveOut
    BY RecomputeGrows
  <2>2. computeLiveOutVariables(b)' = computeLiveOutVariables(b)
    BY <2>1 DEF computeLiveOutVariables
  <2>3. CASE b = blk
    BY <1>1, <2>2, <2>3, RecomputeGrows, ComputesFlow
  <2>4. CASE b < blk
    BY <1>1, <2>1, <2>2, <2>4 DEF CleanPrefix
  <2> QED BY <1>2, <2>3, <2>4
<1>7. Justified'
  <2> SUFFICES ASSUME NEW b \in Blocks(fn)
               PROVE  liveOut'[b] \subseteq Flow(fn, liveOut', b)
    BY DEF Justified
  <2>1. Flow(fn, liveOut, b) \subseteq Flow(fn, liveOut', b)
    BY <1>1, RecomputeGrows, FlowMonotone
  <2>2. liveOut'[b] \subseteq Flow(fn, liveOut, b)
    BY <1>1, RecomputeGrows DEF Justified
  <2> QED BY <2>1, <2>2
<1> QED BY <1>1, <1>3, <1>4, <1>5, <1>6, <1>7 DEF IInv

\* The loop stops when the flag stayed down.
LEMMA StopStep ==
  ASSUME IInv, Stop PROVE IInv'
<1> USE DEF Stop
<1>1. /\ fn \in Functions /\ TypeOK /\ Position /\ LocalSetsExact
      /\ CleanPrefix /\ Justified
  BY DEF IInv
<1>2. TypeOK' /\ Position'
  BY <1>1 DEF TypeOK, Position
<1>3. LocalSetsExact'
  <2>1. \A b \in Blocks(fn) : Scanned(b)' = Scanned(b)
    BY DEF Scanned
  <2> QED BY <1>1, <2>1 DEF LocalSetsExact
<1>4. CleanPrefix' /\ Justified'
  BY <1>1 DEF CleanPrefix, Justified, computeLiveOutVariables
<1> QED BY <1>1, <1>2, <1>3, <1>4 DEF IInv

\* Every step keeps the invariant.
LEMMA NextIInv == IInv /\ [Next]_vars => IInv'
<1> SUFFICES ASSUME IInv, [Next]_vars PROVE IInv'
  OBVIOUS
<1>1. CASE Next
  BY <1>1, ScanStep, NextBlockStep, BeginSweepStep, RecomputeStep, StopStep
     DEF Next
<1>2. CASE UNCHANGED vars
  BY <1>2 DEF vars, IInv, TypeOK, Position, LocalSetsExact, CleanPrefix,
              Justified, Scanned, NoValues, computeLiveOutVariables
<1> QED BY <1>1, <1>2

\* The invariant holds in every state.
LEMMA Inductive == Spec => []IInv
  BY InitIInv, NextIInv, PTL DEF Spec

-----------------------------------------------------------------------------
(* The theorems *)

\* The maps hold sets of values of the analysed function, in every state.
THEOREM TypeCorrect == Spec => []TypeOK
<1>1. IInv => TypeOK
  BY DEF IInv
<1> QED BY <1>1, Inductive, PTL

\* The single walk of initBasicBlock computes exactly the upward-exposed and
\* the killed values of each block.
THEOREM LocalSetsCorrect == Spec => []LocalSetsExact
<1>1. IInv => LocalSetsExact
  BY DEF IInv
<1> QED BY <1>1, Inductive, PTL

\* When the loop stops, the live-out sets solve the live-variable equations.
LEMMA DoneIsSolved == IInv => SolvedWhenDone
<1> SUFFICES ASSUME IInv, phase = "done", NEW b \in Blocks(fn)
             PROVE  liveOut[b] = Flow(fn, liveOut, b)
  BY DEF SolvedWhenDone, Solution
<1>1. /\ fn \in Functions /\ TypeOK /\ Position /\ LocalSetsExact
      /\ CleanPrefix
  BY DEF IInv
<1>2. b < blk
  BY <1>1, FunctionFacts DEF Position
<1>3. liveOut[b] = computeLiveOutVariables(b)
  BY <1>1, <1>2 DEF CleanPrefix, Position
<1> QED BY <1>1, <1>3, ComputesFlow

\* When the loop stops, the live-out sets solve the equations.
THEOREM SolvedOnExit == Spec => []SolvedWhenDone
  BY Inductive, DoneIsSolved, PTL

\* A step never withdraws a value: the sweeps climb towards the solution.
THEOREM Grows == Spec => OnlyGrows
<1>1. ASSUME IInv, [Next]_vars
      PROVE  [\A b \in Blocks(fn) : liveOut[b] \subseteq liveOut'[b]]_vars
  BY <1>1, RecomputeGrows
     DEF Next, InitBasicBlock, InitNextBasicBlock, BeginSweep, Stop
<1> QED BY <1>1, Inductive, PTL DEF Spec, OnlyGrows

\* No solution of the equations reports less: what the loop stops with is the
\* least of them, so no value is called live that need not be.
LEMMA BelowStep ==
  ASSUME IInv, [Next]_vars, NEW out,
         Solution(fn, out), \A b \in Blocks(fn) : liveOut[b] \subseteq out[b]
  PROVE  /\ fn' = fn
         /\ \A b \in Blocks(fn) : liveOut'[b] \subseteq out[b]
<1>1. CASE Recompute
  <2>1. fn \in Functions /\ blk \in Blocks(fn)
    BY <1>1 DEF IInv, Recompute
  <2>2. Flow(fn, liveOut, blk) \subseteq out[blk]
    BY <2>1, FlowMonotone DEF Solution
  <2> QED BY <1>1, <2>2, RecomputeGrows DEF Recompute
<1>2. CASE ~Recompute
  BY <1>2 DEF Next, InitBasicBlock, InitNextBasicBlock, BeginSweep, Stop, vars
<1> QED BY <1>1, <1>2

LeastOf(out) ==
  Solution(fn, out) => \A b \in Blocks(fn) : liveOut[b] \subseteq out[b]

\* A value in a live-out set is in every solution of the equations: the loop
\* stops at the least one.
THEOREM Least == ASSUME NEW CONSTANT out PROVE Spec => []LeastOf(out)
<1>1. Init => LeastOf(out)
  BY DEF Init, NoValues, LeastOf
<1>2. IInv /\ LeastOf(out) /\ [Next]_vars => LeastOf(out)'
  <2> SUFFICES ASSUME IInv, LeastOf(out), [Next]_vars, Solution(fn, out)'
               PROVE  (\A b \in Blocks(fn) : liveOut[b] \subseteq out[b])'
    BY DEF LeastOf
  <2>1. fn' = fn
    BY DEF Next, InitBasicBlock, InitNextBasicBlock, BeginSweep, Recompute,
           Stop, vars
  <2>2. Solution(fn, out)
    BY <2>1
  <2> QED BY <2>1, <2>2, BelowStep DEF LeastOf
<1> QED BY <1>1, <1>2, Inductive, PTL DEF Spec

-----------------------------------------------------------------------------
(* The meaning of liveness on paths.  Every value the sweeps record has a  *)
(* path to a use of it, of some length; a shortest one visits no block     *)
(* twice, so that it is no longer than the function; and a solution of the *)
(* equations carries a use back to the start of any path.                  *)

\* p leads from the end of b over n blocks to a use of v that no block on the
\* way defines
PathTo(b, v, n, p) ==
  /\ p[1] \in fn.succ[b]
  /\ \A k \in 1..(n - 1) : p[k + 1] \in fn.succ[p[k]] /\ v \notin Killed(fn, p[k])
  /\ v \in Exposed(fn, p[n])

Lengths(b, v) == {n \in Nat : n >= 1 /\ \E p \in [1..n -> Blocks(fn)] : PathTo(b, v, n, p)}

OnPaths == \A b \in Blocks(fn) : \A v \in liveOut[b] : Lengths(b, v) # {}

\* A set of lengths has a least one.
LEMMA Shortest ==
  ASSUME NEW T \in SUBSET Nat, T # {}
  PROVE  \E m \in T : \A n \in T : m <= n
<1>1. PICK m \in T : \A n \in T : ~(<<n, m>> \in OpToRel(<, Nat))
  BY NatLessThanWellFounded, WFMin, Zenon
<1>2. \A n \in T : ~(n < m)
  BY <1>1, Zenon DEF OpToRel
<1>3. \A n \in T : m <= n
  BY <1>2, SMT
<1> QED BY <1>3

\* A path from a successor that the block does not cut off.
LEMMA PathExtends ==
  ASSUME fn \in Functions, NEW b \in Blocks(fn), NEW s \in fn.succ[b], NEW v,
         Lengths(s, v) # {}, v \notin Killed(fn, s)
  PROVE  Lengths(b, v) # {}
<1>1. PICK n \in Nat : n >= 1 /\ \E p \in [1..n -> Blocks(fn)] : PathTo(s, v, n, p)
  BY DEF Lengths
<1>2. PICK p \in [1..n -> Blocks(fn)] : PathTo(s, v, n, p)
  BY <1>1
<1>3. s \in Blocks(fn)
  BY FunctionFacts
<1> DEFINE q == [k \in 1..(n + 1) |-> IF k = 1 THEN s ELSE p[k - 1]]
<1>4. q \in [1..(n + 1) -> Blocks(fn)]
  <2>1. \A k \in 1..(n + 1) : k = 1 \/ k - 1 \in 1..n
    BY SMT
  <2> QED BY <1>3, <2>1
<1>5. q[1] = s /\ \A k \in 1..n : q[k + 1] = p[k]
  <2>1. 1 \in 1..(n + 1)
    BY SMT
  <2>2. \A k \in 1..n : k + 1 \in 1..(n + 1) /\ k + 1 # 1 /\ (k + 1) - 1 = k
    BY SMT
  <2> QED BY <2>1, <2>2
<1> HIDE DEF q
<1>6. ASSUME NEW k \in 1..n
      PROVE  q[k + 1] \in fn.succ[q[k]] /\ v \notin Killed(fn, q[k])
  <2>1. CASE k = 1
    BY <1>2, <1>5, <2>1 DEF PathTo
  <2>2. CASE k # 1
    <3>1. k - 1 \in 1..(n - 1) /\ k - 1 \in 1..n /\ (k - 1) + 1 = k
      BY <2>2, SMT
    <3>2. q[k] = p[k - 1] /\ q[k + 1] = p[k]
      BY <1>5, <3>1
    <3> QED BY <1>2, <3>1, <3>2 DEF PathTo
  <2> QED BY <2>1, <2>2
<1>7. PathTo(b, v, n + 1, q)
  <2>1. (n + 1) - 1 = n /\ n \in 1..n
    BY <1>1, SMT
  <2> QED BY <1>2, <1>5, <1>6, <2>1 DEF PathTo
<1>8. n + 1 \in Nat /\ n + 1 >= 1
  BY SMT
<1> QED BY <1>4, <1>7, <1>8 DEF Lengths

\* A path that comes back to a block can leave out the way round.
LEMMA PathShortens ==
  ASSUME fn \in Functions, NEW b, NEW v, NEW n \in Nat, NEW p \in [1..n -> Blocks(fn)],
         PathTo(b, v, n, p), NEW i \in 1..n, NEW j \in 1..n, i < j, p[i] = p[j]
  PROVE  n - (j - i) \in Lengths(b, v)
<1> DEFINE m == n - (j - i)
           q == [k \in 1..m |-> IF k <= i THEN p[k] ELSE p[k + (j - i)]]
<1>1. /\ m \in Nat /\ m >= 1 /\ i <= m /\ m < n
      /\ \A k \in 1..m : k <= i => k \in 1..n
      /\ \A k \in 1..m : ~(k <= i) => k + (j - i) \in 1..n
  BY SMT
<1> HIDE DEF m
<1>2. q \in [1..m -> Blocks(fn)]
  BY <1>1
<1>3. q[1] = p[1]
  <2>1. 1 \in 1..m /\ 1 <= i
    BY <1>1, SMT
  <2> QED BY <2>1
<1>4. q[m] = p[n]
  <2>1. m \in 1..m /\ (m <= i => m = i /\ j = n) /\ (~(m <= i) => m + (j - i) = n)
    BY <1>1, SMT DEF m
  <2> QED BY <2>1
<1>5. ASSUME NEW k \in 1..(m - 1)
      PROVE  q[k + 1] \in fn.succ[q[k]] /\ v \notin Killed(fn, q[k])
  <2>0. k \in 1..m /\ k + 1 \in 1..m
    BY <1>1, SMT
  <2>1. CASE k < i
    <3>1. k <= i /\ k + 1 <= i /\ k \in 1..(n - 1)
      BY <1>1, <2>1, SMT
    <3>2. q[k] = p[k] /\ q[k + 1] = p[k + 1]
      BY <2>0, <3>1
    <3> QED BY <3>1, <3>2 DEF PathTo
  <2>2. CASE k = i
    <3>1. ~(k + 1 <= i) /\ k <= i /\ j \in 1..(n - 1) /\ (k + 1) + (j - i) = j + 1
      BY <1>1, <2>2, SMT DEF m
    <3>2. q[k] = p[j] /\ q[k + 1] = p[j + 1]
      BY <2>0, <2>2, <3>1
    <3> QED BY <3>1, <3>2 DEF PathTo
  <2>3. CASE k > i
    <3> DEFINE l == k + (j - i)
    <3>1. ~(k + 1 <= i) /\ ~(k <= i) /\ l \in 1..(n - 1) /\ (k + 1) + (j - i) = l + 1
      BY <1>1, <2>3, SMT DEF m
    <3>2. q[k] = p[l] /\ q[k + 1] = p[l + 1]
      BY <2>0, <3>1
    <3> HIDE DEF l
    <3> QED BY <3>1, <3>2 DEF PathTo
  <2> QED BY <1>1, <2>1, <2>2, <2>3, SMT
<1> HIDE DEF q
<1>6. PathTo(b, v, m, q)
  BY <1>3, <1>4, <1>5 DEF PathTo
<1> QED BY <1>1, <1>2, <1>6 DEF Lengths, m

\* A shortest path visits no block twice.
LEMMA PathIsBounded ==
  ASSUME fn \in Functions, NEW b, NEW v, Lengths(b, v) # {}
  PROVE  LivePath(b, v)
<1>1. PICK n \in Lengths(b, v) : \A m \in Lengths(b, v) : n <= m
  <2>1. Lengths(b, v) \in SUBSET Nat
    BY DEF Lengths
  <2> QED BY <2>1, Shortest
<1>2. PICK p \in [1..n -> Blocks(fn)] : PathTo(b, v, n, p)
  BY DEF Lengths
<1>3. n \in Nat /\ n >= 1
  BY DEF Lengths
<1>4. \A i, j \in 1..n : i < j => p[i] # p[j]
  <2> SUFFICES ASSUME NEW i \in 1..n, NEW j \in 1..n, i < j, p[i] = p[j] PROVE FALSE
    OBVIOUS
  <2>1. n <= n - (j - i)
    BY <1>1, <1>2, <1>3, PathShortens
  <2> QED BY <1>3, <2>1, SMT
<1>5. n <= Len(fn.code)
  <2>0. Len(fn.code) \in Nat /\ Blocks(fn) = 1..Len(fn.code)
    BY FunctionFacts
  <2>1. /\ IsFiniteSet(1..n) /\ Cardinality(1..n) = n
        /\ IsFiniteSet(Blocks(fn)) /\ Cardinality(Blocks(fn)) = Len(fn.code)
    BY <1>3, <2>0, FS_Interval, SMT
  <2> SUFFICES ASSUME Len(fn.code) < n PROVE FALSE
    BY <1>3, <2>0, SMT
  <2>2. PICK i, j \in 1..n : i # j /\ p[i] = p[j]
    BY <2>1, FS_PigeonHole
  <2>3. i < j \/ j < i
    BY <2>2, SMT
  <2> QED BY <1>4, <2>2, <2>3
<1>6. p \in UNION {[1..k -> Blocks(fn)] : k \in 1..Len(fn.code)}
  BY <1>2, <1>3, <1>5, FunctionFacts
<1>7. Len(p) = n
  BY <1>2, <1>3
<1> QED BY <1>2, <1>6, <1>7 DEF LivePath, PathTo

\* In a solution, what is used at the end of a path is live at its start.
LEMMA PathIsLive ==
  ASSUME fn \in Functions, Solution(fn, liveOut), NEW b \in Blocks(fn), NEW v \in Values,
         NEW n \in Nat, n >= 1, NEW p \in [1..n -> Blocks(fn)], PathTo(b, v, n, p)
  PROVE  v \in liveOut[b]
<1> DEFINE c(m) == IF m = n - 1 THEN b ELSE p[(n - 1) - m]
           T == {m \in 0..(n - 1) : v \notin liveOut[c(m)]}
<1>1. ASSUME NEW m \in 0..(n - 1)
      PROVE  /\ c(m) \in Blocks(fn) /\ p[n - m] \in fn.succ[c(m)]
             /\ m # 0 => p[n - m] = c(m - 1) /\ v \notin Killed(fn, p[n - m])
  <2>1. CASE m = n - 1
    <3>1. n - m = 1 /\ (m # 0 => 1 \in 1..(n - 1) /\ m - 1 # n - 1 /\ (n - 1) - (m - 1) = 1)
      BY <2>1, SMT
    <3> QED BY <2>1, <3>1 DEF PathTo
  <2>2. CASE m # n - 1
    <3> DEFINE k == (n - 1) - m
    <3>1. /\ k \in 1..(n - 1) /\ k \in 1..n /\ k + 1 = n - m
          /\ m # 0 => k + 1 \in 1..(n - 1) /\ m - 1 # n - 1 /\ (n - 1) - (m - 1) = n - m
      BY <2>2, SMT
    <3>2. c(m) = p[k]
      BY <2>2
    <3> HIDE DEF k
    <3> QED BY <3>1, <3>2 DEF PathTo
  <2> QED BY <2>1, <2>2
<1>2. T = {}
  <2> SUFFICES ASSUME T # {} PROVE FALSE
    OBVIOUS
  <2>0. T \in SUBSET Nat
    BY SMT
  <2>1. PICK m \in T : \A l \in T : m <= l
    <3> HIDE DEF T
    <3> QED BY <2>0, Shortest
  <2>2. m \in 0..(n - 1) /\ v \notin liveOut[c(m)]
    BY <2>1
  <2>3. /\ c(m) \in Blocks(fn) /\ p[n - m] \in fn.succ[c(m)]
        /\ m # 0 => p[n - m] = c(m - 1) /\ v \notin Killed(fn, p[n - m])
    BY <1>1, <2>2
  <2>4. liveOut[c(m)] = Flow(fn, liveOut, c(m))
    BY <2>3 DEF Solution
  <2>5. m # 0 => v \in liveOut[c(m - 1)]
    <3> SUFFICES ASSUME m # 0, v \notin liveOut[c(m - 1)] PROVE FALSE
      OBVIOUS
    <3>1. m - 1 \in 0..(n - 1) /\ ~(m <= m - 1)
      BY <2>2, SMT
    <3>2. m - 1 \in T
      BY <3>1
    <3> HIDE DEF T, c
    <3> QED BY <2>1, <3>1, <3>2
  <2>6. m = 0 => v \in Exposed(fn, p[n - m])
    BY DEF PathTo
  <2> HIDE DEF c, T
  <2> QED BY <2>2, <2>3, <2>4, <2>5, <2>6 DEF Flow
<1>3. n - 1 \in 0..(n - 1) /\ c(n - 1) = b
  BY SMT
<1> QED BY <1>2, <1>3

\* A value enters a live-out set together with a path to its use.
LEMMA OnPathsStep ==
  ASSUME IInv, OnPaths, [Next]_vars
  PROVE  OnPaths'
<1>0. fn \in Functions /\ TypeOK
  BY DEF IInv
<1>1. fn' = fn
  BY DEF Next, InitBasicBlock, InitNextBasicBlock, BeginSweep, Recompute, Stop, vars
<1>2. ASSUME NEW b \in Blocks(fn), NEW v \in Flow(fn, liveOut, b)
      PROVE  Lengths(b, v) # {}
  <2>1. PICK s \in fn.succ[b] : \/ v \in Exposed(fn, s)
                                \/ v \in liveOut[s] /\ v \notin Killed(fn, s)
    BY DEF Flow
  <2>2. s \in Blocks(fn)
    BY <1>0, FunctionFacts
  <2>3. CASE v \in Exposed(fn, s)
    <3> DEFINE p == [k \in 1..1 |-> s]
    <3>1. p \in [1..1 -> Blocks(fn)] /\ p[1] = s
      BY <2>2, SMT
    <3>2. 1..(1 - 1) = {} /\ 1 \in Nat /\ 1 >= 1
      BY SMT
    <3> HIDE DEF p
    <3>3. PathTo(b, v, 1, p)
      BY <2>3, <3>1, <3>2 DEF PathTo
    <3> QED BY <3>1, <3>2, <3>3 DEF Lengths
  <2>4. CASE v \in liveOut[s] /\ v \notin Killed(fn, s)
    BY <1>0, <2>2, <2>4, PathExtends DEF OnPaths
  <2> QED BY <2>1, <2>3, <2>4
<1>3. \A b, v : Lengths(b, v)' = Lengths(b, v)
  BY <1>1 DEF Lengths, PathTo
<1>4. CASE Recompute
  <2>1. /\ blk \in Blocks(fn) /\ liveOut' = [liveOut EXCEPT ![blk] = computeLiveOutVariables(blk)]
        /\ phase = "sweep"
    BY <1>4 DEF Recompute
  <2>2. computeLiveOutVariables(blk) = Flow(fn, liveOut, blk)
    BY <2>1, ComputesFlow DEF IInv
  <2>3. \A b \in Blocks(fn) : liveOut'[b] = IF b = blk THEN Flow(fn, liveOut, b) ELSE liveOut[b]
    BY <1>0, <2>1, <2>2 DEF TypeOK
  <2> QED BY <1>1, <1>2, <1>3, <2>3 DEF OnPaths
<1>5. CASE ~Recompute
  <2>1. liveOut' = liveOut
    BY <1>5 DEF Next, InitBasicBlock, InitNextBasicBlock, BeginSweep, Stop, vars
  <2> QED BY <1>1, <1>3, <2>1 DEF OnPaths
<1> QED BY <1>4, <1>5

\* When the loop stops, a value is in a block's live-out set exactly if some
\* path from the block reaches a use of it with no definition in between.
THEOREM LiveExactly == Spec => []LiveOnPaths
<1>1. Init => OnPaths
  BY DEF Init, NoValues, OnPaths
<1>2. IInv /\ OnPaths => LiveOnPaths
  <2> SUFFICES ASSUME IInv, OnPaths, phase = "done", NEW b \in Blocks(fn), NEW v \in Values
               PROVE  v \in liveOut[b] <=> LivePath(b, v)
    BY DEF LiveOnPaths
  <2>0. fn \in Functions
    BY DEF IInv
  <2>1. v \in liveOut[b] => LivePath(b, v)
    BY <2>0, PathIsBounded DEF OnPaths
  <2>2. ASSUME LivePath(b, v) PROVE v \in liveOut[b]
    <3>1. PICK p \in UNION {[1..n -> Blocks(fn)] : n \in 1..Len(fn.code)} :
            /\ p[1] \in fn.succ[b]
            /\ \A k \in 1..(Len(p) - 1) : p[k + 1] \in fn.succ[p[k]] /\ v \notin Killed(fn, p[k])
            /\ v \in Exposed(fn, p[Len(p)])
      BY <2>2 DEF LivePath
    <3>2. PICK n \in 1..Len(fn.code) : p \in [1..n -> Blocks(fn)]
      BY <3>1
    <3>3. n \in Nat /\ n >= 1 /\ Len(p) = n
      BY <2>0, <3>2, FunctionFacts
    <3>4. PathTo(b, v, n, p)
      BY <3>1, <3>3 DEF PathTo
    <3>5. Solution(fn, liveOut)
      BY DoneIsSolved DEF SolvedWhenDone
    <3> QED BY <2>0, <3>2, <3>3, <3>4, <3>5, PathIsLive
  <2> QED BY <2>1, <2>2
<1> QED BY <1>1, <1>2, OnPathsStep, Inductive, PTL DEF Spec

-----------------------------------------------------------------------------
(* Refinement of LivenessDataflow (its safety part) *)

\* The instance has its own copies of the definitions both modules extend.
LEMMA SameEquations ==
  /\ Abstract!Blocks(fn) = Blocks(fn)
  /\ \A b : Abstract!Flow(fn, liveOut, b) = Flow(fn, liveOut, b)
  /\ Abstract!Solution(fn, liveOut) = Solution(fn, liveOut)
<1>1. \A b : Abstract!Exposed(fn, b) = Exposed(fn, b)
  BY DEF Abstract!Exposed, Exposed, Abstract!ExposedBefore, ExposedBefore,
         Abstract!Uses, Uses, Abstract!Seen, Seen, Abstract!Defs, Defs
<1>2. \A b : Abstract!Killed(fn, b) = Killed(fn, b)
  BY DEF Abstract!Killed, Killed, Abstract!KilledBefore, KilledBefore,
         Abstract!Defs, Defs
<1>3. \A b : Abstract!Flow(fn, liveOut, b) = Flow(fn, liveOut, b)
  BY <1>1, <1>2 DEF Abstract!Flow, Flow
<1>4. Abstract!Blocks(fn) = Blocks(fn)
  BY DEF Abstract!Blocks, Blocks
<1>5. Abstract!Solution(fn, liveOut) = Solution(fn, liveOut)
  BY <1>3, <1>4 DEF Abstract!Solution, Solution
<1> QED BY <1>3, <1>4, <1>5

\* The initial states are initial states of the specification.
LEMMA InitAbstract == Init => Abstract!Init
  BY SameEquations DEF Init, Abstract!Init, NoValues

\* A sweep without a change ends with a solution.
LEMMA DoneAfterStop ==
  ASSUME IInv, Stop PROVE Solution(fn, liveOut)
<1> SUFFICES ASSUME NEW b \in Blocks(fn)
             PROVE  liveOut[b] = Flow(fn, liveOut, b)
  BY DEF Solution
<1>1. fn \in Functions /\ TypeOK /\ LocalSetsExact /\ CleanPrefix
  BY DEF IInv
<1>2. b < blk
  BY <1>1, FunctionFacts DEF Stop
<1>3. liveOut[b] = computeLiveOutVariables(b)
  BY <1>1, <1>2 DEF CleanPrefix, Stop
<1> QED BY <1>1, <1>3, ComputesFlow DEF Stop

\* Every step is a step of the specification or changes nothing of it.
LEMMA StepAbstract ==
  ASSUME IInv, [Next]_vars
  PROVE  [Abstract!Next]_(Abstract!vars)
<1>1. CASE Recompute
  <2>1. liveOut' = [liveOut EXCEPT ![blk] = Flow(fn, liveOut, blk)]
    BY <1>1, ComputesFlow DEF Recompute, IInv
  <2>2. Abstract!Improve(blk)
    BY <1>1, <2>1, SameEquations DEF Recompute, Abstract!Improve
  <2> QED BY <1>1, <2>2, SameEquations DEF Abstract!Next, Recompute
<1>2. CASE Stop
  <2>1. IInv'
    BY <1>2, StopStep
  <2>2. Solution(fn, liveOut)
    BY <1>2, <2>1, DoneAfterStop
  <2>3. Abstract!Finish
    BY <1>2, <2>2, SameEquations DEF Stop, Abstract!Finish
  <2> QED BY <2>3 DEF Abstract!Next
<1>3. CASE InitBasicBlock \/ InitNextBasicBlock \/ BeginSweep \/ UNCHANGED vars
  BY <1>3 DEF InitBasicBlock, InitNextBasicBlock, BeginSweep, vars,
              Abstract!vars
<1> QED BY <1>1, <1>2, <1>3 DEF Next

\* Every run of the code's loop is a run of the abstract specification: blocks
\* are brought up to date one at a time and it stops only with a solution.
THEOREM Refines == Spec => Abstract!Init /\ [][Abstract!Next]_(Abstract!vars)
  BY InitAbstract, StepAbstract, Inductive, PTL DEF Spec
=============================================================================
