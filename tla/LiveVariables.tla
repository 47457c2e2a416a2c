--------------------------- MODULE LiveVariables ---------------------------
(***************************************************************************)
(* The functions that newton-irPass-LLVMIR-livenessAnalysis.cpp analyses,  *)
(* what its initBasicBlock takes from each instruction, and the equations  *)
(* of live variables that follow from it.                                  *)
(***************************************************************************)
EXTENDS Naturals, Sequences

CONSTANTS
  Values,     \* the llvm::Value pointers that are not llvm::Constant
  Constants,  \* the operands for which isa<llvm::Constant> holds
  Functions   \* the functions that may be analysed

(***************************************************************************)
(* The opcodes, in the classes initBasicBlock tells apart.  "skipped"      *)
(* stands for indirect calls, unnamed callees and llvm.dbg.declare,        *)
(* "other" for the opcodes its switch does not list (phi, load, store,     *)
(* ret, br, select, ...).                                                  *)
(***************************************************************************)
Kinds == {"binary", "unary", "call", "skipped", "other"}

Instructions ==
  [kind : Kinds, val : Values, args : Seq(Values \cup Constants)]

\* A function is its blocks in layout order and the successors of each.
ASSUME FunctionsAssumption ==
  /\ Values \cap Constants = {}
  /\ \A f \in Functions :
       /\ f = [code |-> f.code, succ |-> f.succ]
       /\ f.code \in Seq(Seq(Instructions))
       /\ f.succ \in [DOMAIN f.code -> SUBSET DOMAIN f.code]

Blocks(f) == DOMAIN f.code

\* The operands initBasicBlock looks at, by position.
Seen(instr) ==
  {k \in DOMAIN instr.args :
     \/ instr.kind = "binary" /\ k <= 2
     \/ instr.kind = "unary" /\ k = 1
     \/ instr.kind = "call"}

\* Mutant: the isa<llvm::Constant> test is forgotten.
Uses_WithConstants(instr) == {instr.args[k] : k \in Seen(instr)}

\* The non-constant ones among them.
Uses(instr) == {instr.args[k] : k \in Seen(instr)} \ Constants

\* The value an instruction is recorded to define: a call is inserted by the
\* loop over its arguments, so one without arguments defines nothing.
Defs(instr) ==
  IF \/ instr.kind \in {"binary", "unary"}
     \/ instr.kind = "call" /\ instr.args # <<>>
  THEN {instr.val}
  ELSE {}

\* Used in the first n instructions of b before any of them defines it.
ExposedBefore(f, b, n) ==
  {v \in Values : \E i \in DOMAIN f.code[b] :
     /\ i <= n
     /\ v \in Uses(f.code[b][i])
     /\ \A j \in DOMAIN f.code[b] : j < i => v \notin Defs(f.code[b][j])}

KilledBefore(f, b, n) ==
  {v \in Values : \E i \in DOMAIN f.code[b] :
     i <= n /\ v \in Defs(f.code[b][i])}

Exposed(f, b) == ExposedBefore(f, b, Len(f.code[b]))
Killed(f, b) == KilledBefore(f, b, Len(f.code[b]))

\* The right-hand side of the equation of block b under the assignment out.
Flow(f, out, b) ==
  {v \in Values : \E s \in f.succ[b] :
     \/ v \in Exposed(f, s)
     \/ v \in out[s] /\ v \notin Killed(f, s)}

Solution(f, out) == \A b \in Blocks(f) : out[b] = Flow(f, out, b)
=============================================================================
