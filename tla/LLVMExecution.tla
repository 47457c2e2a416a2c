---------------------------- MODULE LLVMExecution ---------------------------
(***************************************************************************)
(* What a run of an LLVM module does, for the instructions of LLVMModule:  *)
(* the meaning against which ranges and rewritten code are judged.  It is  *)
(* not code of the repository but the language reference the passes rely   *)
(* on.  A machine is                                                       *)
(*    [stack, mem, status, result]                                         *)
(* with activations [fn, pos, from, regs]; from is the position of the     *)
(* branch that was taken last.  Integers do not wrap: the analysis has no  *)
(* notion of width in the arms modelled, see the README.                   *)
(***************************************************************************)
EXTENDS LLVMModule, IntervalArithmetic

ExecRem(a, b) == IF a >= 0 THEN a % Abs(b) ELSE -((-a) % Abs(b))

\* sin is any number of -1 .. 1 that depends on its operand only
ExecSin(a) == IF a % 3 = 0 THEN 0 ELSE IF a % 3 = 1 THEN 1 ELSE -1

Activation(fn, regs) == [fn |-> fn, pos |-> 1, from |-> 0, regs |-> regs]

Start(program, regs) ==
    [stack |-> <<Activation(program.entry, regs)>>,
     mem |-> program.globals, status |-> "running", result |-> 0]

\* a pointer that is not an argument is its own address
Value(regs, v) == IF IsConstant(v) THEN ConstantValue[v]
                  ELSE IF v \in DOMAIN regs THEN regs[v] ELSE v

Result(m, f, i) ==
    LET val(k) == Value(f.regs, i.args[k])
    IN  CASE i.op = "add"  -> val(1) + val(2)
          [] i.op = "sub"  -> val(1) - val(2)
          [] i.op = "mul"  -> val(1) * val(2)
          [] i.op = "rem"  -> ExecRem(val(1), val(2))
          [] i.op = "fneg" -> -val(1)
          [] i.op = "cast" -> val(1)
          [] i.op = "load" -> m.mem[val(1)]
          [] i.op = "math" -> IF i.name = "fabs" THEN Abs(val(1)) ELSE ExecSin(val(1))
          [] i.op = "icmp" -> IF Holds(i.name, val(1), val(2)) THEN 1 ELSE 0
          [] i.op = "phi"  -> val(CHOOSE k \in DOMAIN i.args : i.at[k] = f.from)

Defining == {"add", "sub", "mul", "rem", "fneg", "cast", "load", "math", "icmp", "phi"}

Update(f, n, v) == [x \in DOMAIN f \cup {n} |-> IF x = n THEN v ELSE f[x]]

\* the instruction the machine is at
Current(program, m) ==
    LET f == m.stack[Len(m.stack)] IN program.body[f.fn].code[f.pos]

Halt(m, why) == [m EXCEPT !.status = why]

\* One step.  A sensor-typed variable outside its sensor's range, and a
\* remainder by zero, end the run: nothing is promised about such runs.
Step(program, TypeRange, m) ==
    LET d == Len(m.stack)
        f == m.stack[d]
        i == Current(program, m)
        val(k) == Value(f.regs, i.args[k])
        goto(p) == [m EXCEPT !.stack[d] = [f EXCEPT !.from = f.pos, !.pos = p]]
        \* the variable a debug intrinsic describes, by value or by address
        variable == IF i.args[1] \in program.pointers THEN m.mem[val(1)] ELSE val(1)
        set(regs) == [m EXCEPT !.stack[d] = [f EXCEPT !.regs = regs, !.pos = f.pos + 1]]
    IN  CASE i.op = "dbg" ->
               IF i.name \in DOMAIN TypeRange /\ ~In(variable, TypeRange[i.name])
               THEN Halt(m, "outOfSpecification") ELSE set(f.regs)
          [] i.op = "rem" /\ val(2) = 0 -> Halt(m, "undefined")
          [] i.op \in Defining /\ ~(i.op = "rem" /\ val(2) = 0) ->
               set(Update(f.regs, i.dst, Result(m, f, i)))
          [] i.op = "store" -> [set(f.regs) EXCEPT !.mem = Update(m.mem, val(2), val(1))]
          [] i.op = "br" -> goto(i.at[IF Len(i.at) = 1 \/ val(1) # 0 THEN 1 ELSE 2])
          [] i.op = "erased" -> set(f.regs)
          [] i.op = "call" ->
               LET ps == program.body[i.name].params
                   regs == [n \in {ps[k] : k \in DOMAIN ps} |->
                                val(CHOOSE k \in DOMAIN ps : ps[k] = n)]
               IN  [m EXCEPT !.stack = Append(m.stack, Activation(i.name, regs))]
          [] i.op = "ret" ->
               LET v == IF i.args = <<>> THEN 0 ELSE val(1) IN
               IF d = 1 THEN [m EXCEPT !.status = "returned", !.result = v]
               ELSE LET g == m.stack[d - 1]
                        call == program.body[g.fn].code[g.pos]
                    IN  [m EXCEPT !.stack =
                            Append(SubSeq(m.stack, 1, d - 2),
                                   [g EXCEPT !.pos = @ + 1,
                                             !.regs = Update(@, call.dst, v)])]
=============================================================================
