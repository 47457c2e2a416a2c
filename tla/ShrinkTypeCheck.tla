-------------------------- MODULE ShrinkTypeCheck --------------------------
(***************************************************************************)
(* What shrinkType promises: the function it leaves is well typed and does *)
(* what the function it was given does, on every input inside the ranges.  *)
(***************************************************************************)
EXTENDS ShrinkType, TypedExecution

CONSTANT Fuel      \* the steps a run is given

\* The hull of what register i, or the cell of alloca i, holds in a set of
\* machines; {} when there is nothing.
Hull(f, machines, i) ==
    LET values == IF f.inst[i].op = "alloca" THEN {m.mem[i] : m \in {m \in machines : i \in DOMAIN m.mem}}
                  ELSE {m.regs[i] : m \in {m \in machines : i \in DOMAIN m.regs}}
        numbers == {AsSigned(v, f.inst[i].type.w) : v \in values}
    IN  {<<lo, hi>> \in numbers \X numbers : \A x \in numbers : lo <= x /\ x <= hi}

\* A function with the hulls of its registers, over all runs that return
\* when the arguments and the results of calls are taken from s.inputs;
\* s.known are the registers whose range is found.
WithRanges(s) ==
    LET f == s.fn
        integers == {i \in s.known : f.inst[i].type.kind \in {"int", "ptr"} /\ f.inst[i].type.w > 1}
        returned == {t \in {Trace(f, in, Fuel) : in \in s.inputs} : Last(t).status = "returned"}
        machines == UNION {ToSet(t) : t \in returned}
        \* bound here, so that it is evaluated once
        hulls == UNION {UNION {{<<i, h>> : h \in Hull(f, m, i)} : i \in integers} : m \in {machines}}
        range_ == {FoldSet(LAMBDA p, r : (p[1] :> p[2]) @@ r, <<>>, h) : h \in {hulls}}
    IN  [fn |-> f, inputs |-> s.inputs, range |-> CHOOSE r \in range_ : TRUE]

-----------------------------------------------------------------------------
(* What shrinkType takes for granted of the function and its ranges: the    *)
(* names of what does not hold.                                             *)

Inside(h, g) == g[1] <= h[1] /\ h[2] <= g[2]

Broken ==
    LET f == source.fn
        r == source.range
        ops(set) == {i \in Placed(f) : f.inst[i].op \in set}
        hull(v) == IF IsConstant(v) THEN <<SignedValue(v), SignedValue(v)>>
                   ELSE IF v.reg \in DOMAIN r THEN r[v.reg] ELSE <<-(2^15), 2^15>>
        operand(i, k) == hull(f.inst[i].args[k])
        narrow(i) == getShrinkIntType(f.inst[i].type, r[i])
        negative(h) == h[1] < 0
        mixed(i) == negative(operand(i, 1)) # negative(operand(i, 2))
        narrowest == CHOOSE w \in Widths : \A v \in Widths : w <= v
        later(i, j) == \E k, l \in DOMAIN Layout(f) : k < l /\ Layout(f)[k] = i /\ Layout(f)[l] = j
    IN  {h \in {"sign bit", "shift", "comparison", "division", "cell", "two casts", "conversion", "loop"} :
           \* a number never negative needs the sign bit of its narrow type
           CASE h = "sign bit" -> \E i \in DOMAIN r : /\ narrow(i).type # NoType /\ ~narrow(i).sign
                                                     /\ r[i][2] >= 2^(narrow(i).type.w - 1)
           \* a shift by more than the narrowest type is wide
             [] h = "shift" -> \E i \in ops({"shl", "lshr", "ashr"}) : operand(i, 2)[2] >= narrowest
           \* a number that may be negative meets one that is never negative
             [] h = "comparison" -> \E i \in ops({"icmp"}) : f.inst[i].pred \notin {"eq", "ne"} /\ mixed(i)
             [] h = "division" -> \E i \in ops({"sdiv", "srem", "ashr"}) : mixed(i)
           \* the range of a cell leaves out a value stored or loaded
             [] h = "cell" -> \/ \E i \in ops({"store"}) : ~Inside(operand(i, 1), operand(i, 2))
                              \/ \E i \in ops({"load"}) : ~Inside(hull(Reg(i)), operand(i, 1))
           \* the function has a cast of a cast
             [] h = "two casts" -> \E i \in ops(Casts) : f.inst[f.inst[i].args[1].reg].op \in Casts
           \* a number that may be negative becomes a double
             [] h = "conversion" -> \E i \in ops({"sitofp"}) : negative(operand(i, 1))
           \* a phi reads a number found later that has a range
             [] h = "loop" -> \E i \in ops({"phi"}) : \E v \in ToSet(f.inst[i].args) :
                    v.reg \in DOMAIN r /\ later(i, v.reg)}

-----------------------------------------------------------------------------
\* Every instruction has operands of the types it takes: the verifier of
\* LLVM accepts the function.
IllTyped(i) ==
    LET ins == fn.inst[i]
        type(k) == TypeOf(fn, ins.args[k])
    IN  CASE ins.op \in Binaries -> type(1) # ins.type \/ type(2) # ins.type
          [] ins.op = "icmp" -> type(1) # type(2)
          [] ins.op = "phi" -> \E k \in DOMAIN ins.args : type(k) # ins.type
          [] ins.op = "load" -> type(1) # Ptr(ins.type.w)
          [] ins.op = "store" -> type(2) # Ptr(type(1).w)
          [] ins.op = "trunc" -> type(1).w <= ins.type.w
          [] ins.op \in {"zext", "sext"} -> type(1).w >= ins.type.w
          [] ins.op = "ret" -> type(1) # fn.ret
          [] ins.op = "switch" -> \E k \in DOMAIN ins.args : type(k) # type(1)
          [] OTHER -> FALSE

Same(in) ==
    LET old == Outcome(source.fn, Run(source.fn, in, Fuel))
        new == Outcome(fn, Run(fn, in, Fuel))
    IN  old.status = "returned" => new = old

Keeps(excused) == phase = "done" /\ Broken \subseteq excused => \A in \in source.inputs : Same(in)

\* The function shrinkType leaves is well typed: the casts of the three
\* walks, the types changed in place and the operands rolled back fit.
WellTyped == phase = "done" /\ Broken = {} => \A i \in Placed(fn) : ~IllTyped(i)

\* The function shrinkType leaves returns, calls and stores to globals what the
\* function it was given does, on every input inside the ranges.
SameResult == Keeps({})

\* No assertion of rollbackType or matchDestType stops the compiler.
NoAssertFails == phase # "failed"

\* A walk ends although it inserts and erases instructions where it stands:
\* each turn leaves less to visit, where a phi counts for itself, its own cast
\* and two casts of each operand.
ToVisit(f, i) ==
    LET order == Layout(f)
        weight(j) == IF f.inst[j].op = "phi" THEN 2 + 2 * Len(f.inst[j].args) ELSE 1
    IN  SumFunction([k \in {k \in DOMAIN order : i # 0 /\ \E l \in 1..k : order[l] = i} |-> weight(order[k])])
WalksEnd == [][phase' = phase => ToVisit(fn', at') < ToVisit(fn, at)]_vars


-----------------------------------------------------------------------------
(* What the comments say beyond that.                                       *)

\* "if the constant operand is positive value, we can use `unsigned` flag"
ComparisonsKept == Keeps({"comparison"})

=============================================================================
