--------------------------- MODULE TypedExecution ---------------------------
(***************************************************************************)
(* What a run of a TypedFunction does: the language reference the pass     *)
(* relies on, with words that wrap.  The arguments, the results of calls   *)
(* and what globals hold at the start are the inputs, a function from      *)
(* registers to words; a function called reads globals and stores to none. *)
(* A run that divides by zero, shifts by the width or more, reads a        *)
(* register before it is written, accesses memory outside of its cell, or  *)
(* combines words of two widths, is "undefined".                           *)
(***************************************************************************)
EXTENDS TypedFunction

AsSigned(v, w) == IF v >= 2^(w - 1) THEN v - 2^w ELSE v

Quotient(a, b) == IF a >= 0 THEN (IF b > 0 THEN a \div b ELSE -(a \div (-b)))
                  ELSE (IF b > 0 THEN -((-a) \div b) ELSE (-a) \div (-b))

Bit(v, k) == (v \div 2^k) % 2
FromBits(bits, w) == LET sum[k \in 0..w] == IF k = 0 THEN 0 ELSE sum[k - 1] + bits[k - 1] * 2^(k - 1)
                     IN  sum[w]

Defined(op, a, b, w) ==
    /\ op \in {"sdiv", "udiv", "srem", "urem"} => b # 0
    /\ op \in {"shl", "lshr", "ashr"} => b < w

Arithmetic(op, a, b, w) ==
    LET sa == AsSigned(a, w)
        sb == AsSigned(b, w)
    IN  CASE op = "add"  -> (a + b) % 2^w
          [] op = "sub"  -> (a - b) % 2^w
          [] op = "mul"  -> (a * b) % 2^w
          [] op = "udiv" -> a \div b
          [] op = "urem" -> a % b
          [] op = "sdiv" -> Quotient(sa, sb) % 2^w
          [] op = "srem" -> (sa - sb * Quotient(sa, sb)) % 2^w
          [] op = "shl"  -> (a * 2^b) % 2^w
          [] op = "lshr" -> a \div 2^b
          [] op = "ashr" -> (sa \div 2^b) % 2^w
          [] op = "and"  -> FromBits([k \in 0..(w - 1) |-> Bit(a, k) * Bit(b, k)], w)
          [] op = "or"   -> FromBits([k \in 0..(w - 1) |-> IF Bit(a, k) + Bit(b, k) > 0 THEN 1 ELSE 0], w)
          [] op = "xor"  -> FromBits([k \in 0..(w - 1) |-> (Bit(a, k) + Bit(b, k)) % 2], w)

Compared(pred, a, b, w) ==
    LET sa == AsSigned(a, w)
        sb == AsSigned(b, w)
    IN  CASE pred = "eq"  -> a = b   [] pred = "ne"  -> a # b
          [] pred = "ult" -> a < b   [] pred = "ule" -> a <= b
          [] pred = "ugt" -> a > b   [] pred = "uge" -> a >= b
          [] pred = "slt" -> sa < sb [] pred = "sle" -> sa <= sb
          [] pred = "sgt" -> sa > sb [] pred = "sge" -> sa >= sb

CastWord(op, v, from, to) ==
    CASE op \in {"trunc", "zext"} -> v % 2^to
      [] op = "sext"   -> AsSigned(v, from) % 2^to
      [] op = "sitofp" -> AsSigned(v, from)
      [] op \in {"uitofp", "bitcast"} -> v

\* A machine: [regs, mem, block, place, from, status, value, calls]; the
\* value of a pointer is the register of its alloca or global.
Globals(f) == {i \in DOMAIN f.inst : f.inst[i].op = "global"}
Start(f, in) == [regs |-> [i \in {i \in DOMAIN f.inst : f.inst[i].op = "arg"} |-> in[i]]
                          @@ [i \in Globals(f) |-> i],
                 mem |-> [i \in Globals(f) |-> in[i]], block |-> 1, place |-> 1, from |-> 0,
                 status |-> "running", value |-> 0, calls |-> <<>>]

Put(fn, k, v) == (k :> v) @@ fn

\* What the globals hold, which a function called and the caller can read.
GlobalsHold(f, m) == [i \in Globals(f) |-> m.mem[i]]

\* The instruction under way, with its operands a.
Effect(f, in, m, i, a) ==
    LET ins == f.inst[i]
        w(k) == TypeOf(f, ins.args[k]).w
        next == [m EXCEPT !.place = @ + 1]
        set(v) == [next EXCEPT !.regs = Put(@, i, v)]
        jump(b) == [m EXCEPT !.block = b, !.place = 1, !.from = m.block]
        undefined == [m EXCEPT !.status = "undefined"]
    IN  CASE ins.op \in Binaries ->
                 IF w(1) = w(2) /\ w(1) = ins.type.w /\ Defined(ins.op, a[1], a[2], w(1))
                 THEN set(Arithmetic(ins.op, a[1], a[2], w(1))) ELSE undefined
          [] ins.op = "icmp" ->
                 IF w(1) = w(2) THEN set(IF Compared(ins.pred, a[1], a[2], w(1)) THEN 1 ELSE 0)
                 ELSE undefined
          [] ins.op \in Casts -> set(CastWord(ins.op, a[1], w(1), ins.type.w))
          [] ins.op = "phi" -> set(a[1])
          [] ins.op = "alloca" -> [set(i) EXCEPT !.mem = Put(@, i, 0)]
          [] ins.op = "store" ->
                 IF w(1) = w(2) /\ w(1) <= f.inst[a[2]].type.w
                 THEN [next EXCEPT !.mem = Put(@, a[2], a[1])] ELSE undefined
          [] ins.op = "load" ->
                 IF ins.type.w = w(1) /\ w(1) <= f.inst[a[1]].type.w
                 THEN set(m.mem[a[1]] % 2^w(1)) ELSE undefined
          [] ins.op = "call" ->
                 [set(in[i]) EXCEPT !.calls = Append(@, <<ins.pred, [k \in DOMAIN a |-> <<a[k], w(k)>>], GlobalsHold(f, m)>>)]
          [] ins.op = "br" ->
                 IF Len(ins.to) = 1 THEN jump(ins.to[1])
                 ELSE jump(IF a[1] = 1 THEN ins.to[1] ELSE ins.to[2])
          [] ins.op = "switch" ->
                 LET hits == {k \in 2..Len(a) : a[k] = a[1] /\ w(k) = w(1)}
                 IN  IF \E j, k \in 2..Len(a) : j # k /\ a[j] = a[k] THEN undefined
                     ELSE jump(IF hits = {} THEN ins.to[1] ELSE ins.to[CHOOSE k \in hits : TRUE])
          [] ins.op = "ret" ->
                 IF TypeOf(f, ins.args[1]) = f.ret
                 THEN [m EXCEPT !.status = "returned", !.value = a[1]] ELSE undefined

\* A phi reads the value that comes from the block left last.
Operands(f, m, i) ==
    IF f.inst[i].op # "phi" THEN f.inst[i].args
    ELSE <<f.inst[i].args[CHOOSE k \in DOMAIN f.inst[i].to : f.inst[i].to[k] = m.from]>>

StepOf(f, in, m) ==
    LET i == f.code[m.block][m.place]
        o == Operands(f, m, i)
        value(v) == IF IsConstant(v) THEN v.val ELSE m.regs[v.reg]
    IN  IF \/ \E k \in DOMAIN o : ~IsConstant(o[k]) /\ o[k].reg \notin DOMAIN m.regs
           \/ f.inst[i].op = "phi" /\ TypeOf(f, o[1]) # f.inst[i].type
        THEN [m EXCEPT !.status = "undefined"]
        ELSE Effect(f, in, m, i, [k \in DOMAIN o |-> value(o[k])])

\* The machines of a run, until it stops or the fuel is used up.
Trace(f, in, fuel) ==
    LET run[n \in 0..fuel] ==
            IF n = 0 THEN <<Start(f, in)>>
            ELSE LET t == run[n - 1]
                 IN  IF t[Len(t)].status = "running" THEN Append(t, StepOf(f, in, t[Len(t)])) ELSE t
    IN  run[fuel]

Run(f, in, fuel) == Last(Trace(f, in, fuel))

Outcome(f, m) ==
    [status |-> m.status, value |-> m.value, calls |-> m.calls, globals |-> GlobalsHold(f, m)]
=============================================================================
