------------------------ MODULE OptimizeByRange_proofs ----------------------
(***************************************************************************)
(* What the analysis promises of the runs of the source module, and that   *)
(* the passes keep module and ranges together.                             *)
(*                                                                         *)
(* The analysis walks the instructions once, in layout order, and never    *)
(* comes back to one.  So an entry of virtualRegisterRange is explained by *)
(* the instruction that made it and by entries made before it (Explained), *)
(* and that is all that the walk has to show (WalkStep).  A run takes the  *)
(* instructions in the order its branches say, any number of times, and a  *)
(* register it defines is in its range because its operands are (RunStep). *)
(***************************************************************************)
EXTENDS OptimizeByRange, RangeAnalysis_proofs

-----------------------------------------------------------------------------
(* What one instruction computes is in the range its arm infers.           *)

\* the operand v has an integer, which is in the range b has for it
OperandIn(b, regs, v) ==
    /\ Value(regs, v) \in Int
    /\ \A r \in OperandRange(b, v) : r \in RangePairs /\ In(Value(regs, v), r)

\* NoInvertingArm, of one instruction
KeepsOrder(i) ==
    /\ i.op # "fneg"
    /\ i.op = "mul" => \A k \in 1 .. 2 : IsConstant(i.args[k]) => ConstantValue[i.args[k]] >= 0
    /\ i.op = "rem" => ~IsConstant(i.args[1])

\* sums, differences, products and remainders
LEMMA BinaryIn ==
    ASSUME NEW b, NEW m, NEW f, NEW i, i.op \in BinaryOps,
           OperandIn(b, f.regs, i.args[1]), OperandIn(b, f.regs, i.args[2]), KeepsOrder(i),
           i.op = "rem" => Value(f.regs, i.args[2]) # 0,
           NEW r \in InferBinary(b, i)
    PROVE  In(Result(m, f, i), r)
<1> DEFINE l == i.args[1]  q == i.args[2]
           x == Value(f.regs, l)  y == Value(f.regs, q)
<1>1. PICK u \in OperandRange(b, l), v \in OperandRange(b, q) :
        r = BinaryRange(i.op, u, v, IsConstant(l), IsConstant(q))
  <2>1. InferBinary(b, i) = {} \/
        InferBinary(b, i) = {BinaryRange(i.op, u, v, IsConstant(l), IsConstant(q)) :
                                u \in OperandRange(b, l), v \in OperandRange(b, q)}
    BY DEF InferBinary
  <2> HIDE DEF l, q
  <2> QED BY <2>1
<1>2. /\ x \in Int /\ y \in Int /\ u \in RangePairs /\ v \in RangePairs
      /\ In(x, u) /\ In(y, v)
  BY DEF OperandIn
<1>3. CASE i.op = "add"
  <2>1. Result(m, f, i) = x + y
    BY <1>3, Zenon DEF Result
  <2>2. r = AddRange(u, v)
    BY <1>1, <1>3, Zenon DEF BinaryRange
  <2> QED BY <1>2, <2>1, <2>2, AddContains
<1>4. CASE i.op = "sub"
  <2>1. Result(m, f, i) = x - y
    BY <1>4, Zenon DEF Result
  <2>2. r = SubRange(u, v)
    BY <1>1, <1>4, Zenon DEF BinaryRange
  <2> QED BY <1>2, <2>1, <2>2, SubContains
<1>5. CASE i.op = "mul"
  <2>1. Result(m, f, i) = x * y /\ x * y = y * x
    <3>1. Result(m, f, i) = x * y
      BY <1>5, Zenon DEF Result
    <3>2. x * y = y * x
      <4> HIDE DEF x, y
      <4> QED BY <1>2, SMT
    <3> QED BY <3>1, <3>2
  <2>2. IsConstant(l) => u.lo = x /\ x \in Nat
    <3> SUFFICES ASSUME IsConstant(l) PROVE u.lo = x /\ x \in Nat
      OBVIOUS
    <3>1. u = Point(ConstantValue[l]) /\ x = ConstantValue[l] /\ 1 \in 1 .. 2
      BY SMT DEF OperandRange, Value
    <3>2. x >= 0
      BY <1>5, <3>1 DEF KeepsOrder
    <3> HIDE DEF x
    <3> QED BY <1>2, <3>1, <3>2 DEF Point, Pair
  <2>3. IsConstant(q) => v.lo = y /\ y \in Nat
    <3> SUFFICES ASSUME IsConstant(q) PROVE v.lo = y /\ y \in Nat
      OBVIOUS
    <3>1. v = Point(ConstantValue[q]) /\ y = ConstantValue[q] /\ 2 \in 1 .. 2
      BY SMT DEF OperandRange, Value
    <3>2. y >= 0
      BY <1>5, <3>1 DEF KeepsOrder
    <3> HIDE DEF y
    <3> QED BY <1>2, <3>1, <3>2 DEF Point, Pair
  <2>4. r = IF IsConstant(l) THEN MulConst(v, u.lo)
            ELSE IF IsConstant(q) THEN MulConst(u, v.lo) ELSE MulRange(u, v)
    BY <1>1, <1>5, Zenon DEF BinaryRange
  <2> HIDE DEF x, y
  <2>5. IsConstant(l) => In(y * x, MulConst(v, x))
    BY <1>2, <2>2, MulConstContains
  <2>6. IsConstant(q) => In(x * y, MulConst(u, y))
    BY <1>2, <2>3, MulConstContains
  <2>7. In(x * y, MulRange(u, v))
    BY <1>2, MulContains
  <2> QED BY <2>1, <2>2, <2>3, <2>4, <2>5, <2>6, <2>7
<1>6. CASE i.op = "rem"
  <2>1. Result(m, f, i) = RemC(x, y)
    BY <1>6, Zenon DEF Result, ExecRem, RemC
  <2>2. r = RemRange(u, v)
    BY <1>1, <1>6, Zenon DEF BinaryRange, KeepsOrder
  <2>3. y # 0
    BY <1>6
  <2> HIDE DEF x, y
  <2>4. x \in u.lo .. u.hi /\ y \in (v.lo .. v.hi) \ {0} /\ Sorted(u) /\ Sorted(v)
    BY <1>2, <2>3, SMT DEF In, Sorted, RangePairs
  <2> QED BY <1>2, <2>1, <2>2, <2>4, RemainderContains
<1> QED
  BY <1>3, <1>4, <1>5, <1>6 DEF BinaryOps

\* conversions, the known functions, and loads of a global that is constant
LEMMA UnaryIn ==
    ASSUME NEW b, NEW m, NEW f, NEW i, i.op \in UnaryOps, KeepsOrder(i),
           LET v == i.args[1]
           IN  v \in DOMAIN b =>
                   /\ b[v] \in RangePairs
                   /\ i.op = "load" => m.mem[Value(f.regs, v)] \in Int /\ In(m.mem[Value(f.regs, v)], b[v])
                   /\ i.op # "load" => Value(f.regs, v) \in Int /\ In(Value(f.regs, v), b[v]),
           NEW r \in InferUnary(b, i)
    PROVE  In(Result(m, f, i), r)
<1> DEFINE v == i.args[1]  x == Value(f.regs, v)
<1>1. v \in DOMAIN b /\ i.op # "fneg"
  BY Zenon DEF InferUnary, KeepsOrder
<1>2. CASE i.op = "cast"
  <2>1. Result(m, f, i) = x /\ r = b[v]
    BY <1>1, <1>2, Zenon DEF Result, InferUnary
  <2> QED BY <1>1, <1>2, <2>1
<1>3. CASE i.op = "load"
  <2>1. Result(m, f, i) = m.mem[x] /\ r = b[v]
    BY <1>1, <1>3, Zenon DEF Result, InferUnary
  <2> QED BY <1>1, <1>3, <2>1
<1>4. CASE i.op = "math"
  <2>1. Result(m, f, i) = IF i.name = "fabs" THEN Abs(x) ELSE ExecSin(x)
    BY <1>4, Zenon DEF Result
  <2>2. r = IF i.name = "fabs" THEN AbsRange(b[v]) ELSE Pair(-1, 1)
    BY <1>1, <1>4, Zenon DEF InferUnary
  <2>3. x \in Int /\ In(x, b[v]) /\ b[v] \in RangePairs
    BY <1>1, <1>4
  <2> HIDE DEF x
  <2>4. In(Abs(x), AbsRange(b[v]))
    BY <2>3, AbsContains
  <2>5. In(ExecSin(x), Pair(-1, 1))
    BY SMT DEF ExecSin, In, Pair
  <2> QED BY <2>1, <2>2, <2>4, <2>5
<1> QED
  BY <1>1, <1>2, <1>3, <1>4 DEF UnaryOps
\* a phi with a range has one for each of its incoming values
LEMMA PhiIn ==
    ASSUME NEW b \in Bounds, NEW i, i.args \in Seq(Names), NEW r \in InferPhi(b, i),
           NEW k \in DOMAIN i.args, NEW x \in Int,
           \A q \in OperandRange(b, i.args[k]) : In(x, q)
    PROVE  In(x, r)
<1> DEFINE len == Len(i.args)
           R(j) == OperandRange(b, i.args[j])
           rs == UNION {R(j) : j \in DOMAIN i.args}
           p == [j \in 1 .. len |-> CHOOSE q \in R(j) : TRUE]
           lo == [j \in 1 .. len |-> p[j].lo]  hi == [j \in 1 .. len |-> p[j].hi]
<1>1. /\ i.args # <<>> /\ \A j \in DOMAIN i.args : R(j) # {}
      /\ r = Pair(Min({q.lo : q \in rs}), Max({q.hi : q \in rs}))
  BY Zenon DEF InferPhi
<1>2. 1 \in Int /\ len \in Int /\ 1 <= len /\ DOMAIN i.args = 1 .. len
  BY <1>1, SMT
<1>3. \A j \in 1 .. len : R(j) \in SUBSET RangePairs /\ R(j) # {} /\ \A q \in R(j) : R(j) = {q}
  BY <1>1, <1>2, OperandType DEF OperandRange
<1>4. \A j \in 1 .. len : p[j] \in R(j) /\ R(j) = {p[j]} /\ p[j] \in RangePairs
  BY <1>3
<1>5. rs = {p[j] : j \in 1 .. len}
  <2>1. {R(j) : j \in DOMAIN i.args} = {{p[j]} : j \in 1 .. len}
    <3> HIDE DEF p, R, len
    <3> QED BY <1>2, <1>4
  <2>2. UNION {{p[j]} : j \in 1 .. len} = {p[j] : j \in 1 .. len}
    <3> HIDE DEF p, len
    <3> QED OBVIOUS
  <2> QED BY <2>1, <2>2, Zenon
<1>6. {q.lo : q \in rs} = {lo[j] : j \in 1 .. len} /\ {q.hi : q \in rs} = {hi[j] : j \in 1 .. len}
  <2> HIDE DEF p, rs, len
  <2> QED BY <1>5
<1>7. lo \in [1 .. len -> Int] /\ hi \in [1 .. len -> Int]
  <2> HIDE DEF p, len
  <2> QED BY <1>4 DEF RangePairs
<1>8. k \in 1 .. len /\ lo[k] = p[k].lo /\ hi[k] = p[k].hi /\ In(x, p[k])
  BY <1>2, <1>4
<1> HIDE DEF lo, hi, p, rs, len
<1>9. /\ Min({lo[j] : j \in 1 .. len}) \in {lo[j] : j \in 1 .. len}
      /\ Max({hi[j] : j \in 1 .. len}) \in {hi[j] : j \in 1 .. len}
      /\ Min({lo[j] : j \in 1 .. len}) <= lo[k] /\ hi[k] <= Max({hi[j] : j \in 1 .. len})
  BY <1>2, <1>7, <1>8, ExtremesBound
<1> DEFINE least == Min({lo[j] : j \in 1 .. len})  most == Max({hi[j] : j \in 1 .. len})
<1>10. least \in Int /\ most \in Int /\ least <= lo[k] /\ hi[k] <= most /\ lo[k] \in Int /\ hi[k] \in Int
  BY <1>7, <1>8, <1>9
<1>11. r = Pair(least, most)
  BY <1>1, <1>6
<1> HIDE DEF least, most
<1> QED
  BY <1>8, <1>10, <1>11, SMT DEF In, Pair

-----------------------------------------------------------------------------
(* What an arm infers does not change when entries are added.              *)

\* what the arm of i infers from the entries b
Inferred(b, i) ==
    IF i.op \in BinaryOps THEN InferBinary(b, i)
    ELSE IF i.op \in UnaryOps THEN InferUnary(b, i)
    ELSE IF i.op = "phi" THEN InferPhi(b, i) ELSE {}

\* an entry that is inferred has operands with entries
LEMMA OperandsKnown ==
    ASSUME NEW b, NEW i, NEW r \in Inferred(b, i), NEW j \in DOMAIN i.args,
           i.op \in BinaryOps => DOMAIN i.args = 1 .. 2,
           i.op \in UnaryOps => DOMAIN i.args = 1 .. 1
    PROVE  IsConstant(i.args[j]) \/ i.args[j] \in DOMAIN b
<1>1. CASE i.op \in BinaryOps
  <2>1. r \in InferBinary(b, i)
    BY <1>1, Zenon DEF Inferred
  <2>2. OperandRange(b, i.args[1]) # {} /\ OperandRange(b, i.args[2]) # {}
    <3>1. InferBinary(b, i) = {} \/
          InferBinary(b, i) = {BinaryRange(i.op, u, v, IsConstant(i.args[1]), IsConstant(i.args[2])) :
                                u \in OperandRange(b, i.args[1]), v \in OperandRange(b, i.args[2])}
      BY DEF InferBinary
    <3> QED BY <2>1, <3>1
  <2>3. j = 1 \/ j = 2
    BY <1>1, SMT
  <2> QED BY <2>2, <2>3, Zenon DEF OperandRange
<1>2. CASE i.op \in UnaryOps /\ i.op \notin BinaryOps
  <2>1. r \in InferUnary(b, i) /\ j = 1
    BY <1>2, SMT DEF Inferred
  <2> QED BY <2>1, Zenon DEF InferUnary
<1>3. CASE i.op \notin BinaryOps \cup UnaryOps
  <2>1. r \in InferPhi(b, i)
    BY <1>3, Zenon DEF Inferred
  <2> QED BY <2>1, Zenon DEF InferPhi, OperandRange
<1> QED
  BY <1>1, <1>2, <1>3

\* What an arm infers from b, it infers from every c that keeps b's entries.
LEMMA InferenceStays ==
    ASSUME NEW b, NEW c, Keeps(c, b), NEW i, NEW r \in Inferred(b, i),
           i.op \in BinaryOps => DOMAIN i.args = 1 .. 2,
           i.op \in UnaryOps => DOMAIN i.args = 1 .. 1
    PROVE  r \in Inferred(c, i)
<1>1. \A j \in DOMAIN i.args : OperandRange(c, i.args[j]) = OperandRange(b, i.args[j])
  <2> SUFFICES ASSUME NEW j \in DOMAIN i.args
               PROVE  OperandRange(c, i.args[j]) = OperandRange(b, i.args[j])
    OBVIOUS
  <2>1. IsConstant(i.args[j]) \/ i.args[j] \in DOMAIN b
    BY OperandsKnown
  <2> QED BY <2>1, Zenon DEF OperandRange, Keeps
<1>2. CASE i.op \in BinaryOps
  <2>1. OperandRange(c, i.args[1]) = OperandRange(b, i.args[1])
        /\ OperandRange(c, i.args[2]) = OperandRange(b, i.args[2])
    BY <1>1, <1>2, SMT
  <2>2. InferBinary(c, i) = InferBinary(b, i)
    BY <2>1 DEF InferBinary
  <2> QED BY <1>2, <2>2, Zenon DEF Inferred
<1>3. CASE i.op \in UnaryOps /\ i.op \notin BinaryOps
  <2>1. r \in InferUnary(b, i)
    BY <1>3, Zenon DEF Inferred
  <2>2. i.args[1] \in DOMAIN b
    BY <2>1, Zenon DEF InferUnary
  <2>3. InferUnary(c, i) = InferUnary(b, i)
    BY <2>2, Zenon DEF InferUnary, Keeps
  <2> QED BY <1>3, <2>1, <2>3, Zenon DEF Inferred
<1>4. CASE i.op \notin BinaryOps \cup UnaryOps
  <2> DEFINE B == {OperandRange(b, i.args[j]) : j \in DOMAIN i.args}
             C == {OperandRange(c, i.args[j]) : j \in DOMAIN i.args}
  <2>1. C = B
    BY <1>1
  <2>2. UNION C = UNION B
    BY <2>1
  <2>3. InferPhi(c, i) = InferPhi(b, i)
    BY <1>1, <2>2, Zenon DEF InferPhi
  <2>4. i.op = "phi"
    BY <1>4, Zenon DEF Inferred
  <2> QED BY <1>4, <2>3, <2>4, Zenon DEF Inferred
<1> QED
  BY <1>2, <1>3, <1>4

-----------------------------------------------------------------------------
(* Where the entries of the entry function come from, while the driver     *)
(* walks it and after: every entry is a global's, a sensor's, or what the  *)
(* arm of its instruction infers from entries made before.                 *)

EntryCode(m) == m.body[m.entry].code

Inferring == BinaryOps \cup UnaryOps \cup {"phi"}

\* i, at position k, gave n its entry in b
Gave(m, b, born, i, k, n) ==
    \/ i.op = "dbg" /\ n = i.args[1] /\ i.name \in DOMAIN TypeRange /\ b[n] = TypeRange[i.name]
    \/ /\ i.op \in Inferring /\ n = i.dst /\ b[n] \in Inferred(b, i)
       /\ \A j \in DOMAIN i.args : IsConstant(i.args[j]) \/ born[i.args[j]] < k

\* born has, for each entry, the position of the instruction that made it; the
\* entries of the globals are there from the start
Explains(m, b, born, pos) ==
    /\ b \in Bounds
    /\ born \in [DOMAIN b -> Nat]
    /\ \A g \in DOMAIN m.globals : g \in DOMAIN b /\ b[g] = Point(m.globals[g])
    /\ \A n \in DOMAIN b :
          \/ n \in DOMAIN m.globals /\ born[n] = 0
          \/ /\ born[n] \in DOMAIN EntryCode(m) /\ born[n] < pos
             /\ Gave(m, b, born, EntryCode(m)[born[n]], born[n], n)

Explained(m, b, pos) == \E born : Explains(m, b, born, pos)

\* The instructions of the entry function, and how many operands they have.
LEMMA EntryShape ==
    ASSUME NEW m, WellFormed(m)
    PROVE  /\ m.entry \in DOMAIN m.body
           /\ DOMAIN EntryCode(m) = 1 .. Len(EntryCode(m)) /\ Len(EntryCode(m)) \in Nat
           /\ \A k \in DOMAIN EntryCode(m) :
                 LET i == EntryCode(m)[k]
                 IN  /\ i.args \in Seq(Names)
                     /\ i.op \in BinaryOps => DOMAIN i.args = 1 .. 2
                     /\ i.op \in UnaryOps => DOMAIN i.args = 1 .. 1
                     /\ i.op = "icmp" => DOMAIN i.args = 1 .. 2
                     /\ i.op = "dbg" => DOMAIN i.args = 1 .. 1
<1> DEFINE code == EntryCode(m)
<1>1. m.entry \in DOMAIN m.body /\ WellFormedFunction(m, m.body[m.entry])
  BY Zenon DEF WellFormed
<1>2. code \in Seq({code[k] : k \in DOMAIN code}) /\ \A k \in 1 .. Len(code) : WellFormedInstr(m, code[k])
  BY <1>1, Zenon DEF WellFormedFunction, EntryCode
<1> HIDE DEF code
<1>3. DOMAIN code = 1 .. Len(code) /\ Len(code) \in Nat
  BY <1>2, SMT
<1>4. ASSUME NEW i, WellFormedInstr(m, i)
      PROVE  /\ i.args \in Seq(Names)
             /\ i.op \in BinaryOps => DOMAIN i.args = 1 .. 2
             /\ i.op \in UnaryOps => DOMAIN i.args = 1 .. 1
             /\ i.op = "icmp" => DOMAIN i.args = 1 .. 2
             /\ i.op = "dbg" => DOMAIN i.args = 1 .. 1
  <2>1. i.args \in Seq(Names)
    BY <1>4, Zenon DEF WellFormedInstr
  <2>2. /\ i.op \in BinaryOps \/ i.op = "icmp" => Len(i.args) = 2
        /\ i.op \in UnaryOps \/ i.op = "dbg" => Len(i.args) = 1
    BY <1>4, Zenon DEF WellFormedInstr, BinaryOps, UnaryOps
  <2> QED BY <2>1, <2>2, SMT
<1>5. \A k \in DOMAIN code : WellFormedInstr(m, code[k])
  BY <1>2, <1>3
<1> QED
  BY <1>1, <1>3, <1>4, <1>5, Zenon DEF code

\* A walk that has come further has no fewer entries explained.
LEMMA ExplainedLater ==
    ASSUME NEW m, NEW b, NEW p \in Nat, NEW q \in Nat, p <= q,
           WellFormed(m), Explained(m, b, p)
    PROVE  Explained(m, b, q)
<1>1. PICK born : Explains(m, b, born, p)
  BY DEF Explained
<1>2. DOMAIN EntryCode(m) = 1 .. Len(EntryCode(m)) /\ Len(EntryCode(m)) \in Nat
  BY EntryShape
<1>3. \A k \in DOMAIN EntryCode(m) : k < p => k < q
  BY <1>2, SMT
<1>4. Explains(m, b, born, q)
  BY <1>1, <1>3, Zenon DEF Explains
<1> QED BY <1>4 DEF Explained

\* The instruction at position k explains the entries it adds.
LEMMA ExplainedNext ==
    ASSUME NEW m, WellFormed(m), NEW k \in DOMAIN EntryCode(m),
           NEW b, Explained(m, b, k), NEW c \in Bounds, Keeps(c, b),
           LET i == EntryCode(m)[k]
           IN  \A n \in DOMAIN c \ DOMAIN b :
                  \/ i.op = "dbg" /\ n = i.args[1] /\ i.name \in DOMAIN TypeRange /\ c[n] = TypeRange[i.name]
                  \/ i.op \in Inferring /\ n = i.dst /\ c[n] \in Inferred(b, i)
    PROVE  Explained(m, c, k + 1)
<1> DEFINE code == EntryCode(m)
<1>1. PICK born : Explains(m, b, born, k)
  BY DEF Explained
<1>2. /\ DOMAIN code = 1 .. Len(code) /\ Len(code) \in Nat
      /\ \A j \in DOMAIN code :
            /\ code[j].op \in BinaryOps => DOMAIN code[j].args = 1 .. 2
            /\ code[j].op \in UnaryOps => DOMAIN code[j].args = 1 .. 1
  BY EntryShape
<1> DEFINE later == [n \in DOMAIN c |-> IF n \in DOMAIN b THEN born[n] ELSE k]
<1>3. /\ b \in Bounds /\ born \in [DOMAIN b -> Nat]
      /\ \A g \in DOMAIN m.globals : g \in DOMAIN b /\ b[g] = Point(m.globals[g])
      /\ \A n \in DOMAIN b :
          \/ n \in DOMAIN m.globals /\ born[n] = 0
          \/ /\ born[n] \in DOMAIN code /\ born[n] < k
             /\ Gave(m, b, born, code[born[n]], born[n], n)
  BY <1>1, Zenon DEF Explains
<1>4. k \in Nat /\ k + 1 \in Nat /\ k < k + 1 /\ \A j \in DOMAIN code : j < k => j < k + 1
  BY <1>2, SMT
<1>5. DOMAIN b \subseteq DOMAIN c /\ \A n \in DOMAIN b : c[n] = b[n]
  BY DEF Keeps
<1>6. later \in [DOMAIN c -> Nat] /\ (\A n \in DOMAIN b : later[n] = born[n])
      /\ \A n \in DOMAIN c \ DOMAIN b : later[n] = k
  BY <1>3, <1>4, <1>5
<1> HIDE DEF later, code
\* an operand of an inferred entry has an entry in b
<1>7. ASSUME NEW p \in DOMAIN code, NEW r \in Inferred(b, code[p]), NEW j \in DOMAIN code[p].args
      PROVE  /\ IsConstant(code[p].args[j]) \/ code[p].args[j] \in DOMAIN b
             /\ r \in Inferred(c, code[p])
  <2>1. /\ code[p].op \in BinaryOps => DOMAIN code[p].args = 1 .. 2
        /\ code[p].op \in UnaryOps => DOMAIN code[p].args = 1 .. 1
    BY <1>2
  <2> QED BY <2>1, OperandsKnown, InferenceStays
<1>8. ASSUME NEW p \in DOMAIN code, NEW r \in Inferred(b, code[p])
      PROVE  r \in Inferred(c, code[p])
  <2>1. /\ code[p].op \in BinaryOps => DOMAIN code[p].args = 1 .. 2
        /\ code[p].op \in UnaryOps => DOMAIN code[p].args = 1 .. 1
    BY <1>2
  <2> QED BY <2>1, InferenceStays
<1>9. ASSUME NEW n \in DOMAIN b, born[n] \in DOMAIN code, Gave(m, b, born, code[born[n]], born[n], n)
      PROVE  Gave(m, c, later, code[born[n]], born[n], n)
  <2>1. ASSUME code[born[n]].op \in Inferring, n = code[born[n]].dst, b[n] \in Inferred(b, code[born[n]]),
               \A j \in DOMAIN code[born[n]].args : IsConstant(code[born[n]].args[j])
                                                    \/ born[code[born[n]].args[j]] < born[n]
        PROVE  /\ c[n] \in Inferred(c, code[born[n]])
               /\ \A j \in DOMAIN code[born[n]].args : IsConstant(code[born[n]].args[j])
                                                       \/ later[code[born[n]].args[j]] < born[n]
    <3>1. c[n] \in Inferred(c, code[born[n]])
      BY <1>5, <1>8, <1>9, <2>1
    <3>2. ASSUME NEW j \in DOMAIN code[born[n]].args, ~IsConstant(code[born[n]].args[j])
          PROVE  later[code[born[n]].args[j]] < born[n]
      <4>1. code[born[n]].args[j] \in DOMAIN b
        BY <1>7, <1>9, <2>1, <3>2
      <4> QED BY <1>6, <2>1, <3>2, <4>1
    <3> QED BY <3>1, <3>2
  <2> QED BY <1>5, <1>9, <2>1, Zenon DEF Gave
<1>10. ASSUME NEW n \in DOMAIN c \ DOMAIN b
       PROVE  Gave(m, c, later, code[k], k, n)
  <2>1. \/ /\ code[k].op = "dbg" /\ n = code[k].args[1] /\ code[k].name \in DOMAIN TypeRange
           /\ c[n] = TypeRange[code[k].name]
        \/ code[k].op \in Inferring /\ n = code[k].dst /\ c[n] \in Inferred(b, code[k])
    BY <1>10, Zenon DEF code
  <2>2. ASSUME code[k].op \in Inferring, n = code[k].dst, c[n] \in Inferred(b, code[k])
        PROVE  /\ c[n] \in Inferred(c, code[k])
               /\ \A j \in DOMAIN code[k].args : IsConstant(code[k].args[j]) \/ later[code[k].args[j]] < k
    <3>0. k \in DOMAIN code
      BY DEF code
    <3>1. c[n] \in Inferred(c, code[k])
      BY <1>8, <2>2, <3>0
    <3>2. ASSUME NEW j \in DOMAIN code[k].args, ~IsConstant(code[k].args[j])
          PROVE  later[code[k].args[j]] < k
      <4>1. code[k].args[j] \in DOMAIN b
        BY <1>7, <2>2, <3>0, <3>2
      <4>2. born[code[k].args[j]] < k
        <5>1. 0 < k
          BY <1>2, <3>0, SMT
        <5> QED BY <1>3, <4>1, <5>1, Zenon
      <4> QED BY <1>6, <4>1, <4>2
    <3> QED BY <3>1, <3>2
  <2> QED BY <2>1, <2>2, Zenon DEF Gave
<1>11. ASSUME NEW n \in DOMAIN c
       PROVE  \/ n \in DOMAIN m.globals /\ later[n] = 0
              \/ /\ later[n] \in DOMAIN code /\ later[n] < k + 1
                 /\ Gave(m, c, later, code[later[n]], later[n], n)
  <2>1. CASE n \in DOMAIN b
    BY <1>3, <1>4, <1>6, <1>9, <2>1, Zenon
  <2>2. CASE n \notin DOMAIN b
    <3>1. later[n] = k /\ k \in DOMAIN code /\ Gave(m, c, later, code[k], k, n)
      BY <1>6, <1>10, <2>2, Zenon DEF code
    <3> QED BY <1>4, <3>1, Zenon
  <2> QED BY <2>1, <2>2
<1>12. Explains(m, c, later, k + 1)
  <2>1. \A g \in DOMAIN m.globals : g \in DOMAIN c /\ c[g] = Point(m.globals[g])
    BY <1>3, <1>5
  <2> QED BY <1>6, <1>11, <2>1, Zenon DEF Explains, code
<1> QED BY <1>12 DEF Explained

-----------------------------------------------------------------------------
(* The walk of an entry function that neither calls nor stores.            *)

\* the driver's own activation of the entry function, and what it records
WalkExplained ==
    /\ Active /\ stack[1].fn = prog.entry =>
          Depth = 1 /\ Top.storeParam = {} /\ Explained(prog, Top.bound, Top.pos)
    /\ prog.entry \in DOMAIN funcBoundInfo =>
          Explained(prog, funcBoundInfo[prog.entry], Len(EntryCode(prog)) + 1)

\* the entry function is walked, will be, or is being
EntryWalked ==
    \/ prog.entry \in DOMAIN funcBoundInfo
    \/ \E k \in DOMAIN todo : todo[k] = prog.entry
    \/ Active /\ stack[1].fn = prog.entry

WalkInv == IInv /\ WalkExplained /\ EntryWalked

\* what a step does to the oldest activation and to the record
LEMMA OldestStays ==
    ASSUME IInv, Next, Active
    PROVE  /\ todo' = todo
           /\ Active' => stack'[1].fn = stack[1].fn /\ funcBoundInfo' = funcBoundInfo
           /\ ~Active' => /\ Depth = 1
                          /\ funcBoundInfo' = Emplace(funcBoundInfo, Top.fn, Top.bound)
<1>1. Depth \in Nat /\ Depth >= 1 /\ DOMAIN stack = 1 .. Depth /\ 1 \in DOMAIN stack
      /\ Top \in Frames /\ Top.bound \in Bounds /\ stack # <<>>
  BY TopFrame, SMT DEF Active
<1> DEFINE Goal == /\ todo' = todo
                   /\ Active' => stack'[1].fn = stack[1].fn /\ funcBoundInfo' = funcBoundInfo
                   /\ ~Active' => /\ Depth = 1
                                  /\ funcBoundInfo' = Emplace(funcBoundInfo, Top.fn, Top.bound)
<1>2. ASSUME NEW f, f.fn = Top.fn, stack' = [stack EXCEPT ![Depth] = f],
             UNCHANGED <<prog, todo, funcBoundInfo>>
      PROVE  Goal
  <2>1. stack'[1].fn = stack[1].fn
    BY <1>1, <1>2 DEF Top
  <2>2. Active'
    <3>1. DOMAIN stack' = DOMAIN stack
      BY <1>2
    <3>2. stack' # <<>>
      BY <1>1, <3>1, SMT
    <3> QED BY <3>2 DEF Active
  <2> QED BY <1>2, <2>1, <2>2
<1>3. ASSUME NEW b, StepWith(b) PROVE Goal
  <2>1. Advance(Top, b).fn = Top.fn
    BY <1>1 DEF Advance, Frames
  <2> QED BY <1>2, <1>3, <2>1, Zenon DEF StepWith
<1>4. ASSUME NEW rs, LeaveFunction(rs) PROVE Goal
  <2>1. CASE Depth = 1
    BY <1>4, <2>1, Zenon DEF LeaveFunction, Active
  <2>2. CASE Depth # 1
    <3> DEFINE g == AfterCall(stack[Depth - 1], Top.bound, rs)
    <3>1. /\ stack' = [k \in 1 .. Depth - 1 |-> IF k = Depth - 1 THEN g ELSE stack[k]]
          /\ funcBoundInfo' = funcBoundInfo /\ todo' = todo
      BY <1>4, <2>2, Zenon DEF LeaveFunction
    <3>2. 1 \in 1 .. Depth - 1 /\ Depth - 1 \in 1 .. Depth - 1
      BY <1>1, <2>2, SMT
    <3>3. g.fn = stack[Depth - 1].fn
      <4>1. stack[Depth - 1] \in Frames
        BY <3>2, Waiting
      <4> QED BY <4>1 DEF AfterCall, Advance, Frames
    <3> HIDE DEF g
    <3>4. stack'[1].fn = stack[1].fn
      BY <3>1, <3>2, <3>3
    <3>5. Active'
      <4>1. DOMAIN stack' = 1 .. Depth - 1
        BY <3>1
      <4>2. stack' # <<>>
        BY <3>2, <4>1, SMT
      <4> QED BY <4>2 DEF Active
    <3> QED BY <3>1, <3>4, <3>5
  <2> QED BY <2>1, <2>2
<1>5. ASSUME EnterCall PROVE Goal
  <2>1. PICK f : stack' = Append(stack, f)
    BY <1>5, Zenon DEF EnterCall
  <2>2. stack'[1] = stack[1] /\ stack' # <<>>
    BY <1>1, <2>1, SMT DEF IInv, Shape, Depth
  <2> QED BY <1>5, <2>2 DEF EnterCall, Active
<1>6. ASSUME VisitStore PROVE Goal
  <2>1. PICK f : f.fn = Top.fn /\ stack' = [stack EXCEPT ![Depth] = f]
    <3>1. \A b, ps : [Advance(Top, b) EXCEPT !.storeParam = ps].fn = Top.fn
      BY <1>1 DEF Advance, Frames
    <3> QED BY <1>6, <3>1, Zenon DEF VisitStore
  <2>2. UNCHANGED <<prog, todo, funcBoundInfo>>
    BY <1>6, Zenon DEF VisitStore
  <2> QED BY <1>2, <2>1, <2>2
<1>7. ~StartFunction
  BY DEF StartFunction
<1> HIDE DEF Goal
<1>8. Goal
  BY <1>3, <1>4, <1>5, <1>6, <1>7, Zenon DEF Next, VisitDebug, VisitBinary, VisitUnary, VisitPhi,
     VisitRet, FallOff, VisitOther
<1> QED BY <1>8 DEF Goal

\* The walk of a function starts with the entries of the globals.
LEMMA StartExplained ==
    ASSUME IInv, WalkExplained, EntryWalked, StartFunction
    PROVE  WalkExplained' /\ EntryWalked'
<1>1. /\ ~Active /\ todo # <<>> /\ stack' = <<Frame(Head(todo), GlobalBounds)>>
      /\ todo' = Tail(todo) /\ prog' = prog /\ funcBoundInfo' = funcBoundInfo
      /\ WellFormed(prog) /\ todo \in Seq(DOMAIN prog.body)
  BY Zenon DEF StartFunction, IInv, Shape
<1> DEFINE f == Frame(Head(todo), GlobalBounds)
<1>2. f.fn = Head(todo) /\ f.pos = 1 /\ f.bound = GlobalBounds /\ f.storeParam = {}
  BY DEF Frame
<1>3. stack'[1] = f /\ Depth' = 1 /\ Top' = f /\ Active'
  <2> HIDE DEF f
  <2>1. stack' = <<f>>
    BY <1>1 DEF f
  <2>2. stack'[1] = f /\ Len(stack') = 1 /\ stack' # <<>>
    BY <2>1, SMT
  <2> QED BY <2>2 DEF Depth, Top, Active
<1>4. GlobalBounds \in Bounds
  <2>1. /\ \A g \in DOMAIN prog.globals : prog.globals[g] \in Int
        /\ DOMAIN prog.globals \subseteq Values
    BY <1>1 DEF WellFormed, Values
  <2>2. \A g \in DOMAIN prog.globals : Point(prog.globals[g]) \in RangePairs
    BY <2>1, PairsAreRanges DEF Point
  <2>3. GlobalBounds \in [DOMAIN prog.globals -> RangePairs]
    BY <2>2 DEF GlobalBounds
  <2> QED BY <2>1, <2>3, MakeBounds
<1>5. Explained(prog, GlobalBounds, 1)
  <2> DEFINE born == [g \in DOMAIN prog.globals |-> 0]
  <2>1. DOMAIN GlobalBounds = DOMAIN prog.globals
        /\ \A g \in DOMAIN prog.globals : GlobalBounds[g] = Point(prog.globals[g])
    BY DEF GlobalBounds
  <2>2. born \in [DOMAIN GlobalBounds -> Nat] /\ \A g \in DOMAIN GlobalBounds : born[g] = 0
    BY <2>1, SMT
  <2> HIDE DEF born
  <2>3. Explains(prog, GlobalBounds, born, 1)
    BY <1>4, <2>1, <2>2, Zenon DEF Explains
  <2> QED BY <2>3 DEF Explained
<1>6. WalkExplained'
  BY <1>1, <1>2, <1>3, <1>5, Zenon DEF WalkExplained, EntryCode
<1>7. EntryWalked'
  <2>1. ASSUME NEW k \in DOMAIN todo, todo[k] = prog.entry
        PROVE  Head(todo) = prog.entry \/ \E j \in DOMAIN Tail(todo) : Tail(todo)[j] = prog.entry
    <3>1. CASE k = 1
      BY <1>1, <2>1, <3>1, SMT
    <3>2. CASE k # 1
      <4>1. k - 1 \in DOMAIN Tail(todo) /\ Tail(todo)[k - 1] = todo[k]
        BY <1>1, <3>2, SMT
      <4> QED BY <2>1, <4>1
    <3> QED BY <3>1, <3>2
  <2> QED BY <1>1, <1>2, <1>3, <2>1, Zenon DEF EntryWalked
<1> QED BY <1>6, <1>7

\* One step of the walk of the entry function itself.
LEMMA EntryStepExplained ==
    ASSUME IInv, WalkExplained, Next, Active, stack[1].fn = prog.entry, OwnInstructions(prog)
    PROVE  WalkExplained'
<1>1. Depth = 1 /\ Top.storeParam = {} /\ Explained(prog, Top.bound, Top.pos) /\ prog' = prog
  BY ModuleStays DEF WalkExplained
<1>2. /\ Top \in Frames /\ Top.bound \in Bounds /\ Top.pos \in Nat /\ Top.fn = prog.entry
      /\ DOMAIN stack = 1 .. Depth /\ WellFormed(prog)
      /\ Top.pos \in 1 .. Len(EntryCode(prog)) + 1
      /\ Len(EntryCode(prog)) \in Nat /\ DOMAIN EntryCode(prog) = 1 .. Len(EntryCode(prog))
  <2>1. Top.fn = prog.entry
    BY <1>1 DEF Top
  <2> QED BY <2>1, TopFrame, EntryShape DEF IInv, Shape, EntryCode, Code
<1>3. ~AtEnd => /\ Top.pos \in DOMAIN EntryCode(prog) /\ Now = EntryCode(prog)[Top.pos]
                /\ Now.op \in Defining \cup {"dbg", "br", "ret", "erased"}
                /\ Now.dst \in Values
  <2> SUFFICES ASSUME ~AtEnd PROVE /\ Top.pos \in DOMAIN EntryCode(prog) /\ Now = EntryCode(prog)[Top.pos]
                                   /\ Now.op \in Defining \cup {"dbg", "br", "ret", "erased"}
                                   /\ Now.dst \in Values
    OBVIOUS
  <2>1. Top.pos \in DOMAIN EntryCode(prog) /\ Now = EntryCode(prog)[Top.pos] /\ Now.dst \in Values
    BY <1>2, NowWellFormed DEF EntryCode, Code, Now
  <2>2. Now.op \in Defining \cup {"dbg", "br", "ret", "erased"}
    BY <2>1, Zenon DEF OwnInstructions, EntryCode
  <2> QED BY <2>1, <2>2
\* a step within the function
<1>4. ASSUME NEW c \in Bounds, Keeps(c, Top.bound), ~AtEnd, StepWith(c),
             \A n \in DOMAIN c \ DOMAIN Top.bound :
                \/ Now.op = "dbg" /\ n = Now.args[1] /\ Now.name \in DOMAIN TypeRange
                   /\ c[n] = TypeRange[Now.name]
                \/ Now.op \in Inferring /\ n = Now.dst /\ c[n] \in Inferred(Top.bound, Now)
      PROVE  WalkExplained'
  <2> DEFINE f == Advance(Top, c)
  <2>1. f \in Frames /\ f.pos = Top.pos + 1 /\ f.bound = c /\ f.storeParam = {}
    BY <1>1, <1>2, AdvancedFrame DEF Advance, Frames
  <2>2. stack' = [stack EXCEPT ![Depth] = f] /\ funcBoundInfo' = funcBoundInfo
    BY <1>4, Zenon DEF StepWith
  <2> HIDE DEF f
  <2>3. Depth' = 1 /\ Top' = f
    <3>1. Len(stack') = Len(stack) /\ stack'[Depth] = f
      BY <1>1, <1>2, <2>2, SMT DEF IInv, Shape, Depth
    <3> QED BY <1>1, <3>1 DEF Depth, Top
  <2>4. Explained(prog, c, Top.pos + 1)
    BY <1>1, <1>2, <1>3, <1>4, ExplainedNext
  <2> QED BY <1>1, <2>1, <2>2, <2>3, <2>4, Zenon DEF WalkExplained, EntryCode
<1>5. ASSUME ~AtEnd, NEW rs \in SUBSET RangePairs, StepWith(EmplaceAny(Top.bound, Now.dst, rs)),
             Now.op \in Inferring, rs = Inferred(Top.bound, Now)
      PROVE  WalkExplained'
  <2> DEFINE c == EmplaceAny(Top.bound, Now.dst, rs)
  <2>1. c \in Bounds /\ Keeps(c, Top.bound)
    BY <1>2, <1>3, <1>5, EmplaceAnyKeeps
  <2>2. ASSUME NEW n \in DOMAIN c \ DOMAIN Top.bound PROVE n = Now.dst /\ c[n] \in rs
    <3>1. rs # {} /\ c = Emplace(Top.bound, Now.dst, CHOOSE r \in rs : TRUE)
      BY <2>2, Zenon DEF EmplaceAny
    <3> HIDE DEF c
    <3>2. n = Now.dst /\ c[n] = CHOOSE r \in rs : TRUE
      BY <2>2, <3>1 DEF Emplace
    <3> QED BY <3>1, <3>2
  <2> HIDE DEF c
  <2> QED BY <1>4, <1>5, <2>1, <2>2 DEF c
<1>6. ASSUME ~AtEnd, StepWith(Top.bound) PROVE WalkExplained'
  BY <1>2, <1>4, <1>6 DEF Keeps
<1>7. ASSUME NEW rs, LeaveFunction(rs) PROVE WalkExplained'
  <2>1. funcBoundInfo' = Emplace(funcBoundInfo, prog.entry, Top.bound) /\ stack' = <<>>
    BY <1>1, <1>2, <1>7, Zenon DEF LeaveFunction
  <2>2. Explained(prog, Top.bound, Len(EntryCode(prog)) + 1)
    <3>1. Top.pos <= Len(EntryCode(prog)) + 1 /\ Len(EntryCode(prog)) + 1 \in Nat
      BY <1>2, SMT
    <3> QED BY <1>1, <1>2, <3>1, ExplainedLater
  <2>3. Explained(prog, funcBoundInfo'[prog.entry], Len(EntryCode(prog)) + 1)
    BY <2>1, <2>2 DEF Emplace, WalkExplained
  <2> QED BY <1>1, <2>1, <2>3, Zenon DEF WalkExplained, Active, EntryCode
<1>8. ASSUME VisitDebug PROVE WalkExplained'
  <2> DEFINE v == Now.args[1]  b == Top.bound
             c == IF Now.name \notin DOMAIN TypeRange THEN b
                  ELSE [n \in DOMAIN b \cup {v} |-> IF n \in DOMAIN b THEN b[n] ELSE TypeRange[Now.name]]
  <2>1. {p[2] : p \in {q \in Top.storeParam : q[1] = v}} = {}
    BY <1>1
  <2>2. ~AtEnd /\ Now.op = "dbg" /\ StepWith(c)
    BY <1>8, <2>1 DEF VisitDebug, At
  <2>3. v \in Values
    BY <1>8, <2>2, NowWellFormed DEF Values
  <2>4. c \in Bounds /\ Keeps(c, b) /\ \A n \in DOMAIN c \ DOMAIN b :
            n = v /\ Now.name \in DOMAIN TypeRange /\ c[n] = TypeRange[Now.name]
    <3>1. CASE Now.name \notin DOMAIN TypeRange
      BY <1>2, <3>1 DEF Keeps
    <3>2. CASE Now.name \in DOMAIN TypeRange
      <4>1. TypeRange[Now.name] \in RangePairs
        BY <3>2, SensorAssumption
      <4>2. c = Emplace(b, v, TypeRange[Now.name])
        BY <3>2 DEF Emplace
      <4>3. c \in Bounds /\ Keeps(c, b)
        <5> HIDE DEF c, b, v
        <5> QED BY <1>2, <2>3, <4>1, <4>2, EmplaceKeeps DEF b
      <4> QED BY <3>2, <4>2, <4>3 DEF Emplace
    <3> QED BY <3>1, <3>2
  <2> HIDE DEF c
  <2> QED BY <1>4, <2>2, <2>4
<1>9. ASSUME VisitBinary PROVE WalkExplained'
  <2>1. /\ Active /\ ~AtEnd /\ Now.op \in BinaryOps /\ ~Diverges(Top.bound, Now)
        /\ StepWith(EmplaceAny(Top.bound, Now.dst, InferBinary(Top.bound, Now)))
    BY <1>9, Zenon DEF VisitBinary, At
  <2>2. InferBinary(Top.bound, Now) \in SUBSET RangePairs
    BY <1>2, <2>1, InferBinaryType
  <2>3. InferBinary(Top.bound, Now) = Inferred(Top.bound, Now) /\ Now.op \in Inferring
    BY <2>1, Zenon DEF Inferred, Inferring
  <2> QED BY <1>5, <2>1, <2>2, <2>3
<1>10. ASSUME VisitUnary PROVE WalkExplained'
  <2>1. /\ ~AtEnd /\ Now.op \in UnaryOps
        /\ StepWith(EmplaceAny(Top.bound, Now.dst, InferUnary(Top.bound, Now)))
    BY <1>10, Zenon DEF VisitUnary, At
  <2>2. InferUnary(Top.bound, Now) \in SUBSET RangePairs
    BY <1>2, InferUnaryType
  <2>3. InferUnary(Top.bound, Now) = Inferred(Top.bound, Now) /\ Now.op \in Inferring
    BY <2>1, SMT DEF Inferred, Inferring, UnaryOps, BinaryOps
  <2> QED BY <1>5, <2>1, <2>2, <2>3
<1>11. ASSUME VisitPhi PROVE WalkExplained'
  <2>1. /\ ~AtEnd /\ Now.op = "phi"
        /\ StepWith(EmplaceAny(Top.bound, Now.dst, InferPhi(Top.bound, Now)))
    BY <1>11 DEF VisitPhi, At
  <2>2. InferPhi(Top.bound, Now) \in SUBSET RangePairs
    BY <1>2, <2>1, NowWellFormed, InferPhiType
  <2>3. InferPhi(Top.bound, Now) = Inferred(Top.bound, Now) /\ Now.op \in Inferring
    BY <2>1, SMT DEF Inferred, Inferring, UnaryOps, BinaryOps
  <2> QED BY <1>5, <2>1, <2>2, <2>3
<1>12. ~StartFunction
  BY DEF StartFunction
<1>13. ~VisitStore /\ ~EnterCall
  <2>1. ~AtEnd => Now.op # "store" /\ Now.op # "call"
    BY <1>3, SMT DEF Defining
  <2> QED BY <2>1, Zenon DEF VisitStore, EnterCall, At
<1>14. ASSUME VisitRet PROVE WalkExplained'
  BY <1>6, <1>7, <1>14, Zenon DEF VisitRet, At
<1>15. ASSUME VisitOther PROVE WalkExplained'
  BY <1>6, <1>15, Zenon DEF VisitOther, At
<1>16. ASSUME FallOff PROVE WalkExplained'
  BY <1>7, <1>16, Zenon DEF FallOff
<1> QED
  BY <1>8, <1>9, <1>10, <1>11, <1>12, <1>13, <1>14, <1>15, <1>16, Zenon DEF Next

\* The walk keeps its entries explained, whatever other functions it walks.
LEMMA WalkStep ==
    ASSUME WalkInv, OwnInstructions(prog), [Next]_vars
    PROVE  WalkInv'
<1>1. IInv' /\ prog' = prog
  BY StepIInv, ModuleStays DEF WalkInv
<1>2. ASSUME UNCHANGED vars PROVE WalkExplained' /\ EntryWalked'
  BY <1>2 DEF vars, WalkInv, WalkExplained, EntryWalked, Active, Depth, Top, EntryCode
<1>3. ASSUME Next, ~Active PROVE WalkExplained' /\ EntryWalked'
  <2>1. StartFunction
    BY <1>3, Zenon DEF Next, VisitDebug, VisitBinary, VisitUnary, VisitPhi, VisitStore, EnterCall,
       VisitRet, FallOff, VisitOther, At, AtEnd
  <2> QED BY <2>1, StartExplained DEF WalkInv
<1>4. ASSUME Next, Active PROVE EntryWalked'
  <2>1. /\ todo' = todo
        /\ Active' => stack'[1].fn = stack[1].fn /\ funcBoundInfo' = funcBoundInfo
        /\ ~Active' => Depth = 1 /\ funcBoundInfo' = Emplace(funcBoundInfo, Top.fn, Top.bound)
    BY <1>4, OldestStays DEF WalkInv
  <2>2. ~Active' => \A f \in DOMAIN funcBoundInfo \cup {stack[1].fn} : f \in DOMAIN funcBoundInfo'
    BY <2>1 DEF Emplace, Top
  <2> QED BY <1>1, <1>4, <2>1, <2>2, Zenon DEF WalkInv, EntryWalked
<1>5. ASSUME Next, Active, stack[1].fn # prog.entry PROVE WalkExplained'
  <2>1. /\ Active' => stack'[1].fn = stack[1].fn /\ funcBoundInfo' = funcBoundInfo
        /\ ~Active' => Depth = 1 /\ funcBoundInfo' = Emplace(funcBoundInfo, Top.fn, Top.bound)
    BY <1>5, OldestStays DEF WalkInv
  <2>2. CASE Active'
    BY <1>1, <1>5, <2>1, <2>2, Zenon DEF WalkInv, WalkExplained, EntryCode
  <2>3. CASE ~Active'
    <3>1. Top.fn # prog.entry /\ funcBoundInfo' = Emplace(funcBoundInfo, Top.fn, Top.bound)
      BY <1>5, <2>1, <2>3 DEF Top
    <3>2. prog.entry \in DOMAIN funcBoundInfo' =>
             prog.entry \in DOMAIN funcBoundInfo /\ funcBoundInfo'[prog.entry] = funcBoundInfo[prog.entry]
      BY <3>1 DEF Emplace
    <3> QED BY <1>1, <2>3, <3>2, Zenon DEF WalkInv, WalkExplained, EntryCode
  <2> QED BY <2>2, <2>3
<1>6. ASSUME Next, Active, stack[1].fn = prog.entry PROVE WalkExplained'
  BY <1>6, EntryStepExplained DEF WalkInv
<1> QED
  BY <1>1, <1>2, <1>3, <1>4, <1>5, <1>6 DEF WalkInv

-----------------------------------------------------------------------------
(* A run of the entry function: one activation, the globals in memory.     *)

Act(m, pos, from, regs) == [fn |-> m.entry, pos |-> pos, from |-> from, regs |-> regs]

Mach(m, pos, from, regs, st, res) ==
    [stack |-> <<Act(m, pos, from, regs)>>, mem |-> m.globals, status |-> st, result |-> res]

\* reading the only activation, writing it, and halting
LEMMA MachineReads ==
    ASSUME NEW m, NEW pos, NEW from, NEW regs, NEW st, NEW res
    PROVE  /\ Len(Mach(m, pos, from, regs, st, res).stack) = 1
           /\ Mach(m, pos, from, regs, st, res).stack[1] = Act(m, pos, from, regs)
           /\ Mach(m, pos, from, regs, st, res).mem = m.globals
           /\ Current(m, Mach(m, pos, from, regs, st, res)) = EntryCode(m)[pos]
<1> DEFINE f == Act(m, pos, from, regs)  mc == Mach(m, pos, from, regs, st, res)
<1>1. f.fn = m.entry /\ f.pos = pos
  BY DEF Act
<1>2. mc = [stack |-> <<f>>, mem |-> m.globals, status |-> st, result |-> res]
  BY DEF Mach
<1> HIDE DEF f, mc
<1>3. mc.stack = <<f>> /\ mc.mem = m.globals /\ mc.stack[1] = f /\ Len(mc.stack) = 1
  BY <1>2
<1>4. Current(m, mc) = EntryCode(m)[pos]
  BY <1>1, <1>3 DEF Current, EntryCode
<1> QED BY <1>3, <1>4 DEF f, mc

\* The only activation, replaced.
LEMMA MachineWrites ==
    ASSUME NEW m, NEW pos, NEW from, NEW regs, NEW st, NEW res, NEW g
    PROVE  [Mach(m, pos, from, regs, st, res) EXCEPT !.stack[1] = g] =
              [stack |-> <<g>>, mem |-> m.globals, status |-> st, result |-> res]
<1> DEFINE f == Act(m, pos, from, regs)  mc == Mach(m, pos, from, regs, st, res)
<1>1. mc = [stack |-> <<f>>, mem |-> m.globals, status |-> st, result |-> res]
  BY DEF Mach
<1> HIDE DEF f, mc
<1>2. [<<f>> EXCEPT ![1] = g] = <<g>>
  BY SMT
<1>3. mc.stack = <<f>>
  BY <1>1
<1>4. [mc EXCEPT !.stack[1] = g] = [mc EXCEPT !.stack = [mc.stack EXCEPT ![1] = g]]
  OBVIOUS
<1>5. [mc EXCEPT !.stack = <<g>>] = [stack |-> <<g>>, mem |-> m.globals, status |-> st, result |-> res]
  BY <1>1
<1> QED BY <1>2, <1>3, <1>4, <1>5 DEF mc

\* A run that halts stays where it is.
LEMMA MachineHalts ==
    ASSUME NEW m, NEW pos, NEW from, NEW regs, NEW st, NEW res, NEW why
    PROVE  Halt(Mach(m, pos, from, regs, st, res), why) = Mach(m, pos, from, regs, why, res)
BY DEF Mach, Halt

\* what a step of such a run does, instruction by instruction
StepIs(m, pos, from, regs, st, res, next) ==
    LET i == EntryCode(m)[pos]
        val(k) == Value(regs, i.args[k])
        variable == IF i.args[1] \in m.pointers THEN m.globals[val(1)] ELSE val(1)
    IN  /\ i.op = "dbg" =>
             IF i.name \in DOMAIN TypeRange /\ ~In(variable, TypeRange[i.name])
             THEN next = Mach(m, pos, from, regs, "outOfSpecification", res)
             ELSE next = Mach(m, pos + 1, from, regs, st, res)
        /\ i.op = "rem" /\ val(2) = 0 => next = Mach(m, pos, from, regs, "undefined", res)
        /\ i.op \in Defining /\ ~(i.op = "rem" /\ val(2) = 0) =>
             next = Mach(m, pos + 1, from,
                         Update(regs, i.dst, Result(Mach(m, pos, from, regs, st, res),
                                                    Act(m, pos, from, regs), i)), st, res)
        /\ i.op = "br" =>
             next = Mach(m, i.at[IF Len(i.at) = 1 \/ val(1) # 0 THEN 1 ELSE 2], pos, regs, st, res)
        /\ i.op = "erased" => next = Mach(m, pos + 1, from, regs, st, res)
        /\ i.op = "ret" =>
             next = Mach(m, pos, from, regs, "returned", IF i.args = <<>> THEN 0 ELSE val(1))

\* A step of the machine, one equation for each kind of instruction.
LEMMA OneStep ==
    ASSUME NEW m, NEW pos, NEW from, NEW regs, NEW st, NEW res
    PROVE  StepIs(m, pos, from, regs, st, res, Step(m, TypeRange, Mach(m, pos, from, regs, st, res)))
<1> DEFINE mc == Mach(m, pos, from, regs, st, res)
           i == EntryCode(m)[pos]
           f == Act(m, pos, from, regs)
           val(k) == Value(regs, i.args[k])
           next == Step(m, TypeRange, mc)
           D == Len(mc.stack)
           F == mc.stack[D]
           I == Current(m, mc)
           V(k) == Value(F.regs, I.args[k])
           variable == IF I.args[1] \in m.pointers THEN mc.mem[V(1)] ELSE V(1)
           at(d, g, r) == [mc EXCEPT !.stack[d] = [g EXCEPT !.regs = r, !.pos = g.pos + 1]]
           to(d, g, p) == [mc EXCEPT !.stack[d] = [g EXCEPT !.from = g.pos, !.pos = p]]
           done(v) == [mc EXCEPT !.status = "returned", !.result = v]
<1>1. /\ Len(mc.stack) = 1 /\ mc.stack[1] = f /\ mc.mem = m.globals /\ Current(m, mc) = i
      /\ \A g : [mc EXCEPT !.stack[1] = g] = [stack |-> <<g>>, mem |-> m.globals, status |-> st, result |-> res]
      /\ \A why : Halt(mc, why) = Mach(m, pos, from, regs, why, res)
      /\ \A v : done(v) = Mach(m, pos, from, regs, "returned", v)
  <2>1. /\ Len(mc.stack) = 1 /\ mc.stack[1] = f /\ mc.mem = m.globals /\ Current(m, mc) = i
    <3> HIDE DEF mc, f, i
    <3> QED BY MachineReads DEF mc, f, i
  <2>2. ASSUME NEW g PROVE [mc EXCEPT !.stack[1] = g] =
                              [stack |-> <<g>>, mem |-> m.globals, status |-> st, result |-> res]
    BY MachineWrites
  <2>3. ASSUME NEW why PROVE Halt(mc, why) = Mach(m, pos, from, regs, why, res)
    BY MachineHalts
  <2>4. ASSUME NEW v PROVE done(v) = Mach(m, pos, from, regs, "returned", v)
    <3>1. [mc EXCEPT !.status = "returned"] = Mach(m, pos, from, regs, "returned", res)
      BY DEF Mach
    <3>2. [Mach(m, pos, from, regs, "returned", res) EXCEPT !.result = v] =
             Mach(m, pos, from, regs, "returned", v)
      BY DEF Mach
    <3> QED BY <3>1, <3>2
  <2> HIDE DEF mc, f, done
  <2> QED BY <2>1, <2>2, <2>3, <2>4
<1>2. f.fn = m.entry /\ f.pos = pos /\ f.from = from /\ f.regs = regs
  BY DEF Act
<1>3. \A r : at(1, f, r) = Mach(m, pos + 1, from, r, st, res)
  <2>1. ASSUME NEW r PROVE [f EXCEPT !.regs = r, !.pos = f.pos + 1] = Act(m, pos + 1, from, r)
    <3>1. [f EXCEPT !.regs = r] = Act(m, pos, from, r)
      BY DEF Act
    <3>2. [Act(m, pos, from, r) EXCEPT !.pos = pos + 1] = Act(m, pos + 1, from, r)
      BY DEF Act
    <3> QED BY <1>2, <3>1, <3>2
  <2> HIDE DEF f
  <2> QED BY <1>1, <2>1 DEF Mach
<1>4. \A p : to(1, f, p) = Mach(m, p, pos, regs, st, res)
  <2>1. ASSUME NEW p PROVE [f EXCEPT !.from = f.pos, !.pos = p] = Act(m, p, pos, regs)
    <3>1. [f EXCEPT !.from = pos] = Act(m, pos, pos, regs)
      BY DEF Act
    <3>2. [Act(m, pos, pos, regs) EXCEPT !.pos = p] = Act(m, p, pos, regs)
      BY DEF Act
    <3> QED BY <1>2, <3>1, <3>2
  <2> HIDE DEF f
  <2> QED BY <1>1, <2>1 DEF Mach
<1>5. ASSUME I.op = "dbg"
      PROVE  next = IF I.name \in DOMAIN TypeRange /\ ~In(variable, TypeRange[I.name])
                    THEN Halt(mc, "outOfSpecification") ELSE at(D, F, F.regs)
  <2>1. I.op \notin Defining
    <3> HIDE DEF I
    <3> QED BY <1>5 DEF Defining
  <2> QED BY <1>5, <2>1, Zenon DEF Step
<1>6. ASSUME I.op = "rem", V(2) = 0 PROVE next = Halt(mc, "undefined")
  BY <1>6, Zenon DEF Step
<1>7. ASSUME I.op \in Defining, ~(I.op = "rem" /\ V(2) = 0)
      PROVE  next = at(D, F, Update(F.regs, I.dst, Result(mc, F, I)))
  <2>1. I.op \notin {"dbg", "store", "br", "erased", "call", "ret"}
    <3> HIDE DEF I
    <3> QED BY <1>7 DEF Defining
  <2> QED BY <1>7, <2>1, Zenon DEF Step
<1>8. ASSUME I.op = "br" PROVE next = to(D, F, I.at[IF Len(I.at) = 1 \/ V(1) # 0 THEN 1 ELSE 2])
  <2>1. I.op \notin Defining
    <3> HIDE DEF I
    <3> QED BY <1>8 DEF Defining
  <2> QED BY <1>8, <2>1, Zenon DEF Step
<1>9. ASSUME I.op = "erased" PROVE next = at(D, F, F.regs)
  <2>1. I.op \notin Defining
    <3> HIDE DEF I
    <3> QED BY <1>9 DEF Defining
  <2> QED BY <1>9, <2>1, Zenon DEF Step
<1>10. ASSUME I.op = "ret", D = 1 PROVE next = done(IF I.args = <<>> THEN 0 ELSE V(1))
  <2>1. I.op \notin Defining
    <3> HIDE DEF I
    <3> QED BY <1>10 DEF Defining
  <2> QED BY <1>10, <2>1, Zenon DEF Step
<1>11. D = 1 /\ F = f /\ I = i /\ \A k : V(k) = val(k)
  <2>1. D = 1 /\ F = f /\ I = i
    BY <1>1, Zenon
  <2> QED BY <1>2, <2>1, Zenon
<1> DEFINE where == IF i.args[1] \in m.pointers THEN m.globals[val(1)] ELSE val(1)
<1>12. variable = where
  BY <1>1, <1>11, Zenon
<1> HIDE DEF mc, next, at, to, done, variable, where, D, F, I, V, f
<1>13. i.op = "dbg" =>
         IF i.name \in DOMAIN TypeRange /\ ~In(where, TypeRange[i.name])
         THEN next = Mach(m, pos, from, regs, "outOfSpecification", res)
         ELSE next = Mach(m, pos + 1, from, regs, st, res)
  BY <1>1, <1>2, <1>3, <1>5, <1>11, <1>12
<1>14. i.op = "rem" /\ val(2) = 0 => next = Mach(m, pos, from, regs, "undefined", res)
  BY <1>1, <1>6, <1>11
<1>15. i.op \in Defining /\ ~(i.op = "rem" /\ val(2) = 0) =>
          next = Mach(m, pos + 1, from, Update(regs, i.dst, Result(mc, f, i)), st, res)
  BY <1>2, <1>3, <1>7, <1>11
<1>16. i.op = "br" =>
          next = Mach(m, i.at[IF Len(i.at) = 1 \/ val(1) # 0 THEN 1 ELSE 2], pos, regs, st, res)
  BY <1>2, <1>4, <1>8, <1>11
<1>17. i.op = "erased" => next = Mach(m, pos + 1, from, regs, st, res)
  BY <1>2, <1>3, <1>9, <1>11
<1>18. i.op = "ret" =>
          next = Mach(m, pos, from, regs, "returned", IF i.args = <<>> THEN 0 ELSE val(1))
  <2> DEFINE v == IF i.args = <<>> THEN 0 ELSE val(1)
  <2>1. i.op = "ret" => next = done(v)
    BY <1>10, <1>11
  <2> HIDE DEF v
  <2>2. i.op = "ret" => next = Mach(m, pos, from, regs, "returned", v)
    BY <1>1, <2>1, Zenon
  <2> QED BY <2>2 DEF v
<1> QED
  BY <1>13, <1>14, <1>15, <1>16, <1>17, <1>18, Zenon DEF mc, f, where, next, StepIs

\* the arms are the ones that keep the order, debug intrinsics come first
Follow(m) ==
    \A k \in DOMAIN EntryCode(m) :
        /\ KeepsOrder(EntryCode(m)[k])
        /\ EntryCode(m)[k].op = "dbg" =>
              \A j \in DOMAIN EntryCode(m) : EntryCode(m)[j].op = "br" => k < j

\* the entry of n is a sensor's, whose check is still to come
Ahead(m, born, n, pos) ==
    born[n] \in DOMAIN EntryCode(m) /\ EntryCode(m)[born[n]].op = "dbg" /\ born[n] >= pos

\* the registers a run has at a position
RegistersThere(m, avail, pos, from, regs) ==
    LET code == EntryCode(m)
    IN  /\ pos \in DOMAIN avail
        /\ \A n \in DOMAIN regs : regs[n] \in Int /\ n \notin m.pointers /\ ~IsConstant(n)
        /\ avail[pos] \subseteq DOMAIN regs
        /\ code[pos].op = "phi" =>
              /\ from \in DOMAIN avail /\ code[from].op = "br" /\ Arrives(code, from, pos)
              /\ avail[from] \subseteq DOMAIN regs

\* a position that is reached is one of the function's
LEMMA PositionThere ==
    ASSUME NEW m, NEW avail, SelfContained(m, avail),
           NEW pos, NEW from, NEW regs, RegistersThere(m, avail, pos, from, regs)
    PROVE  pos \in DOMAIN EntryCode(m)
BY Zenon DEF SelfContained, Dominated, RegistersThere, EntryCode

Contained(m, b, born, pos, regs) ==
    \A n \in DOMAIN regs \cap DOMAIN b : In(regs[n], b[n]) \/ Ahead(m, born, n, pos)

RunAt(m, avail, b, born, pos, from, regs) ==
    RegistersThere(m, avail, pos, from, regs) /\ Contained(m, b, born, pos, regs)

\* where the entry of a register that is not a global comes from
LEMMA EntryOrigin ==
    ASSUME NEW m, WellFormed(m), NEW b, NEW born, NEW p, Explains(m, b, born, p),
           NEW n \in DOMAIN b, n \notin m.pointers
    PROVE  born[n] \in DOMAIN EntryCode(m) /\ Gave(m, b, born, EntryCode(m)[born[n]], born[n], n)
<1>1. DOMAIN m.globals \subseteq m.pointers
  BY DEF WellFormed
<1> QED BY <1>1, Zenon DEF Explains

\* a register's entry is inferred at its definition, or a sensor's after it
LEMMA DefinitionOrigin ==
    ASSUME NEW m, WellFormed(m), SingleAssignment(m), NEW b, NEW born, NEW p, Explains(m, b, born, p),
           NEW k \in DOMAIN EntryCode(m), EntryCode(m)[k].op \in Defining,
           EntryCode(m)[k].dst \in DOMAIN b
    PROVE  LET i == EntryCode(m)[k]
           IN  \/ Ahead(m, born, i.dst, k + 1)
               \/ /\ i.op \in Inferring /\ b[i.dst] \in Inferred(b, i)
                  /\ \A j \in DOMAIN i.args : IsConstant(i.args[j]) \/ born[i.args[j]] < k
<1> DEFINE code == EntryCode(m)  i == code[k]  n == i.dst  d == born[n]
<1>1. n \notin m.pointers
  BY Zenon DEF SingleAssignment, EntryCode
<1>2. d \in DOMAIN code /\ Gave(m, b, born, code[d], d, n)
  BY <1>1, EntryOrigin
<1>3. DOMAIN code = 1 .. Len(code) /\ Len(code) \in Nat
  BY EntryShape
<1>4. CASE code[d].op = "dbg"
  <2>1. code[d].args[1] = n
    BY <1>2, <1>4, SMT DEF Gave, Inferring, BinaryOps, UnaryOps
  <2>2. k < d
    BY <1>2, <1>4, <2>1, Zenon DEF SingleAssignment, EntryCode
  <2>3. d >= k + 1
    <3> HIDE DEF d, code
    <3> QED BY <1>2, <1>3, <2>2, SMT DEF code
  <2> QED BY <1>2, <1>4, <2>3, Zenon DEF Ahead
<1>5. CASE code[d].op # "dbg"
  <2>1. /\ code[d].op \in Inferring /\ n = code[d].dst /\ b[n] \in Inferred(b, code[d])
        /\ \A j \in DOMAIN code[d].args : IsConstant(code[d].args[j]) \/ born[code[d].args[j]] < d
    BY <1>2, <1>5, Zenon DEF Gave
  <2>2. code[d].op \in Defining
    <3> HIDE DEF code, d
    <3> QED BY <2>1, SMT DEF Inferring, BinaryOps, UnaryOps, Defining
  <2>3. n \in DefinedBy(code[d])
    BY <2>1, <2>2, Zenon DEF DefinedBy
  <2>4. d = k
    BY <1>2, <2>3, Zenon DEF SingleAssignment, EntryCode
  <2> QED BY <2>1, <2>4, Zenon
<1> QED BY <1>4, <1>5

\* The operands of an instruction that is not a load have values.
LEMMA OperandValues ==
    ASSUME NEW m, NEW avail, WellFormed(m), SelfContained(m, avail),
           NEW pos, NEW from, NEW regs, RegistersThere(m, avail, pos, from, regs),
           LET i == EntryCode(m)[pos] IN i.op \notin {"load", "dbg", "phi"},
           NEW j \in DOMAIN EntryCode(m)[pos].args
    PROVE  LET v == EntryCode(m)[pos].args[j]
           IN  Value(regs, v) \in Int /\ (IsConstant(v) \/ v \in DOMAIN regs)
<1> DEFINE i == EntryCode(m)[pos]  v == i.args[j]
<1>1. IsConstant(v) \/ v \in avail[pos]
  <2>1. OperandsThere(m, i, pos, avail)
    BY Zenon DEF SelfContained, Dominated, RegistersThere, EntryCode
  <2> QED BY <2>1 DEF OperandsThere
<1>2. IsConstant(v) \/ v \in DOMAIN regs
  BY <1>1 DEF RegistersThere
<1>3. Value(regs, v) \in Int
  BY <1>2, ConstantAssumption DEF Value, IsConstant, RegistersThere
<1> QED BY <1>2, <1>3

\* A value with an entry made before the instruction is in its range.
LEMMA ValueIn ==
    ASSUME NEW m, WellFormed(m), NEW avail, SelfContained(m, avail),
           NEW b, NEW born, NEW p, Explains(m, b, born, p),
           NEW pos, NEW from, NEW regs, RunAt(m, avail, b, born, pos, from, regs),
           NEW v, IsConstant(v) \/ v \in DOMAIN regs, IsConstant(v) \/ born[v] < pos
    PROVE  /\ Value(regs, v) \in Int
           /\ \A r \in OperandRange(b, v) : r \in RangePairs /\ In(Value(regs, v), r)
<1>1. b \in Bounds
  BY DEF Explains
<1>2. OperandRange(b, v) \in SUBSET RangePairs
  BY <1>1, OperandType
<1>3. CASE IsConstant(v)
  <2>1. Value(regs, v) = ConstantValue[v] /\ ConstantValue[v] \in Int
    BY <1>3, ConstantAssumption DEF Value, IsConstant
  <2>2. OperandRange(b, v) = {Point(ConstantValue[v])}
    BY <1>3, Zenon DEF OperandRange
  <2>3. In(ConstantValue[v], Point(ConstantValue[v]))
    BY <2>1, SMT DEF In, Point, Pair
  <2> QED BY <1>2, <2>1, <2>2, <2>3
<1>4. CASE ~IsConstant(v)
  <2>1. v \in DOMAIN regs /\ Value(regs, v) = regs[v] /\ regs[v] \in Int
    BY <1>4, Zenon DEF Value, RunAt, RegistersThere
  <2>2. OperandRange(b, v) = IF v \in DOMAIN b THEN {b[v]} ELSE {}
    BY <1>4, Zenon DEF OperandRange
  <2>3. ASSUME v \in DOMAIN b PROVE In(regs[v], b[v])
    <3>1. ~Ahead(m, born, v, pos)
      <4>1. DOMAIN EntryCode(m) = 1 .. Len(EntryCode(m)) /\ Len(EntryCode(m)) \in Nat
        BY EntryShape
      <4>2. pos \in 1 .. Len(EntryCode(m)) /\ born[v] \in Nat
        BY <2>3, <4>1, PositionThere DEF RunAt, Explains
      <4>3. ~(born[v] >= pos)
        BY <1>4, <4>1, <4>2, SMT
      <4> QED BY <4>3, Zenon DEF Ahead
    <3> QED BY <2>1, <2>3, <3>1, Zenon DEF RunAt, Contained
  <2> QED BY <1>2, <2>1, <2>2, <2>3
<1> QED BY <1>3, <1>4

\* the operand a phi takes when the branch at position from came
Taken(i, from) == CHOOSE k \in DOMAIN i.args : i.at[k] = from

\* The value a phi takes is that of a branch that comes to its block.
LEMMA PhiOperand ==
    ASSUME NEW m, NEW avail, WellFormed(m), SelfContained(m, avail),
           NEW pos, NEW from, NEW regs, RegistersThere(m, avail, pos, from, regs),
           EntryCode(m)[pos].op = "phi"
    PROVE  LET i == EntryCode(m)[pos]  j == Taken(i, from)
           IN  /\ j \in DOMAIN i.args
               /\ IsConstant(i.args[j]) \/ i.args[j] \in DOMAIN regs
<1> DEFINE i == EntryCode(m)[pos]  j == Taken(i, from)
<1>1. \E k \in DOMAIN i.args : i.at[k] = from
  BY Zenon DEF SelfContained, PhisHeadBlocks, RegistersThere, EntryCode
<1>2. j \in DOMAIN i.args /\ i.at[j] = from
  BY <1>1 DEF Taken
<1>3. OperandsThere(m, i, pos, avail) /\ from \in DOMAIN avail /\ i.op = "phi"
  BY Zenon DEF SelfContained, Dominated, RegistersThere, EntryCode
<1> HIDE DEF j
<1>4. IsConstant(i.args[j]) \/ i.args[j] \in avail[from]
  <2>1. i.op # "load"
    BY <1>3
  <2> QED BY <1>2, <1>3, <2>1, Zenon DEF OperandsThere
<1> QED BY <1>2, <1>4 DEF RegistersThere, j

\* no constant has an entry
LEMMA ConstantsHaveNone ==
    ASSUME NEW m, WellFormed(m), NEW avail, SelfContained(m, avail),
           NEW b, NEW born, NEW p, Explains(m, b, born, p), NEW n \in DOMAIN b
    PROVE  ~IsConstant(n)
<1> DEFINE i == EntryCode(m)[born[n]]
<1>1. CASE n \in m.pointers
  BY <1>1, Zenon DEF SelfContained, SingleAssignment
<1>2. CASE n \notin m.pointers
  <2>1. born[n] \in DOMAIN EntryCode(m) /\ Gave(m, b, born, i, born[n], n)
    BY <1>2, EntryOrigin
  <2>2. CASE i.op = "dbg" /\ n = i.args[1]
    BY <2>1, <2>2, Zenon DEF SelfContained, OwnInstructions, EntryCode
  <2>3. CASE i.op \in Inferring /\ n = i.dst
    <3>1. i.op \in Defining
      <4> HIDE DEF i
      <4> QED BY <2>3, SMT DEF Inferring, BinaryOps, UnaryOps, Defining
    <3> QED BY <2>1, <2>3, <3>1, Zenon DEF SelfContained, SingleAssignment, EntryCode
  <2> QED BY <2>1, <2>2, <2>3, Zenon DEF Gave
<1> QED BY <1>1, <1>2

\* What an instruction computes is an integer, in the range its register has,
\* unless that range is a sensor's whose check is still to come.
LEMMA ResultIn ==
    ASSUME NEW m, NEW avail, WellFormed(m), SelfContained(m, avail), Follow(m),
           NEW b, NEW born, NEW p, Explains(m, b, born, p),
           NEW pos, NEW from, NEW regs, RunAt(m, avail, b, born, pos, from, regs),
           NEW mc, mc.mem = m.globals,
           LET i == EntryCode(m)[pos]
           IN  i.op \in Defining /\ ~(i.op = "rem" /\ Value(regs, i.args[2]) = 0)
    PROVE  LET i == EntryCode(m)[pos]
               x == Result(mc, Act(m, pos, from, regs), i)
           IN  /\ x \in Int
               /\ i.dst \in DOMAIN b => In(x, b[i.dst]) \/ Ahead(m, born, i.dst, pos + 1)
<1> DEFINE i == EntryCode(m)[pos]  f == Act(m, pos, from, regs)  x == Result(mc, f, i)
           val(k) == Value(regs, i.args[k])
<1>1. /\ pos \in DOMAIN EntryCode(m) /\ i.args \in Seq(Names) /\ KeepsOrder(i)
      /\ i.op \in BinaryOps \/ i.op = "icmp" => DOMAIN i.args = 1 .. 2
      /\ i.op \in UnaryOps => DOMAIN i.args = 1 .. 1
      /\ SingleAssignment(m) /\ b \in Bounds /\ RegistersThere(m, avail, pos, from, regs)
      /\ pos \in DOMAIN avail
  BY EntryShape, PositionThere, Zenon DEF RunAt, RegistersThere, Follow, SelfContained, Explains
<1>2. f.regs = regs /\ f.from = from
  BY DEF Act
<1>3. i.dst \in DOMAIN b =>
         \/ Ahead(m, born, i.dst, pos + 1)
         \/ /\ i.op \in Inferring /\ b[i.dst] \in Inferred(b, i)
            /\ \A j \in DOMAIN i.args : IsConstant(i.args[j]) \/ born[i.args[j]] < pos
  BY <1>1, DefinitionOrigin
<1> HIDE DEF f
<1>4. CASE i.op \in BinaryOps
  <2>1. /\ 1 \in DOMAIN i.args /\ 2 \in DOMAIN i.args
        /\ i.op \notin {"load", "dbg", "phi"}
    BY <1>1, <1>4, SMT DEF BinaryOps
  <2>2. /\ val(1) \in Int /\ val(2) \in Int
        /\ IsConstant(i.args[1]) \/ i.args[1] \in DOMAIN regs
        /\ IsConstant(i.args[2]) \/ i.args[2] \in DOMAIN regs
    BY <1>1, <2>1, OperandValues
  <2>3. x \in Int
    <3>1. \/ i.op = "add" /\ x = val(1) + val(2)
          \/ i.op = "sub" /\ x = val(1) - val(2)
          \/ i.op = "mul" /\ x = val(1) * val(2)
          \/ i.op = "rem" /\ x = ExecRem(val(1), val(2)) /\ val(2) # 0
      <4>1. i.op = "add" \/ i.op = "sub" \/ i.op = "mul" \/ i.op = "rem"
        BY <1>4 DEF BinaryOps
      <4> QED BY <1>2, <4>1, Zenon DEF Result
    <3>2. \A u, v \in Int : v # 0 => ExecRem(u, v) \in Int
      BY SMT DEF ExecRem, Abs
    <3> HIDE DEF x, val
    <3>3. \A u, v \in Int : u + v \in Int /\ u - v \in Int /\ u * v \in Int
      BY SMT
    <3> QED BY <2>2, <3>1, <3>2, <3>3, Zenon
  <2>4. ASSUME i.dst \in DOMAIN b, b[i.dst] \in Inferred(b, i),
               \A j \in DOMAIN i.args : IsConstant(i.args[j]) \/ born[i.args[j]] < pos
        PROVE  In(x, b[i.dst])
    <3>1. OperandIn(b, regs, i.args[1]) /\ OperandIn(b, regs, i.args[2])
      BY <2>1, <2>2, <2>4, ValueIn, Zenon DEF OperandIn
    <3>2. b[i.dst] \in InferBinary(b, i)
      BY <1>4, <2>4, Zenon DEF Inferred
    <3>3. i.op = "rem" => Value(f.regs, i.args[2]) # 0
      BY <1>2, Zenon
    <3> QED BY <1>1, <1>2, <1>4, <3>1, <3>2, <3>3, BinaryIn
  <2> QED BY <1>3, <2>3, <2>4, Zenon DEF f
<1>5. CASE i.op \in UnaryOps /\ i.op # "load"
  <2>1. 1 \in DOMAIN i.args /\ i.op \notin {"load", "dbg", "phi"} /\ i.op \notin BinaryOps
    BY <1>1, <1>5, SMT DEF UnaryOps, BinaryOps
  <2>2. val(1) \in Int /\ (IsConstant(i.args[1]) \/ i.args[1] \in DOMAIN regs)
    BY <1>1, <2>1, OperandValues
  <2>3. x \in Int
    <3>1. \/ x = val(1) \/ x = -val(1) \/ x = Abs(val(1)) \/ x = ExecSin(val(1))
      <4>1. i.op = "cast" \/ i.op = "fneg" \/ i.op = "math"
        BY <1>5 DEF UnaryOps
      <4> QED BY <1>2, <4>1, Zenon DEF Result
    <3>2. \A u \in Int : -u \in Int /\ Abs(u) \in Int /\ ExecSin(u) \in Int
      BY SMT DEF ExecSin, Abs
    <3> HIDE DEF x, val
    <3> QED BY <2>2, <3>1, <3>2
  <2>4. ASSUME i.dst \in DOMAIN b, b[i.dst] \in Inferred(b, i),
               \A j \in DOMAIN i.args : IsConstant(i.args[j]) \/ born[i.args[j]] < pos
        PROVE  In(x, b[i.dst])
    <3>1. b[i.dst] \in InferUnary(b, i)
      BY <1>5, <2>1, <2>4, Zenon DEF Inferred
    <3>2. i.args[1] \in DOMAIN b =>
             b[i.args[1]] \in RangePairs /\ Value(f.regs, i.args[1]) \in Int /\ In(Value(f.regs, i.args[1]), b[i.args[1]])
      <4>1. ASSUME i.args[1] \in DOMAIN b, ~IsConstant(i.args[1])
            PROVE  b[i.args[1]] \in OperandRange(b, i.args[1])
        BY <4>1, Zenon DEF OperandRange
      <4>2. ASSUME i.args[1] \in DOMAIN b, IsConstant(i.args[1]) PROVE FALSE
          BY <4>2, ConstantsHaveNone
      <4>3. \A r \in OperandRange(b, i.args[1]) : r \in RangePairs /\ In(val(1), r)
        BY <2>1, <2>2, <2>4, ValueIn, Zenon
      <4> QED BY <1>2, <2>2, <4>1, <4>2, <4>3, Zenon
    <3> QED BY <1>1, <1>2, <1>5, <3>1, <3>2, UnaryIn
  <2> QED BY <1>3, <2>3, <2>4, Zenon DEF f
<1>6. CASE i.op = "load"
  <2> DEFINE v == i.args[1]
  <2>1. v \in DOMAIN m.globals
    <3>1. OperandsThere(m, i, pos, avail)
      BY <1>1, Zenon DEF SelfContained, Dominated, EntryCode
    <3> QED BY <1>6, <3>1, Zenon DEF OperandsThere
  <2>2. v \in m.pointers /\ m.globals[v] \in Int
    BY <2>1 DEF WellFormed
  <2>3. ~IsConstant(v) /\ v \notin DOMAIN regs
    BY <1>1, <2>2, Zenon DEF SingleAssignment, RegistersThere
  <2>4. val(1) = v
    BY <2>3, Zenon DEF Value
  <2>5. x = m.globals[v]
    BY <1>2, <1>6, <2>4, Zenon DEF Result
  <2>6. ASSUME i.dst \in DOMAIN b, b[i.dst] \in Inferred(b, i) PROVE In(x, b[i.dst])
    <3>1. i.op \in UnaryOps /\ i.op \notin BinaryOps
      BY <1>6, SMT DEF UnaryOps, BinaryOps
    <3>2. b[i.dst] \in InferUnary(b, i)
      BY <2>6, <3>1, Zenon DEF Inferred
    <3>3. v \in DOMAIN b /\ b[v] = Point(m.globals[v]) /\ b[v] \in RangePairs
      BY <1>1, <2>1, UseBounds, Zenon DEF Explains
    <3>4. In(m.globals[v], Point(m.globals[v]))
      BY <2>2, SMT DEF In, Point, Pair
    <3>5. mc.mem[Value(f.regs, v)] = m.globals[v]
      BY <1>2, <2>4, Zenon
    <3> QED BY <1>1, <1>6, <2>2, <3>1, <3>2, <3>3, <3>4, <3>5, UnaryIn
  <2> QED BY <1>3, <2>2, <2>5, <2>6, Zenon DEF f
<1>7. CASE i.op = "icmp"
  <2>1. x = IF Holds(i.name, val(1), val(2)) THEN 1 ELSE 0
    BY <1>2, <1>7, Zenon DEF Result
  <2>2. x \in Int
    <3> HIDE DEF x, val
    <3> QED BY <2>1, SMT
  <2>3. i.op \notin Inferring
    BY <1>7, SMT DEF Inferring, UnaryOps, BinaryOps
  <2> QED BY <1>3, <2>2, <2>3, Zenon DEF f
<1>8. CASE i.op = "phi"
  <2> DEFINE j == Taken(i, from)
  <2>1. j \in DOMAIN i.args /\ (IsConstant(i.args[j]) \/ i.args[j] \in DOMAIN regs)
    BY <1>1, <1>8, PhiOperand, Zenon
  <2>2. x = val(j)
    BY <1>2, <1>8, Zenon DEF Result, Taken
  <2> HIDE DEF j
  <2>3. val(j) \in Int
    <3>1. IsConstant(i.args[j]) => ConstantValue[i.args[j]] \in Int
      BY ConstantAssumption DEF IsConstant
    <3>2. i.args[j] \in DOMAIN regs => regs[i.args[j]] \in Int
      BY <1>1, Zenon DEF RegistersThere
    <3> QED BY <2>1, <3>1, <3>2, Zenon DEF Value
  <2>4. ASSUME i.dst \in DOMAIN b, b[i.dst] \in Inferred(b, i),
               \A k \in DOMAIN i.args : IsConstant(i.args[k]) \/ born[i.args[k]] < pos
        PROVE  In(x, b[i.dst])
    <3>1. b[i.dst] \in InferPhi(b, i)
      BY <1>8, <2>4, SMT DEF Inferred, BinaryOps, UnaryOps
    <3>2. \A r \in OperandRange(b, i.args[j]) : In(val(j), r)
      BY <2>1, <2>4, ValueIn, Zenon
    <3> QED BY <1>1, <2>1, <2>2, <2>3, <3>1, <3>2, PhiIn
  <2> QED BY <1>3, <2>2, <2>3, <2>4, Zenon DEF f
<1>9. i.op \in BinaryOps \/ (i.op \in UnaryOps /\ i.op # "load") \/ i.op = "load" \/ i.op = "icmp" \/ i.op = "phi"
  <2> HIDE DEF i
  <2>1. i.op \in Defining
    BY DEF i
  <2> QED BY <2>1, SMT DEF Defining, BinaryOps, UnaryOps
<1> QED BY <1>4, <1>5, <1>6, <1>7, <1>8, <1>9

\* Behind an instruction that does not branch, the registers that the code
\* there needs are defined.
LEMMA NextPosition ==
    ASSUME NEW m, NEW avail, WellFormed(m), SelfContained(m, avail),
           NEW pos, NEW from, NEW regs, RegistersThere(m, avail, pos, from, regs),
           EntryCode(m)[pos].op \in Defining \cup {"dbg", "erased"},
           NEW later, DOMAIN later = DOMAIN regs \cup DefinedBy(EntryCode(m)[pos]),
           \A n \in DOMAIN later : later[n] \in Int /\ n \notin m.pointers /\ ~IsConstant(n)
    PROVE  RegistersThere(m, avail, pos + 1, from, later)
<1> DEFINE code == EntryCode(m)  i == code[pos]
<1>1. /\ pos \in DOMAIN code /\ DOMAIN code = 1 .. Len(code) /\ Len(code) \in Nat
      /\ pos \in DOMAIN avail /\ DOMAIN avail \subseteq DOMAIN code
      /\ avail[pos] \subseteq DOMAIN regs
  BY EntryShape, PositionThere, Zenon DEF RegistersThere, SelfContained, Dominated, EntryCode
<1>2. i.op # "br" /\ i.op # "ret"
  <2> HIDE DEF i
  <2>1. i.op \in Defining \cup {"dbg", "erased"}
    BY DEF i
  <2> QED BY <2>1, SMT DEF Defining
<1>3. Successors(code, pos) = {pos + 1}
  BY <1>2, Zenon DEF Successors
<1>4. pos + 1 \in DOMAIN avail /\ avail[pos + 1] \subseteq avail[pos] \cup DefinedBy(i)
  <2>1. pos + 1 \in Successors(code, pos)
    BY <1>3
  <2> QED BY <1>1, <2>1, Zenon DEF SelfContained, Dominated, EntryCode
<1>5. ASSUME code[pos + 1].op = "phi"
      PROVE  /\ from \in DOMAIN avail /\ code[from].op = "br" /\ Arrives(code, from, pos + 1)
             /\ avail[from] \subseteq DOMAIN later
  <2>1. pos + 1 \in Successors(code, pos)
    BY <1>3
  <2>2. i.op = "br" \/ i.op = "phi"
    BY <1>1, <1>4, <1>5, <2>1, Zenon DEF SelfContained, PhisHeadBlocks, EntryCode
  <2>3. i.op = "phi"
    BY <1>2, <2>2
  <2>4. from \in DOMAIN avail /\ code[from].op = "br" /\ Arrives(code, from, pos) /\ avail[from] \subseteq DOMAIN regs
    BY <2>3, Zenon DEF RegistersThere
  <2>5. PICK t \in Successors(code, from) : t <= pos /\ \A j \in t .. pos : code[j].op = "phi"
    BY <2>4, Zenon DEF Arrives
  <2>6. t \in DOMAIN code
    BY <1>1, <2>4, <2>5, Zenon DEF SelfContained, Dominated, EntryCode
  <2>7. t <= pos + 1 /\ \A j \in t .. pos + 1 : code[j].op = "phi"
    <3>1. \A j \in t .. pos + 1 : j \in t .. pos \/ j = pos + 1
      BY <1>1, <2>6, SMT
    <3>2. t <= pos + 1
      BY <1>1, <2>5, <2>6, SMT
    <3> QED BY <1>5, <2>5, <3>1, <3>2, Zenon
  <2>8. Arrives(code, from, pos + 1)
    BY <2>7, Zenon DEF Arrives
  <2> QED BY <2>4, <2>8
<1> QED BY <1>1, <1>4, <1>5, Zenon DEF RegistersThere

\* At the target of a branch they are, too.
LEMMA BranchPosition ==
    ASSUME NEW m, NEW avail, WellFormed(m), SelfContained(m, avail),
           NEW pos, NEW from, NEW regs, RegistersThere(m, avail, pos, from, regs),
           EntryCode(m)[pos].op = "br", NEW t \in Successors(EntryCode(m), pos)
    PROVE  RegistersThere(m, avail, t, pos, regs)
<1> DEFINE code == EntryCode(m)
<1>1. pos \in DOMAIN avail /\ avail[pos] \subseteq DOMAIN regs /\ DOMAIN avail \subseteq DOMAIN code
  BY Zenon DEF RegistersThere, SelfContained, Dominated, EntryCode
<1>2. t \in DOMAIN avail /\ avail[t] \subseteq avail[pos] \cup DefinedBy(code[pos])
  BY <1>1, Zenon DEF SelfContained, Dominated, EntryCode
<1>3. DefinedBy(code[pos]) = {}
  BY SMT DEF DefinedBy, Defining
<1>4. code[t].op = "phi" => Arrives(code, pos, t)
  <2>1. t \in Int
    BY <1>1, <1>2, EntryShape
  <2>2. t <= t /\ \A j \in t .. t : j = t
    BY <2>1, SMT
  <2> QED BY <2>2, Zenon DEF Arrives
<1>5. avail[t] \subseteq DOMAIN regs
  BY <1>1, <1>2, <1>3
<1> QED BY <1>1, <1>2, <1>4, <1>5, Zenon DEF RegistersThere

\* a sensor's check that was still to come is behind the next instruction, too,
\* unless this is its check
LEMMA StillAhead ==
    ASSUME NEW m, WellFormed(m), NEW born, NEW n, NEW pos \in DOMAIN EntryCode(m), Ahead(m, born, n, pos)
    PROVE  Ahead(m, born, n, pos + 1) \/ (born[n] = pos /\ EntryCode(m)[pos].op = "dbg")
<1>1. DOMAIN EntryCode(m) = 1 .. Len(EntryCode(m)) /\ Len(EntryCode(m)) \in Nat
  BY EntryShape
<1>2. \A d, q \in 1 .. Len(EntryCode(m)) : d >= q => d >= q + 1 \/ d = q
  BY <1>1, SMT
<1> QED BY <1>1, <1>2, Zenon DEF Ahead

\* A step of the run keeps its registers contained: the operands are, and the
\* range of the result was inferred from entries made before.
LEMMA RunStep ==
    ASSUME NEW m, NEW avail, WellFormed(m), SelfContained(m, avail), Follow(m),
           NEW b, NEW born, NEW p, Explains(m, b, born, p),
           NEW pos, NEW from, NEW regs, RunAt(m, avail, b, born, pos, from, regs),
           NEW st, NEW res
    PROVE  \E pos2, from2, regs2, st2, res2 :
              /\ Step(m, TypeRange, Mach(m, pos, from, regs, st, res)) = Mach(m, pos2, from2, regs2, st2, res2)
              /\ RunAt(m, avail, b, born, pos2, from2, regs2)
<1> DEFINE code == EntryCode(m)  i == code[pos]  f == Act(m, pos, from, regs)
           mc == Mach(m, pos, from, regs, st, res)
           next == Step(m, TypeRange, mc)
           val(k) == Value(regs, i.args[k])
           Goal == \E pos2, from2, regs2, st2, res2 :
                      next = Mach(m, pos2, from2, regs2, st2, res2) /\ RunAt(m, avail, b, born, pos2, from2, regs2)
<1>1. /\ pos \in DOMAIN code /\ DOMAIN code = 1 .. Len(code) /\ Len(code) \in Nat
      /\ RegistersThere(m, avail, pos, from, regs) /\ SingleAssignment(m)
      /\ \A n \in DOMAIN regs : regs[n] \in Int /\ n \notin m.pointers /\ ~IsConstant(n)
      /\ \A n \in DOMAIN regs \cap DOMAIN b : In(regs[n], b[n]) \/ Ahead(m, born, n, pos)
      /\ i.op \in Defining \cup {"dbg", "br", "ret", "erased"}
  BY EntryShape, PositionThere, Zenon DEF RunAt, RegistersThere, Contained, SelfContained, OwnInstructions, EntryCode
<1>2. mc.mem = m.globals
  BY MachineReads
<1> DEFINE variable == IF i.args[1] \in m.pointers THEN m.globals[val(1)] ELSE val(1)
<1>10. /\ i.op = "dbg" =>
            IF i.name \in DOMAIN TypeRange /\ ~In(variable, TypeRange[i.name])
            THEN next = Mach(m, pos, from, regs, "outOfSpecification", res)
            ELSE next = Mach(m, pos + 1, from, regs, st, res)
       /\ i.op = "rem" /\ val(2) = 0 => next = Mach(m, pos, from, regs, "undefined", res)
       /\ i.op \in Defining /\ ~(i.op = "rem" /\ val(2) = 0) =>
            next = Mach(m, pos + 1, from, Update(regs, i.dst, Result(mc, f, i)), st, res)
       /\ i.op = "br" =>
            next = Mach(m, i.at[IF Len(i.at) = 1 \/ val(1) # 0 THEN 1 ELSE 2], pos, regs, st, res)
       /\ i.op = "erased" => next = Mach(m, pos + 1, from, regs, st, res)
       /\ i.op = "ret" =>
            next = Mach(m, pos, from, regs, "returned", IF i.args = <<>> THEN 0 ELSE val(1))
  <2>1. StepIs(m, pos, from, regs, st, res, next)
    BY OneStep
  <2> HIDE DEF next
  <2> QED BY <2>1 DEF StepIs
<1> SUFFICES Goal
  BY Zenon
<1> HIDE DEF mc, next
<1>3. CASE i.op \in Defining /\ ~(i.op = "rem" /\ val(2) = 0)
  <2> DEFINE x == Result(mc, f, i)  later == Update(regs, i.dst, x)
  <2>1. next = Mach(m, pos + 1, from, later, st, res)
    BY <1>3, <1>10, Zenon
  <2>2. x \in Int /\ (i.dst \in DOMAIN b => In(x, b[i.dst]) \/ Ahead(m, born, i.dst, pos + 1))
    BY <1>2, <1>3, ResultIn, Zenon
  <2> HIDE DEF x
  <2>3. /\ DOMAIN later = DOMAIN regs \cup {i.dst} /\ later[i.dst] = x
        /\ \A n \in DOMAIN regs : n # i.dst => later[n] = regs[n]
    BY DEF Update
  <2>4. DefinedBy(i) = {i.dst} /\ i.dst \notin m.pointers /\ ~IsConstant(i.dst)
    BY <1>1, <1>3, Zenon DEF DefinedBy, SingleAssignment, EntryCode
  <2> HIDE DEF later
  <2>5. RegistersThere(m, avail, pos + 1, from, later)
    BY <1>1, <1>3, <2>2, <2>3, <2>4, NextPosition
  <2>6. Contained(m, b, born, pos + 1, later)
    <3> SUFFICES ASSUME NEW n \in DOMAIN later \cap DOMAIN b
                 PROVE  In(later[n], b[n]) \/ Ahead(m, born, n, pos + 1)
      BY DEF Contained
    <3>1. i.op # "dbg"
      <4> HIDE DEF i
      <4> QED BY <1>3, SMT DEF Defining
    <3>2. n # i.dst => In(regs[n], b[n]) \/ Ahead(m, born, n, pos + 1)
      BY <1>1, <2>3, <3>1, StillAhead
    <3> QED BY <2>2, <2>3, <3>2
  <2>7. RunAt(m, avail, b, born, pos + 1, from, later)
    BY <2>5, <2>6 DEF RunAt
  <2> QED BY <2>1, <2>7, Zenon
<1>4. CASE i.op = "rem" /\ val(2) = 0
  BY <1>4, <1>10, Zenon
<1>5. CASE i.op = "erased"
  <2>1. next = Mach(m, pos + 1, from, regs, st, res)
    BY <1>5, <1>10, Zenon
  <2>2. DefinedBy(i) = {}
    BY <1>5, SMT DEF DefinedBy, Defining
  <2>3. RegistersThere(m, avail, pos + 1, from, regs)
    BY <1>1, <1>5, <2>2, NextPosition
  <2>4. Contained(m, b, born, pos + 1, regs)
    BY <1>1, <1>5, StillAhead DEF Contained
  <2> QED BY <2>1, <2>3, <2>4, Zenon DEF RunAt
<1>6. CASE i.op = "ret"
  BY <1>6, <1>10, Zenon
<1>7. CASE i.op = "dbg"
  <2>1. CASE i.name \in DOMAIN TypeRange /\ ~In(variable, TypeRange[i.name])
    <3>1. next = Mach(m, pos, from, regs, "outOfSpecification", res)
      BY <1>7, <2>1, <1>10, Zenon
    <3> QED BY <3>1, Zenon
  <2>2. CASE ~(i.name \in DOMAIN TypeRange /\ ~In(variable, TypeRange[i.name]))
    <3>1. next = Mach(m, pos + 1, from, regs, st, res)
      BY <1>7, <2>2, <1>10, Zenon
    <3>2. DefinedBy(i) = {}
      BY <1>7, SMT DEF DefinedBy, Defining
    <3>3. RegistersThere(m, avail, pos + 1, from, regs)
      BY <1>1, <1>7, <3>2, NextPosition
    <3>4. Contained(m, b, born, pos + 1, regs)
      <4> SUFFICES ASSUME NEW n \in DOMAIN regs \cap DOMAIN b, ~Ahead(m, born, n, pos + 1)
                   PROVE  In(regs[n], b[n])
        BY DEF Contained
      <4>1. CASE born[n] = pos
        <5>1. Gave(m, b, born, i, pos, n)
          BY <1>1, <4>1, EntryOrigin
        <5>2. i.op \notin Inferring
          BY <1>7, SMT DEF Inferring, BinaryOps, UnaryOps
        <5>3. n = i.args[1] /\ i.name \in DOMAIN TypeRange /\ b[n] = TypeRange[i.name]
          BY <5>1, <5>2, Zenon DEF Gave
        <5>4. variable = regs[n]
          BY <1>1, <5>3, Zenon DEF Value
        <5> QED BY <2>2, <5>3, <5>4, Zenon
      <4>2. CASE born[n] # pos
        BY <1>1, <4>2, StillAhead
      <4> QED BY <4>1, <4>2
    <3> QED BY <3>1, <3>3, <3>4, Zenon DEF RunAt
  <2> QED BY <2>1, <2>2
<1>8. CASE i.op = "br"
  <2> DEFINE t == i.at[IF Len(i.at) = 1 \/ val(1) # 0 THEN 1 ELSE 2]
  <2>1. next = Mach(m, t, pos, regs, st, res)
    BY <1>8, <1>10, Zenon
  <2>2. t \in Successors(code, pos)
    <3>1. i.at \in Seq(Nat) /\ Len(i.at) \in {1, 2}
      BY <1>1, <1>8, Zenon DEF SelfContained, OwnInstructions, EntryCode
    <3>2. (IF Len(i.at) = 1 \/ val(1) # 0 THEN 1 ELSE 2) \in DOMAIN i.at
      <4> HIDE DEF i, val
      <4> QED BY <3>1, SMT
    <3> QED BY <1>8, <3>2, Zenon DEF Successors
  <2>3. RegistersThere(m, avail, t, pos, regs)
    <3> HIDE DEF t
    <3> QED BY <1>1, <1>8, <2>2, BranchPosition
  <2>4. \A n : ~Ahead(m, born, n, pos)
    <3> SUFFICES ASSUME NEW n, Ahead(m, born, n, pos) PROVE FALSE
      OBVIOUS
    <3>1. born[n] \in DOMAIN code /\ born[n] >= pos /\ born[n] < pos
      BY <1>1, <1>8, Zenon DEF Ahead, Follow
    <3> HIDE DEF code
    <3> QED BY <1>1, <3>1, SMT
  <2>5. Contained(m, b, born, t, regs)
    BY <1>1, <2>4, Zenon DEF Contained
  <2> QED BY <2>1, <2>3, <2>5, Zenon DEF RunAt
<1> QED BY <1>1, <1>3, <1>4, <1>5, <1>6, <1>7, <1>8

-----------------------------------------------------------------------------
(* The driver: what the first pass over the module keeps for the runs.     *)

\* the source module's entry function follows the rules that are proved
AnalysisKept ==
    /\ WellFormed(source)
    /\ phase = "analyse" => prog = source /\ (OwnInstructions(source) => WalkInv)
    /\ phase # "analyse" /\ OwnInstructions(source) =>
          Explained(source, sourceInfo[source.entry], Len(EntryCode(source)) + 1)

\* the run is one of the source module, and what it has is contained
Running(avail) ==
    \E born, pos, from, regs, st, res :
        /\ machine = Mach(source, pos, from, regs, st, res)
        /\ Explains(source, sourceInfo[source.entry], born, Len(EntryCode(source)) + 1)
        /\ RunAt(source, avail, sourceInfo[source.entry], born, pos, from, regs)

RunContained ==
    phase = "source" /\ Follow(source) =>
        \A avail : SelfContained(source, avail) => Running(avail)

DriverInv == AnalysisKept /\ RunContained

\* The driver starts with an analysis that has walked nothing.
LEMMA DriverStarts == OptInit => DriverInv
<1> SUFFICES ASSUME OptInit PROVE DriverInv
  OBVIOUS
<1>1. IInv /\ prog = source /\ phase = "analyse" /\ WellFormed(source)
  BY InitIInv, Zenon DEF OptInit, IInv, Shape
<1>2. todo = prog.order /\ stack = <<>> /\ DOMAIN funcBoundInfo = {}
  BY DEF OptInit, Init
<1>3. WalkExplained
  BY <1>2, Zenon DEF WalkExplained, Active
<1>4. EntryWalked
  BY <1>1, <1>2, Zenon DEF WellFormed, EntryWalked
<1> QED BY <1>1, <1>3, <1>4 DEF DriverInv, AnalysisKept, RunContained, WalkInv

\* the entry function's record, once everything is walked
LEMMA AnalysisRecorded ==
    ASSUME WalkInv, Analysed
    PROVE  Explained(prog, funcBoundInfo[prog.entry], Len(EntryCode(prog)) + 1)
<1>1. prog.entry \in DOMAIN funcBoundInfo
  BY SMT DEF WalkInv, EntryWalked, Analysed
<1> QED BY <1>1, Zenon DEF WalkInv, WalkExplained

\* A run starts with its parameters, which are contained once they are checked.
LEMMA RunStarts ==
    ASSUME NEW m, NEW avail, WellFormed(m), SelfContained(m, avail),
           NEW b, NEW born, NEW p, Explains(m, b, born, p),
           NEW regs \in [{m.body[m.entry].params[k] : k \in DOMAIN m.body[m.entry].params} -> Inputs]
    PROVE  RunAt(m, avail, b, born, 1, 0, regs)
<1> DEFINE code == EntryCode(m)  params == m.body[m.entry].params
<1>1. /\ DOMAIN regs = {params[k] : k \in DOMAIN params}
      /\ \A n \in DOMAIN regs : regs[n] \in Int
  BY InputsAssumption
<1>2. /\ DOMAIN code = 1 .. Len(code) /\ Len(code) \in Nat
      /\ SingleAssignment(m) /\ avail[1] \subseteq {params[k] : k \in DOMAIN params}
      /\ code[1].op # "phi"
  BY EntryShape, Zenon DEF SelfContained, Dominated, PhisHeadBlocks, EntryCode
<1>3. 1 \in DOMAIN avail
  BY Zenon DEF SelfContained, Dominated
<1>4. \A n \in DOMAIN regs : n \notin m.pointers /\ ~IsConstant(n)
  BY <1>1, <1>2, Zenon DEF SingleAssignment
<1>5. RegistersThere(m, avail, 1, 0, regs)
  BY <1>1, <1>2, <1>3, <1>4, Zenon DEF RegistersThere
<1>6. ASSUME NEW n \in DOMAIN regs \cap DOMAIN b PROVE Ahead(m, born, n, 1)
  <2>1. born[n] \in DOMAIN code /\ Gave(m, b, born, code[born[n]], born[n], n)
    BY <1>4, EntryOrigin
  <2>2. code[born[n]].op \in Defining => code[born[n]].dst # n
    BY <1>1, <1>2, <2>1, Zenon DEF SingleAssignment, EntryCode
  <2>3. Inferring \subseteq Defining
    BY SMT DEF Inferring, Defining, BinaryOps, UnaryOps
  <2>4. code[born[n]].op = "dbg"
    BY <2>1, <2>2, <2>3, Zenon DEF Gave
  <2>5. born[n] >= 1
    BY <1>2, <2>1, SMT
  <2> QED BY <2>1, <2>4, <2>5, Zenon DEF Ahead
<1> QED BY <1>5, <1>6, Zenon DEF RunAt, Contained

\* the machine that Start makes
LEMMA StartIs ==
    ASSUME NEW m, NEW regs
    PROVE  Start(m, regs) = Mach(m, 1, 0, regs, "running", 0)
BY DEF Start, Activation, Mach, Act

\* No step of the driver or of a run breaks the invariant.
LEMMA DriverStep == DriverInv /\ [OptNext]_allVars => DriverInv'
<1> SUFFICES ASSUME DriverInv, [OptNext]_allVars PROVE DriverInv'
  OBVIOUS
<1> USE DEF DriverInv
\* the two phases after which the analysis of the source is not touched
<1>1. ASSUME phase # "analyse", phase' # "analyse", source' = source, sourceInfo' = sourceInfo
      PROVE  AnalysisKept'
  BY <1>1, Zenon DEF AnalysisKept, EntryCode
<1>2. ASSUME phase' # "source" PROVE RunContained'
  BY <1>2, Zenon DEF RunContained
<1>3. ASSUME UNCHANGED allVars PROVE DriverInv'
  <2>1. UNCHANGED <<phase, source, sourceInfo, machine>> /\ UNCHANGED vars
    BY <1>3 DEF allVars, driverVars, runVars
  <2>2. RunContained'
    BY <2>1, Zenon DEF RunContained, Running
  <2>3. CASE phase = "analyse"
    <3>1. OwnInstructions(source) => WalkInv'
      BY <2>1, <2>3, WalkStep DEF AnalysisKept
    <3> QED BY <2>1, <2>2, <2>3, <3>1, Zenon DEF AnalysisKept, vars
  <2>4. CASE phase # "analyse"
    BY <1>1, <2>1, <2>2, <2>4
  <2> QED BY <2>3, <2>4
<1>4. ASSUME Analyse PROVE DriverInv'
  <2>1. phase' = phase /\ source' = source /\ sourceInfo' = sourceInfo /\ Next /\ phase # "source"
    BY <1>4 DEF Analyse, driverVars
  <2>2. CASE phase = "analyse"
    <3>1. OwnInstructions(source) => WalkInv' /\ prog' = prog
      BY <2>1, <2>2, WalkStep, ModuleStays DEF AnalysisKept, WalkInv
    <3>2. prog' = prog
      BY <2>1, ModuleStays
    <3> QED BY <1>2, <2>1, <2>2, <3>1, <3>2, Zenon DEF AnalysisKept
  <2>3. CASE phase # "analyse"
    BY <1>1, <1>2, <2>1, <2>3
  <2> QED BY <2>2, <2>3
<1>5. ASSUME BeginPass PROVE DriverInv'
  <2>1. source' = source /\ phase' # "analyse" /\ phase' # "source"
    BY <1>5 DEF BeginPass
  <2>2. CASE phase = "analyse"
    <3>1. sourceInfo' = funcBoundInfo /\ Analysed
      BY <1>5, <2>2 DEF BeginPass
    <3>2. OwnInstructions(source) =>
            Explained(source, sourceInfo'[source.entry], Len(EntryCode(source)) + 1)
      BY <2>2, <3>1, AnalysisRecorded DEF AnalysisKept
    <3> QED BY <1>2, <2>1, <3>2, Zenon DEF AnalysisKept
  <2>3. CASE phase # "analyse"
    <3>1. sourceInfo' = sourceInfo
      BY <1>5, <2>3 DEF BeginPass
    <3> QED BY <1>1, <1>2, <2>1, <2>3, <3>1
  <2> QED BY <2>2, <2>3
<1>6. ASSUME Simplify \/ Reanalyse \/ Substitute \/ SwitchRun \/ RunOutput PROVE DriverInv'
  <2>1. phase # "analyse" /\ phase' # "analyse" /\ phase' # "source"
        /\ source' = source /\ sourceInfo' = sourceInfo
    BY <1>6 DEF Simplify, Reanalyse, Substitute, SwitchRun, RunOutput, driverVars
  <2> QED BY <1>1, <1>2, <2>1
<1>7. ASSUME StartRuns PROVE DriverInv'
  <2>1. PICK regs \in [ParamsOf(source.entry) -> Inputs] : machine' = Start(source, regs)
    BY <1>7, Zenon DEF StartRuns
  <2>2. phase # "analyse" /\ phase' = "source" /\ source' = source /\ sourceInfo' = sourceInfo
    BY <1>7 DEF StartRuns
  <2>3. machine' = Mach(source, 1, 0, regs, "running", 0)
    BY <2>1, StartIs
  <2>4. ASSUME NEW avail, SelfContained(source, avail) PROVE Running(avail)'
    <3>1. PICK born : Explains(source, sourceInfo[source.entry], born, Len(EntryCode(source)) + 1)
      BY <2>2, <2>4, Zenon DEF AnalysisKept, Explained, SelfContained
    <3>2. RunAt(source, avail, sourceInfo[source.entry], born, 1, 0, regs)
      BY <2>1, <2>4, <3>1, RunStarts DEF AnalysisKept, ParamsOf
    <3> QED BY <2>2, <2>3, <3>1, <3>2, Zenon DEF Running
  <2>5. RunContained'
    BY <2>2, <2>4, Zenon DEF RunContained
  <2>6. AnalysisKept'
    BY <1>1, <2>2
  <2> QED BY <2>5, <2>6
<1>8. ASSUME RunSource PROVE DriverInv'
  <2>1. phase = "source" /\ phase' = phase /\ source' = source /\ sourceInfo' = sourceInfo
        /\ machine' = Step(source, TypeRange, machine)
    BY <1>8 DEF RunSource, driverVars
  <2>2. ASSUME NEW avail, SelfContained(source, avail), Follow(source) PROVE Running(avail)'
    <3> DEFINE b == sourceInfo[source.entry]
    <3>1. PICK born, pos, from, regs, st, res :
            /\ machine = Mach(source, pos, from, regs, st, res)
            /\ Explains(source, b, born, Len(EntryCode(source)) + 1)
            /\ RunAt(source, avail, b, born, pos, from, regs)
      BY <2>1, <2>2, Zenon DEF RunContained, Running
    <3>2. PICK pos2, from2, regs2, st2, res2 :
            /\ Step(source, TypeRange, machine) = Mach(source, pos2, from2, regs2, st2, res2)
            /\ RunAt(source, avail, b, born, pos2, from2, regs2)
      BY <2>2, <3>1, RunStep DEF AnalysisKept
    <3> QED BY <2>1, <3>1, <3>2, Zenon DEF Running
  <2>3. RunContained'
    BY <2>1, <2>2, Zenon DEF RunContained
  <2>4. AnalysisKept'
    BY <1>1, <2>1
  <2> QED BY <2>3, <2>4
<1> QED BY <1>3, <1>4, <1>5, <1>6, <1>7, <1>8, Zenon DEF OptNext

\* the shapes that are trusted are those that a run is followed through
LEMMA TrustedFollows ==
    ASSUME Trusted, WellFormed(source)
    PROVE  Follow(source)
<1> SUFFICES ASSUME NEW k \in DOMAIN EntryCode(source)
             PROVE  /\ KeepsOrder(EntryCode(source)[k])
                    /\ EntryCode(source)[k].op = "dbg" =>
                          \A j \in DOMAIN EntryCode(source) : EntryCode(source)[j].op = "br" => k < j
  BY DEF Follow
<1>1. source.entry \in Functions /\ CodeOf(source.entry) = EntryCode(source)
  BY EntryShape DEF Functions, CodeOf, EntryCode
<1>2. EntryCode(source)[k] \in AllInstrs
  BY <1>1 DEF AllInstrs, InstrsOf
<1>3. KeepsOrder(EntryCode(source)[k])
  BY <1>2, Zenon DEF Trusted, NoInvertingArm, KeepsOrder
<1>4. \A j \in DOMAIN EntryCode(source) :
          EntryCode(source)[k].op = "dbg" /\ EntryCode(source)[j].op \in {"br", "call"} => k < j
  BY <1>1, Zenon DEF Trusted, SeedsDominate
<1> QED BY <1>3, <1>4

\* Behind the checks of its sensors, a contained run has nothing left to excuse.
LEMMA InvariantContains ==
    DriverInv => (phase = "source" /\ (\E avail : SelfContained(source, avail)) => RangesContain)
<1> SUFFICES ASSUME DriverInv, phase = "source", NEW avail, SelfContained(source, avail),
                    Checked, Trusted
             PROVE  LET f == RunningFrame
                    IN  RegistersIn(f, sourceInfo[f.fn]) /\ RegistersIn(f, sourceInfo[source.entry])
  BY Zenon DEF RangesContain
<1> DEFINE b == sourceInfo[source.entry]
<1>1. Follow(source) /\ WellFormed(source)
  BY TrustedFollows DEF DriverInv, AnalysisKept
<1>2. PICK born, pos, from, regs, st, res :
        machine = Mach(source, pos, from, regs, st, res) /\ RunAt(source, avail, b, born, pos, from, regs)
  BY <1>1, Zenon DEF DriverInv, RunContained, Running
<1>3. RunningFrame = Act(source, pos, from, regs)
  BY <1>2, MachineReads DEF RunningFrame
<1>4. RunningFrame.fn = source.entry /\ RunningFrame.pos = pos /\ RunningFrame.regs = regs
  BY <1>3 DEF Act
<1>5. \A k \in DOMAIN EntryCode(source) : EntryCode(source)[k].op = "dbg" => k < pos
  BY <1>4 DEF Checked, CodeOf, EntryCode
<1>6. \A n : ~Ahead(source, born, n, pos)
  <2> SUFFICES ASSUME NEW n, Ahead(source, born, n, pos) PROVE FALSE
    OBVIOUS
  <2>1. born[n] \in DOMAIN EntryCode(source) /\ born[n] >= pos /\ born[n] < pos
    BY <1>5 DEF Ahead
  <2>2. pos \in Int /\ born[n] \in Int
    BY <1>1, <1>2, <2>1, EntryShape, PositionThere DEF RunAt
  <2> QED BY <2>1, <2>2, SMT
<1>7. \A n \in DOMAIN regs \cap DOMAIN b : In(regs[n], b[n])
  BY <1>2, <1>6, Zenon DEF RunAt, Contained
<1> QED BY <1>4, <1>7, Zenon DEF RegistersIn

\* In a run of a source module whose entry function is in SSA form and
\* neither calls nor stores, on any input its sensors allow, every register
\* is in the range the analysis has for it, whatever branches are taken.
THEOREM SourceRunsContained ==
    OptSpec => [](phase = "source" /\ (\E avail : SelfContained(source, avail)) => RangesContain)
BY DriverStarts, DriverStep, InvariantContains, PTL DEF OptSpec

-----------------------------------------------------------------------------
(* The rewritten module is as well formed as the one it was made from, up  *)
(* to the second analysis.                                                 *)

\* code of a function of m
CodeIn(m, code) == /\ code \in Seq({code[k] : k \in DOMAIN code})
                   /\ \A k \in 1 .. Len(code) : WellFormedInstr(m, code[k])

\* The functions of m, with other code.
LEMMA RewrittenModule ==
    ASSUME NEW m, WellFormed(m), NEW body, DOMAIN body = DOMAIN m.body,
           body = [fn \in DOMAIN body |-> body[fn]],
           \A fn \in DOMAIN body : /\ body[fn] = [params |-> body[fn].params, code |-> body[fn].code]
                                   /\ body[fn].params = m.body[fn].params
                                   /\ CodeIn(m, body[fn].code)
    PROVE  WellFormed([m EXCEPT !.body = body])
<1> DEFINE p == [m EXCEPT !.body = body]
<1>1. /\ m = [order |-> m.order, entry |-> m.entry, body |-> m.body,
              globals |-> m.globals, pointers |-> m.pointers]
      /\ \A fn \in DOMAIN m.body : WellFormedFunction(m, m.body[fn])
  BY Zenon DEF WellFormed
<1>2. /\ p = [order |-> m.order, entry |-> m.entry, body |-> body,
              globals |-> m.globals, pointers |-> m.pointers]
  BY <1>1
<1>3. /\ p.order = m.order /\ p.entry = m.entry /\ p.body = body
      /\ p.globals = m.globals /\ p.pointers = m.pointers
  BY <1>2
<1> HIDE DEF p
<1>4. ASSUME NEW i, WellFormedInstr(m, i) PROVE WellFormedInstr(p, i)
  <2>1. i.op = "call" => /\ i.name \in DOMAIN p.body
                         /\ Len(i.args) = Len(p.body[i.name].params)
    BY <1>3, <1>4, Zenon DEF WellFormedInstr
  <2> QED BY <1>3, <1>4, <2>1, Zenon DEF WellFormedInstr
<1>5. ASSUME NEW fn \in DOMAIN body PROVE WellFormedFunction(p, body[fn])
  BY <1>1, <1>4, Zenon DEF WellFormedFunction, CodeIn
<1>6. WellFormed(p)
  BY <1>2, <1>3, <1>5, Zenon DEF WellFormed
<1> QED BY <1>6 DEF p

\* an instruction with other operands of the same number
LEMMA OtherOperands ==
    ASSUME NEW m, NEW i, WellFormedInstr(m, i), NEW args \in Seq(Names), Len(args) = Len(i.args),
           i.op = "store" => args[2] = i.args[2]
    PROVE  WellFormedInstr(m, [i EXCEPT !.args = args])
<1> DEFINE j == [i EXCEPT !.args = args]
<1>1. i = [op |-> i.op, dst |-> i.dst, args |-> i.args, at |-> i.at, name |-> i.name]
  BY Zenon DEF WellFormedInstr
<1>2. j = [op |-> i.op, dst |-> i.dst, args |-> args, at |-> i.at, name |-> i.name]
  BY <1>1
<1>3. j.op = i.op /\ j.dst = i.dst /\ j.args = args /\ j.at = i.at /\ j.name = i.name
  BY <1>2
<1> HIDE DEF j
<1>4. WellFormedInstr(m, j)
  BY <1>2, <1>3, Zenon DEF WellFormedInstr
<1> QED BY <1>4 DEF j

\* Code, instruction by instruction.
LEMMA CodeMade ==
    ASSUME NEW m, NEW old, CodeIn(m, old), NEW new, new = [k \in DOMAIN old |-> new[k]],
           \A k \in DOMAIN old : WellFormedInstr(m, new[k])
    PROVE  CodeIn(m, new) /\ DOMAIN new = DOMAIN old /\ DOMAIN old = 1 .. Len(old) /\ Len(old) \in Nat
<1>1. Len(old) \in Nat /\ DOMAIN old = 1 .. Len(old)
  BY SMT DEF CodeIn
<1>2. DOMAIN new = 1 .. Len(old)
  BY <1>1
<1>3. new \in Seq({new[k] : k \in DOMAIN new}) /\ Len(new) = Len(old)
  <2> DEFINE S == {new[k] : k \in DOMAIN new}  n == Len(old)
  <2>1. new \in [1 .. n -> S]
    BY <1>2
  <2> HIDE DEF S
  <2> QED BY <1>1, <2>1, SMT DEF S
<1> QED BY <1>1, <1>2, <1>3 DEF CodeIn

\* The results of folded comparisons are values of the module.
LEMMA ConstantsThere ==
    ASSUME NEW n \in {0, 1}
    PROVE  ConstantFor(n) \in Names
BY TruthValues, ConstantAssumption DEF ConstantFor

\* Uses replaced by constants, unless it is a pointer that is written to.
LEMMA UsesReplaced ==
    ASSUME NEW m, NEW code, CodeIn(m, code), NEW new,
           \A n \in DOMAIN new : new[n] \in Names /\ n \notin m.pointers
    PROVE  CodeIn(m, ReplaceUses(code, new))
<1> DEFINE made == ReplaceUses(code, new)
           args(k) == [j \in DOMAIN code[k].args |->
                          IF code[k].args[j] \in DOMAIN new THEN new[code[k].args[j]] ELSE code[k].args[j]]
<1>1. made = [k \in DOMAIN code |-> [code[k] EXCEPT !.args = args(k)]]
  BY DEF ReplaceUses
<1>2. DOMAIN code = 1 .. Len(code)
  BY SMT DEF CodeIn
<1>3. ASSUME NEW k \in DOMAIN code PROVE WellFormedInstr(m, made[k])
  <2> DEFINE i == code[k]
  <2>1. WellFormedInstr(m, i)
    BY <1>2 DEF CodeIn
  <2> HIDE DEF i
  <2>2. i.args \in Seq(Names) /\ (i.op = "store" => Len(i.args) = 2 /\ i.args[2] \in m.pointers)
    BY <2>1, Zenon DEF WellFormedInstr
  <2> DEFINE n == Len(i.args)
             made2 == [j \in DOMAIN i.args |-> IF i.args[j] \in DOMAIN new THEN new[i.args[j]] ELSE i.args[j]]
  <2>3. n \in Nat /\ DOMAIN i.args = 1 .. n /\ \A j \in DOMAIN i.args : i.args[j] \in Names
    BY <2>2, SMT
  <2>4. made2 \in [1 .. n -> Names]
    BY <2>3
  <2>5. made2 \in Seq(Names) /\ Len(made2) = Len(i.args)
    <3> HIDE DEF made2
    <3> QED BY <2>3, <2>4, SMT
  <2>6. i.op = "store" => made2[2] = i.args[2]
    <3>1. i.op = "store" => 2 \in DOMAIN i.args /\ i.args[2] \notin DOMAIN new
      <4>1. i.op = "store" => 2 \in 1 .. n
        BY <2>2, SMT
      <4> QED BY <2>2, <2>3, <4>1
    <3> QED BY <3>1
  <2>7. made[k] = [i EXCEPT !.args = made2]
    BY <1>1 DEF i
  <2> HIDE DEF made2
  <2> QED BY <2>1, <2>5, <2>6, <2>7, OtherOperands
<1>4. made = [k \in DOMAIN code |-> made[k]]
  BY <1>1
<1> HIDE DEF made
<1>5. CodeIn(m, made)
  BY <1>3, <1>4, CodeMade
<1> QED BY <1>5 DEF made

\* A comparison with its operands exchanged is one.
LEMMA NormalisedInstr ==
    ASSUME NEW m, NEW i, WellFormedInstr(m, i), i.op = "icmp"
    PROVE  WellFormedInstr(m, Normalised(i))
<1>1. /\ i.dst \in Names \cup {NoName} /\ i.args \in Seq(Names) /\ Len(i.args) = 2 /\ i.dst \notin m.pointers
  BY Zenon DEF WellFormedInstr
<1>2. i.args[1] \in Names /\ i.args[2] \in Names
  BY <1>1, SMT
<1> DEFINE a == <<i.args[2], i.args[1]>>
           j == Compare(Swapped(i.name), i.dst, i.args[2], i.args[1])
<1>3. j = [op |-> "icmp", dst |-> i.dst, args |-> a, at |-> <<>>, name |-> Swapped(i.name)]
  BY DEF Compare, Instr
<1>4. a \in Seq(Names) /\ Len(a) = 2
  BY <1>2
<1> HIDE DEF j, a
<1>5. j.op = "icmp" /\ j.dst = i.dst /\ j.args = a /\ j.at = <<>> /\ j.name = Swapped(i.name)
  BY <1>3
<1>6. WellFormedInstr(m, j)
  <2>1. j.op # "store" /\ j.op # "call" /\ j.op \notin {"cast", "load", "fneg", "math", "dbg"}
    BY <1>5
  <2> QED BY <1>1, <1>3, <1>4, <1>5, <2>1, Zenon DEF WellFormedInstr
<1> QED BY <1>6, Zenon DEF Normalised, j

\* simplifyControlFlow keeps the code well formed.
LEMMA SimplifiedCode ==
    ASSUME WellFormed(prog), NEW fn \in DOMAIN prog.body, NEW b
    PROVE  CodeIn(prog, simplifyControlFlow(Code(fn), b))
<1> DEFINE code == Code(fn)
           moved == [k \in DOMAIN code |-> IF code[k].op = "icmp" THEN Normalised(code[k]) ELSE code[k]]
           new == Folded(code, b)
<1>1. CodeIn(prog, code) /\ DOMAIN code = 1 .. Len(code)
  BY CodeLength, Zenon DEF WellFormed, WellFormedFunction, CodeIn, Code
<1>2. \A k \in DOMAIN code : WellFormedInstr(prog, code[k])
  BY <1>1 DEF CodeIn
<1>3. \A k \in DOMAIN code : WellFormedInstr(prog, moved[k])
  BY <1>2, NormalisedInstr
<1>4. CodeIn(prog, moved)
  <2>1. moved = [k \in DOMAIN code |-> moved[k]]
    OBVIOUS
  <2> HIDE DEF moved, code
  <2> QED BY <1>1, <1>3, <2>1, CodeMade
<1>5. ASSUME NEW n \in DOMAIN new PROVE new[n] \in Names /\ n \notin prog.pointers
  <2>1. new[n] \in {ConstantFor(0), ConstantFor(1)} /\ \E k \in DOMAIN code : code[k].op = "icmp" /\ code[k].dst = n
    BY DEF Folded
  <2>2. new[n] \in Names
    BY <2>1, ConstantsThere
  <2> QED BY <1>2, <2>1, <2>2, Zenon DEF WellFormedInstr
<1> HIDE DEF moved, new
<1>6. CodeIn(prog, ReplaceUses(moved, new))
  BY <1>4, <1>5, UsesReplaced
<1> QED BY <1>6 DEF simplifyControlFlow, moved, new

\* The module with other code for one function.
LEMMA WithCodeFormed ==
    ASSUME WellFormed(prog), NEW fn \in DOMAIN prog.body, NEW code, CodeIn(prog, code)
    PROVE  /\ WellFormed(WithCode(fn, code))
           /\ DOMAIN WithCode(fn, code).body = DOMAIN prog.body
           /\ WithCode(fn, code).order = prog.order
<1> DEFINE f == [prog.body[fn] EXCEPT !.code = code]  body == [prog.body EXCEPT ![fn] = f]
<1>1. /\ prog = [order |-> prog.order, entry |-> prog.entry, body |-> prog.body,
              globals |-> prog.globals, pointers |-> prog.pointers]
      /\ prog.body = [g \in DOMAIN prog.body |-> prog.body[g]]
      /\ \A g \in DOMAIN prog.body :
            /\ prog.body[g] = [params |-> prog.body[g].params, code |-> prog.body[g].code]
            /\ CodeIn(prog, prog.body[g].code)
  BY Zenon DEF WellFormed, WellFormedFunction, CodeIn
<1>2. WithCode(fn, code) = [prog EXCEPT !.body = body]
  BY <1>1 DEF WithCode
<1>3. f = [params |-> prog.body[fn].params, code |-> code]
  BY <1>1
<1>4. f.params = prog.body[fn].params /\ f.code = code /\ f = [params |-> f.params, code |-> f.code]
  BY <1>3
<1> HIDE DEF f
<1>5. /\ DOMAIN body = DOMAIN prog.body /\ body = [g \in DOMAIN body |-> body[g]]
      /\ \A g \in DOMAIN body : (body[g] = f /\ g = fn) \/ body[g] = prog.body[g]
  BY <1>1
<1> HIDE DEF body
<1>6. ASSUME NEW g \in DOMAIN body
      PROVE  /\ body[g] = [params |-> body[g].params, code |-> body[g].code]
             /\ body[g].params = prog.body[g].params /\ CodeIn(prog, body[g].code)
  <2>1. CASE body[g] = f /\ g = fn
    BY <1>4, <2>1
  <2>2. CASE body[g] = prog.body[g]
    BY <1>1, <1>5, <2>2
  <2> QED BY <1>5, <2>1, <2>2
<1>7. WellFormed([prog EXCEPT !.body = body])
  BY <1>5, <1>6, RewrittenModule
<1>8. [prog EXCEPT !.body = body].body = body /\ [prog EXCEPT !.body = body].order = prog.order
  BY <1>1
<1> QED BY <1>2, <1>5, <1>7, <1>8

\* js has the members of K in their order
Enumerates(js, K) == /\ \A j \in K : \E a \in DOMAIN js : js[a] = j
                     /\ \A a, b \in DOMAIN js : a < b => js[a] < js[b]

\* Every set of numbers up to n can be enumerated, by the least n for which
\* one cannot.
LEMMA EnumerationExists ==
    ASSUME NEW n \in Nat, NEW K \in SUBSET (1 .. n)
    PROVE  \E m \in 0 .. n : \E js \in [1 .. m -> K] : Enumerates(js, K)
<1> DEFINE Good(q) == \A S \in SUBSET (1 .. q) : \E m \in 0 .. q : \E js \in [1 .. m -> S] : Enumerates(js, S)
           Bad == {q \in Nat : ~Good(q)}
<1>1. SUFFICES ASSUME Bad # {} PROVE FALSE
  OBVIOUS
<1>2. PICK q \in Bad : \A p \in Bad : q <= p
  <2>1. Bad \in SUBSET Nat
    OBVIOUS
  <2> HIDE DEF Bad
  <2> QED BY <1>1, <2>1, LeastNatural
<1>3. PICK S \in SUBSET (1 .. q) : ~ \E m \in 0 .. q : \E js \in [1 .. m -> S] : Enumerates(js, S)
  BY <1>2
<1>4. q \in Nat
  BY <1>2
<1>5. q # 0
  <2> SUFFICES ASSUME q = 0 PROVE FALSE
    OBVIOUS
  <2> DEFINE e == [a \in 1 .. 0 |-> a]
  <2>1. S = {} /\ 1 .. 0 = {} /\ 0 \in 0 .. q
    BY <1>3, <1>4, SMT
  <2>2. e \in [1 .. 0 -> S] /\ Enumerates(e, S)
    BY <2>1 DEF Enumerates
  <2> QED BY <1>3, <2>1, <2>2
<1>6. q - 1 \in Nat /\ ~(q <= q - 1)
  BY <1>4, <1>5, SMT
<1>7. Good(q - 1)
  <2> HIDE DEF Good
  <2> QED BY <1>2, <1>6
<1> DEFINE T == S \ {q}
<1>8. T \in SUBSET (1 .. q - 1)
  BY <1>3, <1>4, SMT
<1>9. PICK m \in 0 .. q - 1 : \E js \in [1 .. m -> T] : Enumerates(js, T)
  BY <1>7, <1>8
<1>10. PICK js \in [1 .. m -> T] : Enumerates(js, T)
  BY <1>9
<1>11. m \in Nat /\ m \in 0 .. q /\ m + 1 \in 0 .. q /\ 1 .. m \subseteq 1 .. m + 1
       /\ m + 1 \in 1 .. m + 1 /\ \A a \in 1 .. m + 1 : a \in 1 .. m \/ a = m + 1
  BY <1>4, <1>9, SMT
<1>12. CASE q \notin S
  <2>1. T = S
    BY <1>12
  <2> QED BY <1>3, <1>10, <1>11, <2>1
<1>13. CASE q \in S
  <2> DEFINE longer == [a \in 1 .. m + 1 |-> IF a \in 1 .. m THEN js[a] ELSE q]
  <2>1. m + 1 \notin 1 .. m
    BY <1>11, SMT
  <2>2. /\ DOMAIN longer = 1 .. m + 1 /\ longer[m + 1] = q
        /\ \A a \in 1 .. m : longer[a] = js[a] /\ js[a] \in T
    BY <1>10, <1>11, <2>1
  <2>3. longer \in [1 .. m + 1 -> S]
    BY <1>10, <1>13
  <2> HIDE DEF longer
  <2>4. \A j \in S : \E a \in DOMAIN longer : longer[a] = j
    <3> SUFFICES ASSUME NEW j \in S PROVE \E a \in DOMAIN longer : longer[a] = j
      OBVIOUS
    <3>1. CASE j = q
      BY <1>11, <2>2, <3>1
    <3>2. CASE j # q
      <4>1. PICK a \in DOMAIN js : js[a] = j
        BY <1>10, <3>2 DEF Enumerates
      <4> QED BY <1>10, <1>11, <2>2, <4>1
    <3> QED BY <3>1, <3>2
  <2>5. ASSUME NEW a \in DOMAIN longer, NEW b \in DOMAIN longer, a < b
        PROVE  longer[a] < longer[b]
    <3>1. a \in 1 .. m
      BY <1>11, <2>2, <2>5, SMT
    <3>2. CASE b \in 1 .. m
      BY <1>10, <2>2, <2>5, <3>1, <3>2 DEF Enumerates
    <3>3. CASE b = m + 1
      <4>1. js[a] \in 1 .. q - 1
        BY <1>8, <2>2, <3>1
      <4> QED BY <1>4, <2>2, <3>1, <3>3, <4>1, SMT
    <3> QED BY <1>11, <2>2, <3>2, <3>3
  <2>6. Enumerates(longer, S)
    BY <2>4, <2>5 DEF Enumerates
  <2> QED BY <1>3, <1>11, <2>3, <2>6
<1> QED BY <1>12, <1>13

\* The operands a phi keeps are a sequence of its operands, with all of them.
LEMMA InOrderIs ==
    ASSUME NEW n \in Nat, NEW K \in SUBSET (1 .. n)
    PROVE  InOrder(K, n) \in Seq(K) /\ \A j \in K : \E a \in DOMAIN InOrder(K, n) : InOrder(K, n)[a] = j
<1> DEFINE all == UNION {[1 .. m -> K] : m \in 0 .. n}
<1>1. \E js \in all : Enumerates(js, K)
  BY EnumerationExists
<1>2. InOrder(K, n) \in all /\ Enumerates(InOrder(K, n), K)
  BY <1>1 DEF InOrder, Enumerates
<1>3. PICK m \in 0 .. n : InOrder(K, n) \in [1 .. m -> K]
  BY <1>2
<1> HIDE DEF all
<1>4. \A js : js \in [1 .. m -> K] => js \in Seq(K)
  BY <1>3, SMT
<1> QED BY <1>2, <1>3, <1>4 DEF Enumerates

\* LLVM's cleanup keeps the code well formed.
LEMMA CleanedCode ==
    ASSUME WellFormed(prog), NEW fn \in DOMAIN prog.body
    PROVE  CodeIn(prog, CleanCFG(Code(fn)))
<1> DEFINE code == FoldBranches(Code(fn))  live == Reachable(code)
           kept(i, k) == {j \in DOMAIN i.args : i.at[j] \in live /\ Arrives(code, i.at[j], k)}
           js(i, k) == InOrder(kept(i, k), Len(i.args))
           phi(i, k) == Phi(i.dst, [j \in DOMAIN js(i, k) |-> i.args[js(i, k)[j]]],
                                   [j \in DOMAIN js(i, k) |-> i.at[js(i, k)[j]]])
<1>1. CodeIn(prog, Code(fn)) /\ DOMAIN Code(fn) = 1 .. Len(Code(fn))
  BY CodeLength, Zenon DEF WellFormed, WellFormedFunction, CodeIn, Code
<1>2. DOMAIN code = DOMAIN Code(fn)
  BY DEF FoldBranches
<1>3. ASSUME NEW k \in DOMAIN Code(fn) PROVE WellFormedInstr(prog, code[k])
  <2> DEFINE i == Code(fn)[k]
  <2>1. WellFormedInstr(prog, i)
    BY <1>1 DEF CodeIn
  <2>2. ASSUME NEW t PROVE WellFormedInstr(prog, Jump(t))
    <3> DEFINE j == Jump(t)
    <3>1. j = [op |-> "br", dst |-> NoName, args |-> <<>>, at |-> <<t>>, name |-> NoName]
      BY DEF Jump, Instr
    <3> HIDE DEF j
    <3>2. j.op = "br" /\ j.dst = NoName /\ j.args = <<>> /\ j.at = <<t>> /\ j.name = NoName
      BY <3>1
    <3>3. <<>> \in Seq(Names)
      OBVIOUS
    <3>4. WellFormedInstr(prog, j)
      BY <3>1, <3>2, <3>3 DEF WellFormedInstr
    <3> QED BY <3>4 DEF j
  <2>3. code[k] = i \/ \E t : code[k] = Jump(t)
    BY DEF FoldBranches
  <2> HIDE DEF i, code
  <2> QED BY <2>1, <2>2, <2>3
<1>4. WellFormedInstr(prog, Erased)
  <2> DEFINE j == Erased
  <2>1. j = [op |-> "erased", dst |-> NoName, args |-> <<>>, at |-> <<>>, name |-> NoName]
    BY DEF Erased, Instr
  <2> HIDE DEF j
  <2>2. j.op = "erased" /\ j.dst = NoName /\ j.args = <<>> /\ j.at = <<>> /\ j.name = NoName
    BY <2>1
  <2>3. <<>> \in Seq(Names)
    OBVIOUS
  <2>4. WellFormedInstr(prog, j)
    BY <2>1, <2>2, <2>3 DEF WellFormedInstr
  <2> QED BY <2>4 DEF j
<1>5. ASSUME NEW i, NEW k, WellFormedInstr(prog, i) PROVE WellFormedInstr(prog, phi(i, k))
  <2>1. i.args \in Seq(Names) /\ i.dst \in Names \cup {NoName}
    BY <1>5, Zenon DEF WellFormedInstr
  <2> DEFINE s == js(i, k)  args == [j \in DOMAIN s |-> i.args[s[j]]]  at == [j \in DOMAIN s |-> i.at[s[j]]]
             p == phi(i, k)
  <2>2. Len(i.args) \in Nat /\ DOMAIN i.args = 1 .. Len(i.args)
    BY <2>1
  <2>3. kept(i, k) \in SUBSET DOMAIN i.args
    OBVIOUS
  <2>4. s \in Seq(DOMAIN i.args)
    <3>1. s \in Seq(kept(i, k))
      <4> HIDE DEF kept
      <4> QED BY <2>2, <2>3, InOrderIs
    <3> HIDE DEF s, kept
    <3> QED BY <2>3, <3>1, SMT
  <2>5. args \in Seq(Names)
    <3> HIDE DEF s
    <3>1. \A j \in DOMAIN i.args : i.args[j] \in Names
      BY <2>1
    <3>2. DOMAIN s = 1 .. Len(s) /\ Len(s) \in Nat /\ \A j \in DOMAIN s : s[j] \in DOMAIN i.args
      BY <2>4, SMT
    <3>3. args \in [1 .. Len(s) -> Names]
      BY <3>1, <3>2
    <3> HIDE DEF args
    <3> QED BY <3>2, <3>3, SMT
  <2>6. p = [op |-> "phi", dst |-> i.dst, args |-> args, at |-> at, name |-> NoName]
    <3> HIDE DEF args, at
    <3>1. Phi(i.dst, args, at) = [op |-> "phi", dst |-> i.dst, args |-> args, at |-> at, name |-> NoName]
      BY DEF Phi, Instr
    <3> QED BY <3>1 DEF args, at
  <2> HIDE DEF p, args, at
  <2>7. p.op = "phi" /\ p.dst = i.dst /\ p.args = args /\ p.at = at /\ p.name = NoName
    BY <2>6
  <2>8. WellFormedInstr(prog, p)
    BY <2>1, <2>5, <2>6, <2>7 DEF WellFormedInstr
  <2> QED BY <2>8 DEF p
<1> DEFINE clean == CleanCFG(Code(fn))
<1>6. clean = [k \in DOMAIN code |->
                  IF k \notin live THEN Erased
                  ELSE IF code[k].op = "phi" THEN phi(code[k], k) ELSE code[k]]
  BY DEF CleanCFG
<1> HIDE DEF phi, live
<1>7. \A k \in DOMAIN Code(fn) : WellFormedInstr(prog, clean[k])
  BY <1>2, <1>3, <1>4, <1>5, <1>6
<1>8. clean = [k \in DOMAIN Code(fn) |-> clean[k]]
  BY <1>2, <1>6
<1> HIDE DEF clean, code
<1> QED BY <1>1, <1>7, <1>8, CodeMade DEF clean

-----------------------------------------------------------------------------
(* The driver: every analysis is of a well-formed module, and what it      *)
(* finds is of that module when the substitution begins.                   *)

InfoKnown == \A f \in DOMAIN funcBoundInfo : DOMAIN funcBoundInfo[f] \subseteq KnownNames

CurrentInv ==
    /\ phase \in {"analyse", "simplify", "reanalyse"} => IInv
    /\ phase \in {"analyse", "reanalyse"} => EntriesKnown
    /\ phase = "simplify" => stack = <<>> /\ todo = <<>> /\ pending \in Seq(DOMAIN prog.body)
    /\ phase = "substitute" => /\ pending \in Seq(DOMAIN prog.body)
                               /\ prog.order \in Seq(DOMAIN prog.body)
                               /\ Len(pending) <= Len(prog.order)
                               /\ pending = prog.order => InfoKnown

\* between two analyses, the invariant of the analysis is about the module
LEMMA AtRest ==
    ASSUME WellFormed(prog), stack = <<>>, todo \in Seq(DOMAIN prog.body), InfoTyped
    PROVE  IInv
<1>1. stack \in Seq(Frames) /\ Depth = 0
  BY SMT DEF Depth
<1>2. 1 .. Depth = {} /\ 1 .. Depth - 1 = {}
  BY <1>1, SMT
<1> QED BY <1>1, <1>2, Zenon DEF IInv, Shape, InRange, CallersWait

\* simplifyControlFlow replaces the code of the next function
LEMMA SimplifyStays ==
    ASSUME CurrentInv, Simplify
    PROVE  CurrentInv'
<1> DEFINE fn == Head(pending)  code == simplifyControlFlow(Code(fn), funcBoundInfo[fn])
<1>1. /\ phase = "simplify" /\ phase' = phase /\ pending # <<>> /\ pending' = Tail(pending)
      /\ prog' = WithCode(fn, code)
      /\ todo' = todo /\ stack' = stack /\ funcBoundInfo' = funcBoundInfo
  BY Zenon DEF Simplify
<1>2. IInv /\ stack = <<>> /\ todo = <<>> /\ pending \in Seq(DOMAIN prog.body) /\ WellFormed(prog)
  BY <1>1 DEF CurrentInv, IInv, Shape
<1>3. fn \in DOMAIN prog.body /\ Tail(pending) \in Seq(DOMAIN prog.body)
  BY <1>1, <1>2, SMT
<1>4. CodeIn(prog, code)
  BY <1>2, <1>3, SimplifiedCode
<1> HIDE DEF fn, code
<1>5. WellFormed(prog') /\ DOMAIN prog'.body = DOMAIN prog.body
  BY <1>1, <1>2, <1>3, <1>4, WithCodeFormed
<1>6. InfoTyped'
  BY <1>1, <1>2, <1>5 DEF IInv, InfoTyped
<1>7. /\ WellFormed(prog)' /\ (stack = <<>>)' /\ (todo \in Seq(DOMAIN prog.body))'
  BY <1>1, <1>2, <1>5
<1>8. /\ WellFormed(prog)' /\ (stack = <<>>)' /\ (todo \in Seq(DOMAIN prog.body))' /\ InfoTyped' => IInv'
  BY AtRest, PTL
<1> QED BY <1>1, <1>2, <1>3, <1>5, <1>6, <1>7, <1>8, Zenon DEF CurrentInv

\* the cleanup replaces the code of every function
LEMMA ReanalyseStays ==
    ASSUME CurrentInv, Reanalyse
    PROVE  CurrentInv'
<1> DEFINE body == [fn \in DOMAIN prog.body |-> [prog.body[fn] EXCEPT !.code = CleanCFG(Code(fn))]]
<1>1. /\ phase = "simplify" /\ phase' = "reanalyse"
      /\ prog' = [prog EXCEPT !.body = body] /\ todo' = prog.order /\ stack' = stack
      /\ funcBoundInfo' = [f \in {} |-> [n \in {} |-> Point(0)]]
  BY Zenon DEF Reanalyse
<1>2. IInv /\ stack = <<>> /\ WellFormed(prog)
  BY <1>1 DEF CurrentInv, IInv, Shape
<1>3. /\ prog = [order |-> prog.order, entry |-> prog.entry, body |-> prog.body,
                 globals |-> prog.globals, pointers |-> prog.pointers]
      /\ prog.order \in Seq(DOMAIN prog.body)
      /\ \A fn \in DOMAIN prog.body :
            prog.body[fn] = [params |-> prog.body[fn].params, code |-> prog.body[fn].code]
  BY <1>2, Zenon DEF WellFormed, WellFormedFunction
<1>4. ASSUME NEW fn \in DOMAIN prog.body
      PROVE  /\ body[fn] = [params |-> body[fn].params, code |-> body[fn].code]
             /\ body[fn].params = prog.body[fn].params /\ CodeIn(prog, body[fn].code)
  <2>1. body[fn] = [params |-> prog.body[fn].params, code |-> CleanCFG(Code(fn))]
    BY <1>3
  <2>2. CodeIn(prog, CleanCFG(Code(fn)))
    BY <1>2, CleanedCode
  <2> HIDE DEF body
  <2> QED BY <2>1, <2>2
<1>5. DOMAIN body = DOMAIN prog.body /\ body = [fn \in DOMAIN body |-> body[fn]]
  OBVIOUS
<1> HIDE DEF body
<1>6. WellFormed([prog EXCEPT !.body = body])
  BY <1>2, <1>4, <1>5, RewrittenModule
<1>7. [prog EXCEPT !.body = body].body = body /\ [prog EXCEPT !.body = body].order = prog.order
  BY <1>3
<1>8. DOMAIN funcBoundInfo' = {}
  BY <1>1
<1>9. InfoTyped' /\ EntriesKnown'
  <2>1. DOMAIN stack' = {}
    BY <1>1, <1>2
  <2> QED BY <1>8, <2>1, Zenon DEF InfoTyped, EntriesKnown
<1>10. /\ WellFormed(prog)' /\ (stack = <<>>)' /\ (todo \in Seq(DOMAIN prog.body))'
  BY <1>1, <1>2, <1>3, <1>5, <1>6, <1>7
<1>11. /\ WellFormed(prog)' /\ (stack = <<>>)' /\ (todo \in Seq(DOMAIN prog.body))' /\ InfoTyped' => IInv'
  BY AtRest, PTL
<1> QED BY <1>1, <1>9, <1>10, <1>11, Zenon DEF CurrentInv

\* A substitution leaves the functions it has still to visit fewer than all.
LEMMA SubstituteStays ==
    ASSUME CurrentInv, Substitute
    PROVE  CurrentInv'
<1>1. /\ phase = "substitute" /\ phase' = phase /\ pending # <<>> /\ pending' = Tail(pending)
      /\ \E code : prog' = WithCode(Head(pending), code)
  BY Zenon DEF Substitute
<1>2. /\ pending \in Seq(DOMAIN prog.body) /\ prog.order \in Seq(DOMAIN prog.body)
      /\ Len(pending) <= Len(prog.order)
  BY <1>1 DEF CurrentInv
<1>3. DOMAIN prog'.body = DOMAIN prog.body /\ prog'.order = prog.order
  BY <1>1 DEF WithCode
<1>4. Tail(pending) \in Seq(DOMAIN prog.body) /\ Len(Tail(pending)) < Len(prog.order)
  BY <1>1, <1>2, SMT
<1>5. Len(Tail(pending)) <= Len(prog.order) /\ Tail(pending) # prog.order
  BY <1>2, <1>4, SMT
<1> QED BY <1>1, <1>2, <1>3, <1>4, <1>5, Zenon DEF CurrentInv

\* No step of the driver or of a run breaks the invariant.
LEMMA CurrentStep == CurrentInv /\ [OptNext]_allVars => CurrentInv'
<1> SUFFICES ASSUME CurrentInv, [OptNext]_allVars PROVE CurrentInv'
  OBVIOUS
<1>1. ASSUME UNCHANGED allVars PROVE CurrentInv'
  <2>1. UNCHANGED vars /\ UNCHANGED <<phase, pending>>
    BY <1>1 DEF allVars, driverVars
  <2>2. UNCHANGED <<prog, todo, stack, funcBoundInfo>>
    BY <2>1 DEF vars
  <2>3. IInv => IInv'
    BY <2>1, StepIInv
  <2>4. IInv /\ EntriesKnown => EntriesKnown'
    BY <2>1, EntriesStayKnown
  <2>5. InfoKnown => InfoKnown'
    BY <2>2 DEF InfoKnown, KnownNames
  <2> QED BY <2>1, <2>2, <2>3, <2>4, <2>5, Zenon DEF CurrentInv
<1>2. ASSUME Analyse PROVE CurrentInv'
  <2>1. phase \in {"analyse", "reanalyse"} /\ phase' = phase /\ Next
    BY <1>2 DEF Analyse, driverVars
  <2>2. IInv' /\ EntriesKnown'
    BY <2>1, StepIInv, EntriesStayKnown DEF CurrentInv
  <2>3. phase' # "simplify" /\ phase' # "substitute"
    BY <2>1
  <2> QED BY <2>2, <2>3, Zenon DEF CurrentInv
<1>3. ASSUME BeginPass PROVE CurrentInv'
  <2>1. /\ phase \in {"analyse", "reanalyse"} /\ Analysed /\ pending' = prog.order
        /\ phase' = IF phase = "analyse" THEN "simplify" ELSE "substitute"
        /\ UNCHANGED vars /\ UNCHANGED <<prog, todo, stack, funcBoundInfo>>
    BY <1>3 DEF BeginPass, vars
  <2>2. IInv /\ EntriesKnown /\ stack = <<>> /\ todo = <<>> /\ WellFormed(prog)
    BY <2>1 DEF CurrentInv, Analysed, Active, IInv, Shape
  <2>3. prog.order \in Seq(DOMAIN prog.body) /\ Len(prog.order) <= Len(prog.order)
    <3>1. prog.order \in Seq(DOMAIN prog.body)
      BY <2>2, Zenon DEF WellFormed
    <3> QED BY <3>1, SMT
  <2>4. IInv'
    BY <2>1, <2>2, StepIInv
  <2>5. InfoKnown'
    BY <2>1, <2>2 DEF EntriesKnown, InfoKnown, KnownNames
  <2>6. phase' \in {"simplify", "substitute"} /\ phase' # "analyse" /\ phase' # "reanalyse"
    BY <2>1
  <2> QED BY <2>1, <2>2, <2>3, <2>4, <2>5, <2>6, Zenon DEF CurrentInv
<1>4. ASSUME StartRuns \/ RunSource \/ SwitchRun \/ RunOutput PROVE CurrentInv'
  <2>1. phase' = "source" \/ phase' = "output"
    BY <1>4 DEF StartRuns, RunSource, SwitchRun, RunOutput, driverVars
  <2> QED BY <2>1 DEF CurrentInv
<1> QED
  BY <1>1, <1>2, <1>3, <1>4, SimplifyStays, ReanalyseStays, SubstituteStays, Zenon DEF OptNext

\* The driver starts with a module as parsed and no entries.
LEMMA CurrentStarts == OptInit => CurrentInv
<1> SUFFICES ASSUME OptInit PROVE CurrentInv
  OBVIOUS
<1>1. IInv /\ phase = "analyse" /\ stack = <<>> /\ DOMAIN funcBoundInfo = {}
  BY InitIInv DEF OptInit, Init
<1>2. EntriesKnown
  BY <1>1 DEF EntriesKnown
<1> QED BY <1>1, <1>2 DEF CurrentInv

\* Both analyses of the driver work on a well-formed module, whatever the
\* simplification and LLVM's cleanup have made of it: each activation is in
\* its function and each caller at its call.
THEOREM AnalysesFormed ==
    OptSpec => [](phase \in {"analyse", "simplify", "reanalyse"} => IInv)
<1>1. CurrentInv => (phase \in {"analyse", "simplify", "reanalyse"} => IInv)
  BY DEF CurrentInv
<1> QED BY <1>1, CurrentStarts, CurrentStep, PTL DEF OptSpec

\* When constantSubstitution begins, every entry is a pointer's, a parameter's,
\* or belongs to an instruction that the cleaned module still has.
THEOREM InfoStaysCurrent == OptSpec => []InfoIsCurrent
<1>1. CurrentInv => InfoIsCurrent
  <2> SUFFICES ASSUME CurrentInv, phase = "substitute", pending = prog.order,
                      NEW fn \in DOMAIN funcBoundInfo,
                      NEW n \in DOMAIN funcBoundInfo[fn] \ prog.pointers
               PROVE  \E f \in DOMAIN prog.body :
                        \/ IsArgument(f, n)
                        \/ \E k \in Positions(f) :
                              Code(f)[k].dst = n \/ (Code(f)[k].op = "dbg" /\ Code(f)[k].args[1] = n)
    BY DEF InfoIsCurrent
  <2>1. OfModule(prog, n)
    BY DEF CurrentInv, InfoKnown, KnownNames
  <2> QED BY <2>1, Zenon DEF OfModule, IsArgument, Params, Positions, Code
<1> QED BY <1>1, CurrentStarts, CurrentStep, PTL DEF OptSpec
=============================================================================
