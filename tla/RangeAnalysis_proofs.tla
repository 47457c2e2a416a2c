------------------------ MODULE RangeAnalysis_proofs ------------------------
(***************************************************************************)
(* Type correctness of rangeAnalysis, the fact the optimiser rests on,     *)
(* that the entries of registers only widen, and that a returning call     *)
(* leaves its caller ranges that cover the arguments: for every set of     *)
(* well-formed modules, every sensor specification and every depth of      *)
(* calls.                                                                  *)
(***************************************************************************)
EXTENDS RangeAnalysis, IntervalArithmetic_proofs

Values == Names \cup {NoName}
Bounds == UNION {[S -> RangePairs] : S \in SUBSET Values}
Frames == [fn : DOMAIN prog.body, pos : Nat, bound : Bounds,
           storeParam : SUBSET (Names \X Names)]

\* c has every entry of b
Keeps(c, b) == \A n \in DOMAIN b : n \in DOMAIN c /\ c[n] = b[n]

-----------------------------------------------------------------------------
(* virtualRegisterRange                                                    *)

\* A function from values to pairs is a set of entries.
LEMMA MakeBounds ==
    ASSUME NEW S \in SUBSET Values, NEW g \in [S -> RangePairs]
    PROVE  g \in Bounds
BY DEF Bounds

\* What a set of entries has.
LEMMA UseBounds ==
    ASSUME NEW b \in Bounds
    PROVE  /\ DOMAIN b \subseteq Values
           /\ \A n \in DOMAIN b : b[n] \in RangePairs
           /\ IsBounds(b)
BY DEF Bounds, IsBounds, Values

\* Entries that are kept are as wide as before.
LEMMA KeepsWidens ==
    ASSUME NEW b \in Bounds, NEW c \in Bounds, Keeps(c, b)
    PROVE  Widens(c, b)
<1>1. \A r \in RangePairs : Covers(r, r)
  BY DEF RangePairs, Covers
<1> QED
  BY <1>1, UseBounds DEF Keeps, Widens

\* emplace keeps what is there.
LEMMA EmplaceKeeps ==
    ASSUME NEW b \in Bounds, NEW v \in Values, NEW r \in RangePairs
    PROVE  Emplace(b, v, r) \in Bounds /\ Keeps(Emplace(b, v, r), b)
<1>1. DOMAIN b \cup {v} \subseteq Values /\ \A n \in DOMAIN b : b[n] \in RangePairs
  BY UseBounds
<1>2. Emplace(b, v, r) \in [DOMAIN b \cup {v} -> RangePairs]
  BY <1>1 DEF Emplace
<1>3. Keeps(Emplace(b, v, r), b)
  BY DEF Keeps, Emplace
<1> QED
  BY <1>1, <1>2, <1>3, MakeBounds

\* So does emplacing a range that may be unknown.
LEMMA EmplaceAnyKeeps ==
    ASSUME NEW b \in Bounds, NEW v \in Values, NEW rs \in SUBSET RangePairs
    PROVE  EmplaceAny(b, v, rs) \in Bounds /\ Keeps(EmplaceAny(b, v, rs), b)
<1>1. ASSUME rs # {} PROVE (CHOOSE r \in rs : TRUE) \in RangePairs
  BY <1>1
<1>2. Keeps(b, b)
  BY DEF Keeps
<1> QED
  BY <1>1, <1>2, EmplaceKeeps, Zenon DEF EmplaceAny

\* An assignment to a pointer narrows no register.
LEMMA AssignWidens ==
    ASSUME NEW b \in Bounds, NEW v \in prog.pointers, v \in Values, NEW r \in RangePairs
    PROVE  Assign(b, v, r) \in Bounds /\ Widens(Assign(b, v, r), b)
<1>1. DOMAIN b \cup {v} \subseteq Values /\ \A n \in DOMAIN b : b[n] \in RangePairs
  BY UseBounds
<1>2. Assign(b, v, r) \in [DOMAIN b \cup {v} -> RangePairs]
  BY <1>1 DEF Assign
<1>3. \A q \in RangePairs : Covers(q, q)
  BY DEF RangePairs, Covers
<1>4. Widens(Assign(b, v, r), b)
  BY <1>1, <1>3 DEF Widens, Assign
<1> QED
  BY <1>1, <1>2, <1>4, MakeBounds

\* The range of an operand is a pair.
LEMMA OperandType ==
    ASSUME NEW b \in Bounds, NEW v
    PROVE  OperandRange(b, v) \in SUBSET RangePairs
<1>1. IsConstant(v) => Point(ConstantValue[v]) \in RangePairs
  BY ConstantAssumption, PairsAreRanges DEF IsConstant, Point
<1> QED
  BY <1>1, UseBounds DEF OperandRange

-----------------------------------------------------------------------------
(* The arms                                                                *)

\* The arms compute pairs from pairs.
LEMMA ArithmeticTypes ==
    ASSUME NEW x \in RangePairs, NEW y \in RangePairs
    PROVE  /\ AddRange(x, y) \in RangePairs
           /\ SubRange(x, y) \in RangePairs
           /\ MulRange(x, y) \in RangePairs
           /\ MulConst(x, y.lo) \in RangePairs
           /\ NegRange(x) \in RangePairs
           /\ AbsRange(x) \in RangePairs
<1>1. x.lo \in Int /\ x.hi \in Int /\ y.lo \in Int /\ y.hi \in Int
  BY DEF RangePairs
<1>2. \A a \in Int, c \in Int : /\ Min2(a, c) \in Int /\ Max2(a, c) \in Int
                                /\ Abs(a) \in Int /\ a * c \in Int /\ -a \in Int
                                /\ a + c \in Int /\ a - c \in Int
  BY SMT DEF Min2, Max2, Abs
<1>3. AddRange(x, y) \in RangePairs /\ SubRange(x, y) \in RangePairs /\ NegRange(x) \in RangePairs
  BY <1>1, <1>2, PairsAreRanges DEF AddRange, SubRange, NegRange
<1>4. MulConst(x, y.lo) \in RangePairs
  BY <1>1, <1>2, PairsAreRanges DEF MulConst
<1>5. /\ x.lo * y.lo \in Int /\ x.lo * y.hi \in Int
      /\ x.hi * y.lo \in Int /\ x.hi * y.hi \in Int
  BY <1>1, <1>2
<1>6. MulRange(x, y) \in RangePairs
  <2>1. /\ Min2(x.lo * y.lo, x.lo * y.hi) \in Int /\ Min2(x.hi * y.lo, x.hi * y.hi) \in Int
        /\ Max2(x.lo * y.lo, x.lo * y.hi) \in Int /\ Max2(x.hi * y.lo, x.hi * y.hi) \in Int
    BY <1>2, <1>5
  <2> QED
    BY <1>2, <2>1, PairsAreRanges, Zenon DEF MulRange
<1>7. AbsRange(x) \in RangePairs
  <2>1. Abs(x.lo) \in Int /\ Abs(x.hi) \in Int /\ 0 \in Int
    BY <1>1, SMT DEF Abs
  <2>2. Min2(Abs(x.lo), Abs(x.hi)) \in Int /\ Max2(Abs(x.lo), Abs(x.hi)) \in Int
    BY <1>2, <2>1
  <2> QED
    BY <2>1, <2>2, PairsAreRanges, Zenon DEF AbsRange
<1> QED
  BY <1>3, <1>4, <1>6, <1>7

\* The arms of the binary operators, where they return.
LEMMA InferBinaryType ==
    ASSUME NEW b \in Bounds, NEW i, i.op \in BinaryOps, ~Diverges(b, i)
    PROVE  InferBinary(b, i) \in SUBSET RangePairs
<1> DEFINE l == i.args[1]
           r == i.args[2]
           B(x, y) == BinaryRange(i.op, x, y, IsConstant(l), IsConstant(r))
<1>0. InferBinary(b, i) =
        IF IsConstant(l) /\ IsConstant(r) THEN {}
        ELSE {B(x, y) : x \in OperandRange(b, l), y \in OperandRange(b, r)}
  BY DEF InferBinary
<1> HIDE DEF B
<1> SUFFICES ASSUME ~(IsConstant(l) /\ IsConstant(r)),
                    NEW x \in OperandRange(b, l), NEW y \in OperandRange(b, r)
             PROVE  B(x, y) \in RangePairs
  BY <1>0
<1>1. x \in RangePairs /\ y \in RangePairs
  BY OperandType
<1>2. /\ i.op = "rem" /\ IsConstant(l) => ~RemDiverges(y, x)
      /\ i.op = "rem" /\ ~IsConstant(l) => ~RemDiverges(x, y)
  BY Zenon DEF Diverges
<1>3. /\ AddRange(x, y) \in RangePairs /\ SubRange(x, y) \in RangePairs
      /\ MulRange(x, y) \in RangePairs
      /\ MulConst(y, x.lo) \in RangePairs /\ MulConst(x, y.lo) \in RangePairs
  BY <1>1, ArithmeticTypes
<1>4. /\ i.op = "rem" /\ IsConstant(l) => RemRange(y, x) \in RangePairs
      /\ i.op = "rem" /\ ~IsConstant(l) => RemRange(x, y) \in RangePairs
  BY <1>1, <1>2, RemainderHasRange, Zenon
<1> HIDE DEF l, r
<1> QED
  BY <1>3, <1>4, Zenon DEF B, BinaryRange, BinaryOps

\* The arms of casts, loads, negations and library functions.
LEMMA InferUnaryType ==
    ASSUME NEW b \in Bounds, NEW i
    PROVE  InferUnary(b, i) \in SUBSET RangePairs
<1> DEFINE v == i.args[1]
<1> SUFFICES ASSUME v \in DOMAIN b PROVE InferUnary(b, i) \in SUBSET RangePairs
  BY Zenon DEF InferUnary
<1>1. b[v] \in RangePairs
  BY UseBounds
<1>2. NegRange(b[v]) \in RangePairs /\ AbsRange(b[v]) \in RangePairs
  BY <1>1, ArithmeticTypes
<1>3. Pair(-1, 1) \in RangePairs
  BY PairsAreRanges, SMT
<1> QED
  BY <1>1, <1>2, <1>3, Zenon DEF InferUnary

\* The hull of the incoming ranges has a least and a greatest end.
LEMMA InferPhiType ==
    ASSUME NEW b \in Bounds, NEW i, i.args \in Seq(Names)
    PROVE  InferPhi(b, i) \in SUBSET RangePairs
<1> DEFINE len == Len(i.args)
           R(k) == OperandRange(b, i.args[k])
           rs == UNION {R(k) : k \in DOMAIN i.args}
           p == [k \in 1 .. len |-> CHOOSE q \in R(k) : TRUE]
<1> SUFFICES ASSUME i.args # <<>>, \A k \in DOMAIN i.args : R(k) # {}
             PROVE  Pair(Min({q.lo : q \in rs}), Max({q.hi : q \in rs})) \in RangePairs
  BY Zenon DEF InferPhi
<1>1. 1 \in Int /\ len \in Int /\ 1 <= len /\ DOMAIN i.args = 1 .. len
  BY SMT
<1>2. \A k \in 1 .. len : R(k) \in SUBSET RangePairs /\ R(k) # {}
  BY <1>1, OperandType
<1>3. \A k \in 1 .. len : \A q \in R(k) : R(k) = {q}
  BY DEF OperandRange
<1>4. \A k \in 1 .. len : p[k] \in R(k) /\ R(k) = {p[k]}
  BY <1>2, <1>3
<1>5. p \in [1 .. len -> RangePairs]
  BY <1>2, <1>4
<1>6. rs = {p[k] : k \in 1 .. len}
  <2>1. rs = UNION {{p[k]} : k \in 1 .. len}
    <3>1. {R(k) : k \in DOMAIN i.args} = {{p[k]} : k \in 1 .. len}
      <4> HIDE DEF p, R, len
      <4> QED
        BY <1>1, <1>4
    <3> QED
      BY <3>1, Zenon
  <2> HIDE DEF rs, p
  <2> QED
    BY <2>1
<1>7. /\ Min({q.lo : q \in {p[k] : k \in 1 .. len}}) \in Int
      /\ Max({q.hi : q \in {p[k] : k \in 1 .. len}}) \in Int
  <2> HIDE DEF p, len
  <2> QED
    BY <1>1, <1>5, PairExtremes
<1>8. Min({q.lo : q \in rs}) \in Int /\ Max({q.hi : q \in rs}) \in Int
  <2> HIDE DEF p, len, rs
  <2> QED
    BY <1>6, <1>7, Zenon
<1> QED
  BY <1>8, PairsAreRanges

-----------------------------------------------------------------------------
(* The inductive invariant: TypeOK, with the shape of the call stack spelt *)
(* out.  A return writes into the frame below it, so that the position of  *)
(* that frame must be known to be at a call: CallersWait carries it.       *)

Shape == WellFormed(prog) /\ todo \in Seq(DOMAIN prog.body) /\ stack \in Seq(Frames)

InRange == \A k \in 1 .. Depth : stack[k].pos \in 1 .. Len(Code(stack[k].fn)) + 1

InfoTyped == \A f \in DOMAIN funcBoundInfo :
                f \in DOMAIN prog.body /\ funcBoundInfo[f] \in Bounds

IInv == Shape /\ InRange /\ CallersWait /\ InfoTyped

\* what a step does to the frames it leaves on the stack
Widening == \A k \in DOMAIN stack \cap DOMAIN stack' :
                Widens(stack'[k].bound, stack[k].bound)

\* An instruction of a module is well formed.
LEMMA InstructionsWellFormed ==
    ASSUME WellFormed(prog), NEW fn \in DOMAIN prog.body, NEW k \in 1 .. Len(Code(fn))
    PROVE  LET i == Code(fn)[k]
           IN  /\ i.dst \in Values
               /\ i.args \in Seq(Names)
               /\ i.op = "store" => i.args[1] \in Names /\ i.args[2] \in Names \cap prog.pointers
               /\ i.op = "dbg" => i.args[1] \in Names
               /\ i.op = "call" => i.name \in DOMAIN prog.body
<1> DEFINE i == Code(fn)[k]
<1>1. WellFormedInstr(prog, i)
  BY Zenon DEF WellFormed, WellFormedFunction, Code
<1> HIDE DEF i
<1>2. i.dst \in Values /\ i.args \in Seq(Names) /\ (i.op = "call" => i.name \in DOMAIN prog.body)
  BY <1>1, Zenon DEF WellFormedInstr, Values
<1>3. i.op = "store" => Len(i.args) = 2 /\ i.args[2] \in prog.pointers
  BY <1>1, Zenon DEF WellFormedInstr
<1>4. i.op = "dbg" => Len(i.args) = 1
  BY <1>1 DEF WellFormedInstr
<1>5. \A j \in 1 .. Len(i.args) : i.args[j] \in Names
  BY <1>2, SMT
<1>6. 1 \in 1 .. 1 /\ 1 \in 1 .. 2 /\ 2 \in 1 .. 2
  BY SMT
<1> QED
  BY <1>2, <1>3, <1>4, <1>5, <1>6, Zenon DEF i

\* Positions are those of a sequence.
LEMMA CodeLength ==
    ASSUME WellFormed(prog), NEW fn \in DOMAIN prog.body
    PROVE  Len(Code(fn)) \in Nat /\ DOMAIN Code(fn) = 1 .. Len(Code(fn))
<1> DEFINE code == Code(fn)
<1>1. code \in Seq({code[k] : k \in DOMAIN code})
  BY Zenon DEF WellFormed, WellFormedFunction, Code
<1> HIDE DEF code
<1>2. Len(code) \in Nat /\ DOMAIN code = 1 .. Len(code)
  BY <1>1, SMT
<1> QED BY <1>2 DEF code

\* The newest frame.
LEMMA TopFrame ==
    ASSUME IInv, Active
    PROVE  /\ Depth \in Nat /\ Depth >= 1 /\ Depth \in DOMAIN stack /\ DOMAIN stack = 1 .. Depth
           /\ Top \in Frames
           /\ Top.fn \in DOMAIN prog.body /\ Top.bound \in Bounds /\ Top.pos \in Nat
           /\ Top.storeParam \in SUBSET (Names \X Names)
           /\ Top.pos \in 1 .. Len(Code(Top.fn)) + 1
<1>1. /\ Depth \in Nat /\ Depth >= 1 /\ Depth \in DOMAIN stack /\ DOMAIN stack = 1 .. Depth
      /\ Depth \in 1 .. Depth
  BY SMT DEF IInv, Shape, Active, Depth
<1>2. Top \in Frames
  BY <1>1, SMT DEF IInv, Shape, Top, Depth
<1>3. Top.pos \in 1 .. Len(Code(Top.fn)) + 1
  BY <1>1, Zenon DEF IInv, InRange, Top
<1>4. /\ Top.fn \in DOMAIN prog.body /\ Top.bound \in Bounds /\ Top.pos \in Nat
      /\ Top.storeParam \in SUBSET (Names \X Names)
  BY <1>2 DEF Frames
<1> QED
  BY <1>1, <1>2, <1>3, <1>4

\* An instruction under the newest frame's position.
LEMMA NowWellFormed ==
    ASSUME IInv, Active, ~AtEnd
    PROVE  /\ Top.pos \in 1 .. Len(Code(Top.fn))
           /\ Top.pos + 1 \in 1 .. Len(Code(Top.fn)) + 1
           /\ Now.dst \in Values
           /\ Now.args \in Seq(Names)
           /\ Now.op = "store" => Now.args[1] \in Names /\ Now.args[2] \in Names \cap prog.pointers
           /\ Now.op = "dbg" => Now.args[1] \in Names
           /\ Now.op = "call" => Now.name \in DOMAIN prog.body
<1>1. WellFormed(prog) /\ Top.fn \in DOMAIN prog.body /\ Len(Code(Top.fn)) \in Nat
  BY TopFrame, CodeLength DEF IInv, Shape
<1>2. Top.pos \in 1 .. Len(Code(Top.fn)) /\ Top.pos + 1 \in 1 .. Len(Code(Top.fn)) + 1
  BY <1>1, TopFrame, SMT DEF AtEnd
<1> QED
  BY <1>1, <1>2, InstructionsWellFormed, Zenon DEF Now

\* Replacing the newest frame by one of the same function, a step further and
\* with wider ranges, keeps the invariant.
LEMMA ReplaceTop ==
    ASSUME IInv, Active, NEW f \in Frames,
           f.fn = Top.fn, f.pos \in 1 .. Len(Code(f.fn)) + 1, Widens(f.bound, Top.bound),
           stack' = [stack EXCEPT ![Depth] = f], UNCHANGED <<prog, todo, funcBoundInfo>>
    PROVE  IInv' /\ Widening
<1>1. Depth \in Nat /\ Depth >= 1 /\ Depth \in DOMAIN stack /\ DOMAIN stack = 1 .. Depth
  BY TopFrame
<1>2. stack' \in Seq(Frames) /\ Len(stack') = Depth /\ DOMAIN stack' = 1 .. Depth
  BY <1>1, SMT DEF IInv, Shape, Depth
<1>3. /\ stack'[Depth] = f
      /\ \A k \in 1 .. Depth : k # Depth => stack'[k] = stack[k]
      /\ \A k \in 1 .. Depth : stack'[k].fn = stack[k].fn
  BY <1>1 DEF Top
<1>4. \A fn : Code(fn)' = Code(fn)
  BY DEF Code
<1>5. Depth' = Depth
  BY <1>2 DEF Depth
<1>6. Shape'
  BY <1>2 DEF IInv, Shape, Frames
<1>7. InRange'
  BY <1>3, <1>4, <1>5, Zenon DEF IInv, InRange
<1>8. CallersWait'
  <2>1. \A k \in 1 .. Depth - 1 : k \in 1 .. Depth /\ k # Depth /\ k + 1 \in 1 .. Depth
    BY <1>1, SMT
  <2> QED
    BY <1>3, <1>4, <1>5, <2>1, Zenon DEF IInv, CallersWait
<1>9. InfoTyped'
  BY DEF IInv, InfoTyped
<1>10. Widening
  <2>1. ASSUME NEW k \in 1 .. Depth PROVE Widens(stack'[k].bound, stack[k].bound)
    <3>1. stack[k].bound \in Bounds
      <4>1. stack[k] \in Frames
        BY <1>1 DEF IInv, Shape
      <4> QED
        BY <4>1 DEF Frames
    <3>2. \A b \in Bounds : Widens(b, b)
      BY KeepsWidens DEF Keeps
    <3> QED
      BY <1>3, <3>1, <3>2, Zenon DEF Top
  <2> QED
    BY <1>1, <1>2, <2>1 DEF Widening
<1> QED
  BY <1>6, <1>7, <1>8, <1>9, <1>10 DEF IInv

\* The frame behind an instruction.
LEMMA AdvancedFrame ==
    ASSUME NEW f \in Frames, NEW b \in Bounds
    PROVE  /\ Advance(f, b) \in Frames
           /\ Advance(f, b).fn = f.fn
           /\ Advance(f, b).pos = f.pos + 1
           /\ Advance(f, b).bound = b
<1>1. f.pos + 1 \in Nat
  BY SMT DEF Frames
<1> QED
  BY <1>1 DEF Frames, Advance

\* An instruction that only adds or widens entries keeps the invariant.
LEMMA StepWithWidens ==
    ASSUME IInv, Active, ~AtEnd, NEW b \in Bounds, Widens(b, Top.bound), StepWith(b)
    PROVE  IInv' /\ Widening
<1> DEFINE f == Advance(Top, b)
<1>1. f \in Frames /\ f.fn = Top.fn /\ f.pos = Top.pos + 1 /\ f.bound = b
  BY TopFrame, AdvancedFrame
<1>2. stack' = [stack EXCEPT ![Depth] = f] /\ UNCHANGED <<prog, todo, funcBoundInfo>>
  BY DEF StepWith
<1> HIDE DEF f
<1>3. f.pos \in 1 .. Len(Code(f.fn)) + 1 /\ Widens(f.bound, Top.bound)
  BY <1>1, NowWellFormed
<1> QED
  BY <1>1, <1>2, <1>3, ReplaceTop

-----------------------------------------------------------------------------
(* Calls and returns                                                       *)

\* The entries a call gives to its callee.
LEMMA ArgumentBoundsType ==
    ASSUME NEW b \in Bounds, NEW callee, NEW args
    PROVE  ArgumentBounds(b, callee, args) \in Bounds
<1> DEFINE K(n) == {k \in DOMAIN args : Params(callee)[k] = n /\ OperandRange(b, args[k]) # {}}
           V(n) == CHOOSE r \in OperandRange(b, args[CHOOSE k \in K(n) : TRUE]) : TRUE
<1>1. ArgumentBounds(b, callee, args) = [n \in {m \in Names : K(m) # {}} |-> V(n)]
  BY DEF ArgumentBounds
<1>2. \A n \in {m \in Names : K(m) # {}} : V(n) \in RangePairs
  <2> SUFFICES ASSUME NEW n \in Names, K(n) # {} PROVE V(n) \in RangePairs
    BY Zenon
  <2>1. (CHOOSE j \in K(n) : TRUE) \in K(n)
    OBVIOUS
  <2> QED
    BY <2>1, OperandType
<1>3. {m \in Names : K(m) # {}} \subseteq Values
  BY DEF Values
<1> HIDE DEF K, V
<1>4. [n \in {m \in Names : K(m) # {}} |-> V(n)] \in [{m \in Names : K(m) # {}} -> RangePairs]
  BY <1>2
<1> QED
  BY <1>1, <1>3, <1>4, MakeBounds

\* Dropping pointer operands leaves the registers.
LEMMA PassPointersWidens ==
    ASSUME NEW b \in Bounds, NEW inner \in Bounds, NEW args
    PROVE  LET c == PassPointers(b, args, inner)
           IN  c \in Bounds /\ \A n \in DOMAIN b \ prog.pointers : n \in DOMAIN c /\ c[n] = b[n]
<1> DEFINE passed == {args[k] : k \in DOMAIN args} \cap prog.pointers
           c == PassPointers(b, args, inner)
<1> HIDE DEF passed
<1>1. /\ DOMAIN c = DOMAIN b \ (passed \ DOMAIN inner)
      /\ \A n \in DOMAIN c : c[n] = IF n \in passed THEN inner[n] ELSE b[n]
      /\ c = [n \in DOMAIN c |-> c[n]]
  BY Zenon DEF PassPointers, Erase, passed
<1>2. passed \subseteq prog.pointers
  BY DEF passed
<1> HIDE DEF c
<1>3. \A n \in DOMAIN c : c[n] \in RangePairs
  BY <1>1, UseBounds
<1>4. DOMAIN c \subseteq Values
  BY <1>1, UseBounds
<1>5. c \in [DOMAIN c -> RangePairs]
  BY <1>1, <1>3
<1> QED
  BY <1>1, <1>2, <1>4, <1>5, MakeBounds DEF c

\* The join covers both of the sets it joins.
LEMMA MergeCalleeWidens ==
    ASSUME NEW b \in Bounds, NEW inner \in Bounds
    PROVE  /\ MergeCallee(b, inner) \in Bounds
           /\ \A n \in DOMAIN b : /\ n \in DOMAIN MergeCallee(b, inner)
                                  /\ Covers(MergeCallee(b, inner)[n], b[n])
           /\ \A n \in DOMAIN inner : /\ n \in DOMAIN MergeCallee(b, inner)
                                      /\ Covers(MergeCallee(b, inner)[n], inner[n])
<1>1. /\ DOMAIN b \cup DOMAIN inner \subseteq Values
      /\ \A n \in DOMAIN b : b[n] \in RangePairs
      /\ \A n \in DOMAIN inner : inner[n] \in RangePairs
  BY UseBounds
<1>2. \A r, q \in RangePairs : Hull(q, r) \in RangePairs
  BY RangesAreIntegers
<1>3. \A r, q \in RangePairs : Covers(Hull(q, r), r) /\ Covers(Hull(q, r), q) /\ Covers(r, r)
  BY SMT DEF RangePairs, Covers, Hull, Pair, Min2, Max2
<1>4. MergeCallee(b, inner) \in [DOMAIN b \cup DOMAIN inner -> RangePairs]
  BY <1>1, <1>2 DEF MergeCallee
<1>5. \A n \in DOMAIN b : Covers(MergeCallee(b, inner)[n], b[n])
  BY <1>1, <1>3 DEF MergeCallee
<1>6. \A n \in DOMAIN inner : Covers(MergeCallee(b, inner)[n], inner[n])
  BY <1>1, <1>3 DEF MergeCallee
<1> QED
  BY <1>1, <1>4, <1>5, <1>6, MakeBounds

\* The caller a return leaves behind.
LEMMA CallerAfterCall ==
    ASSUME WellFormed(prog), NEW f \in Frames, f.pos \in 1 .. Len(Code(f.fn)),
           NEW inner \in Bounds, NEW rs \in SUBSET RangePairs
    PROVE  /\ AfterCall(f, inner, rs) \in Frames
           /\ AfterCall(f, inner, rs).fn = f.fn
           /\ AfterCall(f, inner, rs).pos = f.pos + 1
           /\ Widens(AfterCall(f, inner, rs).bound, f.bound)
<1> DEFINE call == Code(f.fn)[f.pos]
           c == PassPointers(f.bound, call.args, inner)
           d == EmplaceAny(c, call.dst, rs)
           e == MergeCallee(d, inner)
<1>1. call.dst \in Values /\ f.bound \in Bounds
  BY InstructionsWellFormed DEF Frames
<1>2. c \in Bounds /\ \A n \in DOMAIN f.bound \ prog.pointers : n \in DOMAIN c /\ c[n] = f.bound[n]
  BY <1>1, PassPointersWidens
<1> HIDE DEF c
<1>3. d \in Bounds /\ \A n \in DOMAIN c : n \in DOMAIN d /\ d[n] = c[n]
  BY <1>1, <1>2, EmplaceAnyKeeps DEF Keeps
<1> HIDE DEF d
<1>4. e \in Bounds /\ \A n \in DOMAIN d : n \in DOMAIN e /\ Covers(e[n], d[n])
  BY <1>3, MergeCalleeWidens
<1> HIDE DEF e
<1>5. Widens(e, f.bound)
  BY <1>2, <1>3, <1>4 DEF Widens
<1>6. AfterCall(f, inner, rs) = Advance(f, e)
  BY Zenon DEF AfterCall, c, d, e
<1> QED
  BY <1>4, <1>5, <1>6, AdvancedFrame

\* A return finds the call it belongs to and narrows no register there.
LEMMA LeaveFunctionWidens ==
    ASSUME IInv, Active, NEW rs \in SUBSET RangePairs, LeaveFunction(rs)
    PROVE  IInv' /\ Widening
<1> DEFINE D == Depth
<1>1. /\ Depth \in Nat /\ Depth >= 1 /\ Depth \in DOMAIN stack /\ DOMAIN stack = 1 .. Depth
      /\ Top.bound \in Bounds /\ Top.fn \in DOMAIN prog.body
  BY TopFrame
<1>2. prog' = prog /\ todo' = todo /\ WellFormed(prog)
  BY DEF LeaveFunction, IInv, Shape
<1>3. \A fn : Code(fn)' = Code(fn)
  BY <1>2 DEF Code
<1>4. ASSUME Depth = 1 PROVE IInv' /\ Widening
  <2>1. stack' = <<>> /\ funcBoundInfo' = Emplace(funcBoundInfo, Top.fn, Top.bound)
    BY <1>4, Zenon DEF LeaveFunction
  <2>2. Depth' = 0 /\ DOMAIN stack' = {} /\ stack' \in Seq(Frames')
    BY <2>1, SMT DEF Depth
  <2>3. InfoTyped'
    BY <1>1, <1>2, <2>1 DEF IInv, InfoTyped, Emplace
  <2>4. Shape'
    BY <1>2, <2>2 DEF IInv, Shape
  <2>5. InRange' /\ CallersWait'
    <3>1. 1 .. Depth' = {} /\ 1 .. Depth' - 1 = {}
      BY <2>2, SMT
    <3> QED
      BY <3>1, Zenon DEF InRange, CallersWait
  <2> QED
    BY <2>2, <2>3, <2>4, <2>5 DEF IInv, Widening
<1>5. ASSUME Depth # 1 PROVE IInv' /\ Widening
  <2> DEFINE g == AfterCall(stack[Depth - 1], Top.bound, rs)
  <2>1. /\ stack' = [k \in 1 .. Depth - 1 |-> IF k = Depth - 1 THEN g ELSE stack[k]]
        /\ funcBoundInfo' = funcBoundInfo
    BY <1>5, Zenon DEF LeaveFunction
  <2>2. /\ Depth - 1 \in Nat /\ Depth - 1 >= 1 /\ Depth - 1 \in 1 .. Depth - 1
        /\ \A k \in 1 .. Depth - 1 : k \in 1 .. Depth
        /\ \A k \in 1 .. Depth - 1 - 1 : k \in 1 .. Depth - 1 /\ k # Depth - 1 /\ k + 1 \in 1 .. Depth - 1
    BY <1>1, <1>5, SMT
  <2>3. \A k \in 1 .. Depth : stack[k] \in Frames
    BY <1>1 DEF IInv, Shape
  <2>4. stack[Depth - 1].pos <= Len(Code(stack[Depth - 1].fn))
        /\ stack[Depth - 1].pos \in 1 .. Len(Code(stack[Depth - 1].fn)) + 1
    BY <2>2, Zenon DEF IInv, CallersWait, InRange
  <2>5. Len(Code(stack[Depth - 1].fn)) \in Nat
    BY <1>2, <2>2, <2>3, CodeLength DEF Frames
  <2>6. /\ stack[Depth - 1].pos \in 1 .. Len(Code(stack[Depth - 1].fn))
        /\ stack[Depth - 1].pos + 1 \in 1 .. Len(Code(stack[Depth - 1].fn)) + 1
    BY <2>4, <2>5, SMT
  <2>7. /\ g \in Frames /\ g.fn = stack[Depth - 1].fn /\ g.pos = stack[Depth - 1].pos + 1
        /\ Widens(g.bound, stack[Depth - 1].bound)
    BY <1>1, <1>2, <2>2, <2>3, <2>6, CallerAfterCall
  <2> HIDE DEF g
  <2>8. /\ stack' \in Seq(Frames) /\ Len(stack') = Depth - 1 /\ DOMAIN stack' = 1 .. Depth - 1
        /\ stack'[Depth - 1] = g
        /\ \A k \in 1 .. Depth - 1 : k # Depth - 1 => stack'[k] = stack[k]
        /\ \A k \in 1 .. Depth - 1 : stack'[k].fn = stack[k].fn
    <3>1. \A k \in 1 .. Depth - 1 : (IF k = Depth - 1 THEN g ELSE stack[k]) \in Frames
      BY <2>2, <2>3, <2>7
    <3> HIDE DEF Frames
    <3>2. stack' \in [1 .. Depth - 1 -> Frames]
      BY <2>1, <3>1
    <3>3. stack' \in Seq(Frames) /\ Len(stack') = Depth - 1 /\ DOMAIN stack' = 1 .. Depth - 1
      BY <2>2, <3>2, SMT
    <3> QED
      BY <2>1, <2>2, <2>7, <3>3
  <2>9. Depth' = Depth - 1
    BY <2>8 DEF Depth
  <2>10. Shape'
    BY <1>2, <2>8 DEF IInv, Shape, Frames
  <2>11. InRange'
    BY <1>3, <2>2, <2>6, <2>7, <2>8, <2>9, Zenon DEF IInv, InRange
  <2>12. CallersWait'
    BY <1>3, <2>2, <2>8, <2>9, Zenon DEF IInv, CallersWait
  <2>13. InfoTyped'
    BY <1>2, <2>1 DEF IInv, InfoTyped
  <2>14. Widening
    <3>1. ASSUME NEW k \in 1 .. Depth - 1 PROVE Widens(stack'[k].bound, stack[k].bound)
      <4>1. stack[k].bound \in Bounds
        BY <2>2, <2>3 DEF Frames
      <4>2. \A b \in Bounds : Widens(b, b)
        BY KeepsWidens DEF Keeps
      <4> QED
        BY <2>7, <2>8, <4>1, <4>2, Zenon
    <3> QED
      BY <2>8, <3>1 DEF Widening
  <2> QED
    BY <2>10, <2>11, <2>12, <2>13, <2>14 DEF IInv
<1> QED
  BY <1>4, <1>5

-----------------------------------------------------------------------------
(* The steps                                                               *)

\* The driver starts the walk of a function.
LEMMA StartFunctionStep ==
    ASSUME IInv, StartFunction
    PROVE  IInv' /\ Widening
<1>1. /\ stack = <<>> /\ todo # <<>> /\ stack' = <<Frame(Head(todo), GlobalBounds)>>
      /\ todo' = Tail(todo) /\ prog' = prog /\ funcBoundInfo' = funcBoundInfo
  BY Zenon DEF StartFunction, Active
<1>2. WellFormed(prog) /\ todo \in Seq(DOMAIN prog.body)
  BY DEF IInv, Shape
<1>3. Head(todo) \in DOMAIN prog.body /\ todo' \in Seq(DOMAIN prog.body)
  BY <1>1, <1>2, SMT
<1>4. GlobalBounds \in Bounds
  <2>1. /\ \A g \in DOMAIN prog.globals : prog.globals[g] \in Int
        /\ DOMAIN prog.globals \subseteq Values
    BY <1>2 DEF WellFormed, Values
  <2>2. \A g \in DOMAIN prog.globals : Point(prog.globals[g]) \in RangePairs
    BY <2>1, PairsAreRanges DEF Point
  <2>3. GlobalBounds \in [DOMAIN prog.globals -> RangePairs]
    BY <2>2 DEF GlobalBounds
  <2> QED
    BY <2>1, <2>3, MakeBounds
<1> DEFINE f == Frame(Head(todo), GlobalBounds)
<1>5. f \in Frames /\ f.pos = 1 /\ f.fn \in DOMAIN prog.body
  BY <1>3, <1>4 DEF Frame, Frames
<1> HIDE DEF f
<1>6. Len(Code(f.fn)) \in Nat
  BY <1>2, <1>5, CodeLength
<1>7. stack' = <<f>>
  BY <1>1 DEF f
<1>8. stack' \in Seq(Frames) /\ Depth' = 1 /\ stack'[1] = f
  BY <1>5, <1>7, SMT DEF Depth
<1>9. Shape'
  BY <1>1, <1>2, <1>3, <1>8 DEF Shape, Frames
<1>10. InRange'
  <2>1. f.pos \in 1 .. Len(Code(f.fn)) + 1 /\ \A k \in 1 .. 1 : k = 1
    BY <1>5, <1>6, SMT
  <2>2. \A fn : Code(fn)' = Code(fn)
    BY <1>1 DEF Code
  <2> QED
    BY <1>8, <2>1, <2>2, Zenon DEF InRange
<1>11. CallersWait'
  <2>1. 1 .. Depth' - 1 = {}
    BY <1>8, SMT
  <2> QED
    BY <2>1, Zenon DEF CallersWait
<1>12. InfoTyped'
  BY <1>1 DEF IInv, InfoTyped
<1>13. Widening
  <2>1. DOMAIN stack = {}
    BY <1>1, SMT
  <2> QED
    BY <2>1 DEF Widening
<1> QED
  BY <1>9, <1>10, <1>11, <1>12, <1>13 DEF IInv

\* Debug intrinsics seed entries that are not there.
LEMMA VisitDebugStep ==
    ASSUME IInv, VisitDebug
    PROVE  IInv' /\ Widening
<1> DEFINE v    == Now.args[1]
           args == {p[2] : p \in {q \in Top.storeParam : q[1] = v}}
           r    == TypeRange[Now.name]
           b    == Top.bound
           c    == IF Now.name \notin DOMAIN TypeRange THEN b
                   ELSE [n \in DOMAIN b \cup {v} \cup args |-> IF n \in DOMAIN b THEN b[n] ELSE r]
<1>1. Active /\ ~AtEnd /\ Now.op = "dbg" /\ StepWith(c)
  BY Zenon DEF VisitDebug, At
<1>2. v \in Names /\ b \in Bounds
  BY <1>1, NowWellFormed, TopFrame
<1>3. args \subseteq Names
  <2>1. Top.storeParam \in SUBSET (Names \X Names)
    BY <1>1, TopFrame
  <2> QED
    BY <2>1
<1> HIDE DEF v, args
<1>4. c \in Bounds /\ Keeps(c, b)
  <2>1. ASSUME Now.name \in DOMAIN TypeRange PROVE c \in Bounds /\ Keeps(c, b)
    <3> DEFINE S == DOMAIN b \cup {v} \cup args
    <3>1. r \in RangePairs
      BY <2>1, SensorAssumption
    <3>2. S \subseteq Values /\ \A n \in DOMAIN b : b[n] \in RangePairs
      BY <1>2, <1>3, UseBounds DEF Values
    <3> HIDE DEF b, r
    <3>3. c = [n \in S |-> IF n \in DOMAIN b THEN b[n] ELSE r]
      BY <2>1
    <3>4. c \in [S -> RangePairs]
      BY <3>1, <3>2, <3>3
    <3>5. Keeps(c, b)
      BY <3>3 DEF Keeps
    <3> QED
      BY <3>2, <3>4, <3>5, MakeBounds
  <2>2. ASSUME Now.name \notin DOMAIN TypeRange PROVE c \in Bounds /\ Keeps(c, b)
    BY <1>2, <2>2 DEF Keeps
  <2> QED
    BY <2>1, <2>2
<1> HIDE DEF c
<1> QED
  BY <1>1, <1>2, <1>4, KeepsWidens, StepWithWidens

\* The arms that emplace what they infer.
LEMMA EmplaceStep ==
    ASSUME IInv, Active, ~AtEnd, NEW rs \in SUBSET RangePairs,
           StepWith(EmplaceAny(Top.bound, Now.dst, rs))
    PROVE  IInv' /\ Widening
<1>1. Top.bound \in Bounds /\ Now.dst \in Values
  BY NowWellFormed, TopFrame
<1> DEFINE c == EmplaceAny(Top.bound, Now.dst, rs)
<1>2. c \in Bounds /\ Keeps(c, Top.bound) /\ StepWith(c)
  BY <1>1, EmplaceAnyKeeps
<1> HIDE DEF c
<1> QED
  BY <1>1, <1>2, KeepsWidens, StepWithWidens

\* Sums, differences, products and remainders.
LEMMA VisitBinaryStep ==
    ASSUME IInv, VisitBinary
    PROVE  IInv' /\ Widening
<1>1. /\ Active /\ ~AtEnd /\ Now.op \in BinaryOps /\ ~Diverges(Top.bound, Now)
      /\ StepWith(EmplaceAny(Top.bound, Now.dst, InferBinary(Top.bound, Now)))
  BY Zenon DEF VisitBinary, At
<1>2. InferBinary(Top.bound, Now) \in SUBSET RangePairs
  BY <1>1, TopFrame, InferBinaryType
<1> QED
  BY <1>1, <1>2, EmplaceStep

\* Casts, loads, negations and library functions.
LEMMA VisitUnaryStep ==
    ASSUME IInv, VisitUnary
    PROVE  IInv' /\ Widening
<1>1. /\ Active /\ ~AtEnd
      /\ StepWith(EmplaceAny(Top.bound, Now.dst, InferUnary(Top.bound, Now)))
  BY Zenon DEF VisitUnary, At
<1>2. InferUnary(Top.bound, Now) \in SUBSET RangePairs
  BY <1>1, TopFrame, InferUnaryType
<1> QED
  BY <1>1, <1>2, EmplaceStep

\* Phis.
LEMMA VisitPhiStep ==
    ASSUME IInv, VisitPhi
    PROVE  IInv' /\ Widening
<1>1. /\ Active /\ ~AtEnd
      /\ StepWith(EmplaceAny(Top.bound, Now.dst, InferPhi(Top.bound, Now)))
  BY Zenon DEF VisitPhi, At
<1>2. InferPhi(Top.bound, Now) \in SUBSET RangePairs
  BY <1>1, TopFrame, NowWellFormed, InferPhiType
<1> QED
  BY <1>1, <1>2, EmplaceStep

\* Stores write the entry of a pointer.
LEMMA VisitStoreStep ==
    ASSUME IInv, VisitStore
    PROVE  IInv' /\ Widening
<1> DEFINE v == Now.args[1]
           ptr == Now.args[2]
           rs == OperandRange(Top.bound, v)
           remember == /\ rs = {} /\ IsArgument(Top.fn, v)
                       /\ \A p \in Top.storeParam : p[1] # ptr
           stored == IF rs = {} THEN Top.bound
                     ELSE Assign(Top.bound, ptr, CHOOSE r \in rs : TRUE)
           params == IF remember THEN Top.storeParam \cup {<<ptr, v>>} ELSE Top.storeParam
           g == Advance(Top, stored)
           f == [g EXCEPT !.storeParam = params]
<1>1. /\ Active /\ ~AtEnd /\ Now.op = "store" /\ stack' = [stack EXCEPT ![Depth] = f]
      /\ UNCHANGED <<prog, todo, funcBoundInfo>>
  BY Zenon DEF VisitStore, At
<1>2. /\ v \in Names /\ ptr \in Names /\ ptr \in prog.pointers /\ ptr \in Values
      /\ Top \in Frames /\ Top.bound \in Bounds
      /\ Top.storeParam \in SUBSET (Names \X Names)
  BY <1>1, NowWellFormed, TopFrame DEF Values
<1>3. rs \in SUBSET RangePairs
  BY <1>2, OperandType
<1> HIDE DEF v, ptr, rs
<1>4. stored \in Bounds /\ Widens(stored, Top.bound)
  <2>1. ASSUME rs # {} PROVE (CHOOSE r \in rs : TRUE) \in RangePairs
    BY <1>3, <2>1
  <2>2. Widens(Top.bound, Top.bound)
    BY <1>2, KeepsWidens DEF Keeps
  <2> QED
    BY <1>2, <2>1, <2>2, AssignWidens, Zenon
<1>5. params \in SUBSET (Names \X Names)
  BY <1>2
<1> HIDE DEF stored, params
<1>6. g \in Frames /\ g.fn = Top.fn /\ g.pos = Top.pos + 1 /\ g.bound = stored
  BY <1>2, <1>4, AdvancedFrame
<1> HIDE DEF g
<1>7. f \in Frames /\ f.fn = Top.fn /\ f.pos = Top.pos + 1 /\ f.bound = stored
  BY <1>5, <1>6 DEF Frames
<1> HIDE DEF f
<1>8. f.pos \in 1 .. Len(Code(f.fn)) + 1 /\ Widens(f.bound, Top.bound)
  BY <1>1, <1>4, <1>7, NowWellFormed
<1> QED
  BY <1>1, <1>7, <1>8, ReplaceTop

\* A call starts its callee and stays where it is.
LEMMA EnterCallStep ==
    ASSUME IInv, EnterCall
    PROVE  IInv' /\ Widening
<1> DEFINE f == Frame(Now.name, ArgumentBounds(Top.bound, Now.name, Now.args))
<1>1. /\ Active /\ ~AtEnd /\ Now.op = "call" /\ stack' = Append(stack, f)
      /\ prog' = prog /\ todo' = todo /\ funcBoundInfo' = funcBoundInfo
  BY Zenon DEF EnterCall, At
<1>2. Depth \in Nat /\ Depth >= 1 /\ DOMAIN stack = 1 .. Depth /\ Top.bound \in Bounds
  BY <1>1, TopFrame
<1>3. Now.name \in DOMAIN prog.body
  BY <1>1, NowWellFormed
<1>4. f \in Frames /\ f.pos = 1 /\ f.fn = Now.name
  BY <1>2, <1>3, ArgumentBoundsType DEF Frame, Frames
<1> HIDE DEF f
<1>5. /\ stack' \in Seq(Frames) /\ Len(stack') = Depth + 1 /\ DOMAIN stack' = 1 .. Depth + 1
      /\ stack'[Depth + 1] = f
      /\ \A k \in 1 .. Depth : stack'[k] = stack[k]
  BY <1>1, <1>2, <1>4, SMT DEF IInv, Shape, Depth
<1>6. Depth' = Depth + 1
  BY <1>5 DEF Depth
<1>7. \A fn : Code(fn)' = Code(fn)
  BY <1>1 DEF Code
<1>8. /\ \A k \in 1 .. Depth + 1 : k \in 1 .. Depth \/ k = Depth + 1
      /\ (Depth + 1) - 1 = Depth
      /\ \A k \in 1 .. Depth : k = Depth \/ (k \in 1 .. Depth - 1 /\ k + 1 \in 1 .. Depth)
  BY <1>2, SMT
<1>9. Shape'
  BY <1>1, <1>5 DEF IInv, Shape, Frames
<1>10. InRange'
  <2>1. f.pos \in 1 .. Len(Code(f.fn)) + 1
    <3>1. Len(Code(f.fn)) \in Nat
      BY <1>3, <1>4, CodeLength DEF IInv, Shape
    <3> QED
      BY <1>4, <3>1, SMT
  <2> QED
    BY <1>5, <1>6, <1>7, <1>8, <2>1, Zenon DEF IInv, InRange
<1>11. CallersWait'
  <2>1. Top.pos <= Len(Code(Top.fn))
    BY <1>1, NowWellFormed, SMT
  <2>2. ASSUME NEW k \in 1 .. Depth
        PROVE  /\ stack'[k].pos <= Len(Code(stack'[k].fn))
               /\ Code(stack'[k].fn)[stack'[k].pos].op = "call"
               /\ Code(stack'[k].fn)[stack'[k].pos].name = stack'[k + 1].fn
    <3>1. ASSUME k = Depth PROVE stack'[k] = Top /\ stack'[k + 1].fn = Now.name
      BY <1>4, <1>5, <3>1 DEF Top
    <3>2. ASSUME k \in 1 .. Depth - 1, k + 1 \in 1 .. Depth
          PROVE  stack'[k] = stack[k] /\ stack'[k + 1] = stack[k + 1]
      BY <1>5, <3>2
    <3> QED
      BY <1>1, <1>8, <2>1, <3>1, <3>2, Zenon DEF IInv, CallersWait, Now
  <2> QED
    BY <1>6, <1>7, <1>8, <2>2, Zenon DEF CallersWait
<1>12. InfoTyped'
  BY <1>1 DEF IInv, InfoTyped
<1>13. Widening
  <2>1. ASSUME NEW k \in 1 .. Depth PROVE Widens(stack'[k].bound, stack[k].bound)
    <3>1. stack[k].bound \in Bounds
      <4>1. stack[k] \in Frames
        BY <1>2 DEF IInv, Shape
      <4> QED
        BY <4>1 DEF Frames
    <3>2. \A b \in Bounds : Widens(b, b)
      BY KeepsWidens DEF Keeps
    <3> QED
      BY <1>5, <3>1, <3>2, Zenon
  <2> QED
    BY <1>2, <2>1 DEF Widening
<1> QED
  BY <1>9, <1>10, <1>11, <1>12, <1>13 DEF IInv

\* Returns, with and without a range.
LEMMA VisitRetStep ==
    ASSUME IInv, VisitRet
    PROVE  IInv' /\ Widening
<1>1. /\ Active /\ ~AtEnd
      /\ IF Now.args # <<>> /\ Now.args[1] \in DOMAIN Top.bound
         THEN LeaveFunction({Top.bound[Now.args[1]]}) ELSE StepWith(Top.bound)
  BY Zenon DEF VisitRet, At
<1>2. Top.bound \in Bounds
  BY <1>1, TopFrame
<1>3. ASSUME Now.args[1] \in DOMAIN Top.bound, LeaveFunction({Top.bound[Now.args[1]]})
      PROVE  IInv' /\ Widening
  <2>1. {Top.bound[Now.args[1]]} \in SUBSET RangePairs
    BY <1>2, <1>3, UseBounds
  <2> QED
    BY <1>1, <1>3, <2>1, LeaveFunctionWidens
<1>4. ASSUME StepWith(Top.bound) PROVE IInv' /\ Widening
  BY <1>1, <1>2, <1>4, KeepsWidens, StepWithWidens DEF Keeps
<1> QED
  BY <1>1, <1>3, <1>4, Zenon

\* The end of a function.
LEMMA FallOffStep ==
    ASSUME IInv, FallOff
    PROVE  IInv' /\ Widening
BY LeaveFunctionWidens DEF FallOff, AtEnd

\* Instructions without a range.
LEMMA VisitOtherStep ==
    ASSUME IInv, VisitOther
    PROVE  IInv' /\ Widening
<1>1. Active /\ ~AtEnd /\ StepWith(Top.bound)
  BY Zenon DEF VisitOther, At
<1>2. Top.bound \in Bounds
  BY <1>1, TopFrame
<1> QED
  BY <1>1, <1>2, KeepsWidens, StepWithWidens DEF Keeps

-----------------------------------------------------------------------------
(* The theorems                                                            *)

\* The analysis starts with nothing on the stack.
LEMMA InitIInv == Init => IInv
<1> SUFFICES ASSUME Init PROVE IInv
  OBVIOUS
<1>1. WellFormed(prog) /\ todo = prog.order /\ stack = <<>> /\ DOMAIN funcBoundInfo = {}
  BY ProgramAssumption DEF Init
<1>2. todo \in Seq(DOMAIN prog.body)
  BY <1>1 DEF WellFormed
<1>3. stack \in Seq(Frames) /\ Depth = 0
  BY <1>1, SMT DEF Depth
<1>4. 1 .. Depth = {} /\ 1 .. Depth - 1 = {}
  BY <1>3, SMT
<1> QED
  BY <1>1, <1>2, <1>3, <1>4, Zenon DEF IInv, Shape, InRange, CallersWait, InfoTyped

\* Every step keeps the invariant and narrows no register.
LEMMA StepIInv ==
    ASSUME IInv, [Next]_vars
    PROVE  IInv' /\ Widening
<1>1. ASSUME UNCHANGED vars PROVE IInv' /\ Widening
  <2>1. prog' = prog /\ todo' = todo /\ stack' = stack /\ funcBoundInfo' = funcBoundInfo
    BY <1>1 DEF vars
  <2>2. IInv'
    BY <2>1 DEF IInv, Shape, InRange, CallersWait, InfoTyped, Frames, Depth, Code
  <2>3. Widening
    <3>1. \A k \in DOMAIN stack : stack[k].bound \in Bounds
      <4>1. \A k \in DOMAIN stack : stack[k] \in Frames
        BY SMT DEF IInv, Shape
      <4> QED
        BY <4>1 DEF Frames
    <3>2. \A b \in Bounds : Widens(b, b)
      BY KeepsWidens DEF Keeps
    <3> QED
      BY <2>1, <3>1, <3>2, Zenon DEF Widening
  <2> QED
    BY <2>2, <2>3
<1>2. ASSUME Next PROVE IInv' /\ Widening
  BY <1>2, StartFunctionStep, VisitDebugStep, VisitBinaryStep, VisitUnaryStep, VisitPhiStep,
     VisitStoreStep, EnterCallStep, VisitRetStep, FallOffStep, VisitOtherStep, Zenon DEF Next
<1> QED
  BY <1>1, <1>2, Zenon

\* The analysis does not change the module.
LEMMA ModuleStays == [Next]_vars => prog' = prog
BY Zenon DEF Next, vars, StartFunction, VisitDebug, VisitBinary, VisitUnary, VisitPhi, VisitStore,
   EnterCall, VisitRet, FallOff, VisitOther, StepWith, LeaveFunction

\* The invariant gives the types.
LEMMA IInvTyped == IInv /\ prog \in Programs => TypeOK
<1> SUFFICES ASSUME IInv, prog \in Programs PROVE TypeOK
  OBVIOUS
<1>1. ASSUME NEW k \in DOMAIN stack PROVE IsFrame(stack[k])
  <2>1. stack[k] \in Frames /\ DOMAIN stack = 1 .. Depth
    BY SMT DEF IInv, Shape, Depth
  <2>2. stack[k].pos \in 1 .. Len(Code(stack[k].fn)) + 1
    BY <2>1, Zenon DEF IInv, InRange
  <2>3. /\ stack[k].fn \in DOMAIN prog.body /\ stack[k].bound \in Bounds
        /\ stack[k].storeParam \subseteq Names \X Names
    BY <2>1 DEF Frames
  <2> QED
    BY <2>2, <2>3, UseBounds DEF IsFrame
<1> QED
  BY <1>1, UseBounds DEF IInv, Shape, InfoTyped, TypeOK

\* In every state of the analysis, every activation stands at an instruction
\* of its function, every caller at the call that started the next, and every
\* recorded range is a pair of numbers of a value of the module.
THEOREM TypeCorrect == Spec => []TypeOK
<1>1. IInv /\ prog \in Programs /\ [Next]_vars => IInv' /\ (prog \in Programs)'
  <2> SUFFICES ASSUME IInv, prog \in Programs, [Next]_vars
               PROVE  IInv' /\ (prog \in Programs)'
    OBVIOUS
  <2> QED
    BY ModuleStays, StepIInv
<1>2. Init => prog \in Programs
  BY DEF Init
<1> QED
  BY <1>1, <1>2, InitIInv, IInvTyped, PTL DEF Spec

\* No step of the analysis loses or narrows the range of a register, whatever
\* it calls, returns from or joins.
THEOREM RegistersWiden == Spec => RegistersOnlyWiden
<1>1. IInv /\ [Next]_vars => IInv'
  BY StepIInv
<1>2. IInv /\ [Next]_vars => [Widening]_vars
  BY StepIInv
<1>3. [Widening]_vars <=> [\A k \in DOMAIN stack \cap DOMAIN stack' :
                             Widens(stack'[k].bound, stack[k].bound)]_vars
  BY DEF Widening
<1> QED
  BY <1>1, <1>2, <1>3, InitIInv, PTL DEF Spec, RegistersOnlyWiden

-----------------------------------------------------------------------------
(* The arguments of the calls.  ArgumentsPassed is inductive beside IInv:   *)
(* a call hands its arguments' ranges over, the entries of the newer        *)
(* activation only widen, and an activation that waits is not written to.   *)

\* the activations under the one a step works on stay what they are
CallersKept ==
    /\ prog' = prog
    /\ \A k \in 1 .. Depth' - 1 : /\ k \in 1 .. Depth - 1
                                  /\ stack'[k] = stack[k]
                                  /\ k + 1 \in DOMAIN stack \cap DOMAIN stack'

\* A call names a function of the module and has an argument for each of its
\* parameters.
LEMMA CallArguments ==
    ASSUME WellFormed(prog), NEW fn \in DOMAIN prog.body, NEW k \in 1 .. Len(Code(fn)),
           Code(fn)[k].op = "call"
    PROVE  LET call == Code(fn)[k]
           IN  /\ call.name \in DOMAIN prog.body
               /\ Params(call.name) \in Seq(Names)
               /\ DOMAIN call.args = DOMAIN Params(call.name)
<1> DEFINE call == Code(fn)[k]
<1>1. WellFormed(prog) /\ WellFormedInstr(prog, call) /\ call.op = "call"
  BY Zenon DEF WellFormed, WellFormedFunction, Code
<1> HIDE DEF call
<1>2. call.name \in DOMAIN prog.body /\ Len(call.args) = Len(Params(call.name)) /\ call.args \in Seq(Names)
  BY <1>1, Zenon DEF WellFormedInstr, Params
<1>3. Params(call.name) \in Seq(Names)
  BY <1>1, <1>2, Zenon DEF WellFormed, WellFormedFunction, Params
<1>4. DOMAIN call.args = DOMAIN Params(call.name)
  BY <1>2, <1>3, SMT
<1> QED
  BY <1>2, <1>3, <1>4, Zenon DEF call

\* The activations on the stack, and the calls the waiting ones are at.
LEMMA Waiting ==
    ASSUME IInv, NEW k \in 1 .. Depth - 1
    PROVE  LET call == Code(stack[k].fn)[stack[k].pos]
           IN  /\ k \in DOMAIN stack /\ k + 1 \in DOMAIN stack
               /\ stack[k] \in Frames /\ stack[k + 1] \in Frames
               /\ stack[k].bound \in Bounds /\ stack[k + 1].bound \in Bounds
               /\ stack[k].pos \in 1 .. Len(Code(stack[k].fn))
               /\ call.name \in DOMAIN prog.body
               /\ Params(call.name) \in Seq(Names)
               /\ DOMAIN call.args = DOMAIN Params(call.name)
<1>1. k \in DOMAIN stack /\ k + 1 \in DOMAIN stack /\ DOMAIN stack = 1 .. Depth
  BY SMT DEF IInv, Shape, Depth
<1>2. stack[k] \in Frames /\ stack[k + 1] \in Frames
  BY <1>1, SMT DEF IInv, Shape, Depth
<1>3. stack[k].bound \in Bounds /\ stack[k + 1].bound \in Bounds /\ stack[k].fn \in DOMAIN prog.body
  BY <1>2 DEF Frames
<1>4. stack[k].pos \in 1 .. Len(Code(stack[k].fn))
  <2>1. stack[k].pos \in 1 .. Len(Code(stack[k].fn)) + 1 /\ stack[k].pos <= Len(Code(stack[k].fn))
    BY <1>1, Zenon DEF IInv, InRange, CallersWait
  <2>2. Len(Code(stack[k].fn)) \in Nat
    BY <1>3, CodeLength DEF IInv, Shape
  <2> QED
    BY <2>1, <2>2, SMT
<1>5. Code(stack[k].fn)[stack[k].pos].op = "call" /\ WellFormed(prog)
  BY Zenon DEF IInv, Shape, CallersWait
<1> QED
  BY <1>1, <1>2, <1>3, <1>4, <1>5, CallArguments

\* An element of a sequence is of its set.
LEMMA ElementType ==
    ASSUME NEW S, NEW s \in Seq(S), NEW i \in DOMAIN s
    PROVE  s[i] \in S
OBVIOUS

\* A range that covers one that covers.
LEMMA CoversTransitive ==
    ASSUME NEW x \in RangePairs, NEW y \in RangePairs, NEW z \in RangePairs,
           Covers(x, y), Covers(y, z)
    PROVE  Covers(x, z)
BY SMT DEF Covers, RangePairs

\* What was passed on stays passed on when nothing but the newest entries
\* changes.
LEMMA PassedKept ==
    ASSUME IInv, IInv', ArgumentsPassed, Widening, CallersKept
    PROVE  ArgumentsPassed'
<1> SUFFICES ASSUME NEW k \in 1 .. Depth' - 1,
                    NEW j \in DOMAIN prog'.body[stack'[k].fn].code[stack'[k].pos].args,
                    NEW r \in OperandRange(stack'[k].bound,
                                           prog'.body[stack'[k].fn].code[stack'[k].pos].args[j]),
                    NEW p, p \notin prog'.pointers,
                    p = prog'.body[prog'.body[stack'[k].fn].code[stack'[k].pos].name].params[j]
             PROVE  p \in DOMAIN stack'[k + 1].bound /\ Covers(stack'[k + 1].bound[p], r)
  BY Zenon DEF ArgumentsPassed, Code, Params
<1>1. /\ k \in 1 .. Depth - 1 /\ stack'[k] = stack[k] /\ k + 1 \in DOMAIN stack \cap DOMAIN stack'
      /\ prog' = prog
  BY DEF CallersKept
<1> DEFINE call == Code(stack[k].fn)[stack[k].pos]
           b == stack[k + 1].bound
           c == stack'[k + 1].bound
<1>2. prog'.body[stack'[k].fn].code[stack'[k].pos] = call
  BY <1>1 DEF Code
<1>3. /\ j \in DOMAIN call.args /\ p \notin prog.pointers /\ r \in OperandRange(stack[k].bound, call.args[j])
      /\ p = Params(call.name)[j]
  BY <1>1, <1>2 DEF Params
<1>4. p \in DOMAIN b /\ Covers(b[p], r)
  BY <1>1, <1>3, Zenon DEF ArgumentsPassed
<1>5. stack[k].bound \in Bounds /\ b \in Bounds
  BY <1>1, Waiting
<1>6. c \in Bounds
  <2>0. stack' \in Seq(Frames')
    BY DEF IInv, Shape
  <2>1. stack'[k + 1] \in Frames'
    BY <1>1, <2>0, ElementType
  <2> QED
    BY <2>1 DEF Frames, Bounds
<1>7. Widens(c, b)
  BY <1>1, Zenon DEF Widening
<1> HIDE DEF b, c, call
<1>8. r \in RangePairs /\ b[p] \in RangePairs
  BY <1>3, <1>4, <1>5, OperandType, UseBounds
<1>9. p \in DOMAIN c /\ Covers(c[p], b[p])
  BY <1>3, <1>4, <1>7 DEF Widens
<1>10. c[p] \in RangePairs
  BY <1>6, <1>9, UseBounds
<1>11. Covers(c[p], r)
  BY <1>4, <1>8, <1>9, <1>10, CoversTransitive
<1> QED
  BY <1>3, <1>9, <1>11 DEF c

\* A call gives each parameter exactly the range of its argument: the
\* parameters of a function are distinct.
LEMMA ArgumentsHandedOver ==
    ASSUME NEW b \in Bounds, WellFormed(prog), NEW callee \in DOMAIN prog.body,
           Params(callee) \in Seq(Names),
           NEW args, DOMAIN args = DOMAIN Params(callee),
           NEW j \in DOMAIN args, NEW r \in OperandRange(b, args[j])
    PROVE  LET p == Params(callee)[j]
               c == ArgumentBounds(b, callee, args)
           IN  p \in DOMAIN c /\ c[p] = r
<1> DEFINE p == Params(callee)[j]
           c == ArgumentBounds(b, callee, args)
           K(n) == {k \in DOMAIN args : Params(callee)[k] = n /\ OperandRange(b, args[k]) # {}}
<1>1. c = [n \in {m \in Names : K(m) # {}} |->
              CHOOSE q \in OperandRange(b, args[CHOOSE k \in K(n) : TRUE]) : TRUE]
  BY DEF ArgumentBounds
<1>2. p \in Names
  <2>1. j \in 1 .. Len(Params(callee))
    BY SMT
  <2> QED
    BY <2>1, SMT
<1>3. \A k \in DOMAIN args : Params(callee)[k] = p => k = j
  BY Zenon DEF WellFormed, WellFormedFunction, Params
<1>4. K(p) = {j}
  BY <1>3
<1>5. (CHOOSE k \in K(p) : TRUE) = j
  BY <1>4
<1>6. OperandRange(b, args[j]) = {r}
  BY DEF OperandRange
<1> HIDE DEF c, K, p
<1>7. p \in DOMAIN c /\ c[p] = CHOOSE q \in OperandRange(b, args[j]) : TRUE
  BY <1>1, <1>2, <1>4, <1>5
<1> QED
  BY <1>6, <1>7 DEF c, p

\* A call hands its arguments over.
LEMMA EnterCallPasses ==
    ASSUME IInv, IInv', ArgumentsPassed, EnterCall
    PROVE  ArgumentsPassed'
<1> DEFINE c == ArgumentBounds(Top.bound, Now.name, Now.args)
           f == Frame(Now.name, c)
<1>1. /\ Active /\ ~AtEnd /\ Now.op = "call" /\ stack' = Append(stack, f)
      /\ prog' = prog
  BY Zenon DEF EnterCall, At
<1>2. Depth \in Nat /\ Depth >= 1 /\ DOMAIN stack = 1 .. Depth /\ Top.bound \in Bounds
  BY <1>1, TopFrame
<1>3. f.bound = c
  BY DEF Frame
<1> HIDE DEF f
<1>4. /\ stack'[Depth + 1] = f /\ Depth' = Depth + 1
      /\ \A k \in 1 .. Depth : stack'[k] = stack[k]
  BY <1>1, <1>2, SMT DEF IInv, Shape, Depth
<1>5. \A fn : Code(fn)' = Code(fn) /\ Params(fn)' = Params(fn)
  BY <1>1 DEF Code, Params
<1>6. /\ (Depth + 1) - 1 = Depth /\ Depth \in 1 .. Depth' - 1
      /\ \A k \in 1 .. Depth : k = Depth \/ (k \in 1 .. Depth - 1 /\ k + 1 \in 1 .. Depth)
  BY <1>2, <1>4, SMT
<1>7. /\ Now.name \in DOMAIN prog.body /\ Params(Now.name) \in Seq(Names)
      /\ DOMAIN Now.args = DOMAIN Params(Now.name)
  <2>1. Top.fn \in DOMAIN prog.body /\ Top.pos \in 1 .. Len(Code(Top.fn))
    BY <1>1, TopFrame, NowWellFormed
  <2> QED
    BY <1>1, <2>1, CallArguments DEF IInv, Shape, Now
<1>8. \A j \in DOMAIN Now.args : \A r \in OperandRange(Top.bound, Now.args[j]) :
         /\ Params(Now.name)[j] \in DOMAIN c
         /\ Covers(c[Params(Now.name)[j]], r)
  <2>1. \A r \in RangePairs : Covers(r, r)
    BY SMT DEF RangePairs, Covers
  <2> QED
    BY <1>2, <1>7, <2>1, ArgumentsHandedOver, OperandType DEF IInv, Shape
<1> HIDE DEF c
<1> DEFINE Passed(k) ==
       LET call == Code(stack'[k].fn)[stack'[k].pos]
           b    == stack'[k + 1].bound
       IN  \A j \in DOMAIN call.args :
               LET p == Params(call.name)[j]
               IN  p \notin prog.pointers =>
                      \A r \in OperandRange(stack'[k].bound, call.args[j]) :
                         p \in DOMAIN b /\ Covers(b[p], r)
<1>9. ASSUME NEW k \in 1 .. Depth - 1, k + 1 \in 1 .. Depth PROVE Passed(k)
  <2>1. stack'[k] = stack[k] /\ stack'[k + 1] = stack[k + 1]
    BY <1>4, <1>6, <1>9, SMT
  <2> QED
    BY <2>1, Zenon DEF ArgumentsPassed
<1>10. Passed(Depth)
  <2>1. stack'[Depth] = Top /\ stack'[Depth + 1].bound = c
    BY <1>3, <1>4, <1>6 DEF Top
  <2> QED
    BY <1>8, <2>1, Zenon DEF Now
<1>11. \A k \in 1 .. Depth : Passed(k)
  BY <1>6, <1>9, <1>10, Zenon
<1> HIDE DEF Passed
<1>12. ASSUME NEW k \in 1 .. Depth' - 1,
              NEW j \in DOMAIN prog'.body[stack'[k].fn].code[stack'[k].pos].args,
              NEW r \in OperandRange(stack'[k].bound,
                                     prog'.body[stack'[k].fn].code[stack'[k].pos].args[j]),
              NEW p, p \notin prog'.pointers,
              p = prog'.body[prog'.body[stack'[k].fn].code[stack'[k].pos].name].params[j]
       PROVE  p \in DOMAIN stack'[k + 1].bound /\ Covers(stack'[k + 1].bound[p], r)
  <2>1. Passed(k)
    BY <1>4, <1>6, <1>11
  <2> QED
    BY <1>1, <1>12, <2>1 DEF Passed, Code, Params
<1> QED
  BY <1>12, Zenon DEF ArgumentsPassed, Code, Params

\* Only the newest activation, or the one returned to, is written.
LEMMA StepsKeepCallers ==
    ASSUME IInv, IInv', Next, ~EnterCall
    PROVE  CallersKept
<1>1. ASSUME StartFunction PROVE CallersKept
  <2>1. Depth' = 1 /\ prog' = prog
    BY <1>1, SMT DEF StartFunction, Depth
  <2>2. 1 .. Depth' - 1 = {}
    BY <2>1, SMT
  <2> QED
    BY <2>1, <2>2, Zenon DEF CallersKept
<1>2. ASSUME Active, NEW f, stack' = [stack EXCEPT ![Depth] = f], prog' = prog PROVE CallersKept
  <2>1. Depth \in Nat /\ Depth >= 1 /\ DOMAIN stack = 1 .. Depth
    BY <1>2, TopFrame
  <2>2. /\ DOMAIN stack' = DOMAIN stack /\ Len(stack') = Depth
        /\ \A k \in DOMAIN stack : k # Depth => stack'[k] = stack[k]
    BY <1>2, <2>1, SMT DEF IInv, Shape, Depth
  <2>3. \A k \in 1 .. Depth - 1 : k \in 1 .. Depth /\ k # Depth /\ k + 1 \in 1 .. Depth
    BY <2>1, SMT
  <2> QED
    BY <1>2, <2>1, <2>2, <2>3, Zenon DEF CallersKept, Depth
<1>3. ASSUME NEW b, Active, StepWith(b) PROVE CallersKept
  BY <1>2, <1>3, Zenon DEF StepWith
<1>4. ASSUME NEW rs, Active, LeaveFunction(rs) PROVE CallersKept
  <2>1. Depth \in Nat /\ Depth >= 1 /\ DOMAIN stack = 1 .. Depth /\ prog' = prog
    BY <1>4, TopFrame DEF LeaveFunction
  <2>2. ASSUME Depth = 1 PROVE CallersKept
    <3>1. Depth' = 0
      BY <1>4, <2>2, SMT DEF LeaveFunction, Depth
    <3>2. 1 .. Depth' - 1 = {}
      BY <3>1, SMT
    <3> QED
      BY <2>1, <3>2, Zenon DEF CallersKept
  <2>3. ASSUME Depth # 1 PROVE CallersKept
    <3> DEFINE g == AfterCall(stack[Depth - 1], Top.bound, rs)
    <3>1. stack' = [k \in 1 .. Depth - 1 |-> IF k = Depth - 1 THEN g ELSE stack[k]]
      BY <1>4, <2>3, Zenon DEF LeaveFunction
    <3> HIDE DEF g
    <3>2. Depth' = Depth - 1 /\ DOMAIN stack' = 1 .. Depth - 1
      <4>1. DOMAIN stack' = 1 .. Depth - 1
        BY <3>1
      <4>2. stack' \in Seq(Frames')
        BY DEF IInv, Shape
      <4>3. Len(stack') \in Nat /\ DOMAIN stack' = 1 .. Len(stack')
        BY <4>2
      <4>4. \A n \in Nat, d \in Nat : d > 1 /\ 1 .. n = 1 .. d - 1 => n = d - 1
        BY SMT
      <4>5. Depth > 1
        BY <2>1, <2>3, SMT
      <4>6. Len(stack') = Depth - 1
        BY <2>1, <4>1, <4>3, <4>4, <4>5
      <4> QED
        BY <4>1, <4>6 DEF Depth
    <3>3. \A k \in 1 .. Depth - 1 - 1 : /\ k \in 1 .. Depth - 1 /\ k # Depth - 1
                                        /\ k + 1 \in 1 .. Depth - 1 /\ k + 1 \in 1 .. Depth
      BY <2>1, SMT
    <3> QED
      BY <2>1, <3>1, <3>2, <3>3 DEF CallersKept
  <2> QED
    BY <2>2, <2>3
<1>5. ASSUME VisitStore PROVE CallersKept
  BY <1>2, <1>5, Zenon DEF VisitStore, At
<1>6. ASSUME VisitRet PROVE CallersKept
  BY <1>3, <1>4, <1>6, Zenon DEF VisitRet, At
<1>7. ASSUME VisitDebug \/ VisitBinary \/ VisitUnary \/ VisitPhi \/ VisitOther PROVE CallersKept
  BY <1>3, <1>7, Zenon DEF VisitDebug, VisitBinary, VisitUnary, VisitPhi, VisitOther, At
<1>8. ASSUME FallOff PROVE CallersKept
  BY <1>4, <1>8, Zenon DEF FallOff, AtEnd
<1> QED
  BY <1>1, <1>5, <1>6, <1>7, <1>8, Zenon DEF Next

\* Every step keeps what the calls in progress have handed over.
LEMMA StepPasses ==
    ASSUME IInv, ArgumentsPassed, [Next]_vars
    PROVE  ArgumentsPassed'
<1>1. IInv' /\ Widening
  BY StepIInv
<1>2. ASSUME UNCHANGED vars PROVE ArgumentsPassed'
  <2>1. prog' = prog /\ stack' = stack /\ Depth' = Depth
    BY <1>2 DEF vars, Depth
  <2>2. CallersKept
    BY <2>1, Waiting DEF CallersKept
  <2> QED
    BY <1>1, <2>2, PassedKept
<1>3. ASSUME Next, ~EnterCall PROVE ArgumentsPassed'
  BY <1>1, <1>3, StepsKeepCallers, PassedKept
<1> QED
  BY <1>1, <1>2, <1>3, EnterCallPasses

\* A call that returns joins what the callee has for a parameter into the
\* caller's entries.
LEMMA ReturnCovers ==
    ASSUME IInv, ArgumentsPassed, Next, Depth > 1, Depth' = Depth - 1
    PROVE  LET caller == stack[Depth - 1]
               call   == Code(caller.fn)[caller.pos]
               b      == stack'[Depth - 1].bound
           IN  \A j \in DOMAIN call.args :
                  LET p == Params(call.name)[j]
                  IN  p \notin prog.pointers =>
                         \A r \in OperandRange(caller.bound, call.args[j]) :
                            p \in DOMAIN b /\ Covers(b[p], r)
<1>0. Active
  BY SMT DEF Active, Depth, IInv, Shape
<1>1. /\ Depth \in Nat /\ DOMAIN stack = 1 .. Depth /\ Depth - 1 \in 1 .. Depth - 1
      /\ (Depth - 1) + 1 = Depth /\ Depth # 1 /\ Top.bound \in Bounds
  BY <1>0, TopFrame, SMT
<1>2. \A f : stack' # [stack EXCEPT ![Depth] = f]
  <2> SUFFICES ASSUME NEW f, stack' = [stack EXCEPT ![Depth] = f] PROVE FALSE
    OBVIOUS
  <2>1. Len(stack') = Len(stack)
    BY SMT DEF IInv, Shape
  <2> QED
    BY <1>1, <2>1, SMT DEF Depth
<1>3. ~EnterCall /\ ~StartFunction
  <2>1. ASSUME NEW f, stack' = Append(stack, f) PROVE FALSE
    <3>1. Len(stack') = Len(stack) + 1
      BY <2>1, SMT DEF IInv, Shape
    <3> QED
      BY <1>1, <3>1, SMT DEF Depth
  <2> QED
    BY <1>0, <2>1, Zenon DEF EnterCall, StartFunction
<1>4. \A b : ~StepWith(b)
  BY <1>2, Zenon DEF StepWith
<1>5. PICK rs : LeaveFunction(rs) /\ rs \in SUBSET RangePairs
  <2>1. VisitRet \/ FallOff
    BY <1>2, <1>3, <1>4, Zenon DEF Next, VisitDebug, VisitBinary, VisitUnary, VisitPhi, VisitStore,
       VisitOther
  <2>2. ASSUME FallOff PROVE LeaveFunction({}) /\ {} \in SUBSET RangePairs
    BY <2>2 DEF FallOff
  <2>3. ASSUME VisitRet PROVE \E rs : LeaveFunction(rs) /\ rs \in SUBSET RangePairs
    <3>1. Now.args[1] \in DOMAIN Top.bound /\ LeaveFunction({Top.bound[Now.args[1]]})
      BY <1>4, <2>3, Zenon DEF VisitRet
    <3>2. {Top.bound[Now.args[1]]} \in SUBSET RangePairs
      BY <1>1, <3>1, UseBounds
    <3> QED
      BY <3>1, <3>2, Zenon
  <2> QED
    BY <2>1, <2>2, <2>3, Zenon
<1> DEFINE caller == stack[Depth - 1]
           call   == Code(caller.fn)[caller.pos]
           c      == PassPointers(caller.bound, call.args, Top.bound)
           d      == EmplaceAny(c, call.dst, rs)
           e      == MergeCallee(d, Top.bound)
<1>6. /\ caller \in Frames /\ caller.bound \in Bounds /\ call.dst \in Values
  <2>1. caller \in Frames /\ caller.bound \in Bounds /\ caller.pos \in 1 .. Len(Code(caller.fn))
    BY <1>1, Waiting
  <2> QED
    BY <2>1, InstructionsWellFormed DEF Frames, IInv, Shape
<1>7. c \in Bounds
  BY <1>1, <1>6, PassPointersWidens
<1>8. d \in Bounds
  BY <1>5, <1>6, <1>7, EmplaceAnyKeeps
<1>9. e \in Bounds /\ \A n \in DOMAIN Top.bound : n \in DOMAIN e /\ Covers(e[n], Top.bound[n])
  BY <1>1, <1>8, MergeCalleeWidens
<1>10. stack'[Depth - 1].bound = e
  <2>1. stack'[Depth - 1] = Advance(caller, e)
    BY <1>1, <1>5, Zenon DEF LeaveFunction, AfterCall
  <2> QED
    BY <1>6, <1>9, <2>1, AdvancedFrame
<1> HIDE DEF c, d, e
<1> SUFFICES ASSUME NEW j \in DOMAIN call.args, Params(call.name)[j] \notin prog.pointers,
                    NEW r \in OperandRange(caller.bound, call.args[j])
             PROVE  Params(call.name)[j] \in DOMAIN e /\ Covers(e[Params(call.name)[j]], r)
  BY <1>10, Zenon
<1> DEFINE p == Params(call.name)[j]
<1>11. p \in DOMAIN Top.bound /\ Covers(Top.bound[p], r)
  BY <1>1, Zenon DEF ArgumentsPassed, Top
<1>12. p \in DOMAIN e /\ Covers(e[p], Top.bound[p])
  BY <1>9, <1>11
<1>13. r \in RangePairs
  BY <1>6, OperandType
<1> HIDE DEF p, call, caller
<1>14. e[p] \in RangePairs /\ Top.bound[p] \in RangePairs
  BY <1>1, <1>9, <1>11, <1>12, UseBounds
<1>15. Covers(e[p], r)
  BY <1>11, <1>12, <1>13, <1>14, CoversTransitive
<1> QED
  BY <1>12, <1>15 DEF p

\* A call that returns leaves its caller an entry for each parameter of the
\* callee that covers the range of the argument it was given.
THEOREM ArgumentsCovered == Spec => ArgumentsCoverCallSites
<1> DEFINE J == IInv /\ ArgumentsPassed
           Covering == Depth > 1 /\ Depth' = Depth - 1 =>
              LET caller == stack[Depth - 1]
                  call   == Code(caller.fn)[caller.pos]
                  b      == stack'[Depth - 1].bound
              IN  \A j \in DOMAIN call.args :
                     LET p == Params(call.name)[j]
                     IN  p \notin prog.pointers =>
                            \A r \in OperandRange(caller.bound, call.args[j]) :
                               p \in DOMAIN b /\ Covers(b[p], r)
<1>1. Init => J
  <2> SUFFICES ASSUME Init PROVE J
    OBVIOUS
  <2>1. 1 .. Depth - 1 = {}
    BY SMT DEF Init, Depth
  <2> QED
    BY <2>1, InitIInv, Zenon DEF ArgumentsPassed
<1>2. J /\ [Next]_vars => J'
  BY StepIInv, StepPasses
<1>3. J /\ [Next]_vars => [Covering]_vars
  BY ReturnCovers
<1>4. [Covering]_vars <=>
      [Depth > 1 /\ Depth' = Depth - 1 =>
           LET caller == stack[Depth - 1]
               call   == Code(caller.fn)[caller.pos]
               b      == stack'[Depth - 1].bound
           IN  \A j \in DOMAIN call.args :
                  LET p == Params(call.name)[j]
                  IN  p \notin prog.pointers =>
                         \A r \in OperandRange(caller.bound, call.args[j]) :
                            p \in DOMAIN b /\ Covers(b[p], r)]_vars
  OBVIOUS
<1> HIDE DEF J, Covering
<1> QED
  BY <1>1, <1>2, <1>3, <1>4, PTL DEF Spec, ArgumentsCoverCallSites

-----------------------------------------------------------------------------
(* What has an entry: pointers, arguments, results of instructions and     *)
(* what debug intrinsics describe.                                         *)

OfModule(m, n) ==
    \/ n \in m.pointers
    \/ \E f \in DOMAIN m.body :
          \/ \E k \in DOMAIN m.body[f].params : m.body[f].params[k] = n
          \/ \E k \in DOMAIN m.body[f].code :
                \/ m.body[f].code[k].dst = n
                \/ m.body[f].code[k].op = "dbg" /\ m.body[f].code[k].args[1] = n

KnownNames == {n \in Values : OfModule(prog, n)}

EntriesKnown ==
    /\ \A k \in DOMAIN stack : /\ DOMAIN stack[k].bound \subseteq KnownNames
                               /\ \A p \in stack[k].storeParam : p[2] \in KnownNames
    /\ \A f \in DOMAIN funcBoundInfo : DOMAIN funcBoundInfo[f] \subseteq KnownNames

\* the names that an instruction may give an entry
LEMMA NowKnown ==
    ASSUME IInv, Active, ~AtEnd
    PROVE  /\ Now.dst \in KnownNames
           /\ Now.op = "dbg" => Now.args[1] \in KnownNames
           /\ Now.op = "store" => Now.args[2] \in KnownNames
           /\ \A v \in Values : IsArgument(Top.fn, v) => v \in KnownNames
           /\ Now.op = "call" =>
                 \A k \in DOMAIN Params(Now.name) \cap DOMAIN Now.args :
                     Params(Now.name)[k] \in Names => Params(Now.name)[k] \in KnownNames
<1>1. /\ Now.dst \in Values /\ Top.fn \in DOMAIN prog.body /\ Top.pos \in 1 .. Len(Code(Top.fn))
      /\ Now.op = "store" => Now.args[2] \in Names \cap prog.pointers
      /\ Now.op = "dbg" => Now.args[1] \in Names
      /\ WellFormed(prog)
  BY NowWellFormed, TopFrame, Zenon DEF IInv, Shape
<1>2. Top.pos \in DOMAIN prog.body[Top.fn].code /\ Now = prog.body[Top.fn].code[Top.pos]
  BY <1>1, CodeLength DEF Code, Now
<1>3. Now.dst \in KnownNames
  BY <1>1, <1>2, Zenon DEF OfModule, KnownNames
<1>4. Now.op = "dbg" => Now.args[1] \in KnownNames
  BY <1>1, <1>2, Zenon DEF OfModule, KnownNames, Values
<1>5. Now.op = "store" => Now.args[2] \in KnownNames
  BY <1>1, Zenon DEF OfModule, KnownNames, Values
<1>6. \A v \in Values : IsArgument(Top.fn, v) => v \in KnownNames
  BY <1>1, Zenon DEF OfModule, KnownNames, IsArgument, Params
<1>7. Now.op = "call" => Now.name \in DOMAIN prog.body
  BY <1>1, <1>2, NowWellFormed
<1>8. Now.op = "call" =>
         \A k \in DOMAIN Params(Now.name) \cap DOMAIN Now.args :
             Params(Now.name)[k] \in Names => Params(Now.name)[k] \in KnownNames
  BY <1>7, Zenon DEF OfModule, KnownNames, Params, Values
<1> QED BY <1>3, <1>4, <1>5, <1>6, <1>8

\* the newest activation is replaced
LEMMA KnownTop ==
    ASSUME IInv, EntriesKnown, Active, NEW f,
           DOMAIN f.bound \subseteq KnownNames, \A p \in f.storeParam : p[2] \in KnownNames,
           stack' = [stack EXCEPT ![Depth] = f], UNCHANGED <<prog, todo, funcBoundInfo>>
    PROVE  EntriesKnown'
<1>1. KnownNames' = KnownNames
  BY DEF KnownNames
<1>2. \A k \in DOMAIN stack' : k \in DOMAIN stack /\ (stack'[k] = f \/ stack'[k] = stack[k])
  OBVIOUS
<1> QED BY <1>1, <1>2, Zenon DEF EntriesKnown

\* An instruction that gives entries to known names.
LEMMA KnownStepWith ==
    ASSUME IInv, EntriesKnown, Active, NEW b, DOMAIN b \subseteq KnownNames, StepWith(b)
    PROVE  EntriesKnown'
<1>1. Top \in Frames /\ Depth \in DOMAIN stack
  BY TopFrame
<1>2. Advance(Top, b).bound = b /\ Advance(Top, b).storeParam = Top.storeParam
  BY <1>1 DEF Advance, Frames
<1>3. \A p \in Top.storeParam : p[2] \in KnownNames
  BY <1>1, Zenon DEF EntriesKnown, Top
<1> QED BY <1>2, <1>3, KnownTop DEF StepWith

\* An instruction that gives its result an entry.
LEMMA KnownEmplace ==
    ASSUME IInv, EntriesKnown, Active, ~AtEnd, NEW rs, StepWith(EmplaceAny(Top.bound, Now.dst, rs))
    PROVE  EntriesKnown'
<1>1. DOMAIN Top.bound \subseteq KnownNames
  BY TopFrame, Zenon DEF EntriesKnown, Top
<1>2. DOMAIN EmplaceAny(Top.bound, Now.dst, rs) \subseteq DOMAIN Top.bound \cup {Now.dst}
  BY DEF EmplaceAny, Emplace
<1>3. DOMAIN EmplaceAny(Top.bound, Now.dst, rs) \subseteq KnownNames
  BY <1>1, <1>2, NowKnown
<1> QED BY <1>3, KnownStepWith

\* an activation returns: what it knows is joined into the one that called it
LEMMA KnownLeave ==
    ASSUME IInv, EntriesKnown, Active, NEW rs, LeaveFunction(rs)
    PROVE  EntriesKnown'
<1>1. /\ Depth \in Nat /\ Depth >= 1 /\ Depth \in DOMAIN stack /\ DOMAIN stack = 1 .. Depth
      /\ Top \in Frames /\ WellFormed(prog)
  BY TopFrame DEF IInv, Shape
<1>2. DOMAIN Top.bound \subseteq KnownNames
  BY <1>1, Zenon DEF EntriesKnown, Top
<1>3. prog' = prog /\ KnownNames' = KnownNames
  BY DEF LeaveFunction, KnownNames
<1>4. CASE Depth = 1
  <2>1. stack' = <<>> /\ funcBoundInfo' = Emplace(funcBoundInfo, Top.fn, Top.bound)
    BY <1>4, Zenon DEF LeaveFunction
  <2>2. \A f \in DOMAIN funcBoundInfo' :
           funcBoundInfo'[f] = Top.bound \/ (f \in DOMAIN funcBoundInfo /\ funcBoundInfo'[f] = funcBoundInfo[f])
    BY <2>1 DEF Emplace
  <2>3. DOMAIN stack' = {}
    BY <2>1
  <2> QED BY <1>2, <1>3, <2>2, <2>3, Zenon DEF EntriesKnown
<1>5. CASE Depth # 1
  <2> DEFINE f == stack[Depth - 1]  g == AfterCall(f, Top.bound, rs)
  <2>1. /\ stack' = [k \in 1 .. Depth - 1 |-> IF k = Depth - 1 THEN g ELSE stack[k]]
        /\ funcBoundInfo' = funcBoundInfo
    BY <1>5, Zenon DEF LeaveFunction
  <2>2. Depth - 1 \in DOMAIN stack /\ 1 .. Depth - 1 \subseteq DOMAIN stack
    BY <1>1, <1>5, SMT
  <2>3. f \in Frames /\ f.pos \in 1 .. Len(Code(f.fn)) /\ Depth - 1 \in 1 .. Depth - 1
    BY <1>1, <1>5, Waiting, SMT
  <2>4. f.fn \in DOMAIN prog.body /\ f.pos \in DOMAIN Code(f.fn)
    BY <1>1, <2>3, CodeLength DEF Frames
  <2> DEFINE call == Code(f.fn)[f.pos]
             b == PassPointers(f.bound, call.args, Top.bound)
  <2>5. call.dst \in KnownNames
    <3>1. call.dst \in Values
      BY <1>1, <2>3, <2>4, InstructionsWellFormed
    <3> QED BY <2>4, <3>1, Zenon DEF KnownNames, OfModule, Code
  <2>6. DOMAIN f.bound \subseteq KnownNames /\ \A p \in f.storeParam : p[2] \in KnownNames
    BY <2>2, Zenon DEF EntriesKnown
  <2>7. DOMAIN b \subseteq DOMAIN f.bound
    BY DEF PassPointers, Erase
  <2> HIDE DEF b
  <2>8. DOMAIN MergeCallee(EmplaceAny(b, call.dst, rs), Top.bound)
           \subseteq DOMAIN b \cup {call.dst} \cup DOMAIN Top.bound
    BY DEF EmplaceAny, Emplace, MergeCallee
  <2>9. g = Advance(f, MergeCallee(EmplaceAny(b, call.dst, rs), Top.bound))
    BY DEF AfterCall, b
  <2>10. g.bound = MergeCallee(EmplaceAny(b, call.dst, rs), Top.bound) /\ g.storeParam = f.storeParam
    <3> HIDE DEF g
    <3> QED BY <2>3, <2>9 DEF Advance, Frames
  <2>11. DOMAIN g.bound \subseteq KnownNames /\ \A p \in g.storeParam : p[2] \in KnownNames
    <3> HIDE DEF g
    <3> QED BY <1>2, <2>5, <2>6, <2>7, <2>8, <2>10
  <2> HIDE DEF f, g
  <2>12. \A k \in DOMAIN stack' : stack'[k] = g \/ (k \in DOMAIN stack /\ stack'[k] = stack[k])
    BY <2>1, <2>2
  <2> QED BY <1>3, <2>1, <2>11, <2>12, Zenon DEF EntriesKnown
<1> QED BY <1>4, <1>5

\* Every step of the analysis gives entries to what the module has only.
LEMMA EntriesStayKnown ==
    ASSUME IInv, EntriesKnown, [Next]_vars
    PROVE  EntriesKnown'
<1>1. ASSUME UNCHANGED vars PROVE EntriesKnown'
  BY <1>1 DEF vars, EntriesKnown, KnownNames
<1>2. ASSUME StartFunction PROVE EntriesKnown'
  <2> DEFINE f == Frame(Head(todo), GlobalBounds)
  <2>1. stack' = <<f>> /\ prog' = prog /\ funcBoundInfo' = funcBoundInfo /\ WellFormed(prog)
    BY <1>2 DEF StartFunction, IInv, Shape
  <2>2. f.bound = GlobalBounds /\ f.storeParam = {}
    BY DEF Frame
  <2>3. DOMAIN GlobalBounds \subseteq KnownNames
    <3>1. DOMAIN prog.globals \subseteq Names \cap prog.pointers
      BY <2>1, Zenon DEF WellFormed
    <3>2. DOMAIN prog.globals \subseteq KnownNames
      BY <3>1, Zenon DEF KnownNames, OfModule, Values
    <3>3. DOMAIN GlobalBounds = DOMAIN prog.globals
      BY DEF GlobalBounds
    <3> QED BY <3>2, <3>3
  <2> HIDE DEF f
  <2>4. \A k \in DOMAIN stack' : stack'[k] = f
    BY <2>1
  <2>5. KnownNames' = KnownNames
    BY <2>1 DEF KnownNames
  <2> QED BY <2>1, <2>2, <2>3, <2>4, <2>5, Zenon DEF EntriesKnown
<1>3. ASSUME Active PROVE DOMAIN Top.bound \subseteq KnownNames /\ \A p \in Top.storeParam : p[2] \in KnownNames
  BY <1>3, TopFrame, Zenon DEF EntriesKnown, Top
<1>4. ASSUME VisitDebug PROVE EntriesKnown'
  <2> DEFINE v    == Now.args[1]
             args == {p[2] : p \in {q \in Top.storeParam : q[1] = v}}
             r    == TypeRange[Now.name]
             c == IF Now.name \notin DOMAIN TypeRange THEN Top.bound
                  ELSE [n \in DOMAIN Top.bound \cup {v} \cup args |->
                            IF n \in DOMAIN Top.bound THEN Top.bound[n] ELSE r]
  <2>1. Active /\ ~AtEnd /\ Now.op = "dbg" /\ StepWith(c)
    BY <1>4 DEF VisitDebug, At
  <2>2. v \in KnownNames /\ args \subseteq KnownNames
    BY <1>3, <2>1, NowKnown
  <2>3. DOMAIN c \subseteq KnownNames
    BY <1>3, <2>1, <2>2
  <2> HIDE DEF c
  <2> QED BY <2>1, <2>3, KnownStepWith
<1>5. ASSUME VisitBinary PROVE EntriesKnown'
  <2>1. Active /\ ~AtEnd /\ StepWith(EmplaceAny(Top.bound, Now.dst, InferBinary(Top.bound, Now)))
    BY <1>5, Zenon DEF VisitBinary, At
  <2> QED BY <2>1, KnownEmplace
<1>6. ASSUME VisitUnary PROVE EntriesKnown'
  <2>1. Active /\ ~AtEnd /\ StepWith(EmplaceAny(Top.bound, Now.dst, InferUnary(Top.bound, Now)))
    BY <1>6, Zenon DEF VisitUnary, At
  <2> QED BY <2>1, KnownEmplace
<1>7. ASSUME VisitPhi PROVE EntriesKnown'
  <2>1. Active /\ ~AtEnd /\ StepWith(EmplaceAny(Top.bound, Now.dst, InferPhi(Top.bound, Now)))
    BY <1>7, Zenon DEF VisitPhi, At
  <2> QED BY <2>1, KnownEmplace
<1>8. ASSUME VisitStore PROVE EntriesKnown'
  <2> DEFINE v == Now.args[1]  ptr == Now.args[2]
             rs == OperandRange(Top.bound, v)
             remember == /\ rs = {} /\ IsArgument(Top.fn, v)
                         /\ \A p \in Top.storeParam : p[1] # ptr
             stored == IF rs = {} THEN Top.bound
                       ELSE Assign(Top.bound, ptr, CHOOSE r \in rs : TRUE)
             params == IF remember THEN Top.storeParam \cup {<<ptr, v>>} ELSE Top.storeParam
             f == [Advance(Top, stored) EXCEPT !.storeParam = params]
  <2>1. /\ Active /\ ~AtEnd /\ Now.op = "store" /\ stack' = [stack EXCEPT ![Depth] = f]
        /\ UNCHANGED <<prog, todo, funcBoundInfo>>
    BY <1>8, Zenon DEF VisitStore, At
  <2>2. v \in Names /\ ptr \in KnownNames /\ (IsArgument(Top.fn, v) => v \in KnownNames)
    BY <2>1, NowKnown, NowWellFormed DEF Values
  <2>3. DOMAIN stored \subseteq DOMAIN Top.bound \cup {ptr}
    BY DEF Assign
  <2>4. \A p \in params : p[2] \in KnownNames
    BY <1>3, <2>1, <2>2
  <2> HIDE DEF stored, params
  <2>5. f.bound = stored /\ f.storeParam = params
    BY <2>1, TopFrame DEF Advance, Frames
  <2> HIDE DEF f
  <2>6. DOMAIN f.bound \subseteq KnownNames /\ \A p \in f.storeParam : p[2] \in KnownNames
    BY <1>3, <2>1, <2>2, <2>3, <2>4, <2>5
  <2> QED BY <2>1, <2>6, KnownTop
<1>9. ASSUME EnterCall PROVE EntriesKnown'
  <2> DEFINE c == ArgumentBounds(Top.bound, Now.name, Now.args)  f == Frame(Now.name, c)
  <2>1. /\ Active /\ ~AtEnd /\ Now.op = "call" /\ stack' = Append(stack, f)
        /\ UNCHANGED <<prog, todo, funcBoundInfo>>
    BY <1>9, Zenon DEF EnterCall, At
  <2>2. ASSUME NEW n \in DOMAIN c PROVE n \in KnownNames
    <3>1. n \in Names /\ \E k \in DOMAIN Now.args : Params(Now.name)[k] = n
      BY <2>2 DEF ArgumentBounds
    <3>2. PICK k \in DOMAIN Now.args : Params(Now.name)[k] = n
      BY <3>1
    <3>3. k \in DOMAIN Params(Now.name)
      <4>1. /\ WellFormed(prog) /\ Top.fn \in DOMAIN prog.body /\ Top.pos \in 1 .. Len(Code(Top.fn))
            /\ Now.name \in DOMAIN prog.body /\ Now.args \in Seq(Names)
        BY <2>1, NowWellFormed, TopFrame DEF IInv, Shape
      <4>2. WellFormedInstr(prog, Now)
        BY <4>1, Zenon DEF WellFormed, WellFormedFunction, Code, Now
      <4>3. Len(Now.args) = Len(Params(Now.name))
        BY <2>1, <4>2, Zenon DEF WellFormedInstr, Params
      <4>4. Params(Now.name) \in Seq(Names)
        BY <4>1, Zenon DEF WellFormed, WellFormedFunction, Params
      <4> QED BY <4>1, <4>3, <4>4, SMT
    <3> QED BY <2>1, <3>1, <3>2, <3>3, NowKnown
  <2> HIDE DEF c
  <2>3. f.bound = c /\ f.storeParam = {}
    BY DEF Frame
  <2> HIDE DEF f
  <2>4. \A k \in DOMAIN stack' : stack'[k] = f \/ (k \in DOMAIN stack /\ stack'[k] = stack[k])
    BY <2>1, SMT DEF IInv, Shape
  <2>5. KnownNames' = KnownNames
    BY <2>1 DEF KnownNames
  <2> QED BY <2>1, <2>2, <2>3, <2>4, <2>5, Zenon DEF EntriesKnown
<1>10. ASSUME VisitRet PROVE EntriesKnown'
  <2>1. Active /\ (StepWith(Top.bound) \/ \E rs : LeaveFunction(rs))
    BY <1>10, Zenon DEF VisitRet, At
  <2> QED BY <1>3, <2>1, KnownStepWith, KnownLeave
<1>11. ASSUME FallOff PROVE EntriesKnown'
  BY <1>11, KnownLeave DEF FallOff, AtEnd
<1>12. ASSUME VisitOther PROVE EntriesKnown'
  BY <1>3, <1>12, KnownStepWith DEF VisitOther, At
<1> QED
  BY <1>1, <1>2, <1>4, <1>5, <1>6, <1>7, <1>8, <1>9, <1>10, <1>11, <1>12, Zenon DEF Next
=============================================================================
