----------------------------- MODULE ShrinkType -----------------------------
(***************************************************************************)
(* shrinkType of newton-irPass-LLVMIR-shrinkTypeByRange.cpp: the integers  *)
(* of a function are moved to the narrowest type that holds their range.   *)
(* Three walks over the instructions in layout order: shrinkInstType       *)
(* changes types and inserts casts, mergeCast joins pairs of casts, and    *)
(* upDateInstSignFlag turns signed operations into unsigned ones.  One     *)
(* step is one turn of a walk.  Floating-point values keep their type, as  *)
(* in the code, where getShrinkDoubleType is not called.                   *)
(***************************************************************************)
EXTENDS TypedFunction, FiniteSets

CONSTANTS Widths,     \* the widths of i8, i16, i32, i64
          Sources,    \* what is compiled
          Analysed(_) \* its function and ranges: a record with fields fn and range

VARIABLES source,     \* the function and the ranges the pass was given
          fn,         \* the function as it stands
          range,      \* virtualRegisterRange
          changed,    \* typeChangedInst: operand -> type before, sign
          merged,     \* sourceInstVec of mergeCast
          phase,      \* the walk under way
          at          \* the register the iterator stands on, 0 at the end

vars == <<source, fn, range, changed, merged, phase, at>>

Info(type, sign) == [type |-> type, sign |-> sign]

\* The state a handler works on; failed names the assertion that stopped it.
State(f, r, c) == [fn |-> f, range |-> r, changed |-> c, failed |-> ""]
Fail(s, what)  == [s EXCEPT !.failed = what]

\* std::map::emplace keeps the entry that is there.
Emplace(map, k, x) == [j \in DOMAIN map \cup {k} |-> IF j \in DOMAIN map THEN map[j] ELSE x]
CopyRange(map, from, to) == IF from \in DOMAIN map THEN Emplace(map, to, map[from]) ELSE map

-----------------------------------------------------------------------------
(* Types of ranges *)

Fits(lo, hi, sign, w) == IF sign THEN lo > -(2^(w - 1)) /\ hi < 2^(w - 1) - 1
                         ELSE hi < 2^w - 1

\* The narrowest width, 0 when there is none (UNKNOWN).
getIntegerTypeEnum(lo, hi, sign) ==
    LET fits == {w \in Widths : Fits(lo, hi, sign, w)}
    IN  IF fits = {} THEN 0 ELSE CHOOSE w \in fits : \A v \in fits : w <= v

getShrinkIntType(type, r) ==
    LET sign == r[1] < 0
        w == getIntegerTypeEnum(r[1], r[2], sign)
    IN  Info(IF w # 0 /\ w < type.w THEN [type EXCEPT !.w = w] ELSE NoType, sign)

\* What a value can be shrunk to; NoType: it cannot.
getTypeInfo(s, v) ==
    IF v.reg \in DOMAIN s.range /\ TypeOf(s.fn, v).kind \in {"int", "ptr"}
    THEN getShrinkIntType(TypeOf(s.fn, v), s.range[v.reg])
    ELSE Info(NoType, TRUE)

\* varType, the order in which types are compared, through pointers
Rank(t) == CASE t.kind \in {"int", "ptr"} -> t.w
             [] t.kind = "fp" -> 100
             [] t.kind = "void" -> 101
Wider(t, u) == Rank(t) > Rank(u)
Alike(t, u) == Rank(t) = Rank(u)

\* changeStoreInstSiblingType: the type of the other side of a store
Sibling(t) == IF t.kind = "ptr" THEN Int_(t.w) ELSE Ptr(t.w)

-----------------------------------------------------------------------------
(* Casts *)

\* Mutant: the sign is not asked for.
CastOp_Zext(from, to, sign) ==
    IF to.kind = "ptr" THEN "bitcast" ELSE IF to.kind = "fp" THEN "uitofp"
    ELSE IF Wider(from, to) THEN "trunc" ELSE "zext"
CastOp(from, to, sign) ==
    IF to.kind = "ptr" THEN "bitcast"
    ELSE IF to.kind = "fp" THEN (IF sign THEN "sitofp" ELSE "uitofp")
    ELSE IF Wider(from, to) THEN "trunc"
    ELSE IF sign THEN "sext" ELSE "zext"

CastOf(f, v, to, sign) == Instr(CastOp(TypeOf(f, v), to, sign), to, <<v>>)

\* findOriginalType: back through the casts the pass has put in front of v.
OriginalType(s, v) ==
    LET orig[i \in DOMAIN s.fn.inst] ==
            IF Reg(i) \notin DOMAIN s.changed THEN s.fn.inst[i].type
            ELSE IF s.fn.inst[i].op \in Casts THEN orig[s.fn.inst[i].args[1].reg]
            ELSE s.changed[Reg(i)].type
    IN  orig[v.reg]

\* isa<Constant>: a number or a global
IsAnyConstant(f, v) == IsConstant(v) \/ f.inst[v.reg].op = "global"

\* isSignedValue
isSignedValue(f, v) == IsConstant(v) \/ f.inst[v.reg].op # "zext"

\* rollbackType of an instruction: a cast in front of i, or, for a phi, at
\* the end of the block the value comes from.
RollInstruction(s, i, k, back) ==
    LET f == s.fn
        v == f.inst[i].args[k]
        n == Reg(Fresh(f))
        cast == CastOf(f, v, back.type, back.sign)
        phi == f.inst[i].op = "phi"
        g == IF phi THEN Before(f, Terminator(f, f.inst[i].to[k]), cast) ELSE Before(f, i, cast)
    IN  IF back.type = TypeOf(f, v) THEN s
        ELSE [s EXCEPT !.fn = IF phi THEN [g EXCEPT !.inst[i].args[k] = n] ELSE ReplaceIn(g, i, v, n),
                       !.changed = Emplace(@, n, back)]

\* rollbackType of a constant: the word of the new width
RollConstant(s, i, v, back) ==
    LET word == IF back.sign THEN SignedValue(v) ELSE v.val
        n == Const(word, back.type.w)
        before == IF v \in DOMAIN s.changed THEN s.changed[v].type ELSE Int_(v.w)
    IN  [s EXCEPT !.fn = ReplaceIn(@, i, v, n),
                  !.changed = Emplace(@, n, Info(before, back.sign))]

\* rollbackType: operand k of i to the type given, or, with NoType, to the
\* one it had before.
rollbackType(s, i, k, given) ==
    LET v == s.fn.inst[i].args[k]
        back == IF given.type # NoType THEN given ELSE s.changed[v]
    IN  IF given.type = NoType /\ v \notin DOMAIN s.changed THEN Fail(s, "no type to roll back to")
        ELSE IF Alike(back.type, TypeOf(s.fn, v)) THEN s
        ELSE IF IsConstant(v) THEN RollConstant(s, i, v, back)
        ELSE IF s.fn.inst[v.reg].op = "global" THEN Fail(s, "a global is rolled back")
        ELSE IF s.fn.inst[v.reg].op = "arg" THEN Fail(s, "an argument is rolled back")
        ELSE RollInstruction(s, i, k,
                 IF given.type # NoType THEN given ELSE Info(OriginalType(s, v), back.sign))

\* Every operand of i in turn.
RollAll(s, i, given(_, _)) ==
    FoldLeft(LAMBDA t, k : IF t.failed # "" THEN t ELSE rollbackType(t, i, k, given(t, k)),
             s, [k \in DOMAIN s.fn.inst[i].args |-> k])

-----------------------------------------------------------------------------
(* The operands of an instruction *)

matchPhiOperandType(s, i) ==
    LET args == s.fn.inst[i].args
        type(k) == TypeOf(s.fn, args[k])
        unmoved == {k \in DOMAIN args : args[k] \notin DOMAIN s.changed}
        least(set) == CHOOSE k \in set : \A j \in set : k <= j
        constants == {k \in DOMAIN args : IsConstant(args[k])}
        \* the operands in front of the first one that was not moved
        leading == IF unmoved = {} THEN Len(args) ELSE least(unmoved) - 1
        back == FoldLeft(LAMBDA t, k : IF t.failed # "" THEN t ELSE rollbackType(t, i, k, Info(NoType, TRUE)),
                         s, [k \in 1..leading |-> k])
    IN  IF \A k \in DOMAIN args : Alike(type(k), type(1)) THEN s
        ELSE IF constants # {}
          THEN RollAll(s, i, LAMBDA t, k : Info(type(least(constants)), TRUE))
        ELSE IF unmoved = {} \/ back.failed # "" THEN back
        ELSE LET k == least(unmoved)
                 to == Info(type(k), isSignedValue(s.fn, args[k]))
             IN  RollAll(back, i, LAMBDA t, j : to)

\* The store of an argument keeps the argument: all uses of the pointer go
\* through a bitcast in front of the store.
StoreArgument(s, i, v, p) ==
    LET n == Reg(Fresh(s.fn))
        f == Before(s.fn, i, Instr("bitcast", Ptr(TypeOf(s.fn, v).w), <<p>>))
    IN  [s EXCEPT !.fn = ReplaceUses(f, p, n, n.reg),
                  !.range = CopyRange(@, p.reg, n.reg)]

\* With one constant operand, at place c, the constant is shrunk when its
\* value allows it; otherwise the other one, at place o, is rolled back.  So is
\* what is stored to a global, which is a constant that has no value.
rollBackConstantOperand(s, i, c, o) ==
    LET args == s.fn.inst[i].args
        store == s.fn.inst[i].op = "store"
        ct == TypeOf(s.fn, args[c])
        ot == TypeOf(s.fn, args[o])
        sign == IF args[o] \in DOMAIN s.changed THEN s.changed[args[o]].sign ELSE TRUE
        value == SignedValue(args[c])
        real == getShrinkIntType(ct, <<value, value>>).type
        back(t) == Info(IF store THEN Sibling(t) ELSE t, sign)
    IN  IF IsConstant(args[c]) /\ real # NoType /\ ~Wider(real, ot)
        THEN rollbackType(s, i, c, back(ot))
        ELSE rollbackType(s, i, o, back(ct))

\* Mutant: a constant operand is left as it is.
matchOperandType_Variables(s, i) ==
    LET args == s.fn.inst[i].args
    IN  IF IsConstant(args[1]) \/ IsConstant(args[2]) \/ Alike(TypeOf(s.fn, args[1]), TypeOf(s.fn, args[2])) THEN s
        ELSE IF Wider(TypeOf(s.fn, args[2]), TypeOf(s.fn, args[1]))
        THEN rollbackType(s, i, 1, Info(TypeOf(s.fn, args[2]), TRUE))
        ELSE rollbackType(s, i, 2, Info(TypeOf(s.fn, args[1]), TRUE))

matchOperandType(s, i) ==
    LET args == s.fn.inst[i].args
        store == s.fn.inst[i].op = "store"
        type(k) == TypeOf(s.fn, args[k])
        other(k) == 3 - k
        to(k) == Info(IF store THEN Sibling(type(other(k))) ELSE type(other(k)),
                      getTypeInfo(s, args[k]).sign)
        narrow == IF Wider(type(2), type(1)) THEN 1 ELSE 2
    IN  IF Alike(type(1), type(2)) THEN s
        ELSE IF IsAnyConstant(s.fn, args[1]) THEN rollBackConstantOperand(s, i, 1, 2)
        ELSE IF IsAnyConstant(s.fn, args[2]) THEN rollBackConstantOperand(s, i, 2, 1)
        ELSE IF store /\ s.fn.inst[args[1].reg].op = "arg" THEN StoreArgument(s, i, args[1], args[2])
        ELSE rollbackType(s, i, narrow, to(narrow))

-----------------------------------------------------------------------------
(* The result of an instruction *)

\* The type of i changed in place, once.
Mutate(s, i, type, sign) ==
    IF Reg(i) \in DOMAIN s.changed THEN Fail(s, "a type is changed twice")
    ELSE [s EXCEPT !.fn.inst[i].type = type,
                   !.changed = Emplace(@, Reg(i), Info(s.fn.inst[i].type, sign))]

matchDestType(s, i) ==
    LET ins == s.fn.inst[i]
        from == TypeOf(s.fn, ins.args[1])
        info == getTypeInfo(s, Reg(i))
        load == ins.op = "load"
        operand(t) == IF load THEN Ptr(t.w) ELSE t
        all == RollAll(s, i, LAMBDA t, k : Info(operand(ins.type), isSignedValue(s.fn, Reg(i))))
        narrow == RollAll(s, i, LAMBDA t, k : Info(operand(info.type),
                                                   isSignedValue(t.fn, t.fn.inst[i].args[k])))
    IN  IF Wider(from, ins.type) THEN Fail(s, "an operand is wider than the result")
        ELSE IF info.type = NoType THEN (IF Alike(from, ins.type) THEN s ELSE all)
        ELSE IF ~Wider(info.type, from)
          THEN (IF Alike(ins.type, from) THEN s
                ELSE Mutate(s, i, IF load THEN Int_(from.w) ELSE from, info.sign))
        ELSE IF narrow.failed # "" THEN narrow ELSE Mutate(narrow, i, info.type, info.sign)

\* The result is cast to its narrow type and all uses read the cast.  The
\* instruction is replaced by a clone: what was known of its range is lost.
shrinkInstructionType(s, i) ==
    LET info == getTypeInfo(s, Reg(i))
        n == Fresh(s.fn)
        f == After(s.fn, i, CastOf(s.fn, Reg(i), info.type, info.sign))
    IN  IF info.type = NoType THEN s
        ELSE [s EXCEPT !.fn = ReplaceUses(f, Reg(i), Reg(n), n),
                       !.range = [j \in (DOMAIN @ \cup {n}) \ {i} |-> @[IF j = n THEN i ELSE j]],
                       !.changed = Emplace(@, Reg(n), Info(s.fn.inst[i].type, info.sign))]

\* A trunc whose operand has become narrower is made an extension.
matchCastType(s, i) ==
    LET ins == s.fn.inst[i]
        sign == IF Reg(i) \in DOMAIN s.changed THEN s.changed[Reg(i)].sign ELSE TRUE
        n == Fresh(s.fn)
        f == After(s.fn, i, CastOf(s.fn, ins.args[1], ins.type, sign))
        new == [s EXCEPT !.fn = Erase(ReplaceUses(f, Reg(i), Reg(n), n), i),
                         !.range = CopyRange(@, i, n),
                         !.changed = IF Reg(i) \in DOMAIN @ THEN Emplace(@, Reg(n), @[Reg(i)]) ELSE @]
    IN  IF ins.op = "trunc" /\ Wider(ins.type, TypeOf(s.fn, ins.args[1]))
        THEN shrinkInstructionType(new, n) ELSE shrinkInstructionType(s, i)

\* Mutant: a parameter is retyped in place.
shrinkParameter_InPlace(s, i) ==
    LET info == getTypeInfo(s, Reg(i))
    IN  IF info.type = NoType THEN s
        ELSE [s EXCEPT !.fn.inst[i].type = info.type,
                       !.changed = Emplace(@, Reg(i), Info(s.fn.inst[i].type, info.sign))]

shrinkParameter(s, i) ==
    LET info == getTypeInfo(s, Reg(i))
        n == Fresh(s.fn)
        f == Insert(s.fn, 1, 1, CastOf(s.fn, Reg(i), info.type, info.sign))
    IN  IF info.type = NoType THEN s
        ELSE [s EXCEPT !.fn = ReplaceUses(f, Reg(i), Reg(n), n),
                       !.range = CopyRange(@, i, n),
                       !.changed = Emplace(@, Reg(n), Info(s.fn.inst[i].type, info.sign))]

shrinkAlloca(s, i) ==
    LET info == getTypeInfo(s, Reg(i))
    IN  IF info.type = NoType THEN s
        ELSE [s EXCEPT !.fn.inst[i].type = info.type,
                       !.changed = Emplace(@, Reg(i), Info(s.fn.inst[i].type, info.sign))]

\* A called function takes what it took: the operands are rolled back.
shrinkCall(s, i) ==
    LET back == FoldLeft(LAMBDA t, k : IF t.failed # "" \/ t.fn.inst[i].args[k] \notin DOMAIN t.changed THEN t
                                       ELSE rollbackType(t, i, k, Info(NoType, TRUE)),
                         s, [k \in DOMAIN s.fn.inst[i].args |-> k])
    IN  IF back.failed # "" THEN back ELSE shrinkInstructionType(back, i)

\* The value returned gets the type of the function back, as a signed number:
\* the type of a return instruction is void, so the cast is asked for always.
shrinkRet(s, i) ==
    LET v == s.fn.inst[i].args[1]
        n == Fresh(s.fn)
        f == Before(s.fn, i, CastOf(s.fn, v, s.fn.ret, TRUE))
        word == Const(SignedValue(v), s.fn.ret.w)
    IN  IF TypeOf(s.fn, v) = s.fn.ret THEN s
        ELSE IF IsConstant(v) THEN [s EXCEPT !.fn = ReplaceIn(@, i, v, word)]
        ELSE [s EXCEPT !.fn = ReplaceIn(f, i, v, Reg(n)), !.range = CopyRange(@, v.reg, n)]

\* The labels get the type of the condition, one after the other.
shrinkSwitch(s, i) ==
    LET w == TypeOf(s.fn, s.fn.inst[i].args[1]).w
    IN  FoldLeft(LAMBDA t, k :
            LET v == t.fn.inst[i].args[k]
            IN  [t EXCEPT !.fn = ReplaceIn(@, i, v, Const(v.val, w)),
                          !.changed = Emplace(@, Const(v.val, w), Info(Int_(v.w), FALSE))],
            s, [k \in 1..(Len(s.fn.inst[i].args) - 1) |-> k + 1])

\* One turn of shrinkInstType
Shrunk(s, i) ==
    LET op == s.fn.inst[i].op
        operands == IF op \in Binaries THEN matchOperandType(s, i)
                    ELSE IF op = "phi" THEN matchPhiOperandType(s, i) ELSE s
        dest == IF operands.failed # "" THEN operands ELSE matchDestType(operands, i)
    IN  CASE op = "alloca" -> shrinkAlloca(s, i)
          [] op = "call" -> shrinkCall(s, i)
          [] op \in Binaries \cup {"phi", "load"} ->
                 IF dest.failed # "" THEN dest ELSE shrinkInstructionType(dest, i)
          [] op \in Casts -> matchCastType(s, i)
          [] op \in {"store", "icmp"} -> matchOperandType(s, i)
          [] op = "ret" -> shrinkRet(s, i)
          [] op = "switch" -> shrinkSwitch(s, i)
          [] OTHER -> s

-----------------------------------------------------------------------------
(* mergeCast: cast i reads cast j, and both are made one. *)

MergedCast(f, i, o) ==
    LET first == f.inst[f.inst[i].args[1].reg]
        sign == IF f.inst[i].type.kind = "fp" THEN first.op = "sitofp" ELSE f.inst[i].op = "sext"
    IN  CastOf(f, o, f.inst[i].type, sign)

\* s with its set of source casts
Merge(s, set, i) ==
    LET f == s.fn
        ins == f.inst[i]
        j == ins.args[1].reg
        o == f.inst[j].args[1]
        n == Fresh(f)
        g == After(f, j, MergedCast(f, i, o))
        before == IF Reg(j) \in DOMAIN s.changed THEN s.changed[Reg(j)].type ELSE f.inst[j].type
        replaced(h, v, keep) == Erase(ReplaceUses(h, Reg(i), v, keep), i)
    IN  IF TypeOf(f, Reg(j)) = ins.type
          THEN <<[s EXCEPT !.fn = replaced(f, Reg(j), 0)], set>>
        ELSE IF f.inst[j].op = "arg" THEN <<s, set>>
        ELSE IF j \notin set THEN <<s, set \cup {i}>>
        ELSE IF Alike(TypeOf(f, o), ins.type) THEN <<[s EXCEPT !.fn = replaced(f, o, 0)], set \ {j}>>
        ELSE <<[s EXCEPT !.fn = replaced(g, Reg(n), n),
                         !.range = CopyRange(@, o.reg, n),
                         !.changed = Emplace(@, Reg(n), Info(before, ins.op = "sext"))],
               (set \ {j}) \cup {n}>>

\* One turn of mergeCast
Joined(s, set, i) ==
    IF s.fn.inst[i].op \in Casts THEN Merge(s, set, i)
    ELSE <<s, set \ {v.reg : v \in ToSet(s.fn.inst[i].args)}>>

-----------------------------------------------------------------------------
(* upDateInstSignFlag *)

Unsigned == [sdiv |-> "udiv", srem |-> "urem", ashr |-> "lshr",
             slt |-> "ult", sle |-> "ule", sgt |-> "ugt", sge |-> "uge"]
Swapped  == [slt |-> "sgt", sle |-> "sge", sgt |-> "slt", sge |-> "sle", eq |-> "eq", ne |-> "ne"]
Made(x)  == IF x \in DOMAIN Unsigned THEN Unsigned[x] ELSE x

\* The signs the code can read of an operand: of one that typeChangedInst
\* does not hold, it reads past the end of the map.
SignsRead(s, v) == IF v \in DOMAIN s.changed THEN {s.changed[v].sign} ELSE BOOLEAN

\* The outcomes of one turn of upDateInstSignFlag.  A division, a remainder or a
\* shift is replaced by a new instruction, of which nothing is known; the entries
\* of the old one stay.
Updated(s, i) ==
    LET ins == s.fn.inst[i]
        a == ins.args[1]
        b == ins.args[2]
        unsigned == {~x /\ ~y : x \in SignsRead(s, a), y \in SignsRead(s, b)}
        new == Instr(Made(ins.op), TypeOf(s.fn, a), ins.args)
        replaced == ReplaceUses(Before(s.fn, i, new), Reg(i), Reg(Fresh(s.fn)), 0)
        made == IF ins.op = "icmp" THEN [s EXCEPT !.fn.inst[i].pred = Made(@)]
                ELSE [s EXCEPT !.fn = Erase(replaced, i)]
        turned == [s EXCEPT !.fn.inst[i].args = <<b, a>>, !.fn.inst[i].pred = Swapped[@]]
        constant(t) == IF SignedValue(t.fn.inst[i].args[2]) < 0 THEN t
                       ELSE [t EXCEPT !.fn.inst[i].pred = Made(@)]
        ordered == ins.op = "icmp" /\ ins.pred \in DOMAIN Swapped
    IN  IF Len(ins.args) < 2 \/ {a, b} \cap DOMAIN s.changed = {} THEN {s}
        ELSE IF ordered /\ IsConstant(a) /\ ~IsConstant(b) THEN {constant(turned)}
        ELSE IF ordered /\ ~IsConstant(a) /\ IsConstant(b) THEN {constant(s)}
        ELSE IF ordered \/ ins.op \in {"sdiv", "srem", "ashr"}
          THEN {IF u THEN made ELSE s : u \in unsigned}
        ELSE {s}

-----------------------------------------------------------------------------
(* The walks *)

Held == State(fn, range, changed)

\* The instruction after i in layout order, read before i is processed.
Following(f, i) ==
    LET order == Layout(f)
        k == CHOOSE k \in DOMAIN order : order[k] = i
    IN  IF k = Len(order) THEN 0 ELSE order[k + 1]
First(f) == Layout(f)[1]

Parameters(f) == SetToSortSeq({i \in DOMAIN f.inst : f.inst[i].op = "arg"}, LAMBDA i, j : i < j)

Init == /\ source \in {Analysed(s) : s \in Sources}
        /\ fn = source.fn
        /\ range = source.range
        /\ changed = [v \in {} |-> Info(NoType, TRUE)]
        /\ merged = {}
        /\ phase = "parameters"
        /\ at = 0

Take(s) == fn' = s.fn /\ range' = s.range /\ changed' = s.changed

\* The parameters get their casts, the last one in front.
ShrinkParameters ==
    LET s == FoldLeft(shrinkParameter, Held, Parameters(fn))
    IN  /\ phase = "parameters"
        /\ Take(s)
        /\ phase' = "shrink"
        /\ at' = First(s.fn)
        /\ UNCHANGED <<source, merged>>

\* Mutant: the iterator moves on after the handler has inserted its casts.
ShrinkOne_Late ==
    LET s == Shrunk(Held, at)
    IN  /\ phase = "shrink" /\ at # 0
        /\ Take(s)
        /\ phase' = IF s.failed = "" THEN phase ELSE "failed"
        /\ at' = IF at \in Placed(s.fn) THEN Following(s.fn, at) ELSE Following(fn, at)
        /\ UNCHANGED <<source, merged>>

ShrinkOne ==
    LET s == Shrunk(Held, at)
    IN  /\ phase = "shrink" /\ at # 0
        /\ Take(s)
        /\ phase' = IF s.failed = "" THEN phase ELSE "failed"
        /\ at' = Following(fn, at)
        /\ UNCHANGED <<source, merged>>

MergeOne ==
    LET m == Joined(Held, merged, at)
    IN  /\ phase = "merge" /\ at # 0
        /\ Take(m[1])
        /\ merged' = m[2]
        /\ at' = Following(fn, at)
        /\ UNCHANGED <<source, phase>>

SignOne ==
    /\ phase = "sign" /\ at # 0
    /\ \E s \in Updated(Held, at) : Take(s)
    /\ at' = Following(fn, at)
    /\ UNCHANGED <<source, merged, phase>>

\* The end of a walk
EndWalk ==
    /\ phase \in {"shrink", "merge", "sign"} /\ at = 0
    /\ phase' = CASE phase = "shrink" -> "merge" [] phase = "merge" -> "sign" [] phase = "sign" -> "done"
    /\ at' = IF phase = "sign" THEN 0 ELSE First(fn)
    /\ UNCHANGED <<source, fn, range, changed, merged>>

Next == ShrinkParameters \/ ShrinkOne \/ MergeOne \/ SignOne \/ EndWalk

Spec == Init /\ [][Next]_vars
=============================================================================
