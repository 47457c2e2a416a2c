---------------------------- MODULE IntervalCheck ---------------------------
(***************************************************************************)
(* One arm of rangeAnalysis on one instruction: every operator, every      *)
(* width, every pair of operand ranges, constants on either side, against  *)
(* what the instruction computes for each value in the ranges.             *)
(***************************************************************************)
EXTENDS WordIntervals

LLVM == INSTANCE TypedExecution

CONSTANTS
    Bound,     \* the ends of the ranges of unbounded operands are in -Bound .. Bound
    Widths     \* the widths of the words that are shifted and cast

ASSUME WidthsAssumption == Widths \subseteq 1 .. LongWidth

\* What the proofs use of exponentiation, of which the provers know nothing.
ASSUME PowersOfTwo == 2^0 = 1 /\ \A n \in 0 .. LongWidth : 2^(n + 1) = 2 * 2^n

VARIABLES
    query,     \* an instruction with the ranges of its operands
    answer     \* {}, or the range of its result

Bitwise == {"and", "or", "xor"}
Shifts  == {"shl", "ashr", "lshr"}
Casts   == {"trunc", "zext", "sext"}

Ranges(low, high) == {r \in [lo : low .. high, hi : low .. high] : Sorted(r)}
Bounded == Ranges(-Bound, Bound)

\* a register of w bits, as its type reads it: with a sign, or without
WordRanges(w) == Ranges(-(2^(w - 1)), 2^(w - 1) - 1) \cup
                 (IF w < LongWidth THEN Ranges(0, 2^w - 1) ELSE {})

Query(op, w, x, y, const) == [op |-> op, w |-> w, x |-> x, y |-> y, const |-> const]

\* "left" or "right": that operand is a constant
Constants(x, y) == {"none"} \cup {c \in {"left"} : x.lo = x.hi} \cup {c \in {"right"} : y.lo = y.hi}

Division == \E x \in Bounded, y \in Bounded : \E const \in Constants(x, y) :
                query = Query("sdiv", LongWidth, x, y, const)

\* the ranges for which modInterval does not return are not asked for
Remainder == \E x \in Bounded, y \in Bounded :
                 ~RemDiverges(x, y) /\ query = Query("rem", LongWidth, x, y, "none")

\* the ends are int64_t, and are negated
Longs == {x \in Bounded : -(2^(LongWidth - 1)) < x.lo /\ x.hi < 2^(LongWidth - 1)}

BitwiseOperation == \E op \in Bitwise, x \in Longs, y \in Longs :
                        query = Query(op, LongWidth, x, y, "none")

\* a shift by the width or more has no result
Shift == \E op \in Shifts, w \in Widths :
            \E x \in WordRanges(w), y \in Ranges(0, w - 1) : \E const \in Constants(x, y) :
                query = Query(op, w, x, y, const)

Cast == \E w \in Widths \ {LongWidth} :
            \/ \E x \in WordRanges(LongWidth) : query = Query("trunc", w, x, x, "none")
            \/ \E op \in {"zext", "sext"}, x \in WordRanges(w) : query = Query(op, w, x, x, "none")

Init == (Division \/ Remainder \/ BitwiseOperation \/ Shift \/ Cast) /\ answer = {}

Answer(op, w, x, y, const) ==
    CASE op = "rem" -> RemRange(x, y)
      [] op = "sdiv" -> IF const = "left" THEN DivOfConst(x.lo, y)
                        ELSE IF const = "right" THEN DivByConst(x, y.lo) ELSE DivRange(x, y)
      [] op = "shl" -> IF const = "left" THEN ShlOfConst(x.lo, y, w)
                       ELSE IF const = "right" THEN ShlByConst(x, y.lo, w) ELSE ShlRange(x, y, w)
      [] op = "ashr" -> IF const = "left" THEN AShrOfConst(x.lo, y, w)
                        ELSE IF const = "right" THEN AShrByConst(x, y.lo, w) ELSE AShrRange(x, y, w)
      [] op = "lshr" -> IF const = "left" THEN LShrOfConst(x.lo, y, w)
                        ELSE IF const = "right" THEN LShrByConst(x, y.lo, w) ELSE LShrRange(x, y, w)
      [] op = "and" -> AndRange(x, y)
      [] op = "or"  -> OrRange(x, y)
      [] op = "xor" -> XorRange(x, y)
      [] op \in Casts -> CastRange(x)

Evaluate == /\ answer = {}
            /\ answer' = {Answer(query.op, query.w, query.x, query.y, query.const)}
            /\ UNCHANGED query

Spec == Init /\ [][Evaluate]_<<query, answer>>

-----------------------------------------------------------------------------
(* What the instructions compute.  A register has a word, which its users  *)
(* read with a sign or without.                                            *)

Values(x) == x.lo .. x.hi

Reads(word, w) == {word, LLVM!AsSigned(word, w)}

Bitwised(op, a, b) ==
    LLVM!AsSigned(LLVM!Arithmetic(op, a % (2^LongWidth), b % (2^LongWidth), LongWidth), LongWidth)

AtMost(p, q) == Below(p, q) \/ (IsNumber(p) /\ IsNumber(q) /\ ~Below(q, p))

Shifted(op, a, s, w) == Reads(LLVM!Arithmetic(op, a % (2^w), s, w), w)

\* a cast to w bits, or from w bits
Converted(op, a, w) ==
    IF op = "trunc" THEN Reads(LLVM!CastWord(op, a % (2^LongWidth), LongWidth, w), w)
    ELSE Reads(LLVM!CastWord(op, a % (2^w), w, LongWidth), LongWidth)

-----------------------------------------------------------------------------
(* What the arms get wrong, or leave to the front end.                     *)

CrossesZero(x) == x.lo < 0 /\ 0 <= x.hi

\* around zero the extremes of a quotient are not its corners, a corner 0 / 0
\* is not a number, and a negative constant exchanges the ends of x / c
Undivided(op, x, y, const) ==
    /\ op = "sdiv"
    /\ \/ CrossesZero(y)
       \/ y.lo = 0 /\ x.lo = 0
       \/ const = "right" /\ y.hi < 0 /\ x.lo < x.hi

\* bits are shifted out of the type, which the range does not know
ShiftedOut(op, w, x, y) ==
    op = "shl" /\ \E a \in Values(x), s \in Values(y) : (a % (2^w)) * 2^s >= 2^w

\* the range of an unsigned reading has its ends at both ends of the type
UnsignedAroundZero(op, x, const) == op \in {"shl", "lshr"} /\ const # "left" /\ CrossesZero(x)

\* ashr and sext take a value for negative that its range has for positive,
\* zext the other way round
OtherReading(op, w, x) == \/ op \in {"ashr", "sext"} /\ x.hi >= 2^(w - 1)
                          \/ op = "zext" /\ x.lo < 0

\* the ends of c >> x come out exchanged; a negative c is shifted as a word
\* of 64 bits
ConstantShifted(op, w, x, y, const) ==
    /\ const = "left"
    /\ \/ op \in {"ashr", "lshr"} /\ ShiftRight(x.lo % (2^w), y.lo) # ShiftRight(x.lo % (2^w), y.hi)
       \/ op \in {"ashr", "shl"} /\ x.lo < 0

\* the operand does not fit in the narrower type
TooWide(op, w, x) == op = "trunc" /\ ~Covers(Pair(-(2^(w - 1)), 2^w - 1), x)

\* convertBin2Dec gives a negative result its value as an unsigned word
NegativeResult(op, x, y) ==
    op \in Bitwise /\ \E a \in Values(x), b \in Values(y) : Bitwised(op, a, b) < 0

Mistaken(op, w, x, y, const) ==
    \/ Undivided(op, x, y, const)  \/ ShiftedOut(op, w, x, y)
    \/ UnsignedAroundZero(op, x, const) \/ OtherReading(op, w, x)
    \/ ConstantShifted(op, w, x, y, const) \/ TooWide(op, w, x) \/ NegativeResult(op, x, y)

-----------------------------------------------------------------------------
(* Properties                                                              *)

\* Whatever case of the three mutually recursive functions answers, the range
\* of a remainder has every remainder that a dividend and a non-zero divisor
\* can leave.
EveryRemainderIn ==
    \A r \in answer :
        query.op = "rem" =>
            \A a \in Values(query.x), b \in Values(query.y) \ {0} : In(RemC(a, b), r)

\* Division, shifts and casts: whichever arm answers, whichever of the operands
\* is a constant, and whatever the width does to the ends, the range has
\* every exact quotient, shifted word or converted word, unless the operands
\* are of a kind that an arm is known to mistake.
EveryResultIn ==
    \A r \in answer :
        LET op == query.op  x == query.x  y == query.y  w == query.w
        IN  ~Mistaken(op, w, x, y, query.const) =>
                \A a \in Values(x), b \in Values(y) :
                    /\ op = "sdiv" /\ b # 0 => AtMost(r.lo, Over(a, b)) /\ AtMost(Over(a, b), r.hi)
                    /\ op \in Shifts => \E v \in Shifted(op, a, b, w) : In(v, r)
                    /\ op \in Casts => \E v \in Converted(op, a, w) : In(v, r)

\* The patterns of zeros and ones that two ranges split into lose nothing:
\* when no result is negative, the range has every bitwise combination, and
\* for "and" and "or" both of its ends are one.
BitwiseExact ==
    \A r \in answer :
        LET op == query.op
            results == {Bitwised(op, a, b) : a \in Values(query.x), b \in Values(query.y)}
        IN  op \in Bitwise /\ ~NegativeResult(op, query.x, query.y) =>
                /\ \A v \in results : In(v, r)
                /\ op # "xor" => {r.lo, r.hi} \subseteq results

\* The range of a remainder is never wider than the operands allow: no
\* further from zero than the dividend, and nearer to it than the largest
\* divisor.
NoWiderThanOperands ==
    \A r \in answer :
        LET m == Max2(Abs(query.y.lo), Abs(query.y.hi))
            d == Max2(Abs(query.x.lo), Abs(query.x.hi))
            e == Max2(0, Min2(d, m - 1))
        IN  query.op = "rem" => Covers(Pair(-e, e), r)

\* "The first bit is a sign bit": a bitwise combination of ranges has its
\* negative results as well.
SignBitKept ==
    \A r \in answer :
        query.op \in Bitwise =>
            \A a \in Values(query.x), b \in Values(query.y) : In(Bitwised(query.op, a, b), r)
=============================================================================
