-------------------------- MODULE IntervalArithmetic ------------------------
(***************************************************************************)
(* The ranges of BoundInfo::virtualRegisterRange and what the arithmetic   *)
(* arms of rangeAnalysis compute on them.  A range is a pair of bounds;    *)
(* nothing in the code forces lo <= hi, and some arms do produce inverted  *)
(* pairs (MulConst, NegRange).                                             *)
(***************************************************************************)
EXTENDS Integers, FiniteSetsExt

RangePairs == [lo : Int, hi : Int]

Pair(l, h) == [lo |-> l, hi |-> h]
Point(c)   == Pair(c, c)

In(x, r)      == r.lo <= x /\ x <= r.hi
Covers(r, s)  == r.lo <= s.lo /\ s.hi <= r.hi
Sorted(r)     == r.lo <= r.hi

Min2(a, b) == IF a <= b THEN a ELSE b
Max2(a, b) == IF a >= b THEN a ELSE b
Abs(a)     == IF a < 0 THEN -a ELSE a

Hull(r, s) == Pair(Min2(r.lo, s.lo), Max2(r.hi, s.hi))
\* x1 + x2, x + c: a constant c takes part as the pair (c, c)
AddRange(x, y) == Pair(x.lo + y.lo, x.hi + y.hi)

\* x1 - x2, x - c and c - x
SubRange(x, y) == Pair(x.lo - y.hi, x.hi - y.lo)

\* x1 * x2: the extremes of the four corner products
MulRange(x, y) ==
    Pair(Min2(Min2(x.lo * y.lo, x.lo * y.hi), Min2(x.hi * y.lo, x.hi * y.hi)),
         Max2(Max2(x.lo * y.lo, x.lo * y.hi), Max2(x.hi * y.lo, x.hi * y.hi)))

\* x * c: the two ends are scaled and not reordered
MulConst(x, c) == Pair(x.lo * c, x.hi * c)

\* fneg x: the two ends are negated and not exchanged
NegRange(x) == Pair(-x.lo, -x.hi)

\* llvm.fabs: the ends have the same strict sign, or the range reaches zero
AbsRange(x) ==
    IF x.lo * x.hi > 0
    THEN Pair(Min2(Abs(x.lo), Abs(x.hi)), Max2(Abs(x.lo), Abs(x.hi)))
    ELSE Pair(0, Max2(Abs(x.lo), Abs(x.hi)))

-----------------------------------------------------------------------------
(* compareICmpWithVariableRange: what a comparison of two ranges decides.  *)
(* The signed predicates of icmp; the unsigned ones and the ordered and    *)
(* unordered floating predicates share these arms in the code.             *)

CmpRes == {"Depends", "AlwaysTrue", "AlwaysFalse", "Unsupported"}

Decide(yes, no) == IF yes THEN "AlwaysTrue" ELSE IF no THEN "AlwaysFalse" ELSE "Depends"

SamePoint(l, r) == l.lo = r.lo /\ r.lo = l.hi /\ l.hi = r.hi
Apart(l, r)     == l.lo > r.hi \/ l.hi < r.lo

compareICmp_OffByOne(pred, l, r) ==
    IF pred = "eq" THEN Decide(SamePoint(l, r), Apart(l, r))
    ELSE IF pred = "slt" THEN Decide(l.hi <= r.lo, l.lo >= r.hi)
    ELSE IF pred = "sge" THEN Decide(l.lo >= r.hi, l.hi <= r.lo)
    ELSE "Depends"

compareICmp(pred, l, r) ==
    IF pred = "eq" THEN Decide(SamePoint(l, r), Apart(l, r))
    ELSE IF pred = "ne" THEN Decide(Apart(l, r), SamePoint(l, r))
    ELSE IF pred = "sgt" THEN Decide(l.lo > r.hi, l.hi <= r.lo)
    ELSE IF pred = "sge" THEN Decide(l.lo >= r.hi, l.hi < r.lo)
    ELSE IF pred = "slt" THEN Decide(l.hi < r.lo, l.lo >= r.hi)
    ELSE IF pred = "sle" THEN Decide(l.hi <= r.lo, l.lo > r.hi)
    ELSE "Unsupported"

\* what the predicate says of two integers
Holds(pred, a, b) ==
    \/ pred = "eq"  /\ a = b
    \/ pred = "ne"  /\ a # b
    \/ pred = "slt" /\ a < b
    \/ pred = "sle" /\ a <= b
    \/ pred = "sgt" /\ a > b
    \/ pred = "sge" /\ a >= b

\* swapOperands also exchanges the predicate: a < b is b > a
Swapped(pred) == CASE pred = "slt" -> "sgt" [] pred = "sgt" -> "slt"
                   [] pred = "sle" -> "sge" [] pred = "sge" -> "sle"
                   [] OTHER -> pred

-----------------------------------------------------------------------------
(* modInterval: the range of lhs % rhs, C's truncated remainder, for two   *)
(* integer ranges.  The three C functions recurse on smaller or sign-      *)
(* normalised intervals; here the sign cases are unfolded, so nothing      *)
(* recurses.  RemDiverges names the arguments for which they never return. *)

\* C's integer remainder: the sign of the dividend
RemC(a, b) == IF a >= 0 THEN a % Abs(b) ELSE -((-a) % Abs(b))

Negate(r) == Pair(-r.hi, -r.lo)

modConstDivisorInterval_NoMinusOne(lo, hi, m) ==
    IF lo > hi \/ m = 0 THEN Point(0)
    ELSE Pair(IF lo < 0 THEN -Abs(m) ELSE 0, IF hi > 0 THEN Abs(m) ELSE 0)

\* (lo..hi) % m
modConstDivisorInterval(lo, hi, m) ==
    LET nonNeg(a, b) ==
            IF b - a < Abs(m) /\ RemC(a, m) <= RemC(b, m)
            THEN Pair(RemC(a, m), RemC(b, m))
            ELSE Pair(0, Abs(m) - 1)
    IN  IF lo > hi \/ m = 0 THEN Point(0)
        ELSE IF hi < 0 THEN Negate(nonNeg(-hi, -lo))
        ELSE IF lo < 0 THEN Hull(Negate(nonNeg(1, -lo)), nonNeg(0, hi))
        ELSE nonNeg(lo, hi)

\* "max value appears at [a/2] + 1"
Peak_RoundedDown(lhs) == lhs \div 2
Peak(lhs) == lhs \div 2 + 1

\* lhs % (lo..hi), 0 < lhs and 0 < lo <= hi
PositiveDividend(lhs, lo, hi) ==
    LET rems(a, b) == {RemC(lhs, m) : m \in a .. b}
        half == Peak(lhs)
    IN  IF lo > lhs THEN Point(lhs)
        ELSE IF hi > lhs THEN Pair(0, lhs)
        ELSE IF half <= lo THEN Pair(RemC(lhs, hi), RemC(lhs, lo))
        ELSE IF half <= hi
             THEN Pair(IF hi = lhs THEN 0 ELSE Min({lhs} \cup rems(lo, half - 1)),
                       RemC(lhs, half))
             ELSE Pair(Min(rems(lo, hi)), Max(rems(lo, hi)))

\* the sign of the divisor does not matter: (lo, hi) becomes a positive range
DivisorLow(lo, hi)  == LET a == IF hi <= 0 THEN -hi ELSE lo IN IF a <= 0 THEN 1 ELSE a
DivisorHigh(lo, hi) == Max2(-lo, hi)

\* lhs % (lo..hi)
modConstDividendInterval(lhs, lo, hi) ==
    LET r == PositiveDividend(Abs(lhs), DivisorLow(lo, hi), DivisorHigh(lo, hi))
    IN  IF lo > hi \/ lhs = 0 THEN Point(0)
        ELSE IF lhs < 0 THEN Negate(r) ELSE r

\* the divisor is longer than the dividend interval: (l1..h1) wraps at most once
ShortDividend(l1, h1, l2, h2) ==
    LET parts == IF h1 - l1 < h2 - l2
                 THEN {modConstDividendInterval(lhs, l2, h2) : lhs \in l1 .. h1}
                 ELSE {modConstDivisorInterval(l1, h1, rhs) : rhs \in l2 .. h2}
    IN  IF l2 > h1 THEN Pair(l1, h1)
        ELSE IF h2 > h1 THEN Pair(0, h1)
        ELSE Pair(Min({p.lo : p \in parts}), Max({p.hi : p \in parts}))

\* 0 <= l1 < h1 and 0 < l2 <= h2
PositiveMod(l1, h1, l2, h2) ==
    LET d    == h1 - l1
        part == IF d + 1 = h2 THEN modConstDivisorInterval(l1, h1, h2)
                ELSE ShortDividend(l1, h1, d + 1, h2)
    IN  IF l2 = h2 THEN modConstDivisorInterval(l1, h1, l2)
        ELSE IF d >= h2 THEN Pair(0, h2 - 1)
        ELSE IF d >= l2 THEN Pair(Min2(0, part.lo), Max2(d - 1, part.hi))
        ELSE ShortDividend(l1, h1, l2, h2)

modInterval(l1, h1, l2, h2) ==
    LET nonNeg(a, b) ==
            IF a = b THEN modConstDividendInterval(a, l2, h2)
            ELSE IF l2 = h2 THEN modConstDivisorInterval(a, b, l2)
            ELSE PositiveMod(a, b, DivisorLow(l2, h2), DivisorHigh(l2, h2))
    IN  IF l1 > h1 \/ l2 > h2 THEN Point(0)
        ELSE IF h1 < 0 THEN Negate(nonNeg(-h1, -l1))
        ELSE IF l1 < 0 THEN Hull(Negate(nonNeg(1, -l1)), nonNeg(0, h1))
        ELSE nonNeg(l1, h1)

\* "rhsHigh <= 0" calls modConstDividendInterval(lhs, -rhsHigh, -rhsLow),
\* which for the divisor range (0, 0) is the same call again
RemDiverges(x, y) ==
    /\ y = Point(0) /\ Sorted(x)
    /\ (x.lo = x.hi /\ x.lo # 0) \/ (x.lo = -1 /\ x.hi >= 0)

RemRange(x, y) == modInterval(x.lo, x.hi, y.lo, y.hi)
=============================================================================
