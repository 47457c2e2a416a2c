---------------------- MODULE IntervalArithmetic_proofs ---------------------
(***************************************************************************)
(* The arms of rangeAnalysis that the trusted modules use contain every    *)
(* result of the operation, for all integers; so does what                 *)
(* compareICmpWithVariableRange decides.                                   *)
(*                                                                         *)
(* modInterval returns a pair of integers for every two ranges it returns  *)
(* for: no arm divides by zero or asks for the extreme of an empty set.    *)
(* The pair has every remainder of the two ranges, and is no wider than    *)
(* they allow.                                                             *)
(***************************************************************************)
EXTENDS IntervalArithmetic, WellFoundedInduction, TLAPS

\* The pairs that AddRange computes contain every sum.
THEOREM AddContains ==
    ASSUME NEW r \in RangePairs, NEW s \in RangePairs,
           NEW x \in Int, NEW y \in Int, In(x, r), In(y, s)
    PROVE  In(x + y, AddRange(r, s))
BY SMT DEF RangePairs, In, AddRange, Pair

\* The pairs that SubRange computes contain every difference.
THEOREM SubContains ==
    ASSUME NEW r \in RangePairs, NEW s \in RangePairs,
           NEW x \in Int, NEW y \in Int, In(x, r), In(y, s)
    PROVE  In(x - y, SubRange(r, s))
BY SMT DEF RangePairs, In, SubRange, Pair

\* A product of one variable factor lies between the products of the ends.
LEMMA ScaledEnds ==
    ASSUME NEW a \in Int, NEW b \in Int, NEW x \in Int, NEW c \in Int, a <= x, x <= b
    PROVE  /\ c >= 0 => a * c <= x * c /\ x * c <= b * c
           /\ c <= 0 => b * c <= x * c /\ x * c <= a * c
<1>1. (x - a) * c = x * c - a * c /\ (b - x) * c = b * c - x * c
  BY SMT
<1>2. c >= 0 => (x - a) * c >= 0 /\ (b - x) * c >= 0
  BY SMT
<1>3. c <= 0 => (x - a) * c <= 0 /\ (b - x) * c <= 0
  BY SMT
<1>4. a * c \in Int /\ b * c \in Int /\ x * c \in Int
  BY SMT
<1> DEFINE ac == a * c  bc == b * c  xc == x * c
           d == (x - a) * c  e == (b - x) * c
<1>5. ac \in Int /\ bc \in Int /\ xc \in Int /\ d = xc - ac /\ e = bc - xc
  BY <1>1, <1>4
<1>6. c >= 0 => d >= 0 /\ e >= 0
  BY <1>2
<1>7. c <= 0 => d <= 0 /\ e <= 0
  BY <1>3
<1> HIDE DEF ac, bc, xc, d, e
<1>8. /\ c >= 0 => ac <= xc /\ xc <= bc
      /\ c <= 0 => bc <= xc /\ xc <= ac
  BY <1>5, <1>6, <1>7, SMT
<1> QED
  BY <1>8 DEF ac, bc, xc

\* The minimum and maximum of four numbers bound each of them.
LEMMA FourExtremes ==
    ASSUME NEW a \in Int, NEW b \in Int, NEW c \in Int, NEW d \in Int
    PROVE  LET lo == Min2(Min2(a, b), Min2(c, d))
               hi == Max2(Max2(a, b), Max2(c, d))
           IN  /\ lo \in Int /\ lo <= a /\ lo <= b /\ lo <= c /\ lo <= d
               /\ hi \in Int /\ hi >= a /\ hi >= b /\ hi >= c /\ hi >= d
BY SMT DEF Min2, Max2

\* The four corner products bound every product of two variables: the
\* comment "range: [min(x1_min*x2_min, ...), max(...)]" of the Mul arm.
THEOREM MulContains ==
    ASSUME NEW r \in RangePairs, NEW s \in RangePairs,
           NEW x \in Int, NEW y \in Int, In(x, r), In(y, s)
    PROVE  In(x * y, MulRange(r, s))
<1> DEFINE a == r.lo  b == r.hi  c == s.lo  d == s.hi
<1>1. a \in Int /\ b \in Int /\ c \in Int /\ d \in Int
  BY DEF RangePairs
<1>2. a <= x /\ x <= b /\ c <= y /\ y <= d
  BY DEF In
<1> HIDE DEF a, b, c, d
<1> DEFINE ac == a * c  ad == a * d  bc == b * c  bd == b * d
           ay == a * y  by == b * y  xy == x * y
           lo == Min2(Min2(ac, ad), Min2(bc, bd))
           hi == Max2(Max2(ac, ad), Max2(bc, bd))
<1>3. /\ ac \in Int /\ ad \in Int /\ bc \in Int /\ bd \in Int
      /\ ay \in Int /\ by \in Int /\ xy \in Int
  BY <1>1, SMT
<1>4. (y >= 0 => ay <= xy /\ xy <= by) /\ (y <= 0 => by <= xy /\ xy <= ay)
  BY <1>1, <1>2, ScaledEnds
<1>5. /\ a >= 0 => c * a <= y * a /\ y * a <= d * a
      /\ a <= 0 => d * a <= y * a /\ y * a <= c * a
  BY <1>1, <1>2, ScaledEnds
<1>6. /\ b >= 0 => c * b <= y * b /\ y * b <= d * b
      /\ b <= 0 => d * b <= y * b /\ y * b <= c * b
  BY <1>1, <1>2, ScaledEnds
<1>7. c * a = ac /\ d * a = ad /\ y * a = ay /\ c * b = bc /\ d * b = bd /\ y * b = by
  BY <1>1, SMT
<1>8. (ac <= ay /\ ay <= ad) \/ (ad <= ay /\ ay <= ac)
  BY <1>1, <1>5, <1>7, SMT
<1>9. (bc <= by /\ by <= bd) \/ (bd <= by /\ by <= bc)
  BY <1>1, <1>6, <1>7, SMT
<1>10. (ay <= xy /\ xy <= by) \/ (by <= xy /\ xy <= ay)
  BY <1>4, SMT
<1>11. /\ lo \in Int /\ lo <= ac /\ lo <= ad /\ lo <= bc /\ lo <= bd
       /\ hi \in Int /\ hi >= ac /\ hi >= ad /\ hi >= bc /\ hi >= bd
  BY <1>3, FourExtremes
<1> HIDE DEF ac, ad, bc, bd, ay, by, xy, lo, hi
<1>12. lo <= xy /\ xy <= hi
  BY <1>3, <1>8, <1>9, <1>10, <1>11, SMT
<1>13. MulRange(r, s) = [lo |-> lo, hi |-> hi]
  BY DEF MulRange, Pair, lo, hi, ac, ad, bc, bd, a, b, c, d
<1> QED
  BY <1>12, <1>13 DEF In, xy

\* Scaling by a constant that is not negative keeps the order of the ends.
THEOREM MulConstContains ==
    ASSUME NEW r \in RangePairs, NEW c \in Nat, NEW x \in Int, In(x, r)
    PROVE  In(x * c, MulConst(r, c))
<1>1. r.lo \in Int /\ r.hi \in Int /\ c \in Int /\ c >= 0
  BY DEF RangePairs
<1>2. r.lo * c <= x * c /\ x * c <= r.hi * c
  BY <1>1, ScaledEnds DEF In
<1> QED
  BY <1>2 DEF In, MulConst, Pair

\* llvm.fabs of a value of the range lies in the pair its arm computes.
THEOREM AbsContains ==
    ASSUME NEW r \in RangePairs, NEW x \in Int, In(x, r)
    PROVE  In(Abs(x), AbsRange(r))
<1>1. r.lo \in Int /\ r.hi \in Int /\ r.lo <= x /\ x <= r.hi
  BY DEF RangePairs, In
<1>2. r.lo * r.hi > 0 => (r.lo > 0 /\ r.hi > 0) \/ (r.lo < 0 /\ r.hi < 0)
  BY <1>1, SMT
<1>3. Abs(x) <= Max2(Abs(r.lo), Abs(r.hi)) /\ 0 <= Abs(x)
  BY <1>1, SMT DEF Abs, Max2
<1>4. (r.lo > 0 /\ r.hi > 0) \/ (r.lo < 0 /\ r.hi < 0) => Min2(Abs(r.lo), Abs(r.hi)) <= Abs(x)
  BY <1>1, SMT DEF Abs, Min2
<1> QED
  BY <1>2, <1>3, <1>4 DEF In, AbsRange, Pair

\* What compareICmpWithVariableRange decides holds for every pair of values
\* in the two ranges: folding the comparison cannot change its outcome.
THEOREM FoldIsRight ==
    ASSUME NEW r \in RangePairs, NEW s \in RangePairs, NEW pred,
           NEW x \in Int, NEW y \in Int, In(x, r), In(y, s)
    PROVE  /\ compareICmp(pred, r, s) = "AlwaysTrue" => Holds(pred, x, y)
           /\ compareICmp(pred, r, s) = "AlwaysFalse" => ~Holds(pred, x, y)
<1>1. /\ r.lo \in Int /\ r.hi \in Int /\ s.lo \in Int /\ s.hi \in Int
      /\ r.lo <= x /\ x <= r.hi /\ s.lo <= y /\ y <= s.hi
  BY DEF RangePairs, In
<1> QED
  BY <1>1, SMT DEF compareICmp, Decide, SamePoint, Apart, Holds

\* Exchanging the operands together with the predicate keeps the meaning.
THEOREM SwapIsRight ==
    ASSUME NEW pred \in {"eq", "ne", "slt", "sle", "sgt", "sge"}, NEW x \in Int, NEW y \in Int
    PROVE  Holds(Swapped(pred), y, x) <=> Holds(pred, x, y)
<1>1. pred = "eq" \/ pred = "ne" \/ pred = "slt" \/ pred = "sle" \/ pred = "sgt" \/ pred = "sge"
  OBVIOUS
<1> QED
  BY <1>1, SMT DEF Swapped, Holds

-----------------------------------------------------------------------------
(* Extremes.  The ends of some ranges are the least and the greatest       *)
(* element of a set that is indexed by an interval of integers; that such  *)
(* a set has them is an induction on the length of the interval, done here *)
(* by taking a shortest counterexample (WFMin).                            *)

\* Every non-empty set of natural numbers has a least element.
LEMMA LeastNatural ==
    ASSUME NEW T \in SUBSET Nat, T # {}
    PROVE  \E m \in T : \A n \in T : m <= n
<1>1. PICK m \in T : \A n \in T : ~(<<n, m>> \in OpToRel(<, Nat))
  BY NatLessThanWellFounded, WFMin, Zenon
<1>2. \A n \in T : ~(n < m)
  BY <1>1, Zenon DEF OpToRel
<1>3. \A n \in T : m <= n
  BY <1>2, SMT
<1> QED
  BY <1>3

\* A function from an interval to the integers has a least value, ...
LEMMA LeastValue ==
    ASSUME NEW lo \in Int, NEW hi \in Int, lo <= hi, NEW f \in [lo .. hi -> Int]
    PROVE  \E m \in lo .. hi : \A k \in lo .. hi : f[m] <= f[k]
<1> DEFINE LeastOf(n) == \E m \in lo .. lo + n : \A k \in lo .. lo + n : f[m] <= f[k]
           Bad == {n \in 0 .. hi - lo : ~LeastOf(n)}
<1>1. Bad = {}
  <2> SUFFICES ASSUME Bad # {} PROVE FALSE
    OBVIOUS
  <2>0. Bad \in SUBSET Nat
    BY SMT
  <2>1. PICK n \in Bad : \A j \in Bad : n <= j
    <3> HIDE DEF Bad
    <3> QED
      BY <2>0, LeastNatural
  <2>2. n \in Nat /\ n <= hi - lo /\ ~LeastOf(n)
    BY <2>1, SMT
  <2>3. n # 0
    <3>1. \A k \in lo .. lo + 0 : k = lo
      BY SMT
    <3>2. f[lo] \in Int /\ lo \in lo .. lo + 0
      BY SMT
    <3>3. LeastOf(0)
      BY <3>1, <3>2, SMT
    <3> QED
      BY <3>3, <2>2
  <2>4. n - 1 \in 0 .. hi - lo /\ ~(n <= n - 1)
    BY <2>2, <2>3, SMT
  <2>5. PICK m \in lo .. lo + (n - 1) : \A k \in lo .. lo + (n - 1) : f[m] <= f[k]
    <3>1. n - 1 \notin Bad
      BY <2>1, <2>4, Zenon
    <3>2. LeastOf(n - 1)
      BY <2>4, <3>1, Zenon
    <3> QED
      BY <3>2
  <2>6. /\ m \in lo .. lo + n /\ lo + n \in lo .. lo + n
        /\ f[m] \in Int /\ f[lo + n] \in Int
    BY <2>2, <2>3, <2>5, SMT
  <2>7. \A k \in lo .. lo + n : f[k] \in Int /\ (k \in lo .. lo + (n - 1) \/ k = lo + n)
    BY <2>2, SMT
  <2>8. ~(f[m] <= f[lo + n])
    <3> SUFFICES ASSUME f[m] <= f[lo + n] PROVE FALSE
      OBVIOUS
    <3>1. \A k \in lo .. lo + n : f[m] <= f[k]
      BY <2>5, <2>7
    <3> QED
      BY <2>2, <2>6, <3>1
  <2>9. \A k \in lo .. lo + n : f[lo + n] <= f[k]
    <3> SUFFICES ASSUME NEW k \in lo .. lo + n PROVE f[lo + n] <= f[k]
      OBVIOUS
    <3>1. k = lo + n \/ f[m] <= f[k]
      BY <2>5, <2>7
    <3>2. f[k] \in Int
      BY <2>7
    <3> HIDE DEF LeastOf, Bad
    <3> QED
      BY <2>6, <2>8, <3>1, <3>2, SMT
  <2> QED
    BY <2>2, <2>6, <2>9
<1>2. hi - lo \in 0 .. hi - lo /\ lo + (hi - lo) = hi
  BY SMT
<1>3. LeastOf(hi - lo)
  BY <1>1, <1>2
<1> QED
  BY <1>2, <1>3

\* ... and a greatest one.
LEMMA GreatestValue ==
    ASSUME NEW lo \in Int, NEW hi \in Int, lo <= hi, NEW f \in [lo .. hi -> Int]
    PROVE  \E m \in lo .. hi : \A k \in lo .. hi : f[m] >= f[k]
<1> DEFINE g == [k \in lo .. hi |-> -f[k]]
<1>1. g \in [lo .. hi -> Int]
  BY SMT
<1>2. PICK m \in lo .. hi : \A k \in lo .. hi : g[m] <= g[k]
  <2> HIDE DEF g
  <2> QED
    BY <1>1, LeastValue
<1>3. \A k \in lo .. hi : f[m] >= f[k]
  BY <1>2, SMT
<1> QED
  BY <1>3

\* Min and Max of such a set of values are among them and bound them.
LEMMA ExtremesBound ==
    ASSUME NEW lo \in Int, NEW hi \in Int, lo <= hi, NEW f \in [lo .. hi -> Int]
    PROVE  LET S == {f[k] : k \in lo .. hi}
           IN  /\ Min(S) \in S /\ \A k \in lo .. hi : Min(S) <= f[k]
               /\ Max(S) \in S /\ \A k \in lo .. hi : f[k] <= Max(S)
<1> DEFINE S == {f[k] : k \in lo .. hi}
<1>1. S \subseteq Int
  BY SMT
<1>2. \E x \in S : \A y \in S : x <= y
  <2>1. PICK m \in lo .. hi : \A k \in lo .. hi : f[m] <= f[k]
    BY LeastValue
  <2> QED
    BY <2>1
<1>3. \E x \in S : \A y \in S : x >= y
  <2>1. PICK m \in lo .. hi : \A k \in lo .. hi : f[m] >= f[k]
    BY GreatestValue
  <2> QED
    BY <2>1
<1>4. \A k \in lo .. hi : f[k] \in S
  OBVIOUS
<1> HIDE DEF S
<1>5. Min(S) \in S /\ \A y \in S : Min(S) <= y
  BY <1>2 DEF Min
<1>6. Max(S) \in S /\ \A y \in S : Max(S) >= y
  BY <1>3 DEF Max
<1>7. \A k \in lo .. hi : f[k] <= Max(S)
  <2> SUFFICES ASSUME NEW k \in lo .. hi PROVE f[k] <= Max(S)
    OBVIOUS
  <2>1. f[k] \in S /\ f[k] \in Int /\ Max(S) \in Int
    BY <1>1, <1>4, <1>6
  <2>2. Max(S) >= f[k]
    BY <1>6, <2>1
  <2> QED
    BY <2>1, <2>2, SMT
<1>8. \A k \in lo .. hi : Min(S) <= f[k]
  BY <1>4, <1>5
<1>9. Min(S) \in S /\ Max(S) \in S
  BY <1>5, <1>6
<1> QED
  BY <1>7, <1>8, <1>9 DEF S

\* They are integers.
LEMMA ExtremesAreIntegers ==
    ASSUME NEW lo \in Int, NEW hi \in Int, lo <= hi, NEW f \in [lo .. hi -> Int]
    PROVE  /\ Min({f[k] : k \in lo .. hi}) \in Int
           /\ Max({f[k] : k \in lo .. hi}) \in Int
<1>1. \A x \in {f[k] : k \in lo .. hi} : x \in Int
  OBVIOUS
<1> QED
  BY <1>1, ExtremesBound

-----------------------------------------------------------------------------
(* The three functions, innermost first.                                   *)

\* A remainder is an integer.
LEMMA RemIsInteger ==
    ASSUME NEW a \in Int, NEW b \in Int, b # 0
    PROVE  RemC(a, b) \in Int
<1>1. Abs(b) \in Int /\ Abs(b) > 0
  BY SMT DEF Abs
<1>2. \A x \in Int : x % Abs(b) \in Int
  BY <1>1, SMT
<1> QED
  BY <1>2, SMT DEF RemC

\* A pair of integers is a range.
LEMMA PairsAreRanges ==
    ASSUME NEW a \in Int, NEW b \in Int
    PROVE  Pair(a, b) \in RangePairs /\ Pair(a, b).lo = a /\ Pair(a, b).hi = b
BY DEF Pair, RangePairs

\* The ends of ranges, of negated and of joined ones.
LEMMA RangesAreIntegers ==
    ASSUME NEW r \in RangePairs, NEW s \in RangePairs
    PROVE  /\ r.lo \in Int /\ r.hi \in Int
           /\ Negate(r) \in RangePairs
           /\ Hull(r, s) \in RangePairs
BY SMT DEF RangePairs, Negate, Hull, Pair, Min2, Max2

\* The least and the greatest remainder of one dividend, over a range of
\* divisors without zero.
LEMMA RemainderExtremes ==
    ASSUME NEW c \in Int, NEW lo \in Int, NEW hi \in Int, 0 < lo, lo <= hi
    PROVE  LET rems == {RemC(c, m) : m \in lo .. hi}
           IN  Min(rems) \in Int /\ Max(rems) \in Int /\ Min({c} \cup rems) \in Int
<1> DEFINE f == [k \in lo .. hi |-> RemC(c, k)]
           g == [k \in lo - 1 .. hi |-> IF k = lo - 1 THEN c ELSE RemC(c, k)]
<1>1. \A k \in lo .. hi : k \in Int /\ k # 0
  BY SMT
<1>2. \A k \in lo .. hi : RemC(c, k) \in Int
  BY <1>1, RemIsInteger
<1>3. f \in [lo .. hi -> Int]
  BY <1>2
<1>4. /\ lo - 1 \in Int /\ lo - 1 <= hi /\ lo - 1 \in lo - 1 .. hi
      /\ \A k : k \in lo - 1 .. hi <=> (k = lo - 1 \/ k \in lo .. hi)
      /\ lo - 1 \notin lo .. hi
  BY SMT
<1>5. g \in [lo - 1 .. hi -> Int]
  BY <1>2, <1>4
<1>6. {f[k] : k \in lo .. hi} = {RemC(c, m) : m \in lo .. hi}
  OBVIOUS
<1>7. {g[k] : k \in lo - 1 .. hi} = {c} \cup {RemC(c, m) : m \in lo .. hi}
  BY <1>4, Zenon
<1>8. Min({f[k] : k \in lo .. hi}) \in Int /\ Max({f[k] : k \in lo .. hi}) \in Int
  <2> HIDE DEF f
  <2> QED
    BY <1>3, ExtremesAreIntegers
<1>9. Min({g[k] : k \in lo - 1 .. hi}) \in Int
  <2> HIDE DEF g
  <2> QED
    BY <1>4, <1>5, ExtremesAreIntegers
<1> QED
  BY <1>6, <1>7, <1>8, <1>9, Zenon

\* modConstDivisorInterval.
LEMMA DivisorType ==
    ASSUME NEW lo \in Int, NEW hi \in Int, NEW m \in Int
    PROVE  modConstDivisorInterval(lo, hi, m) \in RangePairs
<1> DEFINE NonNeg(a, b) ==
        IF b - a < Abs(m) /\ RemC(a, m) <= RemC(b, m)
        THEN Pair(RemC(a, m), RemC(b, m)) ELSE Pair(0, Abs(m) - 1)
<1>1. Abs(m) - 1 \in Int
  BY SMT DEF Abs
<1>2. ASSUME m # 0, NEW a \in Int, NEW b \in Int PROVE NonNeg(a, b) \in RangePairs
  <2>1. RemC(a, m) \in Int /\ RemC(b, m) \in Int
    BY <1>2, RemIsInteger
  <2>2. Pair(RemC(a, m), RemC(b, m)) \in RangePairs /\ Pair(0, Abs(m) - 1) \in RangePairs
    BY <1>1, <2>1, PairsAreRanges
  <2> QED
    BY <2>2, Zenon
<1>3. Point(0) \in RangePairs
  BY PairsAreRanges DEF Point
<1>4. -hi \in Int /\ -lo \in Int /\ 0 \in Int /\ 1 \in Int
  BY SMT
<1>5. modConstDivisorInterval(lo, hi, m) =
        IF lo > hi \/ m = 0 THEN Point(0)
        ELSE IF hi < 0 THEN Negate(NonNeg(-hi, -lo))
        ELSE IF lo < 0 THEN Hull(Negate(NonNeg(1, -lo)), NonNeg(0, hi))
        ELSE NonNeg(lo, hi)
  BY DEF modConstDivisorInterval
<1> HIDE DEF NonNeg
<1>6. ASSUME m # 0
      PROVE  /\ Negate(NonNeg(-hi, -lo)) \in RangePairs
             /\ Hull(Negate(NonNeg(1, -lo)), NonNeg(0, hi)) \in RangePairs
             /\ NonNeg(lo, hi) \in RangePairs
  <2>1. /\ NonNeg(-hi, -lo) \in RangePairs /\ NonNeg(1, -lo) \in RangePairs
        /\ NonNeg(0, hi) \in RangePairs /\ NonNeg(lo, hi) \in RangePairs
    BY <1>2, <1>4, <1>6
  <2>2. Negate(NonNeg(-hi, -lo)) \in RangePairs /\ Negate(NonNeg(1, -lo)) \in RangePairs
    BY <2>1, RangesAreIntegers, Zenon
  <2> QED
    BY <2>1, <2>2, RangesAreIntegers, Zenon
<1> QED
  BY <1>3, <1>5, <1>6, Zenon

\* The last cases of modConstDividendInterval, reached with both signs removed.
LEMMA PositiveDividendType ==
    ASSUME NEW lhs \in Int, NEW lo \in Int, NEW hi \in Int, 0 < lhs, 0 < lo, lo <= hi
    PROVE  PositiveDividend(lhs, lo, hi) \in RangePairs
<1> DEFINE half == Peak(lhs)
           rems(a, b) == {RemC(lhs, m) : m \in a .. b}
<1>1. half \in Int /\ 0 < half /\ half - 1 \in Int
  BY SMT DEF Peak
<1>2. RemC(lhs, hi) \in Int /\ RemC(lhs, lo) \in Int
  BY RemIsInteger, SMT
<1>3. RemC(lhs, half) \in Int
  <2> HIDE DEF half
  <2> QED
    BY <1>1, RemIsInteger, SMT
<1>4. Min(rems(lo, hi)) \in Int /\ Max(rems(lo, hi)) \in Int
  BY RemainderExtremes
<1>5. ASSUME ~(half <= lo) PROVE Min({lhs} \cup rems(lo, half - 1)) \in Int
  <2>1. lo <= half - 1
    BY <1>1, <1>5, SMT
  <2> HIDE DEF half
  <2> QED
    BY <1>1, <2>1, RemainderExtremes
<1>6. PositiveDividend(lhs, lo, hi) =
        IF lo > lhs THEN Point(lhs)
        ELSE IF hi > lhs THEN Pair(0, lhs)
        ELSE IF half <= lo THEN Pair(RemC(lhs, hi), RemC(lhs, lo))
        ELSE IF half <= hi
             THEN Pair(IF hi = lhs THEN 0 ELSE Min({lhs} \cup rems(lo, half - 1)),
                       RemC(lhs, half))
             ELSE Pair(Min(rems(lo, hi)), Max(rems(lo, hi)))
  BY DEF PositiveDividend
<1> HIDE DEF half, rems
<1> QED
  BY <1>1, <1>2, <1>3, <1>4, <1>5, <1>6, PairsAreRanges DEF Point

\* modConstDividendInterval; a divisor range of (0, 0) is the one it does not
\* return for.
LEMMA DividendType ==
    ASSUME NEW lhs \in Int, NEW lo \in Int, NEW hi \in Int,
           lhs = 0 \/ ~(lo = 0 /\ hi = 0)
    PROVE  modConstDividendInterval(lhs, lo, hi) \in RangePairs
<1>1. Point(0) \in RangePairs
  BY PairsAreRanges DEF Point
<1>2. ASSUME ~(lo > hi \/ lhs = 0)
      PROVE  PositiveDividend(Abs(lhs), DivisorLow(lo, hi), DivisorHigh(lo, hi)) \in RangePairs
  <2>1. /\ Abs(lhs) \in Int /\ 0 < Abs(lhs)
        /\ DivisorLow(lo, hi) \in Int /\ DivisorHigh(lo, hi) \in Int
        /\ 0 < DivisorLow(lo, hi) /\ DivisorLow(lo, hi) <= DivisorHigh(lo, hi)
    BY <1>2, SMT DEF Abs, DivisorLow, DivisorHigh, Max2
  <2> QED
    BY <2>1, PositiveDividendType
<1>3. ASSUME ~(lo > hi \/ lhs = 0)
      PROVE  Negate(PositiveDividend(Abs(lhs), DivisorLow(lo, hi), DivisorHigh(lo, hi)))
                \in RangePairs
  BY <1>2, <1>3, RangesAreIntegers, Zenon
<1> QED
  BY <1>1, <1>2, <1>3, Zenon DEF modConstDividendInterval

\* The ends of a family of ranges have extremes.
LEMMA PairExtremes ==
    ASSUME NEW lo \in Int, NEW hi \in Int, lo <= hi, NEW p \in [lo .. hi -> RangePairs]
    PROVE  LET ps == {p[k] : k \in lo .. hi}
           IN  Min({q.lo : q \in ps}) \in Int /\ Max({q.hi : q \in ps}) \in Int
<1> DEFINE f == [k \in lo .. hi |-> p[k].lo]
           g == [k \in lo .. hi |-> p[k].hi]
<1>1. f \in [lo .. hi -> Int] /\ g \in [lo .. hi -> Int]
  BY DEF RangePairs
<1>2. /\ {f[k] : k \in lo .. hi} = {q.lo : q \in {p[k] : k \in lo .. hi}}
      /\ {g[k] : k \in lo .. hi} = {q.hi : q \in {p[k] : k \in lo .. hi}}
  OBVIOUS
<1>3. Min({f[k] : k \in lo .. hi}) \in Int /\ Max({g[k] : k \in lo .. hi}) \in Int
  <2> HIDE DEF f, g
  <2> QED
    BY <1>1, ExtremesAreIntegers
<1> QED
  BY <1>2, <1>3, Zenon

\* The last cases of modInterval.
LEMMA ShortDividendType ==
    ASSUME NEW l1 \in Int, NEW h1 \in Int, NEW l2 \in Int, NEW h2 \in Int,
           l1 <= h1, 0 < l2, l2 <= h2
    PROVE  ShortDividend(l1, h1, l2, h2) \in RangePairs
<1> DEFINE parts == IF h1 - l1 < h2 - l2
                    THEN {modConstDividendInterval(lhs, l2, h2) : lhs \in l1 .. h1}
                    ELSE {modConstDivisorInterval(l1, h1, rhs) : rhs \in l2 .. h2}
<1>1. Min({p.lo : p \in parts}) \in Int /\ Max({p.hi : p \in parts}) \in Int
  <2>1. ASSUME h1 - l1 < h2 - l2
        PROVE  Min({p.lo : p \in parts}) \in Int /\ Max({p.hi : p \in parts}) \in Int
    <3> DEFINE d == [k \in l1 .. h1 |-> modConstDividendInterval(k, l2, h2)]
    <3>1. \A k \in l1 .. h1 : modConstDividendInterval(k, l2, h2) \in RangePairs
      <4>1. ~(l2 = 0 /\ h2 = 0) /\ \A k \in l1 .. h1 : k \in Int
        BY SMT
      <4> QED
        BY <4>1, DividendType
    <3>2. d \in [l1 .. h1 -> RangePairs]
      BY <3>1
    <3>3. parts = {d[k] : k \in l1 .. h1}
      BY <2>1, Zenon
    <3>4. /\ Min({q.lo : q \in {d[k] : k \in l1 .. h1}}) \in Int
          /\ Max({q.hi : q \in {d[k] : k \in l1 .. h1}}) \in Int
      <4> HIDE DEF d
      <4> QED
        BY <3>2, PairExtremes
    <3> HIDE DEF d, parts
    <3> QED
      BY <3>3, <3>4, Zenon
  <2>2. ASSUME ~(h1 - l1 < h2 - l2)
        PROVE  Min({p.lo : p \in parts}) \in Int /\ Max({p.hi : p \in parts}) \in Int
    <3> DEFINE d == [k \in l2 .. h2 |-> modConstDivisorInterval(l1, h1, k)]
    <3>1. \A k \in l2 .. h2 : modConstDivisorInterval(l1, h1, k) \in RangePairs
      <4>1. \A k \in l2 .. h2 : k \in Int
        BY SMT
      <4> QED
        BY <4>1, DivisorType
    <3>2. d \in [l2 .. h2 -> RangePairs]
      BY <3>1
    <3>3. parts = {d[k] : k \in l2 .. h2}
      BY <2>2, Zenon
    <3>4. /\ Min({q.lo : q \in {d[k] : k \in l2 .. h2}}) \in Int
          /\ Max({q.hi : q \in {d[k] : k \in l2 .. h2}}) \in Int
      <4> HIDE DEF d
      <4> QED
        BY <3>2, PairExtremes
    <3> HIDE DEF d, parts
    <3> QED
      BY <3>3, <3>4, Zenon
  <2> QED
    BY <2>1, <2>2
<1>2. ShortDividend(l1, h1, l2, h2) =
        IF l2 > h1 THEN Pair(l1, h1)
        ELSE IF h2 > h1 THEN Pair(0, h1)
        ELSE Pair(Min({p.lo : p \in parts}), Max({p.hi : p \in parts}))
  BY Zenon DEF ShortDividend
<1>3. Pair(l1, h1) \in RangePairs /\ Pair(0, h1) \in RangePairs
  BY PairsAreRanges
<1>4. Pair(Min({p.lo : p \in parts}), Max({p.hi : p \in parts})) \in RangePairs
  <2> HIDE DEF parts
  <2> QED
    BY <1>1, PairsAreRanges
<1> HIDE DEF parts
<1> QED
  BY <1>2, <1>3, <1>4, Zenon

\* The case of two operands that are not negative has an answer.
LEMMA PositiveModType ==
    ASSUME NEW l1 \in Int, NEW h1 \in Int, NEW l2 \in Int, NEW h2 \in Int,
           l1 <= h1, 0 < l2, l2 <= h2
    PROVE  PositiveMod(l1, h1, l2, h2) \in RangePairs
<1> DEFINE d == h1 - l1
           part == IF d + 1 = h2 THEN modConstDivisorInterval(l1, h1, h2)
                   ELSE ShortDividend(l1, h1, d + 1, h2)
<1>1. d \in Int /\ 0 < d + 1 /\ d + 1 \in Int /\ h2 - 1 \in Int /\ d - 1 \in Int
  BY SMT
<1>2. modConstDivisorInterval(l1, h1, l2) \in RangePairs
  BY DivisorType
<1>3. ASSUME ~(d >= h2)
      PROVE  Pair(Min2(0, part.lo), Max2(d - 1, part.hi)) \in RangePairs
  <2>1. d + 1 <= h2
    BY <1>1, <1>3, SMT
  <2> HIDE DEF d
  <2>2. part \in RangePairs
    BY <1>1, <2>1, DivisorType, ShortDividendType
  <2>3. part.lo \in Int /\ part.hi \in Int
    BY <2>2 DEF RangePairs
  <2> HIDE DEF part
  <2> QED
    BY <1>1, <2>3, SMT DEF Pair, RangePairs, Min2, Max2
<1>4. ShortDividend(l1, h1, l2, h2) \in RangePairs
  BY ShortDividendType
<1>5. Pair(0, h2 - 1) \in RangePairs
  BY <1>1, PairsAreRanges
<1>6. PositiveMod(l1, h1, l2, h2) =
        IF l2 = h2 THEN modConstDivisorInterval(l1, h1, l2)
        ELSE IF d >= h2 THEN Pair(0, h2 - 1)
        ELSE IF d >= l2 THEN Pair(Min2(0, part.lo), Max2(d - 1, part.hi))
        ELSE ShortDividend(l1, h1, l2, h2)
  BY Zenon DEF PositiveMod
<1> HIDE DEF d, part
<1> QED
  BY <1>2, <1>3, <1>4, <1>5, <1>6, Zenon

\* modInterval returns a pair of numbers for every two ranges, sorted or not,
\* except those it does not return for.
THEOREM RemainderHasRange ==
    ASSUME NEW x \in RangePairs, NEW y \in RangePairs, ~RemDiverges(x, y)
    PROVE  RemRange(x, y) \in RangePairs
<1> DEFINE l1 == x.lo
           h1 == x.hi
           l2 == y.lo
           h2 == y.hi
           NonNeg(a, b) ==
                IF a = b THEN modConstDividendInterval(a, l2, h2)
                ELSE IF l2 = h2 THEN modConstDivisorInterval(a, b, l2)
                ELSE PositiveMod(a, b, DivisorLow(l2, h2), DivisorHigh(l2, h2))
<1>1. l1 \in Int /\ h1 \in Int /\ l2 \in Int /\ h2 \in Int
  BY DEF RangePairs
<1>2. ~(l2 = 0 /\ h2 = 0 /\ l1 <= h1 /\ ((l1 = h1 /\ l1 # 0) \/ (l1 = -1 /\ h1 >= 0)))
  <2>1. l2 = 0 /\ h2 = 0 => y = Point(0)
    BY DEF RangePairs, Point, Pair
  <2> QED
    BY <2>1 DEF RemDiverges, Sorted
<1>3. ASSUME l2 <= h2, NEW a \in Int, NEW b \in Int, a <= b,
             a = b /\ a # 0 => ~(l2 = 0 /\ h2 = 0)
      PROVE  NonNeg(a, b) \in RangePairs
  <2>1. ASSUME a = b PROVE modConstDividendInterval(a, l2, h2) \in RangePairs
    <3>1. a = 0 \/ ~(l2 = 0 /\ h2 = 0)
      BY <1>3, <2>1
    <3> QED
      BY <1>1, <3>1, DividendType
  <2>2. modConstDivisorInterval(a, b, l2) \in RangePairs
    BY <1>1, DivisorType
  <2>3. ASSUME l2 # h2
        PROVE  PositiveMod(a, b, DivisorLow(l2, h2), DivisorHigh(l2, h2)) \in RangePairs
    <3>1. /\ DivisorLow(l2, h2) \in Int /\ DivisorHigh(l2, h2) \in Int
          /\ 0 < DivisorLow(l2, h2) /\ DivisorLow(l2, h2) <= DivisorHigh(l2, h2)
      BY <1>1, <1>3, <2>3, SMT DEF DivisorLow, DivisorHigh, Max2
    <3> QED
      BY <1>3, <3>1, PositiveModType
  <2> QED
    BY <2>1, <2>2, <2>3, Zenon
<1>4. RemRange(x, y) =
        IF l1 > h1 \/ l2 > h2 THEN Point(0)
        ELSE IF h1 < 0 THEN Negate(NonNeg(-h1, -l1))
        ELSE IF l1 < 0 THEN Hull(Negate(NonNeg(1, -l1)), NonNeg(0, h1))
        ELSE NonNeg(l1, h1)
  BY DEF RemRange, modInterval
<1> HIDE DEF l1, h1, l2, h2, NonNeg
<1>5. ASSUME l1 <= h1, l2 <= h2, h1 < 0 PROVE Negate(NonNeg(-h1, -l1)) \in RangePairs
  <2>1. -h1 \in Int /\ -l1 \in Int /\ -h1 <= -l1 /\ (-h1 = -l1 /\ -h1 # 0 => ~(l2 = 0 /\ h2 = 0))
    BY <1>1, <1>2, <1>5, SMT
  <2>2. NonNeg(-h1, -l1) \in RangePairs
    BY <1>3, <1>5, <2>1
  <2> QED
    BY <2>2, RangesAreIntegers, Zenon
<1>6. ASSUME l1 <= h1, l2 <= h2, ~(h1 < 0), l1 < 0
      PROVE  Hull(Negate(NonNeg(1, -l1)), NonNeg(0, h1)) \in RangePairs
  <2>1. -l1 \in Int /\ 1 <= -l1 /\ (1 = -l1 /\ 1 # 0 => ~(l2 = 0 /\ h2 = 0))
        /\ 0 <= h1 /\ (0 = h1 /\ 0 # 0 => ~(l2 = 0 /\ h2 = 0))
    BY <1>1, <1>2, <1>6, SMT
  <2>2. NonNeg(1, -l1) \in RangePairs /\ NonNeg(0, h1) \in RangePairs
    BY <1>1, <1>3, <1>6, <2>1
  <2>3. Negate(NonNeg(1, -l1)) \in RangePairs
    BY <2>2, RangesAreIntegers, Zenon
  <2> QED
    BY <2>2, <2>3, RangesAreIntegers, Zenon
<1>7. ASSUME l1 <= h1, l2 <= h2 PROVE NonNeg(l1, h1) \in RangePairs \/ l1 < 0
  BY <1>1, <1>2, <1>3, <1>7
<1>8. Point(0) \in RangePairs
  BY PairsAreRanges DEF Point
<1> QED
  BY <1>1, <1>4, <1>5, <1>6, <1>7, <1>8, SMT
-----------------------------------------------------------------------------
(* What the pair has in it.                                                *)

\* A range for what the divisors lo .. hi leave of the dividends a .. b, none
\* of them negative: all remainders are in it, and it does not reach beyond
\* the largest dividend or up to the largest divisor.
Fits(r, a, b, lo, hi) ==
    /\ \A x \in a .. b, m \in lo .. hi : In(x % m, r)
    /\ 0 <= r.lo /\ r.hi <= b /\ r.hi < hi

\* The remainder of two natural numbers.
LEMMA RemainderOfNaturals ==
    ASSUME NEW a \in Nat, NEW m \in Nat, m > 0
    PROVE  /\ a % m \in Int /\ 0 <= a % m /\ a % m < m /\ a % m <= a
           /\ a < m => a % m = a
           /\ m <= a /\ a < 2 * m => a % m = a - m
BY SMT

\* Less than a divisor apart, and in the order of their remainders, two
\* dividends have one quotient, and so does what lies between them.
LEMMA RemaindersInOrder ==
    ASSUME NEW a \in Nat, NEW b \in Nat, NEW m \in Nat, m > 0,
           a <= b, b - a < m, a % m <= b % m, NEW x \in a .. b
    PROVE  a % m <= x % m /\ x % m <= b % m
<1> DEFINE p == a \div m
           q == b \div m
<1>1. /\ p \in Int /\ q \in Int
      /\ a = m * p + (a % m) /\ b = m * q + (b % m)
      /\ 0 <= a % m /\ a % m < m /\ 0 <= b % m /\ b % m < m
      /\ a % m \in Int /\ b % m \in Int
  BY SMT
<1> HIDE DEF p, q
<1>2. m * (q - p) = (b - a) - ((b % m) - (a % m))
  BY <1>1, SMT
<1>3. -m < m * (q - p) /\ m * (q - p) < m
  BY <1>1, <1>2, SMT
<1>4. q - p \in Int
  BY <1>1, SMT
<1>5. \A d \in Int : -m < m * d /\ m * d < m => d = 0
  BY SMT
<1>6. q = p
  BY <1>1, <1>3, <1>4, <1>5, SMT
<1>7. x \in Nat /\ a <= x /\ x <= b
  BY SMT
<1>8. m * p \in Int
  BY <1>1, SMT
<1>9. 0 <= x - m * p /\ x - m * p < m /\ x - m * p \in Int
  BY <1>1, <1>6, <1>7, <1>8, SMT
<1>10. \A r \in Int : 0 <= r /\ r < m /\ x = m * p + r => x % m = r
  BY <1>1, <1>7, SMT
<1>11. x % m = x - m * p
  BY <1>7, <1>8, <1>9, <1>10, SMT
<1> QED
  BY <1>1, <1>6, <1>7, <1>8, <1>11, SMT

\* The sign of the dividend is that of the remainder, the sign of the divisor
\* does not matter.
LEMMA RemainderSigns ==
    ASSUME NEW a \in Int, NEW m \in Int, m # 0
    PROVE  /\ Abs(m) \in Nat /\ Abs(m) > 0
           /\ a >= 0 => RemC(a, m) = a % Abs(m)
           /\ a <= 0 => RemC(a, m) = -((-a) % Abs(m))
<1>1. Abs(m) \in Nat /\ Abs(m) > 0
  BY SMT DEF Abs
<1>2. 0 % Abs(m) = 0
  BY <1>1, SMT
<1> QED
  BY <1>1, <1>2, SMT DEF RemC

\* nonNeg of modConstDivisorInterval: the divisor is one number.
LEMMA ConstDivisorFits ==
    ASSUME NEW a \in Nat, NEW b \in Nat, NEW m \in Int, a <= b, m # 0
    PROVE  LET r == IF b - a < Abs(m) /\ RemC(a, m) <= RemC(b, m)
                    THEN Pair(RemC(a, m), RemC(b, m)) ELSE Pair(0, Abs(m) - 1)
           IN  Fits(r, a, b, Abs(m), Abs(m))
<1> DEFINE n == Abs(m)
<1>1. n \in Nat /\ n > 0 /\ RemC(a, m) = a % n /\ RemC(b, m) = b % n
  BY RemainderSigns, SMT
<1> HIDE DEF n
<1>2. \A x \in a .. b : /\ x \in Nat /\ x % n \in Int /\ 0 <= x % n /\ x % n < n
  BY <1>1, RemainderOfNaturals, SMT
<1>3. /\ a % n \in Int /\ 0 <= a % n /\ b % n \in Int /\ b % n <= b /\ b % n < n
      /\ a < n => a % n = a
      /\ b < n => b % n = b
  BY <1>1, RemainderOfNaturals, SMT
<1>4. CASE b - a < n /\ a % n <= b % n
  <2>1. \A x \in a .. b : a % n <= x % n /\ x % n <= b % n
    BY <1>1, <1>4, RemaindersInOrder
  <2>2. Fits(Pair(a % n, b % n), a, b, n, n)
    <3>1. \A k \in n .. n : k = n
      BY <1>1, SMT
    <3> QED
      BY <1>3, <2>1, <3>1, Zenon DEF Fits, In, Pair
  <2> QED
    BY <1>1, <1>4, <2>2 DEF n
<1>5. CASE ~(b - a < n /\ a % n <= b % n)
  <2>1. n - 1 <= b /\ n - 1 < n
    BY <1>1, <1>3, <1>5, SMT
  <2>2. \A x \in a .. b : 0 <= x % n /\ x % n <= n - 1
    BY <1>1, <1>2, SMT
  <2>3. Fits(Pair(0, n - 1), a, b, n, n)
    <3>1. \A k \in n .. n : k = n
      BY <1>1, SMT
    <3>2. 0 <= 0
      BY SMT
    <3> QED
      BY <2>1, <2>2, <3>1, <3>2, Zenon DEF Fits, In, Pair
  <2> QED
    BY <1>1, <1>5, <2>3 DEF n
<1> QED
  BY <1>4, <1>5

\* The least and the greatest of the remainders of one dividend bound them.
LEMMA RemaindersBound ==
    ASSUME NEW c \in Nat, NEW lo \in Int, NEW hi \in Int, 0 < lo, lo <= hi
    PROVE  LET rems == {RemC(c, m) : m \in lo .. hi}
           IN  /\ \A m \in lo .. hi : Min(rems) <= c % m /\ c % m <= Max(rems)
               /\ \E m \in lo .. hi : Min(rems) = c % m
               /\ \E m \in lo .. hi : Max(rems) = c % m
<1> DEFINE f == [k \in lo .. hi |-> c % k]
<1>1. \A k \in lo .. hi : k \in Nat /\ k > 0 /\ RemC(c, k) = c % k /\ c % k \in Int
  BY RemainderSigns, RemainderOfNaturals, SMT DEF Abs
<1>2. f \in [lo .. hi -> Int]
  BY <1>1
<1>3. {f[k] : k \in lo .. hi} = {RemC(c, m) : m \in lo .. hi}
  BY <1>1
<1>4. \A k \in lo .. hi : f[k] = c % k
  OBVIOUS
<1> HIDE DEF f
<1>5. LET S == {f[k] : k \in lo .. hi}
      IN  /\ Min(S) \in S /\ \A k \in lo .. hi : Min(S) <= f[k]
          /\ Max(S) \in S /\ \A k \in lo .. hi : f[k] <= Max(S)
  BY <1>2, ExtremesBound
<1>6. \A v \in {f[k] : k \in lo .. hi} : \E m \in lo .. hi : v = c % m
  BY <1>4
<1> QED
  BY <1>3, <1>4, <1>5, <1>6, Zenon

\* So do they together with the dividend.
LEMMA LeastRemainder ==
    ASSUME NEW c \in Nat, NEW lo \in Int, NEW hi \in Int, 0 < lo, lo <= hi
    PROVE  LET least == Min({c} \cup {RemC(c, m) : m \in lo .. hi})
           IN  /\ least \in Int /\ 0 <= least
               /\ \A m \in lo .. hi : least <= c % m
<1> DEFINE g == [k \in lo - 1 .. hi |-> IF k = lo - 1 THEN c ELSE c % k]
           least == Min({g[k] : k \in lo - 1 .. hi})
<1>1. \A k \in lo .. hi : k \in Nat /\ k > 0 /\ RemC(c, k) = c % k /\ c % k \in Int /\ 0 <= c % k
  BY RemainderSigns, RemainderOfNaturals, SMT DEF Abs
<1>2. /\ lo - 1 \in Int /\ lo - 1 <= hi /\ lo - 1 \in lo - 1 .. hi
      /\ \A k : k \in lo - 1 .. hi <=> (k = lo - 1 \/ k \in lo .. hi)
      /\ lo - 1 \notin lo .. hi
  BY SMT
<1>3. g \in [lo - 1 .. hi -> Int] /\ \A k \in lo - 1 .. hi : 0 <= g[k]
  <2>1. 0 <= c
    BY SMT
  <2> QED
    BY <1>1, <1>2, <2>1
<1>4. {g[k] : k \in lo - 1 .. hi} = {c} \cup {RemC(c, m) : m \in lo .. hi}
  <2>1. g[lo - 1] = c /\ \A k \in lo .. hi : g[k] = RemC(c, k)
    BY <1>1, <1>2
  <2> HIDE DEF g
  <2> QED
    BY <1>2, <2>1, Zenon
<1>5. \A k \in lo .. hi : k \in lo - 1 .. hi /\ g[k] = c % k
  BY <1>2, Zenon
<1>6. least \in {g[k] : k \in lo - 1 .. hi} /\ \A k \in lo - 1 .. hi : least <= g[k]
  <2> HIDE DEF g
  <2> QED
    BY <1>2, <1>3, ExtremesBound
<1>7. least \in Int /\ 0 <= least
  BY <1>3, <1>6
<1>8. \A m \in lo .. hi : least <= c % m
  BY <1>5, <1>6
<1> QED
  BY <1>4, <1>7, <1>8

\* From the divisor behind the half of the dividend on, the quotient is one
\* and the remainders fall; in front of it they are not larger.  The largest
\* divisor in front leaves one at most, no more than any that falls.
LEMMA RemaindersAroundPeak ==
    ASSUME NEW c \in Nat, c > 0, NEW m \in Nat, m > 0, m <= c
    PROVE  LET half == Peak(c)
           IN  /\ half \in Nat /\ half > 0 /\ c % half \in Int
               /\ half <= m => c % m = c - m
               /\ half <= c => c % half = c - half
               /\ half <= c /\ m < half => c % m <= c % half
               /\ half - 1 > 0 => c % (half - 1) <= 1
<1> DEFINE h == c \div 2
           b == c % 2
<1>1. h \in Nat /\ b \in Nat /\ b <= 1 /\ c = 2 * h + b /\ Peak(c) = h + 1
  BY SMT DEF Peak
<1> HIDE DEF h, b
<1>2. h + 1 \in Nat /\ h + 1 > 0 /\ c < 2 * (h + 1)
  BY <1>1, SMT
<1>3. c % (h + 1) \in Int /\ (h + 1 <= c => c % (h + 1) = c - (h + 1))
  BY <1>2, RemainderOfNaturals
<1>4. h + 1 <= m => c < 2 * m /\ m <= c
  BY <1>1, SMT
<1>5. h + 1 <= m => c % m = c - m
  BY <1>4, RemainderOfNaturals
<1>6. c % m \in Int /\ c % m < m
  BY RemainderOfNaturals
<1>7. h > 0 => c % h <= 1
  <2>1. CASE h > 1
    <3>1. c % h = b
      BY <1>1, <2>1, SMT
    <3> QED
      BY <1>1, <3>1
  <2>2. CASE h = 1
    <3>1. c % 1 = 0
      BY SMT
    <3>2. 0 <= 1
      BY SMT
    <3> QED
      BY <2>2, <3>1, <3>2, Zenon
  <2> QED
    BY <1>1, <2>1, <2>2, SMT
<1>8. h + 1 <= c /\ m < h + 1 => c % m <= c % (h + 1)
  BY <1>1, <1>3, <1>6, SMT
<1>9. (h + 1) - 1 = h
  BY <1>1, SMT
<1> QED
  BY <1>1, <1>2, <1>3, <1>5, <1>7, <1>8, <1>9, Zenon

\* The last cases of modConstDividendInterval.
LEMMA PositiveDividendFits ==
    ASSUME NEW c \in Nat, NEW lo \in Int, NEW hi \in Int, 0 < c, 0 < lo, lo <= hi
    PROVE  Fits(PositiveDividend(c, lo, hi), c, c, lo, hi)
<1> DEFINE half == Peak(c)
           rems(a, b) == {RemC(c, m) : m \in a .. b}
           r == PositiveDividend(c, lo, hi)
<1>1. \A m \in lo .. hi : /\ m \in Nat /\ m > 0 /\ lo <= m /\ m <= hi
                           /\ c % m \in Int /\ 0 <= c % m /\ c % m <= c /\ c % m < m
                           /\ (c < m => c % m = c)
                           /\ RemC(c, m) = c % m
  <2>1. \A m \in lo .. hi : m \in Nat /\ m > 0 /\ lo <= m /\ m <= hi
    BY SMT
  <2>2. \A m \in lo .. hi : RemC(c, m) = c % m
    BY RemainderSigns, SMT DEF Abs
  <2> QED
    BY <2>1, <2>2, RemainderOfNaturals
<1>2. SUFFICES /\ \A m \in lo .. hi : r.lo <= c % m /\ c % m <= r.hi
               /\ 0 <= r.lo /\ r.hi <= c /\ r.hi < hi
  <2>1. \A x \in c .. c : x = c
    BY SMT
  <2> QED
    BY <2>1, Zenon DEF Fits, In
<1>3. lo \in lo .. hi /\ hi \in lo .. hi
  BY SMT
<1>4. CASE lo > c
  <2>1. r.lo = c /\ r.hi = c
    BY <1>4 DEF PositiveDividend, Point, Pair
  <2> QED
    BY <1>1, <1>4, <2>1, SMT
<1>5. CASE ~(lo > c) /\ hi > c
  <2>1. r.lo = 0 /\ r.hi = c
    BY <1>5 DEF PositiveDividend, Point, Pair
  <2> QED
    BY <1>1, <1>5, <2>1, SMT
<1>6. CASE hi <= c /\ half <= lo
  <2>1. r.lo = RemC(c, hi) /\ r.hi = RemC(c, lo)
    BY <1>6, SMT DEF PositiveDividend, Pair
  <2>2. \A m \in lo .. hi : half \in Nat /\ m <= c /\ (half <= m => c % m = c - m)
    <3>1. \A m \in lo .. hi : m \in Nat /\ m > 0 /\ m <= c
      BY <1>1, <1>6, SMT
    <3> QED
      BY <3>1, RemaindersAroundPeak
  <2> HIDE DEF half, r
  <2>3. \A m \in lo .. hi : c % m = c - m
    BY <1>1, <1>3, <1>6, <2>2, SMT
  <2>4. r.lo = c - hi /\ r.hi = c - lo
    BY <1>1, <1>3, <2>1, <2>3
  <2>5. c - lo < hi
    BY <1>1, <1>3, <2>3, SMT
  <2> QED
    BY <1>1, <1>6, <2>3, <2>4, <2>5, SMT
<1>7. CASE hi <= c /\ lo < half /\ half <= hi
  <2> DEFINE least == Min({c} \cup rems(lo, half - 1))
  <2>1. r = Pair(IF hi = c THEN 0 ELSE least, RemC(c, half))
    <3>1. half \in Nat
      BY <1>7, SMT DEF Peak
    <3> HIDE DEF rems, half
    <3>2. ~(lo > c) /\ ~(hi > c) /\ ~(half <= lo)
      BY <1>7, <3>1, SMT
    <3> QED
      BY <1>7, <3>2, Zenon DEF PositiveDividend, rems, half
  <2>2. \A m \in lo .. hi : /\ half \in Nat /\ half > 0 /\ c % half \in Int
                             /\ (half <= m => c % m = c - m)
                             /\ (half <= c => c % half = c - half)
                             /\ (half <= c /\ m < half => c % m <= c % half)
                             /\ (half - 1 > 0 => c % (half - 1) <= 1)
    <3>1. \A m \in lo .. hi : m \in Nat /\ m > 0 /\ m <= c
      BY <1>1, <1>7, SMT
    <3> QED
      BY <3>1, RemaindersAroundPeak
  <2> HIDE DEF half
  <2>3. half \in lo .. hi /\ half <= c /\ half - 1 \in Int /\ lo <= half - 1
        /\ half - 1 \in lo .. half - 1 /\ half - 1 > 0 /\ half - 1 \in lo .. hi
    BY <1>3, <1>7, <2>2, SMT
  <2>4. least \in Int /\ 0 <= least /\ \A m \in lo .. half - 1 : least <= c % m
    BY <2>3, LeastRemainder
  <2> HIDE DEF rems, least
  <2>5. RemC(c, half) = c % half
    BY <1>1, <2>3
  <2>6. \A m \in lo .. hi : c % m <= c % half
    <3> SUFFICES ASSUME NEW m \in lo .. hi PROVE c % m <= c % half
      OBVIOUS
    <3>1. half <= m \/ m < half
      BY <1>1, <2>3, SMT
    <3>2. c % half = c - half /\ m \in Nat /\ half \in Nat
      BY <1>1, <2>2, <2>3
    <3>3. CASE half <= m
      <4>1. c % m = c - m
        BY <2>2, <3>3
      <4> QED
        BY <3>2, <3>3, <4>1, SMT
    <3>4. CASE m < half
      BY <2>2, <2>3, <3>4
    <3> QED
      BY <3>1, <3>3, <3>4
  <2>7. hi # c => \A m \in lo .. hi : least <= c % m
    <3> SUFFICES ASSUME hi # c, NEW m \in lo .. hi PROVE least <= c % m
      OBVIOUS
    <3>1. CASE m < half
      <4>1. m \in lo .. half - 1
        BY <1>1, <2>2, <2>3, <3>1, SMT
      <4> QED
        BY <2>4, <4>1
    <3>2. CASE half <= m
      <4>1. least <= c % (half - 1) /\ c % (half - 1) <= 1 /\ c % (half - 1) \in Int
        BY <1>1, <2>2, <2>3, <2>4
      <4>2. c % m = c - m /\ m < c
        BY <1>1, <1>7, <2>2, <3>2, SMT
      <4> QED
        BY <1>1, <2>4, <4>1, <4>2, SMT
    <3> QED
      BY <1>1, <2>2, <3>1, <3>2, SMT
  <2>8. /\ r.lo = IF hi = c THEN 0 ELSE least
        /\ r.hi = c % half
    BY <2>1, <2>5 DEF Pair
  <2>9. 0 <= r.lo /\ r.hi <= c /\ r.hi < hi
    BY <1>1, <1>3, <2>3, <2>4, <2>8, SMT
  <2>10. \A m \in lo .. hi : r.lo <= c % m
    BY <1>1, <2>7, <2>8
  <2> QED
    BY <2>6, <2>8, <2>9, <2>10
<1>8. CASE hi <= c /\ hi < half
  <2>1. r = Pair(Min(rems(lo, hi)), Max(rems(lo, hi)))
    <3>1. half \in Nat
      BY <1>8, SMT DEF Peak
    <3> HIDE DEF rems, half
    <3>2. ~(lo > c) /\ ~(hi > c) /\ ~(half <= lo) /\ ~(half <= hi)
      BY <1>8, <3>1, SMT
    <3> QED
      BY <1>8, <3>2, Zenon DEF PositiveDividend, rems, half
  <2>2. /\ \A m \in lo .. hi : Min(rems(lo, hi)) <= c % m /\ c % m <= Max(rems(lo, hi))
        /\ \E m \in lo .. hi : Min(rems(lo, hi)) = c % m
        /\ \E m \in lo .. hi : Max(rems(lo, hi)) = c % m
    BY RemaindersBound
  <2>3. r.lo = Min(rems(lo, hi)) /\ r.hi = Max(rems(lo, hi))
    BY <2>1 DEF Pair
  <2> HIDE DEF rems, r
  <2> QED
    BY <1>1, <2>2, <2>3, SMT
<1>9. half \in Int
  BY SMT DEF Peak
<1> QED
  <2> HIDE DEF half, r
  <2> QED
    BY <1>4, <1>5, <1>6, <1>7, <1>8, <1>9, SMT

\* modConstDivisorInterval, of dividends that are not negative.
LEMMA DivisorFits ==
    ASSUME NEW a \in Nat, NEW b \in Nat, NEW m \in Int, a <= b, m # 0
    PROVE  Fits(modConstDivisorInterval(a, b, m), a, b, Abs(m), Abs(m))
<1>1. modConstDivisorInterval(a, b, m) =
        IF b - a < Abs(m) /\ RemC(a, m) <= RemC(b, m)
        THEN Pair(RemC(a, m), RemC(b, m)) ELSE Pair(0, Abs(m) - 1)
  <2>1. ~(a > b \/ m = 0) /\ ~(b < 0) /\ ~(a < 0)
    BY SMT
  <2> QED
    BY <2>1, Zenon DEF modConstDivisorInterval
<1> QED
  BY <1>1, ConstDivisorFits

\* modConstDividendInterval, of a dividend that is not negative: the divisors
\* count without their signs.
LEMMA DividendFits ==
    ASSUME NEW c \in Nat, NEW lo \in Int, NEW hi \in Int, lo <= hi, ~(lo = 0 /\ hi = 0)
    PROVE  Fits(modConstDividendInterval(c, lo, hi), c, c, DivisorLow(lo, hi), DivisorHigh(lo, hi))
<1> DEFINE l == DivisorLow(lo, hi)
           h == DivisorHigh(lo, hi)
<1>1. l \in Int /\ h \in Int /\ 0 < l /\ l <= h
  BY SMT DEF DivisorLow, DivisorHigh, Max2
<1>2. CASE c = 0
  <2>1. modConstDividendInterval(c, lo, hi) = Pair(0, 0)
    BY <1>2 DEF modConstDividendInterval, Point
  <2>2. \A m \in l .. h : 0 % m = 0
    <3>1. \A m \in l .. h : m \in Nat /\ m > 0
      BY <1>1, SMT
    <3> QED
      BY <3>1, SMT
  <2>3. \A x \in 0 .. 0 : x = 0
    BY SMT
  <2>4. 0 <= 0 /\ 0 < h
    BY <1>1, SMT
  <2> HIDE DEF l, h
  <2>5. Fits(Pair(0, 0), 0, 0, l, h)
    BY <2>2, <2>3, <2>4, Zenon DEF Fits, In, Pair
  <2> QED
    BY <1>2, <2>1, <2>5 DEF l, h
<1>3. CASE c # 0
  <2>1. modConstDividendInterval(c, lo, hi) = PositiveDividend(c, l, h)
    <3>1. Abs(c) = c /\ ~(c < 0) /\ ~(lo > hi \/ c = 0)
      BY <1>3, SMT DEF Abs
    <3> QED
      BY <3>1 DEF modConstDividendInterval
  <2>2. 0 < c
    BY <1>3, SMT
  <2> HIDE DEF l, h
  <2>3. Fits(PositiveDividend(c, l, h), c, c, l, h)
    BY <1>1, <2>2, PositiveDividendFits
  <2> QED
    BY <2>1, <2>3 DEF l, h
<1> QED
  BY <1>2, <1>3

\* The extremes of the ends of a family of ranges are ends of some of them,
\* and reach around them all.
LEMMA PairsBound ==
    ASSUME NEW lo \in Int, NEW hi \in Int, lo <= hi, NEW p \in [lo .. hi -> RangePairs]
    PROVE  LET ps == {p[k] : k \in lo .. hi}
               least == Min({q.lo : q \in ps})
               greatest == Max({q.hi : q \in ps})
           IN  /\ \A k \in lo .. hi : least <= p[k].lo /\ p[k].hi <= greatest
               /\ \E k \in lo .. hi : least = p[k].lo
               /\ \E k \in lo .. hi : greatest = p[k].hi
<1> DEFINE f == [k \in lo .. hi |-> p[k].lo]
           g == [k \in lo .. hi |-> p[k].hi]
           F == {f[k] : k \in lo .. hi}
           G == {g[k] : k \in lo .. hi}
<1>1. f \in [lo .. hi -> Int] /\ g \in [lo .. hi -> Int]
  BY DEF RangePairs
<1>2. /\ F = {q.lo : q \in {p[k] : k \in lo .. hi}}
      /\ G = {q.hi : q \in {p[k] : k \in lo .. hi}}
  OBVIOUS
<1>3. \A k \in lo .. hi : f[k] = p[k].lo /\ g[k] = p[k].hi
  OBVIOUS
<1> HIDE DEF f, g
<1>4. Min(F) \in F /\ \A k \in lo .. hi : Min(F) <= f[k]
  BY <1>1, ExtremesBound
<1>5. Max(G) \in G /\ \A k \in lo .. hi : g[k] <= Max(G)
  BY <1>1, ExtremesBound
<1>6. /\ \E k \in lo .. hi : Min(F) = p[k].lo
      /\ \E k \in lo .. hi : Max(G) = p[k].hi
  BY <1>3, <1>4, <1>5
<1>7. \A k \in lo .. hi : Min(F) <= p[k].lo /\ p[k].hi <= Max(G)
  BY <1>3, <1>4, <1>5
<1> HIDE DEF F, G
<1> QED
  BY <1>2, <1>6, <1>7, Zenon

\* The hull of ranges that fit one dividend, or one divisor, each.
LEMMA HullFits ==
    ASSUME NEW a \in Nat, NEW b \in Nat, NEW lo \in Int, NEW hi \in Int, 0 < lo,
           NEW first \in Int, NEW last \in Int, first <= last,
           NEW p \in [first .. last -> RangePairs],
           \A k \in first .. last : 0 <= p[k].lo /\ p[k].hi <= b /\ p[k].hi < hi,
           \A x \in a .. b, m \in lo .. hi : \E k \in first .. last : In(x % m, p[k]),
           NEW ps, ps = {p[k] : k \in first .. last}
    PROVE  Fits(Pair(Min({q.lo : q \in ps}), Max({q.hi : q \in ps})), a, b, lo, hi)
<1> DEFINE least == Min({q.lo : q \in ps})
           greatest == Max({q.hi : q \in ps})
<1>1. /\ \A k \in first .. last : least <= p[k].lo /\ p[k].hi <= greatest
      /\ \E k \in first .. last : least = p[k].lo
      /\ \E k \in first .. last : greatest = p[k].hi
  BY PairsBound
<1>2. \A k \in first .. last : p[k].lo \in Int /\ p[k].hi \in Int
  BY DEF RangePairs
<1> HIDE DEF least, greatest
<1>3. 0 <= least /\ greatest <= b /\ greatest < hi /\ least \in Int /\ greatest \in Int
  BY <1>1, <1>2
<1>4. ASSUME NEW x \in a .. b, NEW m \in lo .. hi PROVE least <= x % m /\ x % m <= greatest
  <2>1. x \in Nat /\ m \in Nat /\ m > 0
    BY SMT
  <2>2. x % m \in Int
    BY <2>1, SMT
  <2>3. PICK k \in first .. last : In(x % m, p[k])
    OBVIOUS
  <2>4. p[k].lo <= x % m /\ x % m <= p[k].hi
    BY <2>3 DEF In
  <2>5. least <= p[k].lo /\ p[k].hi <= greatest /\ p[k].lo \in Int /\ p[k].hi \in Int
    BY <1>1, <1>2
  <2> QED
    BY <1>3, <2>2, <2>4, <2>5, SMT
<1>5. Fits(Pair(least, greatest), a, b, lo, hi)
  BY <1>3, <1>4, Zenon DEF Fits, In, Pair
<1> QED
  BY <1>5 DEF least, greatest

\* The last cases of modInterval.
LEMMA ShortDividendFits ==
    ASSUME NEW l1 \in Nat, NEW h1 \in Nat, NEW l2 \in Int, NEW h2 \in Int,
           l1 <= h1, 0 < l2, l2 <= h2
    PROVE  Fits(ShortDividend(l1, h1, l2, h2), l1, h1, l2, h2)
<1> DEFINE parts == IF h1 - l1 < h2 - l2
                    THEN {modConstDividendInterval(lhs, l2, h2) : lhs \in l1 .. h1}
                    ELSE {modConstDivisorInterval(l1, h1, rhs) : rhs \in l2 .. h2}
           r == ShortDividend(l1, h1, l2, h2)
<1>1. \A x \in l1 .. h1, m \in l2 .. h2 :
         /\ x \in Nat /\ l1 <= x /\ x <= h1 /\ m \in Nat /\ m > 0 /\ l2 <= m /\ m <= h2
         /\ x % m \in Int /\ 0 <= x % m /\ x % m <= x /\ (x < m => x % m = x)
  <2>1. \A x \in l1 .. h1, m \in l2 .. h2 :
           x \in Nat /\ l1 <= x /\ x <= h1 /\ m \in Nat /\ m > 0 /\ l2 <= m /\ m <= h2
    BY SMT
  <2> QED
    BY <2>1, RemainderOfNaturals
<1>2. CASE l2 > h1
  <2>1. r = Pair(l1, h1)
    BY <1>2 DEF ShortDividend
  <2>2. \A x \in l1 .. h1, m \in l2 .. h2 : l1 <= x % m /\ x % m <= h1
    BY <1>1, <1>2, SMT
  <2>3. 0 <= l1 /\ h1 <= h1 /\ h1 < h2
    BY <1>2, SMT
  <2> HIDE DEF r
  <2>4. Fits(Pair(l1, h1), l1, h1, l2, h2)
    BY <2>2, <2>3, Zenon DEF Fits, In, Pair
  <2> QED
    BY <2>1, <2>4 DEF r
<1>3. CASE ~(l2 > h1) /\ h2 > h1
  <2>1. r = Pair(0, h1)
    BY <1>3 DEF ShortDividend
  <2>2. \A x \in l1 .. h1, m \in l2 .. h2 : 0 <= x % m /\ x % m <= h1
    BY <1>1, SMT
  <2>3. 0 <= 0 /\ h1 <= h1 /\ h1 < h2
    BY <1>3, SMT
  <2> HIDE DEF r
  <2>4. Fits(Pair(0, h1), l1, h1, l2, h2)
    BY <2>2, <2>3, Zenon DEF Fits, In, Pair
  <2> QED
    BY <2>1, <2>4 DEF r
<1>4. CASE ~(l2 > h1) /\ ~(h2 > h1)
  <2>1. r = Pair(Min({p.lo : p \in parts}), Max({p.hi : p \in parts}))
    BY <1>4, Zenon DEF ShortDividend
  <2>2. CASE h1 - l1 < h2 - l2
    <3> DEFINE d == [k \in l1 .. h1 |-> modConstDividendInterval(k, l2, h2)]
    <3>1. \A k \in l1 .. h1 : Fits(modConstDividendInterval(k, l2, h2), k, k, l2, h2)
      <4>1. \A k \in l1 .. h1 : k \in Nat
        BY SMT
      <4>2. DivisorLow(l2, h2) = l2 /\ DivisorHigh(l2, h2) = h2 /\ ~(l2 = 0 /\ h2 = 0)
        BY SMT DEF DivisorLow, DivisorHigh, Max2
      <4> QED
        BY <4>1, <4>2, DividendFits
    <3>2. \A k \in l1 .. h1 : modConstDividendInterval(k, l2, h2) \in RangePairs
      <4>1. ~(l2 = 0 /\ h2 = 0) /\ \A k \in l1 .. h1 : k \in Int
        BY SMT
      <4> QED
        BY <4>1, DividendType
    <3>3. d \in [l1 .. h1 -> RangePairs]
      BY <3>2
    <3>4. parts = {d[k] : k \in l1 .. h1}
      BY <2>2, Zenon
    <3>5. \A k \in l1 .. h1 : Fits(d[k], k, k, l2, h2)
      BY <3>1
    <3>6. \A k \in l1 .. h1 : d[k].hi \in Int /\ k \in Int /\ k <= h1 /\ k \in k .. k
      <4>1. \A k \in l1 .. h1 : k \in Int /\ k <= h1 /\ k \in k .. k
        BY SMT
      <4> QED
        BY <3>3, <4>1 DEF RangePairs
    <3> HIDE DEF d
    <3>7. \A k \in l1 .. h1 : 0 <= d[k].lo /\ d[k].hi <= h1 /\ d[k].hi < h2
      <4>1. \A k \in l1 .. h1 : 0 <= d[k].lo /\ d[k].hi <= k /\ d[k].hi < h2
        BY <3>5 DEF Fits
      <4> QED
        BY <3>6, <4>1, SMT
    <3>8. \A x \in l1 .. h1, m \in l2 .. h2 : \E k \in l1 .. h1 : In(x % m, d[k])
      BY <3>5, <3>6 DEF Fits
    <3> HIDE DEF parts, r
    <3>9. Fits(Pair(Min({q.lo : q \in parts}), Max({q.hi : q \in parts})), l1, h1, l2, h2)
      <4>1. l1 \in Int /\ h1 \in Int
        BY SMT
      <4> QED
        BY <3>3, <3>4, <3>7, <3>8, <4>1, HullFits
    <3> QED
      BY <2>1, <3>9 DEF r
  <2>3. CASE ~(h1 - l1 < h2 - l2)
    <3> DEFINE d == [k \in l2 .. h2 |-> modConstDivisorInterval(l1, h1, k)]
    <3>1. \A k \in l2 .. h2 : Fits(modConstDivisorInterval(l1, h1, k), l1, h1, k, k)
      <4>1. \A k \in l2 .. h2 : k \in Int /\ k # 0 /\ Abs(k) = k
        BY SMT DEF Abs
      <4> QED
        BY <4>1, DivisorFits
    <3>2. \A k \in l2 .. h2 : modConstDivisorInterval(l1, h1, k) \in RangePairs
      <4>1. \A k \in l2 .. h2 : k \in Int
        BY SMT
      <4> QED
        BY <4>1, DivisorType
    <3>3. d \in [l2 .. h2 -> RangePairs]
      BY <3>2
    <3>4. parts = {d[k] : k \in l2 .. h2}
      BY <2>3, Zenon
    <3>5. \A k \in l2 .. h2 : Fits(d[k], l1, h1, k, k)
      BY <3>1
    <3>6. \A k \in l2 .. h2 : d[k].hi \in Int /\ k \in Int /\ k <= h2 /\ k \in k .. k
      <4>1. \A k \in l2 .. h2 : k \in Int /\ k <= h2 /\ k \in k .. k
        BY SMT
      <4> QED
        BY <3>3, <4>1 DEF RangePairs
    <3> HIDE DEF d
    <3>7. \A k \in l2 .. h2 : 0 <= d[k].lo /\ d[k].hi <= h1 /\ d[k].hi < h2
      <4>1. \A k \in l2 .. h2 : 0 <= d[k].lo /\ d[k].hi <= h1 /\ d[k].hi < k
        BY <3>5 DEF Fits
      <4> QED
        BY <3>6, <4>1, SMT
    <3>8. \A x \in l1 .. h1, m \in l2 .. h2 : \E k \in l2 .. h2 : In(x % m, d[k])
      BY <3>5, <3>6 DEF Fits
    <3> HIDE DEF parts, r
    <3>9. Fits(Pair(Min({q.lo : q \in parts}), Max({q.hi : q \in parts})), l1, h1, l2, h2)
      <4>1. l1 \in Int /\ h1 \in Int
        BY SMT
      <4> QED
        BY <3>3, <3>4, <3>7, <3>8, <4>1, HullFits
    <3> QED
      BY <2>1, <3>9 DEF r
  <2> QED
    BY <2>2, <2>3
<1> QED
  BY <1>2, <1>3, <1>4

\* It is no wider than dividend and divisor allow.
LEMMA PositiveModFits ==
    ASSUME NEW l1 \in Nat, NEW h1 \in Nat, NEW l2 \in Int, NEW h2 \in Int,
           l1 <= h1, 0 < l2, l2 <= h2
    PROVE  Fits(PositiveMod(l1, h1, l2, h2), l1, h1, l2, h2)
<1> DEFINE d == h1 - l1
           part == IF d + 1 = h2 THEN modConstDivisorInterval(l1, h1, h2)
                   ELSE ShortDividend(l1, h1, d + 1, h2)
           r == PositiveMod(l1, h1, l2, h2)
<1>1. /\ d \in Int /\ 0 <= d /\ d <= h1 /\ d + 1 \in Int /\ Abs(h2) = h2 /\ h2 # 0
      /\ \A x \in l1 .. h1, m \in l2 .. h2 :
            /\ x \in Nat /\ m \in Nat /\ m > 0 /\ l2 <= m /\ m <= h2
            /\ x % m \in Int /\ 0 <= x % m /\ x % m < m
  <2>1. \A x \in l1 .. h1, m \in l2 .. h2 :
           x \in Nat /\ m \in Nat /\ m > 0 /\ l2 <= m /\ m <= h2
    BY SMT
  <2>2. d \in Int /\ 0 <= d /\ d <= h1 /\ d + 1 \in Int /\ Abs(h2) = h2 /\ h2 # 0
    BY SMT DEF Abs
  <2> QED
    BY <2>1, <2>2, RemainderOfNaturals
<1>2. r = IF l2 = h2 THEN modConstDivisorInterval(l1, h1, l2)
          ELSE IF d >= h2 THEN Pair(0, h2 - 1)
          ELSE IF d >= l2 THEN Pair(Min2(0, part.lo), Max2(d - 1, part.hi))
          ELSE ShortDividend(l1, h1, l2, h2)
  BY Zenon DEF PositiveMod
<1> HIDE DEF d, part
<1>3. CASE l2 = h2
  <2>1. Fits(modConstDivisorInterval(l1, h1, h2), l1, h1, h2, h2)
    BY <1>1, DivisorFits
  <2> QED
    BY <1>2, <1>3, <2>1
<1>4. CASE l2 # h2 /\ d >= h2
  <2>1. r = Pair(0, h2 - 1)
    BY <1>2, <1>4
  <2>2. \A x \in l1 .. h1, m \in l2 .. h2 : 0 <= x % m /\ x % m <= h2 - 1
    BY <1>1, SMT
  <2>3. 0 <= 0 /\ h2 - 1 <= h1 /\ h2 - 1 < h2
    BY <1>1, <1>4, SMT
  <2> HIDE DEF r
  <2>4. Fits(Pair(0, h2 - 1), l1, h1, l2, h2)
    BY <2>2, <2>3, Zenon DEF Fits, In, Pair
  <2> QED
    BY <2>1, <2>4 DEF r
<1>5. CASE l2 # h2 /\ ~(d >= h2) /\ d >= l2
  <2>1. r = Pair(Min2(0, part.lo), Max2(d - 1, part.hi))
    BY <1>2, <1>5
  <2>2. d + 1 <= h2 /\ 0 < d + 1
    BY <1>1, <1>5, SMT
  <2>3. part \in RangePairs
    BY <1>1, <2>2, DivisorType, ShortDividendType DEF part
  <2>4. Fits(part, l1, h1, d + 1, h2)
    <3>1. CASE d + 1 = h2
      <4>1. Fits(modConstDivisorInterval(l1, h1, h2), l1, h1, h2, h2)
        BY <1>1, DivisorFits
      <4> QED
        BY <3>1, <4>1 DEF part
    <3>2. CASE d + 1 # h2
      BY <1>1, <2>2, <3>2, ShortDividendFits DEF part
    <3> QED
      BY <3>1, <3>2
  <2>5. part.lo \in Int /\ part.hi \in Int /\ 0 <= part.lo /\ part.hi <= h1 /\ part.hi < h2
    BY <2>3, <2>4 DEF RangePairs, Fits
  <2>6. ASSUME NEW x \in l1 .. h1, NEW m \in l2 .. h2
        PROVE  (0 <= x % m /\ x % m <= d - 1) \/ (part.lo <= x % m /\ x % m <= part.hi)
    <3>1. CASE m <= d
      BY <1>1, <3>1, SMT
    <3>2. CASE ~(m <= d)
      <4>1. m \in d + 1 .. h2
        BY <1>1, <3>2, SMT
      <4> QED
        BY <2>4, <4>1 DEF Fits, In
    <3> QED
      BY <3>1, <3>2
  <2> HIDE DEF r
  <2>7. r.lo = 0 /\ r.hi \in Int /\ d - 1 <= r.hi /\ part.hi <= r.hi
        /\ (r.hi = d - 1 \/ r.hi = part.hi)
    <3>1. r.lo = Min2(0, part.lo) /\ r.hi = Max2(d - 1, part.hi)
      BY <2>1 DEF Pair
    <3> QED
      BY <1>1, <2>5, <3>1, SMT DEF Min2, Max2
  <2>8. r.hi <= h1 /\ r.hi < h2
    BY <1>1, <1>5, <2>5, <2>7, SMT
  <2>9. ASSUME NEW x \in l1 .. h1, NEW m \in l2 .. h2 PROVE r.lo <= x % m /\ x % m <= r.hi
    <3>1. x % m \in Int /\ 0 <= x % m
      BY <1>1
    <3>2. (0 <= x % m /\ x % m <= d - 1) \/ (part.lo <= x % m /\ x % m <= part.hi)
      BY <2>6
    <3>3. d \in Int
      BY <1>1
    <3> QED
      BY <2>5, <2>7, <3>1, <3>2, <3>3, SMT
  <2>10. 0 <= 0
    BY SMT
  <2>11. Fits(r, l1, h1, l2, h2)
    BY <2>7, <2>8, <2>9, <2>10, Zenon DEF Fits, In
  <2> QED
    BY <2>11 DEF r
<1>6. CASE l2 # h2 /\ ~(d >= h2) /\ ~(d >= l2)
  BY <1>2, <1>6, ShortDividendFits
<1> QED
  BY <1>3, <1>4, <1>5, <1>6

\* nonNeg of modInterval, for any divisors but zero alone.
LEMMA NaturalDividendFits ==
    ASSUME NEW a \in Nat, NEW b \in Nat, a <= b,
           NEW lo \in Int, NEW hi \in Int, lo <= hi, ~(lo = 0 /\ hi = 0)
    PROVE  Fits(IF a = b THEN modConstDividendInterval(a, lo, hi)
                ELSE IF lo = hi THEN modConstDivisorInterval(a, b, lo)
                ELSE PositiveMod(a, b, DivisorLow(lo, hi), DivisorHigh(lo, hi)),
                a, b, DivisorLow(lo, hi), DivisorHigh(lo, hi))
<1>1. CASE a = b
  BY <1>1, DividendFits
<1>2. CASE a # b /\ lo = hi
  <2>1. DivisorLow(lo, hi) = Abs(lo) /\ DivisorHigh(lo, hi) = Abs(lo) /\ lo # 0
    BY <1>2, SMT DEF DivisorLow, DivisorHigh, Max2, Abs
  <2>2. Fits(modConstDivisorInterval(a, b, lo), a, b, Abs(lo), Abs(lo))
    BY <2>1, DivisorFits
  <2> QED
    BY <1>2, <2>1, <2>2
<1>3. CASE a # b /\ lo # hi
  <2>1. /\ DivisorLow(lo, hi) \in Int /\ DivisorHigh(lo, hi) \in Int
        /\ 0 < DivisorLow(lo, hi) /\ DivisorLow(lo, hi) <= DivisorHigh(lo, hi)
    BY SMT DEF DivisorLow, DivisorHigh, Max2
  <2> QED
    BY <1>3, <2>1, PositiveModFits
<1> QED
  BY <1>1, <1>2, <1>3

\* The remainders of one range by another, by the sign of the dividends: of
\* the negative ones, of the others, or of both.
LEMMA RemainderParts ==
    ASSUME NEW x \in RangePairs, NEW y \in RangePairs, Sorted(x), Sorted(y), y # Point(0)
    PROVE  LET lo == DivisorLow(y.lo, y.hi)
               hi == DivisorHigh(y.lo, y.hi)
           IN  \E r \in RangePairs, s \in RangePairs :
                  /\ x.lo < 0 => Fits(r, IF x.hi < 0 THEN -x.hi ELSE 1, -x.lo, lo, hi)
                  /\ x.hi >= 0 => Fits(s, IF x.lo < 0 THEN 0 ELSE x.lo, x.hi, lo, hi)
                  /\ RemRange(x, y) = IF x.hi < 0 THEN Negate(r)
                                      ELSE IF x.lo < 0 THEN Hull(Negate(r), s) ELSE s
<1> DEFINE l1 == x.lo
           h1 == x.hi
           l2 == y.lo
           h2 == y.hi
           lo == DivisorLow(l2, h2)
           hi == DivisorHigh(l2, h2)
           N(a, b) == IF a = b THEN modConstDividendInterval(a, l2, h2)
                      ELSE IF l2 = h2 THEN modConstDivisorInterval(a, b, l2)
                      ELSE PositiveMod(a, b, lo, hi)
           r == IF h1 < 0 THEN N(-h1, -l1) ELSE IF l1 < 0 THEN N(1, -l1) ELSE Point(0)
           s == IF h1 < 0 THEN Point(0) ELSE IF l1 < 0 THEN N(0, h1) ELSE N(l1, h1)
<1>1. l1 \in Int /\ h1 \in Int /\ l2 \in Int /\ h2 \in Int /\ l1 <= h1 /\ l2 <= h2
  BY DEF RangePairs, Sorted
<1>2. ~(l2 = 0 /\ h2 = 0)
  BY DEF RangePairs, Point, Pair
<1>3. RemRange(x, y) = IF h1 < 0 THEN Negate(r)
                       ELSE IF l1 < 0 THEN Hull(Negate(r), s) ELSE s
  <2>1. ~(l1 > h1 \/ l2 > h2)
    BY <1>1, SMT
  <2> QED
    BY <2>1, Zenon DEF RemRange, modInterval
<1> HIDE DEF l1, h1, l2, h2
<1>4. /\ lo \in Int /\ hi \in Int /\ 0 < lo /\ lo <= hi
  BY <1>1, <1>2, SMT DEF DivisorLow, DivisorHigh, Max2
<1>5. ASSUME NEW a \in Nat, NEW b \in Nat, a <= b
      PROVE  Fits(N(a, b), a, b, lo, hi) /\ N(a, b) \in RangePairs
  <2>1. Fits(N(a, b), a, b, lo, hi)
    BY <1>1, <1>2, <1>5, NaturalDividendFits
  <2>2. a \in Int /\ b \in Int
    BY SMT
  <2> HIDE DEF lo, hi
  <2>3. N(a, b) \in RangePairs
    BY <1>1, <1>2, <1>4, <1>5, <2>2, DividendType, DivisorType, PositiveModType, Zenon
  <2> QED
    BY <2>1, <2>3
<1>6. Point(0) \in RangePairs
  BY PairsAreRanges DEF Point
<1> HIDE DEF lo, hi, N
<1>7. CASE h1 < 0
  <2>1. -h1 \in Nat /\ -l1 \in Nat /\ -h1 <= -l1 /\ ~(h1 >= 0) /\ l1 < 0
    BY <1>1, <1>7, SMT
  <2>2. /\ r \in RangePairs /\ s \in RangePairs
        /\ Fits(r, -h1, -l1, lo, hi)
    BY <1>5, <1>6, <1>7, <2>1
  <2> HIDE DEF r, s
  <2> QED
    BY <1>3, <1>7, <2>1, <2>2, Zenon DEF l1, h1, l2, h2, lo, hi
<1>8. CASE ~(h1 < 0) /\ l1 < 0
  <2>1. 1 \in Nat /\ -l1 \in Nat /\ 1 <= -l1 /\ 0 \in Nat /\ h1 \in Nat /\ 0 <= h1
    BY <1>1, <1>8, SMT
  <2>2. /\ r \in RangePairs /\ s \in RangePairs
        /\ Fits(r, 1, -l1, lo, hi) /\ Fits(s, 0, h1, lo, hi)
    BY <1>5, <1>8, <2>1
  <2> HIDE DEF r, s
  <2> QED
    BY <1>3, <1>8, <2>2, Zenon DEF l1, h1, l2, h2, lo, hi
<1>9. CASE ~(h1 < 0) /\ ~(l1 < 0)
  <2>1. l1 \in Nat /\ h1 \in Nat
    BY <1>1, <1>9, SMT
  <2>2. /\ r \in RangePairs /\ s \in RangePairs
        /\ Fits(s, l1, h1, lo, hi)
    BY <1>1, <1>5, <1>6, <1>9, <2>1
  <2> HIDE DEF r, s
  <2> QED
    BY <1>3, <1>9, <2>2, Zenon DEF l1, h1, l2, h2, lo, hi
<1> QED
  BY <1>7, <1>8, <1>9

\* For every two ranges, modInterval's answer has the remainder of every
\* dividend by every divisor but zero, whichever of its cases answers.
THEOREM RemainderContains ==
    ASSUME NEW x \in RangePairs, NEW y \in RangePairs, Sorted(x), Sorted(y),
           NEW a \in x.lo .. x.hi, NEW b \in (y.lo .. y.hi) \ {0}
    PROVE  In(RemC(a, b), RemRange(x, y))
<1> DEFINE lo == DivisorLow(y.lo, y.hi)
           hi == DivisorHigh(y.lo, y.hi)
           m == Abs(b)
<1>1. /\ x.lo \in Int /\ x.hi \in Int /\ y.lo \in Int /\ y.hi \in Int
      /\ x.lo <= x.hi /\ y.lo <= y.hi
      /\ a \in Int /\ x.lo <= a /\ a <= x.hi
      /\ b \in Int /\ b # 0 /\ y.lo <= b /\ b <= y.hi
  BY SMT DEF RangePairs, Sorted
<1>2. y # Point(0)
  <2>1. ~(y.lo = 0 /\ y.hi = 0)
    BY <1>1, SMT
  <2> QED
    BY <2>1 DEF Point, Pair
<1>3. m \in lo .. hi
  BY <1>1, SMT DEF DivisorLow, DivisorHigh, Max2, Abs
<1>4. PICK r \in RangePairs, s \in RangePairs :
        /\ x.lo < 0 => Fits(r, IF x.hi < 0 THEN -x.hi ELSE 1, -x.lo, lo, hi)
        /\ x.hi >= 0 => Fits(s, IF x.lo < 0 THEN 0 ELSE x.lo, x.hi, lo, hi)
        /\ RemRange(x, y) = IF x.hi < 0 THEN Negate(r)
                            ELSE IF x.lo < 0 THEN Hull(Negate(r), s) ELSE s
  BY <1>2, RemainderParts
<1>5. r.lo \in Int /\ r.hi \in Int /\ s.lo \in Int /\ s.hi \in Int
  BY DEF RangePairs
<1>6. /\ m \in Nat /\ m > 0
      /\ a >= 0 => RemC(a, b) = a % m
      /\ a <= 0 => RemC(a, b) = -((-a) % m)
  BY <1>1, RemainderSigns
<1> HIDE DEF lo, hi, m
<1>7. CASE a < 0
  <2>1. -a \in Nat /\ (-a) % m \in Int
    BY <1>1, <1>6, <1>7, SMT
  <2>2. -a \in (IF x.hi < 0 THEN -x.hi ELSE 1) .. -x.lo /\ x.lo < 0
    BY <1>1, <1>7, SMT
  <2>3. r.lo <= (-a) % m /\ (-a) % m <= r.hi
    BY <1>3, <1>4, <2>2 DEF Fits, In
  <2>4. RemC(a, b) = -((-a) % m)
    BY <1>1, <1>6, <1>7, SMT
  <2>5. /\ RemRange(x, y).lo \in Int /\ RemRange(x, y).lo <= -r.hi
        /\ RemRange(x, y).hi \in Int /\ -r.lo <= RemRange(x, y).hi
    <3>1. RemRange(x, y) = Negate(r) \/ RemRange(x, y) = Hull(Negate(r), s)
      BY <1>4, <2>2
    <3>2. Negate(r).lo = -r.hi /\ Negate(r).hi = -r.lo
      BY DEF Negate, Pair
    <3>3. /\ Hull(Negate(r), s).lo = Min2(-r.hi, s.lo)
          /\ Hull(Negate(r), s).hi = Max2(-r.lo, s.hi)
      BY <3>2 DEF Hull, Pair
    <3> QED
      BY <1>5, <3>1, <3>2, <3>3, SMT DEF Min2, Max2
  <2> QED
    BY <1>5, <2>1, <2>3, <2>4, <2>5, SMT DEF In
<1>8. CASE a >= 0
  <2>1. a \in Nat /\ a % m \in Int
    BY <1>1, <1>6, <1>8, SMT
  <2>2. a \in (IF x.lo < 0 THEN 0 ELSE x.lo) .. x.hi /\ x.hi >= 0 /\ ~(x.hi < 0)
    BY <1>1, <1>8, SMT
  <2>3. s.lo <= a % m /\ a % m <= s.hi
    BY <1>3, <1>4, <2>2 DEF Fits, In
  <2>4. /\ RemRange(x, y).lo \in Int /\ RemRange(x, y).lo <= s.lo
        /\ RemRange(x, y).hi \in Int /\ s.hi <= RemRange(x, y).hi
    <3>1. RemRange(x, y) = s \/ RemRange(x, y) = Hull(Negate(r), s)
      BY <1>4, <2>2
    <3>2. Negate(r).lo = -r.hi /\ Negate(r).hi = -r.lo
      BY DEF Negate, Pair
    <3>3. /\ Hull(Negate(r), s).lo = Min2(-r.hi, s.lo)
          /\ Hull(Negate(r), s).hi = Max2(-r.lo, s.hi)
      BY <3>2 DEF Hull, Pair
    <3> QED
      BY <1>5, <3>1, <3>3, SMT DEF Min2, Max2
  <2> QED
    BY <1>5, <1>6, <1>8, <2>1, <2>3, <2>4, SMT DEF In
<1> QED
  BY <1>1, <1>7, <1>8, SMT

\* A divisor range of nothing but zero has the answer zero.
LEMMA RemainderByZero ==
    ASSUME NEW x \in RangePairs, NEW y \in RangePairs, Sorted(x), y = Point(0), ~RemDiverges(x, y)
    PROVE  RemRange(x, y) = Point(0)
<1>1. /\ x.lo \in Int /\ x.hi \in Int /\ x.lo <= x.hi /\ y.lo = 0 /\ y.hi = 0
      /\ ~((x.lo = x.hi /\ x.lo # 0) \/ (x.lo = -1 /\ x.hi >= 0))
  BY DEF RangePairs, Sorted, Point, Pair, RemDiverges
<1> DEFINE N(a, b) == IF a = b THEN modConstDividendInterval(a, y.lo, y.hi)
                      ELSE IF y.lo = y.hi THEN modConstDivisorInterval(a, b, y.lo)
                      ELSE PositiveMod(a, b, DivisorLow(y.lo, y.hi), DivisorHigh(y.lo, y.hi))
<1>2. RemRange(x, y) = IF x.hi < 0 THEN Negate(N(-x.hi, -x.lo))
                       ELSE IF x.lo < 0 THEN Hull(Negate(N(1, -x.lo)), N(0, x.hi))
                       ELSE N(x.lo, x.hi)
  <2>1. ~(x.lo > x.hi \/ y.lo > y.hi)
    BY <1>1, SMT
  <2> QED
    BY <2>1, Zenon DEF RemRange, modInterval
<1>3. ASSUME NEW a \in Int, NEW b \in Int, a = b => a = 0 PROVE N(a, b) = Point(0)
  <2>1. CASE a = b
    BY <1>3, <2>1 DEF modConstDividendInterval
  <2>2. CASE a # b
    BY <1>1, <2>2 DEF modConstDivisorInterval
  <2> QED
    BY <2>1, <2>2
<1> HIDE DEF N
<1>4. Negate(Point(0)) = Point(0) /\ Hull(Point(0), Point(0)) = Point(0)
  BY SMT DEF Negate, Hull, Point, Pair, Min2, Max2
<1>5. CASE x.hi < 0
  <2>1. N(-x.hi, -x.lo) = Point(0)
    <3>1. -x.hi \in Int /\ -x.lo \in Int /\ ~(-x.hi = -x.lo)
      BY <1>1, <1>5, SMT
    <3> QED
      BY <1>3, <3>1
  <2> QED
    BY <1>2, <1>4, <1>5, <2>1
<1>6. CASE ~(x.hi < 0) /\ x.lo < 0
  <2>1. N(1, -x.lo) = Point(0) /\ N(0, x.hi) = Point(0)
    <3>1. 1 \in Int /\ -x.lo \in Int /\ ~(1 = -x.lo) /\ 0 \in Int
      BY <1>1, <1>6, SMT
    <3> QED
      BY <1>1, <1>3, <3>1
  <2> QED
    BY <1>2, <1>4, <1>6, <2>1
<1>7. CASE ~(x.hi < 0) /\ ~(x.lo < 0)
  BY <1>1, <1>2, <1>3, <1>7
<1> QED
  BY <1>5, <1>6, <1>7

\* The largest remainder that the ends of two ranges allow.
LargestRemainder(x, y) ==
    Max2(0, Min2(Max2(Abs(x.lo), Abs(x.hi)), Max2(Abs(y.lo), Abs(y.hi)) - 1))

\* No answer of modInterval reaches further from zero than the dividends do,
\* nor as far as the largest divisor does.
THEOREM RemainderNarrow ==
    ASSUME NEW x \in RangePairs, NEW y \in RangePairs, Sorted(x), Sorted(y), ~RemDiverges(x, y)
    PROVE  Covers(Pair(-LargestRemainder(x, y), LargestRemainder(x, y)), RemRange(x, y))
<1> DEFINE e == LargestRemainder(x, y)
           r == RemRange(x, y)
<1>1. /\ x.lo \in Int /\ x.hi \in Int /\ y.lo \in Int /\ y.hi \in Int
      /\ x.lo <= x.hi /\ y.lo <= y.hi
  BY DEF RangePairs, Sorted
<1>2. e \in Int /\ 0 <= e
  BY <1>1, SMT DEF LargestRemainder, Max2, Min2, Abs
<1>3. SUFFICES r.lo \in Int /\ r.hi \in Int /\ -e <= r.lo /\ r.hi <= e
  BY DEF Covers, Pair
<1>4. CASE y = Point(0)
  <2>1. r.lo = 0 /\ r.hi = 0
    BY <1>4, RemainderByZero DEF Point, Pair
  <2> HIDE DEF e, r
  <2> QED
    BY <1>2, <2>1, SMT
<1>5. CASE y # Point(0)
  <2> DEFINE lo == DivisorLow(y.lo, y.hi)
             hi == DivisorHigh(y.lo, y.hi)
  <2>1. PICK q \in RangePairs, s \in RangePairs :
          /\ x.lo < 0 => Fits(q, IF x.hi < 0 THEN -x.hi ELSE 1, -x.lo, lo, hi)
          /\ x.hi >= 0 => Fits(s, IF x.lo < 0 THEN 0 ELSE x.lo, x.hi, lo, hi)
          /\ r = IF x.hi < 0 THEN Negate(q) ELSE IF x.lo < 0 THEN Hull(Negate(q), s) ELSE s
    BY <1>5, RemainderParts
  <2>2. q.lo \in Int /\ q.hi \in Int /\ s.lo \in Int /\ s.hi \in Int
    BY DEF RangePairs
  <2>3. hi \in Int /\ hi = Max2(Abs(y.lo), Abs(y.hi))
    BY <1>1, SMT DEF DivisorHigh, Max2, Abs
  <2>4. e = Max2(0, Min2(Max2(Abs(x.lo), Abs(x.hi)), hi - 1))
    BY <2>3 DEF LargestRemainder
  <2>5. /\ x.lo < 0 => 0 <= q.lo /\ q.hi <= -x.lo /\ q.hi < hi
        /\ x.hi >= 0 => 0 <= s.lo /\ s.hi <= x.hi /\ s.hi < hi
    BY <2>1 DEF Fits
  <2> HIDE DEF e, r, lo, hi
  <2>6. /\ x.lo < 0 => q.hi <= e
        /\ x.hi >= 0 => s.hi <= e
    BY <1>1, <2>2, <2>3, <2>4, <2>5, SMT DEF Max2, Min2, Abs
  <2>7. Negate(q).lo = -q.hi /\ Negate(q).hi = -q.lo
    BY DEF Negate, Pair
  <2>8. /\ Hull(Negate(q), s).lo = Min2(-q.hi, s.lo)
        /\ Hull(Negate(q), s).hi = Max2(-q.lo, s.hi)
    BY <2>7 DEF Hull, Pair
  <2>9. CASE x.hi < 0
    <3>1. r.lo = -q.hi /\ r.hi = -q.lo /\ x.lo < 0
      BY <1>1, <2>1, <2>7, <2>9, SMT
    <3> QED
      BY <1>2, <2>2, <2>5, <2>6, <3>1, SMT
  <2>10. CASE ~(x.hi < 0) /\ x.lo < 0
    <3>1. r.lo = Min2(-q.hi, s.lo) /\ r.hi = Max2(-q.lo, s.hi) /\ x.hi >= 0
      BY <1>1, <2>1, <2>8, <2>10, SMT
    <3> QED
      BY <1>2, <2>2, <2>5, <2>6, <2>10, <3>1, SMT DEF Min2, Max2
  <2>11. CASE ~(x.hi < 0) /\ ~(x.lo < 0)
    <3>1. r.lo = s.lo /\ r.hi = s.hi /\ x.hi >= 0
      BY <1>1, <2>1, <2>11, SMT
    <3> QED
      BY <1>2, <2>2, <2>5, <2>6, <3>1, SMT
  <2> QED
    BY <2>9, <2>10, <2>11
<1> QED
  BY <1>4, <1>5
=============================================================================
