------------------------- MODULE IntervalCheck_proofs -----------------------
(***************************************************************************)
(* The arms for remainders, quotients, shifts, casts and bitwise operators *)
(* answer rightly for ranges of every size and words of every width: what  *)
(* the run of IntervalCheck shows within its bounds holds without them.    *)
(***************************************************************************)
EXTENDS IntervalCheck, IntervalArithmetic_proofs

vars == <<query, answer>>

-----------------------------------------------------------------------------
(* Quotients.  An end is a fraction or an infinity; the corner 0 / 0 is    *)
(* neither.                                                                *)

Numbers == {p \in Int \X Nat : p[2] = 0 => p[1] \in {-1, 1}}
NaN == <<0, 0>>

\* what the ends of a quotient are: a fraction, an infinity or not a number
LEMMA QuotientType ==
    ASSUME NEW a \in Int, NEW b \in Int
    PROVE  /\ Over(a, b) \in Numbers \cup {NaN}
           /\ a # 0 \/ b # 0 => Over(a, b) \in Numbers
<1>1. CASE b > 0
  BY <1>1, SMT DEF Over, Numbers
<1>2. CASE b < 0
  BY <1>2, SMT DEF Over, Numbers
<1>3. CASE b = 0
  BY <1>3, SMT DEF Over, Numbers, NaN
<1> QED
  BY <1>1, <1>2, <1>3

\* what the order of two quotients means for their numerators
LEMMA AtMostMeans ==
    ASSUME NEW p \in Numbers, NEW q \in Numbers
    PROVE  AtMost(p, q) <=> IF p[2] = 0 /\ q[2] = 0 THEN p[1] <= q[1] ELSE p[1] * q[2] <= q[1] * p[2]
<1>1. p[1] \in Int /\ q[1] \in Int /\ p[2] \in Int /\ q[2] \in Int
  BY DEF Numbers
<1>2. IsNumber(p) /\ IsNumber(q)
  BY DEF IsNumber, Numbers
<1>3. CASE p[2] = 0 /\ q[2] = 0
  BY <1>1, <1>2, <1>3, SMT DEF AtMost, Below
<1>4. CASE ~(p[2] = 0 /\ q[2] = 0)
  <2> DEFINE m == p[1] * q[2]  n == q[1] * p[2]
  <2>1. m \in Int /\ n \in Int
    BY <1>1, SMT
  <2>2. Below(p, q) <=> m < n
    BY <1>2, <1>4 DEF Below
  <2>3. Below(q, p) <=> n < m
    BY <1>2, <1>4 DEF Below
  <2>4. AtMost(p, q) <=> m <= n
    <3> HIDE DEF m, n
    <3> QED BY <1>2, <2>1, <2>2, <2>3 DEF AtMost
  <2> QED
    BY <2>4, <1>4
<1> QED
  BY <1>3, <1>4

\* the order of quotients is transitive, infinities included
LEMMA AtMostTransitive ==
    ASSUME NEW p \in Numbers, NEW q \in Numbers, NEW s \in Numbers, AtMost(p, q), AtMost(q, s)
    PROVE  AtMost(p, s)
<1> DEFINE a == p[1]  b == p[2]  c == q[1]  d == q[2]  e == s[1]  f == s[2]
<1>1. /\ a \in Int /\ c \in Int /\ e \in Int /\ b \in Nat /\ d \in Nat /\ f \in Nat
      /\ b = 0 => a = 1 \/ a = -1
      /\ d = 0 => c = 1 \/ c = -1
      /\ f = 0 => e = 1 \/ e = -1
  BY DEF Numbers
<1>2. IF b = 0 /\ d = 0 THEN a <= c ELSE a * d <= c * b
  BY AtMostMeans
<1>3. IF d = 0 /\ f = 0 THEN c <= e ELSE c * f <= e * d
  BY AtMostMeans
<1>4. SUFFICES IF b = 0 /\ f = 0 THEN a <= e ELSE a * f <= e * b
  BY AtMostMeans
<1> HIDE DEF a, b, c, d, e, f
<1>5. CASE d = 0
  BY <1>1, <1>2, <1>3, <1>5, SMT
<1>6. CASE d > 0
  <2>1. a * d <= c * b /\ c * f <= e * d
    BY <1>2, <1>3, <1>6
  <2>2. CASE b = 0 \/ f = 0
    BY <2>1, <2>2, <1>1, <1>6, SMT
  <2>3. CASE b > 0 /\ f > 0
    <3>1. (a * d) * f <= (c * b) * f /\ (c * f) * b <= (e * d) * b
      BY <2>1, <2>3, <1>1, SMT
    <3>2. /\ (a * d) * f = d * (a * f) /\ (c * b) * f = (c * f) * b /\ (e * d) * b = d * (e * b)
      BY <1>1, SMT
    <3>3. d * (a * f) <= d * (e * b)
      BY <3>1, <3>2, <1>1, SMT
    <3>4. a * f <= e * b
      <4> DEFINE u == a * f  v == e * b
      <4>1. u \in Int /\ v \in Int /\ d * u <= d * v
        BY <3>3, <1>1, SMT
      <4> HIDE DEF u, v
      <4>2. u <= v
        BY <4>1, <1>6, <1>1, SMT
      <4> QED BY <4>2 DEF u, v
    <3> QED BY <3>4, <2>3, <1>1
  <2> QED BY <2>2, <2>3, <1>1
<1> QED
  BY <1>1, <1>5, <1>6

\* std::min keeps a number at most as large as each of its arguments that is one
LEMMA LeastOfTwo ==
    ASSUME NEW p \in Numbers, NEW q \in Numbers \cup {NaN}
    PROVE  /\ Least(p, q) \in Numbers /\ AtMost(Least(p, q), p)
           /\ q \in Numbers => AtMost(Least(p, q), q)
           /\ Greatest(p, q) \in Numbers /\ AtMost(p, Greatest(p, q))
           /\ q \in Numbers => AtMost(q, Greatest(p, q))
<1>1. AtMost(p, p)
  BY AtMostMeans, SMT DEF Numbers
<1>2. CASE q \in Numbers
  <2>1. AtMost(q, q)
    BY <1>2, AtMostMeans, SMT DEF Numbers
  <2>2. IsNumber(p) /\ IsNumber(q)
    BY <1>2 DEF IsNumber, Numbers
  <2> QED
    BY <1>1, <1>2, <2>1, <2>2, Zenon DEF Least, Greatest, AtMost
<1>3. CASE q = NaN
  <2>1. ~IsNumber(q) /\ NaN \notin Numbers
    BY <1>3 DEF IsNumber, NaN, Numbers
  <2> QED
    BY <1>1, <1>3, <2>1, Zenon DEF Least, Greatest, Below
<1> QED
  BY <1>2, <1>3

\* b > 0 in a divisor range without negative numbers
LEMMA QuotientsOrdered ==
    ASSUME NEW xl \in Int, NEW xh \in Int, NEW yl \in Int, NEW yh \in Int,
           NEW a \in Int, NEW b \in Int,
           xl <= a, a <= xh, 0 <= yl, yl <= b, b <= yh, 0 < b
    PROVE  /\ AtMost(Over(xl, yh), Over(a, b)) \/ (xl < 0 /\ AtMost(Over(xl, yl), Over(a, b)))
           /\ AtMost(Over(a, b), Over(xh, yh)) \/ (xh > 0 /\ AtMost(Over(a, b), Over(xh, yl)))
<1>1. Over(a, b) = <<a, b>> /\ Over(xl, yh) = <<xl, yh>> /\ Over(xh, yh) = <<xh, yh>>
  BY SMT DEF Over
<1>2. Over(a, b) \in Numbers /\ Over(xl, yh) \in Numbers /\ Over(xh, yh) \in Numbers
  BY QuotientType, SMT
<1>3. xl * b <= a * b /\ a * b <= xh * b
  BY SMT
<1>4. /\ a >= 0 => a * b <= a * yh /\ a * yl <= a * b
      /\ a <= 0 => a * b <= a * yl /\ a * yh <= a * b
  BY SMT
<1> DEFINE lb == xl * b  ab == a * b  hb == xh * b  ah == a * yh  al == a * yl
<1>5. lb \in Int /\ ab \in Int /\ hb \in Int /\ ah \in Int /\ al \in Int
  BY SMT
<1>6. lb <= ab /\ ab <= hb /\ (a >= 0 => ab <= ah /\ al <= ab) /\ (a <= 0 => ab <= al /\ ah <= ab)
  BY <1>3, <1>4
<1>7. AtMost(Over(xl, yh), Over(a, b)) <=> lb <= ah
  BY <1>1, <1>2, AtMostMeans
<1>8. AtMost(Over(a, b), Over(xh, yh)) <=> ah <= hb
  BY <1>1, <1>2, AtMostMeans
<1>9. xl < 0 /\ lb <= al => AtMost(Over(xl, yl), Over(a, b))
  <2> SUFFICES ASSUME xl < 0, lb <= al PROVE AtMost(Over(xl, yl), Over(a, b))
    OBVIOUS
  <2>1. Over(xl, yl) \in Numbers
    BY QuotientType, SMT
  <2>2. CASE yl = 0
    <3>1. Over(xl, yl) = <<-1, 0>>
      BY <2>2, SMT DEF Over
    <3> QED BY <3>1, <2>1, <1>1, <1>2, AtMostMeans, SMT
  <2>3. CASE yl > 0
    <3>1. Over(xl, yl) = <<xl, yl>>
      BY <2>3, SMT DEF Over
    <3> QED BY <3>1, <2>1, <1>1, <1>2, AtMostMeans
  <2> QED BY <2>2, <2>3
<1>10. xh > 0 /\ al <= hb => AtMost(Over(a, b), Over(xh, yl))
  <2> SUFFICES ASSUME xh > 0, al <= hb PROVE AtMost(Over(a, b), Over(xh, yl))
    OBVIOUS
  <2>1. Over(xh, yl) \in Numbers
    BY QuotientType, SMT
  <2>2. CASE yl = 0
    <3>1. Over(xh, yl) = <<1, 0>>
      BY <2>2, SMT DEF Over
    <3> QED BY <3>1, <2>1, <1>1, <1>2, AtMostMeans, SMT
  <2>3. CASE yl > 0
    <3>1. Over(xh, yl) = <<xh, yl>>
      BY <2>3, SMT DEF Over
    <3> QED BY <3>1, <2>1, <1>1, <1>2, AtMostMeans
  <2> QED BY <2>2, <2>3
<1> HIDE DEF lb, ab, hb, ah, al
<1> QED
  BY <1>5, <1>6, <1>7, <1>8, <1>9, <1>10, SMT

\* exchanging the signs of both operands keeps a quotient
LEMMA SignsCancel ==
    ASSUME NEW a \in Int, NEW b \in Int, b # 0
    PROVE  Over(a, b) = Over(-a, -b)
BY SMT DEF Over

\* Corners of two sorted ranges on one side of zero bound every quotient; a
\* corner with a zero divisor does so as an infinity.
LEMMA CornersBound ==
    ASSUME NEW x \in RangePairs, NEW y \in RangePairs, NEW a \in Int, NEW b \in Int,
           In(a, x), In(b, y), b # 0, ~CrossesZero(y)
    PROVE  /\ \E e \in Ends(x), f \in Ends(y) :
                 (e # 0 \/ f # 0) /\ AtMost(Over(e, f), Over(a, b))
           /\ \E e \in Ends(x), f \in Ends(y) :
                 (e # 0 \/ f # 0) /\ AtMost(Over(a, b), Over(e, f))
<1>1. /\ x.lo \in Int /\ x.hi \in Int /\ y.lo \in Int /\ y.hi \in Int
      /\ x.lo <= a /\ a <= x.hi /\ y.lo <= b /\ b <= y.hi
  BY DEF RangePairs, In
<1>2. x.lo \in Ends(x) /\ x.hi \in Ends(x) /\ y.lo \in Ends(y) /\ y.hi \in Ends(y)
  BY DEF Ends
<1>3. CASE y.lo >= 0
  <2>1. 0 <= y.lo /\ 0 < b /\ y.hi # 0
    BY <1>1, <1>3, SMT
  <2>2. /\ \/ AtMost(Over(x.lo, y.hi), Over(a, b))
           \/ x.lo < 0 /\ AtMost(Over(x.lo, y.lo), Over(a, b))
        /\ \/ AtMost(Over(a, b), Over(x.hi, y.hi))
           \/ x.hi > 0 /\ AtMost(Over(a, b), Over(x.hi, y.lo))
    BY <1>1, <2>1, QuotientsOrdered
  <2>3. (x.lo < 0 => x.lo # 0) /\ (x.hi > 0 => x.hi # 0)
    BY <1>1, SMT
  <2> QED
    BY <1>2, <2>1, <2>2, <2>3, Zenon
<1>4. CASE y.lo < 0
  <2> DEFINE xl == -x.hi  xh == -x.lo  yl == -y.hi  yh == -y.lo
  <2>1. y.hi < 0 /\ y.lo # 0 /\ y.hi # 0
    BY <1>1, <1>4, SMT DEF CrossesZero
  <2>2. /\ xl \in Int /\ xh \in Int /\ yl \in Int /\ yh \in Int /\ -a \in Int /\ -b \in Int
        /\ xl <= -a /\ -a <= xh /\ yl <= -b /\ -b <= yh /\ 0 <= yl /\ 0 < -b
    BY <1>1, <2>1, SMT
  <2>3. /\ \/ AtMost(Over(xl, yh), Over(-a, -b))
           \/ xl < 0 /\ AtMost(Over(xl, yl), Over(-a, -b))
        /\ \/ AtMost(Over(-a, -b), Over(xh, yh))
           \/ xh > 0 /\ AtMost(Over(-a, -b), Over(xh, yl))
    <3> HIDE DEF xl, xh, yl, yh
    <3> QED BY <2>2, QuotientsOrdered
  <2>4. /\ Over(-a, -b) = Over(a, b)
        /\ Over(xl, yh) = Over(x.hi, y.lo) /\ Over(xl, yl) = Over(x.hi, y.hi)
        /\ Over(xh, yh) = Over(x.lo, y.lo) /\ Over(xh, yl) = Over(x.lo, y.hi)
    BY <1>1, <2>1, SignsCancel
  <2> HIDE DEF xl, xh, yl, yh
  <2> QED
    BY <1>2, <2>1, <2>3, <2>4, Zenon
<1> QED
  BY <1>1, <1>3, <1>4, SMT

\* an answer that is at most, and at least, every corner that is a number has
\* every quotient
LEMMA BetweenCorners ==
    ASSUME NEW x \in RangePairs, NEW y \in RangePairs, NEW a \in Int, NEW b \in Int,
           In(a, x), In(b, y), b # 0, ~CrossesZero(y),
           NEW l \in Numbers, NEW h \in Numbers,
           \A e \in Ends(x), f \in Ends(y) :
              e # 0 \/ f # 0 => AtMost(l, Over(e, f)) /\ AtMost(Over(e, f), h)
    PROVE  AtMost(l, Over(a, b)) /\ AtMost(Over(a, b), h)
<1>1. \A e \in Ends(x), f \in Ends(y) : e # 0 \/ f # 0 => Over(e, f) \in Numbers
  BY QuotientType DEF Ends, RangePairs
<1>2. Over(a, b) \in Numbers
  BY QuotientType
<1>3. PICK e \in Ends(x), f \in Ends(y) :
        (e # 0 \/ f # 0) /\ AtMost(Over(e, f), Over(a, b))
  BY CornersBound
<1>4. PICK g \in Ends(x), k \in Ends(y) :
        (g # 0 \/ k # 0) /\ AtMost(Over(a, b), Over(g, k))
  BY CornersBound
<1>5. AtMost(l, Over(a, b))
  BY <1>1, <1>2, <1>3, AtMostTransitive
<1>6. AtMost(Over(a, b), h)
  BY <1>1, <1>2, <1>4, AtMostTransitive
<1> QED
  BY <1>5, <1>6

\* x1 / x2: unless the divisors are on both sides of zero or the first corner
\* is 0 / 0
LEMMA QuotientOfRanges ==
    ASSUME NEW x \in RangePairs, NEW y \in RangePairs, NEW a \in Int, NEW b \in Int,
           In(a, x), In(b, y), b # 0, ~CrossesZero(y), ~(y.lo = 0 /\ x.lo = 0)
    PROVE  /\ AtMost(DivRange(x, y).lo, Over(a, b))
           /\ AtMost(Over(a, b), DivRange(x, y).hi)
<1> DEFINE p == Over(x.lo, y.lo)  q == Over(x.lo, y.hi)  r == Over(x.hi, y.lo)  s == Over(x.hi, y.hi)
           l == Least(Least(Least(p, q), r), s)  h == Greatest(Greatest(Greatest(p, q), r), s)
<1>1. x.lo \in Int /\ x.hi \in Int /\ y.lo \in Int /\ y.hi \in Int
  BY DEF RangePairs
<1>2. /\ p \in Numbers /\ q \in Numbers \cup {NaN} /\ r \in Numbers \cup {NaN} /\ s \in Numbers \cup {NaN}
      /\ x.lo # 0 \/ y.hi # 0 => q \in Numbers
      /\ x.hi # 0 \/ y.lo # 0 => r \in Numbers
      /\ x.hi # 0 \/ y.hi # 0 => s \in Numbers
  BY <1>1, QuotientType
<1>3. /\ l \in Numbers /\ h \in Numbers
      /\ \A c \in {p, q, r, s} : c \in Numbers => AtMost(l, c) /\ AtMost(c, h)
  <2> HIDE DEF p, q, r, s
  <2> DEFINE l1 == Least(p, q)  l2 == Least(l1, r)  h1 == Greatest(p, q)  h2 == Greatest(h1, r)
  <2>1. /\ l1 \in Numbers /\ AtMost(l1, p) /\ (q \in Numbers => AtMost(l1, q))
        /\ h1 \in Numbers /\ AtMost(p, h1) /\ (q \in Numbers => AtMost(q, h1))
    BY <1>2, LeastOfTwo
  <2> HIDE DEF l1, h1
  <2>2. /\ l2 \in Numbers /\ AtMost(l2, l1) /\ (r \in Numbers => AtMost(l2, r))
        /\ h2 \in Numbers /\ AtMost(h1, h2) /\ (r \in Numbers => AtMost(r, h2))
    BY <1>2, <2>1, LeastOfTwo
  <2> HIDE DEF l2, h2
  <2>3. /\ Least(l2, s) \in Numbers /\ AtMost(Least(l2, s), l2)
        /\ s \in Numbers => AtMost(Least(l2, s), s)
        /\ Greatest(h2, s) \in Numbers /\ AtMost(h2, Greatest(h2, s))
        /\ s \in Numbers => AtMost(s, Greatest(h2, s))
    BY <1>2, <2>2, LeastOfTwo
  <2>4. l = Least(l2, s) /\ h = Greatest(h2, s)
    BY DEF l1, l2, h1, h2
  <2> HIDE DEF l, h
  <2>5. /\ l \in Numbers /\ h \in Numbers /\ AtMost(l, l2) /\ AtMost(h2, h)
        /\ s \in Numbers => AtMost(l, s) /\ AtMost(s, h)
    BY <2>3, <2>4
  <2>6. AtMost(l, l1) /\ AtMost(h1, h) /\ (r \in Numbers => AtMost(l, r) /\ AtMost(r, h))
    BY <2>1, <2>2, <2>5, AtMostTransitive
  <2>7. AtMost(l, p) /\ AtMost(p, h) /\ (q \in Numbers => AtMost(l, q) /\ AtMost(q, h))
    BY <1>2, <2>1, <2>5, <2>6, AtMostTransitive
  <2> QED
    BY <2>5, <2>6, <2>7
<1>4. \A e \in Ends(x), f \in Ends(y) :
        e # 0 \/ f # 0 => AtMost(l, Over(e, f)) /\ AtMost(Over(e, f), h)
  <2> SUFFICES ASSUME NEW e \in Ends(x), NEW f \in Ends(y), e # 0 \/ f # 0
               PROVE  AtMost(l, Over(e, f)) /\ AtMost(Over(e, f), h)
    OBVIOUS
  <2>1. e \in Int /\ f \in Int
    BY <1>1 DEF Ends
  <2>2. Over(e, f) \in Numbers
    BY <2>1, QuotientType
  <2>3. Over(e, f) \in {p, q, r, s}
    BY DEF Ends
  <2> QED
    BY <1>3, <2>2, <2>3
<1>5. DivRange(x, y).lo = l /\ DivRange(x, y).hi = h
  BY DEF DivRange, Pair
<1> HIDE DEF l, h
<1> QED
  BY <1>3, <1>4, <1>5, BetweenCorners

\* c / x, likewise
LEMMA QuotientOfConstant ==
    ASSUME NEW c \in Int, NEW y \in RangePairs, NEW b \in Int,
           In(b, y), b # 0, ~CrossesZero(y), ~(y.lo = 0 /\ c = 0)
    PROVE  /\ AtMost(DivOfConst(c, y).lo, Over(c, b))
           /\ AtMost(Over(c, b), DivOfConst(c, y).hi)
<1> DEFINE p == Over(c, y.lo)  q == Over(c, y.hi)  l == Least(p, q)  h == Greatest(p, q)
<1>1. y.lo \in Int /\ y.hi \in Int
  BY DEF RangePairs
<1>2. p \in Numbers /\ q \in Numbers \cup {NaN} /\ (c # 0 \/ y.hi # 0 => q \in Numbers)
  BY <1>1, QuotientType
<1>3. /\ l \in Numbers /\ AtMost(l, p) /\ (q \in Numbers => AtMost(l, q))
      /\ h \in Numbers /\ AtMost(p, h) /\ (q \in Numbers => AtMost(q, h))
  <2> HIDE DEF p, q
  <2> QED BY <1>2, LeastOfTwo
<1>4. Point(c) \in RangePairs /\ In(c, Point(c)) /\ Ends(Point(c)) = {c}
  BY SMT DEF Point, Pair, RangePairs, In, Ends
<1>5. \A e \in Ends(Point(c)), f \in Ends(y) :
        e # 0 \/ f # 0 => AtMost(l, Over(e, f)) /\ AtMost(Over(e, f), h)
  BY <1>2, <1>3, <1>4 DEF Ends
<1>6. DivOfConst(c, y).lo = l /\ DivOfConst(c, y).hi = h
  BY DEF DivOfConst, Pair
<1> HIDE DEF l, h
<1> QED
  BY <1>3, <1>4, <1>5, <1>6, BetweenCorners

\* x / c, unless a negative constant exchanges the ends
LEMMA QuotientByConstant ==
    ASSUME NEW x \in RangePairs, NEW c \in Int, NEW a \in Int,
           In(a, x), c # 0, c > 0 \/ x.lo = x.hi
    PROVE  /\ AtMost(DivByConst(x, c).lo, Over(a, c))
           /\ AtMost(Over(a, c), DivByConst(x, c).hi)
<1>1. x.lo \in Int /\ x.hi \in Int /\ x.lo <= a /\ a <= x.hi
  BY DEF RangePairs, In
<1>2. DivByConst(x, c).lo = Over(x.lo, c) /\ DivByConst(x, c).hi = Over(x.hi, c)
  BY DEF DivByConst, Pair
<1>3. Over(x.lo, c) \in Numbers /\ Over(x.hi, c) \in Numbers /\ Over(a, c) \in Numbers
  BY <1>1, QuotientType
<1>4. CASE c > 0
  <2>1. Over(x.lo, c) = <<x.lo, c>> /\ Over(x.hi, c) = <<x.hi, c>> /\ Over(a, c) = <<a, c>>
    BY <1>4 DEF Over
  <2>2. x.lo * c <= a * c /\ a * c <= x.hi * c
    BY <1>1, <1>4, SMT
  <2>3. AtMost(Over(x.lo, c), Over(a, c))
    BY <1>3, <1>4, <2>1, <2>2, AtMostMeans
  <2>4. AtMost(Over(a, c), Over(x.hi, c))
    BY <1>3, <1>4, <2>1, <2>2, AtMostMeans
  <2> QED
    BY <1>2, <2>3, <2>4
<1>5. CASE x.lo = x.hi
  <2>1. a = x.lo /\ a = x.hi
    BY <1>1, <1>5, SMT
  <2>2. AtMost(Over(a, c), Over(a, c))
    BY <1>3, AtMostMeans, SMT DEF Numbers
  <2> QED
    BY <1>2, <2>1, <2>2
<1> QED
  BY <1>4, <1>5

-----------------------------------------------------------------------------
(* Powers of two, and words.                                               *)

\* a power of two is a number larger than its exponent
LEMMA PowersAreLarge == \A n \in 0 .. LongWidth : 2^n \in Nat /\ n < 2^n
<1> DEFINE Bad == {n \in 0 .. LongWidth : ~(2^n \in Nat /\ n < 2^n)}
<1>1. SUFFICES Bad = {}
  OBVIOUS
<1>2. LongWidth \in Nat
  BY WidthAssumption
<1>3. SUFFICES ASSUME Bad # {} PROVE FALSE
  OBVIOUS
<1>4. Bad \in SUBSET Nat
  BY <1>2, SMT
<1>5. PICK m \in Bad : \A n \in Bad : m <= n
  <2> HIDE DEF Bad
  <2> QED BY <1>3, <1>4, LeastNatural
<1>6. m \in 0 .. LongWidth /\ ~(2^m \in Nat /\ m < 2^m)
  BY <1>5
<1>7. CASE m = 0
  BY <1>6, <1>7, PowersOfTwo, SMT
<1>8. CASE m > 0
  <2>1. m - 1 \in 0 .. LongWidth /\ m - 1 < m
    BY <1>2, <1>6, <1>8, SMT
  <2>2. m - 1 \notin Bad
    BY <1>5, <2>1, <1>4, SMT
  <2>3. 2^(m - 1) \in Nat /\ m - 1 < 2^(m - 1)
    BY <2>1, <2>2
  <2>4. 2^((m - 1) + 1) = 2 * 2^(m - 1)
    BY <2>1, PowersOfTwo
  <2>5. (m - 1) + 1 = m
    BY <1>6, <1>2, SMT
  <2>6. 2^m = 2 * 2^(m - 1)
    BY <2>4, <2>5
  <2> DEFINE h == 2^(m - 1)  t == 2^m
  <2>7. h \in Nat /\ m - 1 < h /\ t = 2 * h
    BY <2>3, <2>6
  <2> HIDE DEF h, t
  <2>8. t \in Nat /\ m < t
    BY <2>7, <1>2, <1>6, <1>8, SMT
  <2> QED BY <2>8, <1>6 DEF t
<1> QED
  BY <1>2, <1>6, <1>7, <1>8, SMT

\* for a positive exponent, a power is twice the one before
LEMMA PowersDouble ==
    ASSUME NEW w \in 1 .. LongWidth
    PROVE  2^w = 2 * 2^(w - 1) /\ 2^(w - 1) \in Nat /\ 2^(w - 1) >= 1 /\ 2^w \in Nat
<1>1. LongWidth \in Nat
  BY WidthAssumption
<1>2. w - 1 \in 0 .. LongWidth /\ (w - 1) + 1 = w /\ w \in 0 .. LongWidth
  BY <1>1, SMT
<1>3. 2^((w - 1) + 1) = 2 * 2^(w - 1)
  BY <1>2, PowersOfTwo
<1>4. 2^w = 2 * 2^(w - 1)
  BY <1>2, <1>3
<1>5. 2^(w - 1) \in Nat /\ w - 1 < 2^(w - 1) /\ 2^w \in Nat
  BY <1>2, PowersAreLarge
<1> DEFINE h == 2^(w - 1)
<1>6. h \in Nat /\ w - 1 < h
  BY <1>5
<1>7. h >= 1
  <2> HIDE DEF h
  <2> QED BY <1>1, <1>6, SMT
<1> QED
  BY <1>4, <1>5, <1>7

\* a larger power is a multiple of a smaller one
LEMMA PowersDivide ==
    \A n \in 0 .. LongWidth : \A m \in 0 .. n : \E k \in Nat \ {0} : 2^n = k * 2^m
<1> DEFINE Good(n) == \A m \in 0 .. n : \E k \in Nat \ {0} : 2^n = k * 2^m
           Bad == {n \in 0 .. LongWidth : ~Good(n)}
<1>1. SUFFICES ASSUME Bad # {} PROVE FALSE
  OBVIOUS
<1>2. LongWidth \in Nat
  BY WidthAssumption
<1>3. Bad \in SUBSET Nat
  BY <1>2, SMT
<1>4. PICK n \in Bad : \A j \in Bad : n <= j
  <2> HIDE DEF Bad
  <2> QED BY <1>1, <1>3, LeastNatural
<1>5. PICK m \in 0 .. n : ~ \E k \in Nat \ {0} : 2^n = k * 2^m
  BY <1>4
<1>6. n \in 0 .. LongWidth /\ n \in Nat /\ m \in Nat /\ m <= n
  BY <1>2, <1>4, SMT
<1>7. 2^n \in Nat
  BY <1>6, PowersAreLarge
<1>8. CASE m = n
  <2>1. 2^n = 1 * 2^m
    BY <1>7, <1>8, SMT
  <2> QED BY <2>1, <1>5, SMT
<1>9. CASE m # n
  <2>1. n - 1 \in 0 .. LongWidth /\ n - 1 < n /\ m \in 0 .. n - 1 /\ n \in 1 .. LongWidth
    BY <1>2, <1>6, <1>9, SMT
  <2>2. n - 1 \notin Bad
    <3> HIDE DEF Bad
    <3> QED BY <1>4, <2>1, <1>3, <1>6, SMT
  <2>3. PICK k \in Nat \ {0} : 2^(n - 1) = k * 2^m
    BY <2>1, <2>2
  <2>4. 2^n = 2 * 2^(n - 1)
    BY <2>1, PowersDouble
  <2>5. m \in 0 .. LongWidth
    BY <1>2, <1>6, SMT
  <2>8. 2^m \in Nat
    BY <2>5, PowersAreLarge
  <2> DEFINE p == 2^m
  <2>6. 2^n = 2 * (k * p) /\ p \in Nat
    BY <2>3, <2>4, <2>8
  <2> HIDE DEF p
  <2>7. 2 * (k * p) = (2 * k) * p /\ 2 * k \in Nat \ {0}
    BY <2>6, SMT
  <2> QED BY <2>6, <2>7, <1>5 DEF p
<1> QED
  BY <1>8, <1>9

\* a larger exponent never makes a smaller power
LEMMA PowersInOrder ==
    ASSUME NEW n \in 0 .. LongWidth, NEW m \in 0 .. n
    PROVE  2^m \in Nat /\ 2^n \in Nat /\ 1 <= 2^m /\ 2^m <= 2^n
<1>1. LongWidth \in Nat
  BY WidthAssumption
<1>2. m \in 0 .. LongWidth /\ m \in Nat
  BY <1>1, SMT
<1>3. 2^m \in Nat /\ m < 2^m /\ 2^n \in Nat
  BY <1>2, PowersAreLarge
<1>4. PICK k \in Nat \ {0} : 2^n = k * 2^m
  BY PowersDivide
<1> DEFINE p == 2^m  q == 2^n
<1>5. p \in Nat /\ m < p /\ q \in Nat /\ q = k * p
  BY <1>3, <1>4
<1> HIDE DEF p, q
<1>6. 1 <= p /\ p <= q
  BY <1>2, <1>5, SMT
<1> QED
  BY <1>5, <1>6 DEF p, q

-----------------------------------------------------------------------------
\* a number below the modulus is its own word
LEMMA SmallWord ==
    ASSUME NEW a \in Int, NEW m \in Nat, m >= 1
    PROVE  /\ 0 <= a /\ a < m => a % m = a
           /\ -m <= a /\ a < 0 => a % m = a + m
<1>1. 0 <= a /\ a < m => a % m = a
  BY SMT
<1>2. -m <= a /\ a < 0 => a % m = a + m
  BY SMT
<1> QED BY <1>1, <1>2

\* whole multiples of the modulus do not change a word
LEMMA MultipleAdded ==
    ASSUME NEW m \in Nat, NEW n \in Nat, NEW p \in Nat, m < p
    PROVE  (m + n * p) % p = m
<1> DEFINE z == m + n * p  q == z \div p  s == z % p
<1>1. n * p \in Int /\ z \in Nat
  BY SMT
<1>2. q \in Int /\ s \in Int /\ z = p * q + s /\ 0 <= s /\ s < p
  <2> HIDE DEF z
  <2> QED BY <1>1, SMT
<1>3. p * q + s = m + n * p
  BY <1>2
<1> HIDE DEF z, q, s
<1>4. ~(q >= n + 1)
  <2> SUFFICES ASSUME q >= n + 1 PROVE FALSE
    OBVIOUS
  <2>1. p * q >= p * (n + 1) /\ p * (n + 1) = n * p + p
    BY <1>2, SMT
  <2> QED BY <1>1, <1>2, <1>3, <2>1, SMT
<1>5. ~(n >= q + 1)
  <2> SUFFICES ASSUME n >= q + 1 PROVE FALSE
    OBVIOUS
  <2>1. p * n >= p * (q + 1) /\ p * (q + 1) = p * q + p /\ p * n = n * p
    BY <1>2, SMT
  <2> QED BY <1>1, <1>2, <1>3, <2>1, SMT
<1>6. q = n
  BY <1>2, <1>4, <1>5, SMT
<1>7. s = m
  BY <1>1, <1>2, <1>3, <1>6, SMT
<1> QED
  BY <1>7 DEF s, z

\* a signed number of w bits is what its word says
LEMMA SignedWord ==
    ASSUME NEW w \in 1 .. LongWidth, NEW a \in Int, -(2^(w - 1)) <= a, a < 2^(w - 1)
    PROVE  LLVM!AsSigned(a % 2^w, w) = a /\ AsInt(a, w) = a
<1> DEFINE h == 2^(w - 1)  p == 2^w
<1>1. p = 2 * h /\ h \in Nat /\ h >= 1
  BY PowersDouble
<1>2. -h <= a /\ a < h
  OBVIOUS
<1>3. LLVM!AsSigned(a % p, w) = IF a % p >= h THEN (a % p) - p ELSE a % p
  BY DEF LLVM!AsSigned
<1>4. AsInt(a, w) = ((a + h) % p) - h
  BY DEF AsInt
<1> HIDE DEF h, p
<1>9. /\ p \in Nat /\ p >= 1 /\ -p <= a /\ a < p
      /\ a + h \in Int /\ 0 <= a + h /\ a + h < p
  BY <1>1, <1>2, SMT
<1>5. a % p = IF a < 0 THEN a + p ELSE a
  BY <1>9, SmallWord, SMT
<1>6. (a + h) % p = a + h
  BY <1>9, SmallWord
<1>7. (IF a % p >= h THEN (a % p) - p ELSE a % p) = a
  BY <1>1, <1>2, <1>5, SMT
<1>8. ((a + h) % p) - h = a
  BY <1>1, <1>2, <1>6, SMT
<1> QED
  BY <1>3, <1>4, <1>7, <1>8 DEF h, p

\* quotients by a positive number are in the order of the dividends; a larger
\* divisor brings them nearer to zero
LEMMA DivInOrder ==
    ASSUME NEW a \in Int, NEW b \in Int, NEW p \in Nat, p >= 1, a <= b
    PROVE  a \div p <= b \div p
<1> DEFINE u == a \div p  v == b \div p
<1>1. u \in Int /\ v \in Int
  BY SMT
<1>2. p * u <= a /\ a < p * u + p /\ p * v <= b /\ b < p * v + p
  BY SMT
<1> HIDE DEF u, v
<1>3. u <= v
  <2> SUFFICES ASSUME v + 1 <= u PROVE FALSE
    BY <1>1, SMT
  <2>1. p * (v + 1) <= p * u /\ p * (v + 1) = p * v + p
    BY <1>1, SMT
  <2> QED BY <1>1, <1>2, <2>1, SMT
<1> QED
  BY <1>3 DEF u, v

\* a larger divisor never makes a larger quotient
LEMMA DivByMore ==
    ASSUME NEW a \in Int, NEW p \in Nat, NEW q \in Nat, p >= 1, p <= q
    PROVE  /\ a >= 0 => a \div q <= a \div p
           /\ a < 0 => a \div p <= a \div q
<1> DEFINE u == a \div p  x == a \div q
<1>1. u \in Int /\ x \in Int
  BY SMT
<1>2. p * u <= a /\ a < p * u + p /\ q * x <= a /\ a < q * x + q
  BY SMT
<1> HIDE DEF u, x
<1>3. a >= 0 => x <= u
  <2> SUFFICES ASSUME a >= 0, u + 1 <= x PROVE FALSE
    BY <1>1, SMT
  <2>1. u >= 0
    <3> SUFFICES ASSUME u + 1 <= 0 PROVE FALSE
      BY <1>1, SMT
    <3>1. p * (u + 1) <= 0 /\ p * (u + 1) = p * u + p
      BY <1>1, SMT
    <3> QED BY <1>1, <1>2, <3>1, SMT
  <2>2. p * (u + 1) = p * u + p /\ p * (u + 1) <= q * (u + 1) /\ q * (u + 1) <= q * x
    BY <1>1, <2>1, SMT
  <2> QED BY <1>1, <1>2, <2>2, SMT
<1>4. a < 0 => u <= x
  <2> SUFFICES ASSUME a < 0, x + 1 <= u PROVE FALSE
    BY <1>1, SMT
  <2>1. u <= -1
    <3> SUFFICES ASSUME 0 <= u PROVE FALSE
      BY <1>1, SMT
    <3>1. 0 <= p * u
      BY <1>1, SMT
    <3> QED BY <1>1, <1>2, <3>1, SMT
  <2>2. q * (x + 1) = q * x + q /\ q * (x + 1) <= q * u /\ q * u <= p * u
    BY <1>1, <2>1, SMT
  <2> QED BY <1>1, <1>2, <2>2, SMT
<1> QED
  BY <1>3, <1>4 DEF u, x

\* Least and greatest of at most four numbers
LEMMA Enclosed ==
    ASSUME NEW a \in Int, NEW b \in Int, NEW c \in Int, NEW d \in Int, NEW v \in Int,
           NEW e \in {a, b, c, d}, NEW f \in {a, b, c, d}, e <= v, v <= f
    PROVE  In(v, Extremes({a, b, c, d}))
<1> DEFINE S == {a, b, c, d}
<1>1. \E x \in S : \A y \in S : x <= y
  BY SMT
<1>2. \E x \in S : \A y \in S : x >= y
  BY SMT
<1>3. S \subseteq Int /\ e \in S /\ f \in S
  OBVIOUS
<1> HIDE DEF S
<1>4. Min(S) \in S /\ \A y \in S : Min(S) <= y
  BY <1>1 DEF Min
<1>5. Max(S) \in S /\ \A y \in S : Max(S) >= y
  BY <1>2 DEF Max
<1>6. Min(S) <= e /\ Max(S) >= f /\ Min(S) \in Int /\ Max(S) \in Int /\ e \in Int /\ f \in Int
  BY <1>3, <1>4, <1>5, Zenon
<1>7. Min(S) <= v /\ v <= Max(S)
  BY <1>6, SMT
<1> QED
  BY <1>7 DEF S, In, Extremes, Pair

-----------------------------------------------------------------------------
\* a register's range is within what its word can say
LEMMA WordRange ==
    ASSUME NEW w \in 1 .. LongWidth, NEW x \in WordRanges(w)
    PROVE  /\ x.lo \in Int /\ x.hi \in Int /\ x.lo <= x.hi
           /\ -(2^(w - 1)) <= x.lo /\ x.hi < 2^w
           /\ w = LongWidth => x.hi < 2^(w - 1)
<1> DEFINE h == 2^(w - 1)  p == 2^w
<1>1. p = 2 * h /\ h \in Nat /\ h >= 1
  BY PowersDouble
<1>2. \/ x \in [lo : -h .. h - 1, hi : -h .. h - 1] /\ x.lo <= x.hi
      \/ w < LongWidth /\ x \in [lo : 0 .. p - 1, hi : 0 .. p - 1] /\ x.lo <= x.hi
  BY DEF WordRanges, Ranges, Sorted
<1>3. LongWidth \in Nat
  BY WidthAssumption
<1> HIDE DEF h, p
<1>4. /\ x.lo \in Int /\ x.hi \in Int /\ x.lo <= x.hi
      /\ -h <= x.lo /\ x.hi < p
      /\ w = LongWidth => x.hi < h
  <2>1. CASE x \in [lo : -h .. h - 1, hi : -h .. h - 1] /\ x.lo <= x.hi
    <3>1. x.lo \in -h .. h - 1 /\ x.hi \in -h .. h - 1
      BY <2>1
    <3> QED BY <1>1, <2>1, <3>1, SMT
  <2>2. CASE w < LongWidth /\ x \in [lo : 0 .. p - 1, hi : 0 .. p - 1] /\ x.lo <= x.hi
    <3>1. x.lo \in 0 .. p - 1 /\ x.hi \in 0 .. p - 1
      BY <2>2
    <3> QED BY <1>1, <1>3, <2>2, <3>1, SMT
  <2> QED BY <1>2, <2>1, <2>2
<1> QED
  BY <1>4 DEF h, p

\* the cast to an unsigned type of w bits, a bool for one bit
LEMMA UnsignedWord ==
    ASSUME NEW w \in 1 .. LongWidth, NEW a \in Int, -(2^(w - 1)) <= a, a < 2^w
    PROVE  /\ Unsigned(a, w) = a % 2^w
           /\ a % 2^w = IF a < 0 THEN a + 2^w ELSE a
           /\ a % 2^w \in Nat /\ a % 2^w < 2^w
<1> DEFINE h == 2^(w - 1)  p == 2^w
<1>1. p = 2 * h /\ h \in Nat /\ h >= 1 /\ -h <= a /\ a < p
  BY PowersDouble
<1>2. w = 1 => h = 1
  BY PowersOfTwo
<1>3. Unsigned(a, w) = IF w = 1 THEN (IF a = 0 THEN 0 ELSE 1) ELSE a % p
  BY DEF Unsigned
<1> HIDE DEF h, p
<1>4. p \in Nat /\ p >= 1 /\ -p <= a /\ a < p
  BY <1>1, SMT
<1>5. a % p = IF a < 0 THEN a + p ELSE a
  BY <1>4, SmallWord, SMT
<1>6. a % p \in Nat /\ a % p < p
  BY <1>4, <1>5, SMT
<1>7. (IF w = 1 THEN (IF a = 0 THEN 0 ELSE 1) ELSE a % p) = a % p
  BY <1>1, <1>2, <1>5, SMT
<1> QED
  BY <1>3, <1>5, <1>6, <1>7 DEF p

\* when a range does not cross zero, its words are in the order of its numbers
LEMMA WordsInOrder ==
    ASSUME NEW w \in 1 .. LongWidth, NEW x \in WordRanges(w), ~CrossesZero(x),
           NEW a \in Values(x)
    PROVE  /\ x.lo % 2^w \in Nat /\ a % 2^w \in Nat /\ x.hi % 2^w \in Nat
           /\ x.lo % 2^w <= a % 2^w /\ a % 2^w <= x.hi % 2^w
           /\ Unsigned(x.lo, w) = x.lo % 2^w /\ Unsigned(x.hi, w) = x.hi % 2^w
<1>1. /\ x.lo \in Int /\ x.hi \in Int /\ x.lo <= x.hi
      /\ -(2^(w - 1)) <= x.lo /\ x.hi < 2^w
  BY WordRange
<1>2. a \in Int /\ x.lo <= a /\ a <= x.hi
  BY <1>1, SMT DEF Values
<1>3. 2^(w - 1) \in Nat /\ 2^w \in Nat
  BY PowersDouble
<1> DEFINE h == 2^(w - 1)  p == 2^w
<1>4. /\ -h <= a /\ a < p /\ x.lo < p /\ -h <= x.hi
  <2>1. h \in Int /\ p \in Int /\ -h <= x.lo /\ x.hi < p
    BY <1>1, <1>3
  <2> HIDE DEF h, p
  <2> QED BY <1>1, <1>2, <2>1, SMT
<1>5. /\ Unsigned(x.lo, w) = x.lo % p /\ Unsigned(x.hi, w) = x.hi % p
      /\ x.lo % p \in Nat /\ a % p \in Nat /\ x.hi % p \in Nat
      /\ x.lo % p = IF x.lo < 0 THEN x.lo + p ELSE x.lo
      /\ a % p = IF a < 0 THEN a + p ELSE a
      /\ x.hi % p = IF x.hi < 0 THEN x.hi + p ELSE x.hi
  BY <1>1, <1>2, <1>4, UnsignedWord
<1>6. p \in Int
  BY <1>3
<1> HIDE DEF h, p
<1>7. x.lo % p <= a % p /\ a % p <= x.hi % p
  BY <1>1, <1>2, <1>5, <1>6, SMT DEF CrossesZero
<1> QED
  BY <1>5, <1>7 DEF p

\* the amount of a shift fits in every width it is read in
LEMMA ShiftAmount ==
    ASSUME NEW w \in 1 .. LongWidth, NEW y \in Ranges(0, w - 1), NEW b \in Values(y)
    PROVE  /\ y.lo \in 0 .. w - 1 /\ y.hi \in 0 .. w - 1 /\ y.lo <= b /\ b <= y.hi /\ b \in 0 .. w - 1
           /\ y.lo \in 0 .. b /\ b \in 0 .. y.hi /\ y.lo \in 0 .. y.hi
           /\ y.lo \in 0 .. LongWidth /\ y.hi \in 0 .. LongWidth /\ b \in 0 .. LongWidth
           /\ UnsignedEnds(y, w) = y
<1>1. LongWidth \in Nat
  BY WidthAssumption
<1>2. y \in [lo : 0 .. w - 1, hi : 0 .. w - 1] /\ y.lo <= y.hi
  BY DEF Ranges, Sorted
<1>3. y.lo \in 0 .. w - 1 /\ y.hi \in 0 .. w - 1
  BY <1>2
<1>4. /\ y.lo <= b /\ b <= y.hi /\ b \in 0 .. w - 1
      /\ y.lo \in 0 .. b /\ b \in 0 .. y.hi /\ y.lo \in 0 .. y.hi
      /\ y.lo \in 0 .. LongWidth /\ y.hi \in 0 .. LongWidth /\ b \in 0 .. LongWidth
  BY <1>1, <1>2, <1>3, SMT DEF Values
<1>5. \A s \in 0 .. w - 1 : Unsigned(s, w) = s
  <2> SUFFICES ASSUME NEW s \in 0 .. w - 1 PROVE Unsigned(s, w) = s
    OBVIOUS
  <2>1. w \in 0 .. LongWidth /\ s \in 0 .. LongWidth /\ s <= w /\ s < w
    BY <1>1, SMT
  <2>2. 2^w \in Nat /\ w < 2^w
    BY <2>1, PowersAreLarge
  <2>3. s % 2^w = s
    <3> DEFINE p == 2^w
    <3>1. p \in Nat /\ w < p
      BY <2>2
    <3> HIDE DEF p
    <3>2. s % p = s
      BY <2>1, <3>1, <1>1, SMT
    <3> QED BY <3>2 DEF p
  <2>4. w = 1 => s = 0
    BY <1>1, SMT
  <2> QED BY <2>3, <2>4 DEF Unsigned
<1>6. UnsignedEnds(y, w) = [lo |-> y.lo, hi |-> y.hi]
  BY <1>3, <1>5 DEF UnsignedEnds, Pair
<1>7. y = [lo |-> y.lo, hi |-> y.hi]
  BY <1>2
<1> QED
  BY <1>3, <1>4, <1>6, <1>7

-----------------------------------------------------------------------------
\* The casts: a number that the narrower type can hold is what the word says.
LEMMA CastsIn ==
    ASSUME NEW op \in Casts, NEW w \in (1 .. LongWidth) \ {LongWidth},
           NEW x \in WordRanges(IF op = "trunc" THEN LongWidth ELSE w),
           ~OtherReading(op, w, x), ~TooWide(op, w, x), NEW a \in Values(x)
    PROVE  a \in Converted(op, a, w) /\ In(a, x)
<1>1. LongWidth \in Nat /\ LongWidth \in 1 .. LongWidth /\ w \in 0 .. LongWidth /\ w \in 1 .. LongWidth
      /\ LongWidth \in 0 .. LongWidth
  BY WidthAssumption, SMT
<1> DEFINE h == 2^(w - 1)  p == 2^w  g == 2^(LongWidth - 1)  l == 2^LongWidth
<1>2. p = 2 * h /\ h \in Nat /\ h >= 1 /\ l = 2 * g /\ g \in Nat /\ g >= 1
  BY <1>1, PowersDouble
<1>3. \E k \in Nat \ {0} : l = k * p
  BY <1>1, PowersDivide
<1>4. p <= l /\ h <= g
  <2>1. p <= l
    BY <1>1, PowersInOrder
  <2> HIDE DEF p, h, l, g
  <2> QED BY <2>1, <1>2, SMT
<1>8. p \in Nat /\ p >= 1 /\ l \in Nat /\ l >= 1
  <2> HIDE DEF p, h, l, g
  <2> QED BY <1>2, SMT
<1>5. CASE op = "trunc"
  <2>1. x.lo \in Int /\ x.hi \in Int /\ -g <= x.lo /\ x.hi < g
    BY <1>1, <1>5, WordRange
  <2>2. -h <= x.lo /\ x.hi <= p - 1
    BY <1>5 DEF TooWide, Covers, Pair
  <2>3. a \in Int /\ -h <= a /\ a < p /\ -g <= a /\ a < g /\ In(a, x)
    <3> HIDE DEF h, p, g, l
    <3> QED BY <1>2, <2>1, <2>2, SMT DEF Values, In
  <2>4. Converted(op, a, w) = {(a % l) % p, LLVM!AsSigned((a % l) % p, w)}
    BY <1>5 DEF Converted, Reads, LLVM!CastWord
  <2>5. (a % l) % p = a % p
    <3> HIDE DEF h, p, g, l
    <3>1. a % l = IF a < 0 THEN a + l ELSE a
      <4>1. -l <= a /\ a < l
        BY <1>2, <2>3, SMT
      <4>2. a < 0 => a % l = a + l
        BY <1>8, <2>3, <4>1, SmallWord
      <4>3. 0 <= a => a % l = a
        BY <1>8, <2>3, <4>1, SmallWord
      <4> QED BY <2>3, <4>2, <4>3, SMT
    <3>2. PICK k \in Nat \ {0} : l = k * p
      BY <1>3
    <3>3. CASE a < 0
      <4>1. a % l = a + k * p
        BY <3>1, <3>2, <3>3
      <4>2. a + p \in Int /\ 0 <= a + p /\ a + p < p /\ (k - 1) \in Nat
        BY <1>2, <2>3, <3>3, SMT
      <4>3. (k - 1) * p \in Nat /\ a + k * p = (a + p) + (k - 1) * p
        BY <1>2, <2>3, SMT
      <4>4. ((a + p) + (k - 1) * p) % p = a + p
        BY <1>8, <4>2, MultipleAdded, SMT
      <4>5. a % p = a + p
        <5>1. -p <= a
          BY <1>2, <2>3, SMT
        <5> QED BY <1>8, <2>3, <3>3, <5>1, SmallWord
      <4> QED BY <4>1, <4>3, <4>4, <4>5
    <3>4. CASE a >= 0
      BY <3>1, <3>4, <1>2, <2>3, SMT
    <3> QED BY <3>3, <3>4, <2>3, SMT
  <2>6. CASE a >= 0
    <3>1. a % p = a
      <4> HIDE DEF h, p, g, l
      <4> QED BY <1>2, <2>3, <2>6, SmallWord, SMT
    <3> QED BY <2>3, <2>4, <2>5, <3>1
  <2>7. CASE a < 0
    <3>1. a < h
      <4> HIDE DEF h, p, g, l
      <4> QED BY <1>2, <2>3, <2>7, SMT
    <3>2. LLVM!AsSigned(a % p, w) = a
      BY <1>1, <2>3, <3>1, SignedWord
    <3> QED BY <2>3, <2>4, <2>5, <3>2
  <2> QED BY <2>3, <2>6, <2>7, SMT
<1>6. CASE op = "zext"
  <2>1. x.lo \in Int /\ x.hi \in Int /\ x.hi < p
    BY <1>1, <1>6, WordRange
  <2>2. x.lo >= 0
    BY <1>6, <2>1, SMT DEF OtherReading
  <2>3. a \in Int /\ 0 <= a /\ a < p /\ a < l /\ In(a, x)
    <3> HIDE DEF h, p, g, l
    <3> QED BY <1>2, <1>4, <2>1, <2>2, SMT DEF Values, In
  <2>4. Converted(op, a, w) = {(a % p) % l, LLVM!AsSigned((a % p) % l, LongWidth)}
    BY <1>6 DEF Converted, Reads, LLVM!CastWord
  <2>5. (a % p) % l = a
    <3> HIDE DEF h, p, g, l
    <3>1. a % p = a /\ a % l = a
      BY <1>2, <2>3, SmallWord, SMT
    <3> QED BY <3>1
  <2> QED BY <2>3, <2>4, <2>5
<1>7. CASE op = "sext"
  <2>1. x.lo \in Int /\ x.hi \in Int /\ -h <= x.lo
    BY <1>1, <1>7, WordRange
  <2>2. x.hi < h
    <3>1. ~(x.hi >= h)
      BY <1>7 DEF OtherReading
    <3> HIDE DEF h, p, g, l
    <3> QED BY <3>1, <2>1, <1>2, SMT
  <2>3. a \in Int /\ -h <= a /\ a < h /\ -g <= a /\ a < g /\ In(a, x)
    <3> HIDE DEF h, p, g, l
    <3> QED BY <1>2, <1>4, <2>1, <2>2, SMT DEF Values, In
  <2>4. Converted(op, a, w) =
          {LLVM!AsSigned(a % p, w) % l, LLVM!AsSigned(LLVM!AsSigned(a % p, w) % l, LongWidth)}
    BY <1>7 DEF Converted, Reads, LLVM!CastWord
  <2>5. LLVM!AsSigned(a % p, w) = a
    BY <1>1, <2>3, SignedWord
  <2>6. LLVM!AsSigned(a % l, LongWidth) = a
    BY <1>1, <2>3, SignedWord
  <2> QED BY <2>3, <2>4, <2>5, <2>6
<1> QED
  BY <1>5, <1>6, <1>7 DEF Casts

-----------------------------------------------------------------------------
\* what the three shifts leave in the word
LEMMA ShiftWords ==
    ASSUME NEW a, NEW b, NEW w
    PROVE  /\ ((a % 2^w) * 2^b) % 2^w \in Shifted("shl", a, b, w)
           /\ (a % 2^w) \div 2^b \in Shifted("lshr", a, b, w)
           /\ (LLVM!AsSigned(a % 2^w, w) \div 2^b) % 2^w \in Shifted("ashr", a, b, w)
           /\ LLVM!AsSigned((LLVM!AsSigned(a % 2^w, w) \div 2^b) % 2^w, w) \in Shifted("ashr", a, b, w)
<1>1. LLVM!Arithmetic("shl", a % 2^w, b, w) = ((a % 2^w) * 2^b) % 2^w
  BY Zenon DEF LLVM!Arithmetic
<1>2. LLVM!Arithmetic("lshr", a % 2^w, b, w) = (a % 2^w) \div 2^b
  BY Zenon DEF LLVM!Arithmetic
<1>3. LLVM!Arithmetic("ashr", a % 2^w, b, w) = (LLVM!AsSigned(a % 2^w, w) \div 2^b) % 2^w
  BY Zenon DEF LLVM!Arithmetic
<1> QED
  BY <1>1, <1>2, <1>3, Zenon DEF Shifted, Reads

\* A shift to the left that drops no bit multiplies.
LEMMA NoBitDropped ==
    ASSUME NEW w \in 1 .. LongWidth, NEW u \in Nat, NEW s \in 0 .. LongWidth, u * 2^s < 2^w
    PROVE  /\ u * 2^s \in Nat
           /\ (u * 2^s) % 2^w = u * 2^s
           /\ ShiftLeft(u, s) = u * 2^s
<1>1. LongWidth \in 0 .. LongWidth /\ w \in 0 .. LongWidth
  BY WidthAssumption, SMT
<1>2. 2^s \in Nat /\ 2^w \in Nat /\ 2^LongWidth \in Nat /\ 2^w <= 2^LongWidth
  BY <1>1, PowersAreLarge, PowersInOrder
<1> DEFINE p == 2^w  l == 2^LongWidth  f == 2^s  v == u * f
<1>3. v \in Nat
  <2> HIDE DEF f
  <2> QED BY <1>2, SMT DEF f
<1>4. v < p /\ p \in Nat /\ l \in Nat /\ p <= l
  BY <1>2
<1>5. ShiftLeft(u, s) = v % l
  BY DEF ShiftLeft
<1> HIDE DEF p, l, v
<1>6. v % p = v /\ v % l = v
  BY <1>3, <1>4, SMT
<1> QED
  BY <1>3, <1>5, <1>6 DEF p, v

\* products of non-negative numbers are in the order of their factors
LEMMA ProductsInOrder ==
    ASSUME NEW a \in Nat, NEW b \in Nat, NEW c \in Nat, NEW d \in Nat, a <= b, c <= d
    PROVE  a * c <= b * d
<1>1. a * c <= b * c /\ b * c <= b * d
  BY SMT
<1> QED
  BY <1>1, SMT

\* the powers that a range of amounts scales by
LEMMA AmountPowers ==
    ASSUME NEW w \in 1 .. LongWidth, NEW y \in Ranges(0, w - 1), NEW b \in Values(y)
    PROVE  /\ 2^y.lo \in Nat /\ 2^b \in Nat /\ 2^y.hi \in Nat
           /\ 1 <= 2^y.lo /\ 2^y.lo <= 2^b /\ 2^b <= 2^y.hi
BY ShiftAmount, PowersInOrder

\* x << y, with the amount a register or a constant
LEMMA ShlIn ==
    ASSUME NEW w \in 1 .. LongWidth, NEW x \in WordRanges(w), NEW y \in Ranges(0, w - 1),
           ~ShiftedOut("shl", w, x, y), ~CrossesZero(x), NEW a \in Values(x), NEW b \in Values(y)
    PROVE  /\ \E v \in Shifted("shl", a, b, w) : In(v, ShlRange(x, y, w))
           /\ y.lo = y.hi => \E v \in Shifted("shl", a, b, w) : In(v, ShlByConst(x, y.lo, w))
<1> DEFINE p == 2^w  ul == x.lo % p  ua == a % p  uh == x.hi % p
           fl == 2^y.lo  fb == 2^b  fh == 2^y.hi
<1>1. /\ ul \in Nat /\ ua \in Nat /\ uh \in Nat /\ ul <= ua /\ ua <= uh
      /\ Unsigned(x.lo, w) = ul /\ Unsigned(x.hi, w) = uh
  BY WordsInOrder
<1>2. fl \in Nat /\ fb \in Nat /\ fh \in Nat /\ 1 <= fl /\ fl <= fb /\ fb <= fh
  BY AmountPowers
<1>3. x.lo \in Values(x) /\ x.hi \in Values(x) /\ y.lo \in Values(y) /\ y.hi \in Values(y)
  <2>1. x.lo \in Int /\ x.hi \in Int /\ x.lo <= x.hi
    BY WordRange
  <2>2. y.lo \in Int /\ y.hi \in Int /\ y.lo <= y.hi
    BY ShiftAmount, SMT
  <2> QED BY <2>1, <2>2, SMT DEF Values
<1>4. /\ y.lo \in 0 .. LongWidth /\ y.hi \in 0 .. LongWidth /\ b \in 0 .. LongWidth
  BY ShiftAmount
<1>5. \A e \in Values(x), s \in Values(y) : ~((e % p) * 2^s >= p)
  BY DEF ShiftedOut
<1>6. /\ ul * fl < p /\ ul * fh < p /\ ua * fb < p /\ uh * fl < p /\ uh * fh < p
  <2>1. /\ ~(ul * fl >= p) /\ ~(ul * fh >= p) /\ ~(ua * fb >= p) /\ ~(uh * fl >= p) /\ ~(uh * fh >= p)
    BY <1>3, <1>5
  <2>2. p \in Nat
    BY PowersDouble
  <2> HIDE DEF p, ul, ua, uh, fl, fb, fh
  <2> QED BY <1>1, <1>2, <2>1, <2>2, SMT
<1>7. /\ ul * fl \in Nat /\ ShiftLeft(ul, y.lo) = ul * fl /\ (ul * fl) % p = ul * fl
      /\ ul * fh \in Nat /\ ShiftLeft(ul, y.hi) = ul * fh
      /\ ua * fb \in Nat /\ (ua * fb) % p = ua * fb
      /\ uh * fl \in Nat /\ ShiftLeft(uh, y.lo) = uh * fl /\ (uh * fl) % p = uh * fl
      /\ uh * fh \in Nat /\ ShiftLeft(uh, y.hi) = uh * fh
  BY <1>1, <1>4, <1>6, NoBitDropped
<1>8. ua * fb \in Shifted("shl", a, b, w)
  BY <1>7, ShiftWords
<1>9. ul * fl <= ua * fb /\ ua * fb <= uh * fh
  <2> HIDE DEF ul, ua, uh, fl, fb, fh
  <2> QED BY <1>1, <1>2, ProductsInOrder
<1>10. ShlRange(x, y, w) = Extremes({ul * fl, ul * fh, uh * fl, uh * fh})
  <2> DEFINE c1 == ul * fl  c2 == ul * fh  c3 == uh * fl  c4 == uh * fh
             S == {ShiftLeft(e, s) : e \in Ends(UnsignedEnds(x, w)), s \in Ends(y)}
             T == {c1, c2, c3, c4}
  <2>1. Ends(UnsignedEnds(x, w)) = {ul, uh} /\ Ends(y) = {y.lo, y.hi}
    BY <1>1 DEF Ends, UnsignedEnds, Pair
  <2>2. S = {ShiftLeft(ul, y.lo), ShiftLeft(ul, y.hi), ShiftLeft(uh, y.lo), ShiftLeft(uh, y.hi)}
    <3> HIDE DEF ul, uh
    <3> QED BY <2>1
  <2>3. /\ ShiftLeft(ul, y.lo) = c1 /\ ShiftLeft(ul, y.hi) = c2
        /\ ShiftLeft(uh, y.lo) = c3 /\ ShiftLeft(uh, y.hi) = c4
    BY <1>7
  <2>4. ShlRange(x, y, w) = Extremes(S)
    BY DEF ShlRange
  <2> HIDE DEF ul, uh, fl, fh, c1, c2, c3, c4
  <2>5. S = T
    BY <2>2, <2>3
  <2> HIDE DEF S
  <2>6. Extremes(S) = Extremes(T)
    BY <2>5
  <2> QED BY <2>4, <2>6 DEF c1, c2, c3, c4
<1>11. In(ua * fb, ShlRange(x, y, w))
  <2>1. In(ua * fb, Extremes({ul * fl, ul * fh, uh * fl, uh * fh}))
    <3> DEFINE k1 == ul * fl  k2 == ul * fh  k3 == uh * fl  k4 == uh * fh  v == ua * fb
    <3>1. /\ k1 \in Int /\ k2 \in Int /\ k3 \in Int /\ k4 \in Int /\ v \in Int
          /\ k1 <= v /\ v <= k4
      BY <1>7, <1>9
    <3> HIDE DEF k1, k2, k3, k4, v
    <3>2. In(v, Extremes({k1, k2, k3, k4}))
      BY <3>1, Enclosed
    <3> QED BY <3>2 DEF k1, k2, k3, k4, v
  <2> QED BY <2>1, <1>10
<1>12. ASSUME y.lo = y.hi PROVE In(ua * fb, ShlByConst(x, y.lo, w))
  <2>1. fl = fh
    BY <1>12
  <2>2. ShlByConst(x, y.lo, w) = Extremes({ul * fl, uh * fl})
    <3>1. UnsignedEnds(x, w).lo = ul /\ UnsignedEnds(x, w).hi = uh
      BY <1>1 DEF UnsignedEnds, Pair
    <3> QED BY <3>1, <1>7 DEF ShlByConst
  <2>3. {ul * fl, uh * fl} = {ul * fl, uh * fl, uh * fl, uh * fl}
    OBVIOUS
  <2>4. ul * fl <= ua * fb /\ ua * fb <= uh * fl
    BY <1>9, <2>1
  <2>5. In(ua * fb, Extremes({ul * fl, uh * fl, uh * fl, uh * fl}))
    <3> DEFINE k1 == ul * fl  k2 == uh * fl  v == ua * fb
    <3>1. k1 \in Int /\ k2 \in Int /\ v \in Int /\ k1 <= v /\ v <= k2
      BY <1>7, <2>4
    <3> HIDE DEF k1, k2, v
    <3>2. In(v, Extremes({k1, k2, k2, k2}))
      BY <3>1, Enclosed
    <3> QED BY <3>2 DEF k1, k2, v
  <2> QED BY <2>2, <2>3, <2>5
<1> QED
  BY <1>8, <1>11, <1>12

\* x >> y without a sign, with the amount a register or a constant
LEMMA LShrIn ==
    ASSUME NEW w \in 1 .. LongWidth, NEW x \in WordRanges(w), NEW y \in Ranges(0, w - 1),
           ~CrossesZero(x), NEW a \in Values(x), NEW b \in Values(y)
    PROVE  /\ \E v \in Shifted("lshr", a, b, w) : In(v, LShrRange(x, y, w))
           /\ y.lo = y.hi => \E v \in Shifted("lshr", a, b, w) : In(v, LShrByConst(x, y.lo, w))
<1> DEFINE p == 2^w  ul == x.lo % p  ua == a % p  uh == x.hi % p
           fl == 2^y.lo  fb == 2^b  fh == 2^y.hi
<1>1. /\ ul \in Nat /\ ua \in Nat /\ uh \in Nat /\ ul <= ua /\ ua <= uh
      /\ Unsigned(x.lo, w) = ul /\ Unsigned(x.hi, w) = uh
  BY WordsInOrder
<1>2. fl \in Nat /\ fb \in Nat /\ fh \in Nat /\ 1 <= fl /\ fl <= fb /\ fb <= fh
  BY AmountPowers
<1>3. ua \div fb \in Shifted("lshr", a, b, w)
  BY ShiftWords
<1>4. /\ ul \div fl \in Int /\ ul \div fh \in Int /\ uh \div fl \in Int /\ uh \div fh \in Int /\ ua \div fb \in Int
      /\ ul \div fh <= ua \div fb /\ ua \div fb <= uh \div fl
  <2> HIDE DEF ul, ua, uh, fl, fb, fh
  <2>3. ul \in Int /\ ua \in Int /\ uh \in Int /\ ul >= 0 /\ uh >= 0 /\ fb >= 1
    BY <1>1, <1>2, SMT
  <2>4. ul \div fh <= ul \div fb
    BY <1>2, <2>3, DivByMore
  <2>5. uh \div fb <= uh \div fl
    BY <1>2, <2>3, DivByMore
  <2>6. ul \div fb <= ua \div fb
    BY <1>1, <1>2, <2>3, DivInOrder
  <2>7. ua \div fb <= uh \div fb
    BY <1>1, <1>2, <2>3, DivInOrder
  <2>1. ul \div fh <= ul \div fb /\ ul \div fb <= ua \div fb /\ ua \div fb <= uh \div fb /\ uh \div fb <= uh \div fl
    BY <2>4, <2>5, <2>6, <2>7
  <2>2. /\ ul \div fl \in Int /\ ul \div fh \in Int /\ uh \div fl \in Int /\ uh \div fh \in Int
        /\ ua \div fb \in Int /\ ul \div fb \in Int /\ uh \div fb \in Int
    BY <1>1, <1>2, SMT
  <2> QED BY <2>1, <2>2, SMT
<1>5. LShrRange(x, y, w) = Extremes({ul \div fl, ul \div fh, uh \div fl, uh \div fh})
  <2>1. Ends(UnsignedEnds(x, w)) = {ul, uh} /\ UnsignedEnds(y, w) = y /\ Ends(y) = {y.lo, y.hi}
    BY <1>1, ShiftAmount DEF Ends, UnsignedEnds, Pair
  <2>2. {ShiftRight(e, s) : e \in {ul, uh}, s \in {y.lo, y.hi}}
          = {ShiftRight(ul, y.lo), ShiftRight(ul, y.hi), ShiftRight(uh, y.lo), ShiftRight(uh, y.hi)}
    <3> HIDE DEF ul, uh
    <3> QED OBVIOUS
  <2>3. {ShiftRight(e, s) : e \in Ends(UnsignedEnds(x, w)), s \in Ends(UnsignedEnds(y, w))}
          = {ShiftRight(e, s) : e \in {ul, uh}, s \in {y.lo, y.hi}}
    <3> HIDE DEF ul, uh
    <3> QED BY <2>1
  <2>4. /\ ShiftRight(ul, y.lo) = ul \div fl /\ ShiftRight(ul, y.hi) = ul \div fh
        /\ ShiftRight(uh, y.lo) = uh \div fl /\ ShiftRight(uh, y.hi) = uh \div fh
    BY DEF ShiftRight
  <2> DEFINE S == {ShiftRight(e, s) : e \in Ends(UnsignedEnds(x, w)), s \in Ends(UnsignedEnds(y, w))}
             T == {ul \div fl, ul \div fh, uh \div fl, uh \div fh}
  <2>5. LShrRange(x, y, w) = Extremes(S)
    BY DEF LShrRange
  <2>6. S = T
    BY <2>2, <2>3, <2>4
  <2> HIDE DEF S, T
  <2>7. Extremes(S) = Extremes(T)
    BY <2>6
  <2> QED BY <2>5, <2>7 DEF T
<1>6. In(ua \div fb, LShrRange(x, y, w))
  <2>1. In(ua \div fb, Extremes({ul \div fl, ul \div fh, uh \div fl, uh \div fh}))
    <3> HIDE DEF ul, ua, uh, fl, fb, fh
    <3> QED BY <1>4, Enclosed
  <2> QED BY <2>1, <1>5
<1>7. ASSUME y.lo = y.hi PROVE In(ua \div fb, LShrByConst(x, y.lo, w))
  <2>1. fl = fh
    BY <1>7
  <2>2. LShrByConst(x, y.lo, w) = Extremes({ul \div fl, uh \div fl})
    BY <1>1 DEF LShrByConst, ShiftRight
  <2>3. {ul \div fl, uh \div fl} = {ul \div fl, uh \div fl, uh \div fl, uh \div fl}
    OBVIOUS
  <2>4. ul \div fl <= ua \div fb /\ ua \div fb <= uh \div fl
    BY <1>4, <2>1
  <2>5. In(ua \div fb, Extremes({ul \div fl, uh \div fl, uh \div fl, uh \div fl}))
    <3> HIDE DEF ul, ua, uh, fl, fb, fh
    <3> QED BY <1>4, <2>4, Enclosed
  <2> QED BY <2>2, <2>3, <2>5
<1> QED
  BY <1>3, <1>6, <1>7

\* An arithmetic shift to the right: signed numbers, nearer to zero or to -1
\* the further they are shifted.
LEMMA AShrIn ==
    ASSUME NEW w \in 1 .. LongWidth, NEW x \in WordRanges(w), NEW y \in Ranges(0, w - 1),
           ~OtherReading("ashr", w, x), NEW a \in Values(x), NEW b \in Values(y)
    PROVE  /\ \E v \in Shifted("ashr", a, b, w) : In(v, AShrRange(x, y, w))
           /\ y.lo = y.hi => \E v \in Shifted("ashr", a, b, w) : In(v, AShrByConst(x, y.lo, w))
<1> DEFINE p == 2^w  h == 2^(w - 1)  fl == 2^y.lo  fb == 2^b  fh == 2^y.hi  v == a \div fb
<1>1. /\ x.lo \in Int /\ x.hi \in Int /\ x.lo <= x.hi /\ -h <= x.lo
  BY WordRange
<1>2. /\ fl \in Nat /\ fb \in Nat /\ fh \in Nat /\ 1 <= fl /\ fl <= fb /\ fb <= fh
  BY AmountPowers
<1>13. fl >= 1 /\ fb >= 1
  <2> HIDE DEF fl, fb, fh
  <2> QED BY <1>2, SMT
<1>3. p = 2 * h /\ h \in Nat /\ h >= 1
  BY PowersDouble
<1>4. x.hi < h
  <2>1. ~(x.hi >= h)
    BY DEF OtherReading
  <2> HIDE DEF h
  <2> QED BY <1>1, <1>3, <2>1, SMT
<1>5. a \in Int /\ x.lo <= a /\ a <= x.hi
  BY <1>1, SMT DEF Values
<1>6. -h <= a /\ a < h /\ -h <= x.lo /\ x.lo < h /\ -h <= x.hi /\ x.hi < h
  <2> HIDE DEF h
  <2> QED BY <1>1, <1>3, <1>4, <1>5, SMT
<1>7. v \in Int /\ -h <= v /\ v < h
  <2> HIDE DEF h, p, fb
  <2>1. v \in Int
    BY <1>2, <1>5, SMT
  <2>2. a \div 1 = a /\ (-h) \div 1 = -h
    BY <1>3, <1>5, SMT
  <2>5. 1 \in Nat /\ 1 >= 1 /\ fb >= 1
    BY <1>2, SMT
  <2>3. a >= 0 => 0 <= v /\ v <= a
    <3> SUFFICES ASSUME a >= 0 PROVE 0 <= v /\ v <= a
      OBVIOUS
    <3>1. a \div fb <= a \div 1
      BY <1>2, <1>5, <2>5, DivByMore
    <3>2. 0 <= a \div fb
      BY <1>2, <1>5, SMT
    <3> QED BY <2>2, <3>1, <3>2
  <2>4. a < 0 => a <= v /\ v < 0
    <3> SUFFICES ASSUME a < 0 PROVE a <= v /\ v < 0
      OBVIOUS
    <3>1. a \div 1 <= a \div fb
      BY <1>2, <1>5, <2>5, DivByMore
    <3>2. a \div fb < 0
      BY <1>2, <1>5, SMT
    <3> QED BY <2>2, <3>1, <3>2
  <2> HIDE DEF v
  <2> QED BY <1>3, <1>5, <1>6, <2>1, <2>3, <2>4, SMT
<1>8. LLVM!AsSigned(a % p, w) = a
  BY <1>5, <1>6, SignedWord
<1>9. v \in Shifted("ashr", a, b, w)
  <2>1. LLVM!AsSigned(v % p, w) = v
    <3> HIDE DEF v
    <3> QED BY <1>7, SignedWord
  <2> QED BY <1>8, <2>1, ShiftWords
\* the corners that bound the quotient
<1>10. /\ x.lo \div fl \in Int /\ x.lo \div fh \in Int /\ x.hi \div fl \in Int /\ x.hi \div fh \in Int
       /\ x.lo \div fl <= v \/ x.lo \div fh <= v
       /\ v <= x.hi \div fl \/ v <= x.hi \div fh
  <2> DEFINE lb == x.lo \div fb  hb == x.hi \div fb
  <2>1. lb <= v /\ v <= hb
    <3> HIDE DEF fb, fl, fh
    <3>1. x.lo \div fb <= a \div fb
      BY <1>1, <1>2, <1>5, <1>13, DivInOrder
    <3>2. a \div fb <= x.hi \div fb
      BY <1>1, <1>2, <1>5, <1>13, DivInOrder
    <3> QED BY <3>1, <3>2
  <2>2. /\ x.lo >= 0 => x.lo \div fh <= lb
        /\ x.lo < 0 => x.lo \div fl <= lb
    <3> HIDE DEF fb, fl, fh
    <3>1. x.lo >= 0 => x.lo \div fh <= x.lo \div fb
      BY <1>1, <1>2, <1>13, DivByMore
    <3>2. x.lo < 0 => x.lo \div fl <= x.lo \div fb
      BY <1>1, <1>2, <1>13, DivByMore
    <3> QED BY <3>1, <3>2
  <2>3. /\ x.hi >= 0 => hb <= x.hi \div fl
        /\ x.hi < 0 => hb <= x.hi \div fh
    <3> HIDE DEF fb, fl, fh
    <3>1. x.hi >= 0 => x.hi \div fb <= x.hi \div fl
      BY <1>1, <1>2, <1>13, DivByMore
    <3>2. x.hi < 0 => x.hi \div fb <= x.hi \div fh
      BY <1>1, <1>2, <1>13, DivByMore
    <3> QED BY <3>1, <3>2
  <2>4. /\ x.lo \div fl \in Int /\ x.lo \div fh \in Int /\ x.hi \div fl \in Int /\ x.hi \div fh \in Int
        /\ lb \in Int /\ hb \in Int
    <3> HIDE DEF fb, fl, fh
    <3> QED BY <1>1, <1>2, SMT
  <2> DEFINE c1 == x.lo \div fl  c2 == x.lo \div fh  c3 == x.hi \div fl  c4 == x.hi \div fh
  <2> HIDE DEF lb, hb, v, c1, c2, c3, c4
  <2>5. (c1 <= v \/ c2 <= v) /\ (v <= c3 \/ v <= c4)
    <3>1. /\ c1 \in Int /\ c2 \in Int /\ c3 \in Int /\ c4 \in Int /\ lb \in Int /\ hb \in Int
          /\ (x.lo >= 0 => c2 <= lb) /\ (x.lo < 0 => c1 <= lb)
          /\ (x.hi >= 0 => hb <= c3) /\ (x.hi < 0 => hb <= c4)
      BY <2>2, <2>3, <2>4 DEF c1, c2, c3, c4
    <3> QED BY <1>1, <1>7, <2>1, <3>1, SMT
  <2> QED BY <2>4, <2>5 DEF c1, c2, c3, c4
<1>11. In(v, AShrRange(x, y, w))
  <2> DEFINE c1 == x.lo \div fl  c2 == x.lo \div fh  c3 == x.hi \div fl  c4 == x.hi \div fh
             S == {ShiftRight(e, s) : e \in Ends(x), s \in Ends(y)}
             T == {c1, c2, c3, c4}
  <2>1. /\ ShiftRight(x.lo, y.lo) = c1 /\ ShiftRight(x.lo, y.hi) = c2
        /\ ShiftRight(x.hi, y.lo) = c3 /\ ShiftRight(x.hi, y.hi) = c4
    BY DEF ShiftRight
  <2>2. S = {ShiftRight(x.lo, y.lo), ShiftRight(x.lo, y.hi), ShiftRight(x.hi, y.lo), ShiftRight(x.hi, y.hi)}
    BY DEF Ends
  <2>3. AShrRange(x, y, w) = Extremes(S)
    BY DEF AShrRange
  <2>4. c1 \in Int /\ c2 \in Int /\ c3 \in Int /\ c4 \in Int /\ (c1 <= v \/ c2 <= v) /\ (v <= c3 \/ v <= c4)
    BY <1>10
  <2> HIDE DEF c1, c2, c3, c4, v
  <2>5. S = T
    BY <2>1, <2>2
  <2>6. In(v, Extremes({c1, c2, c3, c4}))
    BY <1>7, <2>4, Enclosed
  <2> HIDE DEF S
  <2>7. Extremes(S) = Extremes(T)
    BY <2>5
  <2> QED BY <2>3, <2>6, <2>7
<1>12. ASSUME y.lo = y.hi PROVE \E z \in Shifted("ashr", a, b, w) : In(z, AShrByConst(x, y.lo, w))
  <2>1. fl = fh /\ y.lo \in 0 .. w - 1
    BY <1>12, ShiftAmount
  <2>2. CASE w = 1
    <3>1. y.lo = 0 /\ b = 0
      BY <2>2, ShiftAmount, SMT
    <3>2. fb = 1 /\ 2^y.lo = 1 /\ h = 1 /\ p = 2
      BY <2>2, <3>1, <1>3, PowersOfTwo
    <3>3. a = 0 \/ a = -1
      <4>1. -1 <= a /\ a < 1
        BY <1>6, <3>2
      <4> QED BY <4>1, <1>5, SMT
    <3>4. a % p \in Shifted("ashr", a, b, w)
      <4>1. (a \div fb) % p \in Shifted("ashr", a, b, w)
        BY <1>8, ShiftWords
      <4>2. a \div fb = a
        BY <3>2, <1>5, SMT
      <4> QED BY <4>1, <4>2
    <3>5. \A e \in {x.lo, x.hi} : ShiftRight(Signed(e, w), y.lo) = IF e = 0 THEN 0 ELSE 1
      <4>1. 0 \div 1 = 0 /\ 1 \div 1 = 1
        BY SMT
      <4> QED BY <2>2, <3>2, <4>1 DEF ShiftRight, Signed, Unsigned
    <3>6. AShrByConst(x, y.lo, w) = Extremes({IF x.lo = 0 THEN 0 ELSE 1, IF x.hi = 0 THEN 0 ELSE 1})
      BY <3>5 DEF AShrByConst
    <3>7. a % p = IF a = 0 THEN 0 ELSE 1
      BY <3>2, <3>3, SMT
    <3>8. In(a % p, Extremes({IF x.lo = 0 THEN 0 ELSE 1, IF x.hi = 0 THEN 0 ELSE 1}))
      <4> DEFINE k1 == IF x.lo = 0 THEN 0 ELSE 1  k2 == IF x.hi = 0 THEN 0 ELSE 1
                 z == IF a = 0 THEN 0 ELSE 1
      <4>1. k1 \in Int /\ k2 \in Int /\ z \in Int /\ z \in {k1, k2}
        <5>1. -1 <= x.lo /\ x.hi < 1
          BY <1>6, <3>2
        <5> QED BY <1>1, <1>5, <3>3, <5>1, SMT
      <4> HIDE DEF k1, k2, z
      <4>2. z <= z
        BY <4>1, SMT
      <4>3. In(z, Extremes({k1, k2, k2, k2}))
        BY <4>1, <4>2, Enclosed
      <4>4. {k1, k2, k2, k2} = {k1, k2}
        OBVIOUS
      <4> QED BY <3>7, <4>3, <4>4 DEF k1, k2, z
    <3> QED BY <3>4, <3>6, <3>8
  <2>3. CASE w # 1
    <3>1. Signed(x.lo, w) = x.lo /\ Signed(x.hi, w) = x.hi
      BY <1>1, <1>6, <2>3, SignedWord DEF Signed
    <3>2. AShrByConst(x, y.lo, w) = Extremes({x.lo \div fl, x.hi \div fl})
      BY <3>1 DEF AShrByConst, ShiftRight
    <3>3. x.lo \div fl \in Int /\ x.hi \div fl \in Int /\ x.lo \div fl <= v /\ v <= x.hi \div fl
      BY <1>10, <2>1
    <3> DEFINE k1 == x.lo \div fl  k2 == x.hi \div fl
    <3>4. In(v, Extremes({k1, k2}))
      <4>1. k1 \in Int /\ k2 \in Int /\ k1 <= v /\ v <= k2
        BY <3>3
      <4> HIDE DEF k1, k2, v
      <4>2. In(v, Extremes({k1, k2, k2, k2}))
        BY <1>7, <4>1, Enclosed
      <4>3. {k1, k2, k2, k2} = {k1, k2}
        OBVIOUS
      <4> QED BY <4>2, <4>3
    <3> QED BY <1>9, <3>2, <3>4
  <2> QED BY <2>2, <2>3
<1> QED
  BY <1>9, <1>11, <1>12

\* A constant that is shifted: its two ends come out in the order of the
\* amounts to the left, in the opposite order to the right.
LEMMA ShlConstantIn ==
    ASSUME NEW w \in 1 .. LongWidth, NEW x \in WordRanges(w), NEW y \in Ranges(0, w - 1),
           x.lo = x.hi, x.lo >= 0, ~ShiftedOut("shl", w, x, y), NEW a \in Values(x), NEW b \in Values(y)
    PROVE  \E v \in Shifted("shl", a, b, w) : In(v, ShlOfConst(x.lo, y, w))
<1> DEFINE p == 2^w  c == x.lo  fl == 2^y.lo  fb == 2^b  fh == 2^y.hi
<1>1. c \in Nat /\ c < p /\ a = c
  <2>1. x.lo \in Int /\ x.hi < p /\ a \in x.lo .. x.hi
    BY WordRange DEF Values
  <2> HIDE DEF p
  <2> QED BY <2>1, SMT
<1>2. /\ fl \in Nat /\ fb \in Nat /\ fh \in Nat /\ fl <= fb /\ fb <= fh
      /\ y.lo \in 0 .. LongWidth /\ y.hi \in 0 .. LongWidth /\ b \in 0 .. LongWidth
      /\ UnsignedEnds(y, w) = y
  BY AmountPowers, ShiftAmount
<1>3. c % p = c
  <2>1. p \in Nat
    BY PowersDouble
  <2> HIDE DEF p, c
  <2> QED BY <1>1, <2>1, SMT
<1>4. y.lo \in Values(y) /\ y.hi \in Values(y) /\ c \in Values(x)
  <2>1. y.lo \in Int /\ y.hi \in Int /\ y.lo <= y.hi
    BY ShiftAmount, SMT
  <2> QED BY <1>1, <2>1, SMT DEF Values
<1>5. c * fl < p /\ c * fb < p /\ c * fh < p
  <2>1. \A s \in Values(y) : ~((c % p) * 2^s >= p)
    BY <1>4 DEF ShiftedOut
  <2>2. ~(c * fl >= p) /\ ~(c * fb >= p) /\ ~(c * fh >= p)
    BY <1>3, <1>4, <2>1
  <2>3. p \in Nat
    BY PowersDouble
  <2> HIDE DEF p, c, fl, fb, fh
  <2> QED BY <1>1, <1>2, <2>2, <2>3, SMT
<1>6. /\ c * fl \in Nat /\ c * fb \in Nat /\ c * fh \in Nat
      /\ ShiftLeft(c, y.lo) = c * fl /\ ShiftLeft(c, y.hi) = c * fh /\ (c * fb) % p = c * fb
  BY <1>1, <1>2, <1>5, NoBitDropped
<1>7. Unsigned(c, LongWidth) = c
  <2>1. LongWidth \in 1 .. LongWidth /\ LongWidth \in 0 .. LongWidth /\ w \in 0 .. LongWidth
    BY WidthAssumption, SMT
  <2> DEFINE l == 2^LongWidth  g == 2^(LongWidth - 1)
  <2>2. p \in Nat /\ l \in Nat /\ p <= l /\ g \in Nat
    BY <2>1, PowersInOrder, PowersDouble
  <2>3. -g <= c /\ c < l /\ ~(c < 0)
    <3> HIDE DEF p, l, g, c
    <3> QED BY <1>1, <2>2, SMT
  <2> QED BY <1>1, <2>1, <2>3, UnsignedWord
<1>8. ShlOfConst(c, y, w) = Pair(c * fl, c * fh)
  BY <1>2, <1>6, <1>7 DEF ShlOfConst
<1>9. c * fl <= c * fb /\ c * fb <= c * fh
  <2> HIDE DEF c, fl, fb, fh
  <2>1. c <= c
    BY <1>1, SMT
  <2> QED BY <1>1, <1>2, <2>1, ProductsInOrder
<1>10. c * fb \in Shifted("shl", a, b, w)
  BY <1>1, <1>3, <1>6, ShiftWords
<1> QED
  BY <1>8, <1>9, <1>10 DEF In, Pair

\* c >> y without a sign
LEMMA LShrConstantIn ==
    ASSUME NEW w \in 1 .. LongWidth, NEW x \in WordRanges(w), NEW y \in Ranges(0, w - 1),
           x.lo = x.hi, ~ConstantShifted("lshr", w, x, y, "left"), NEW a \in Values(x), NEW b \in Values(y)
    PROVE  \E v \in Shifted("lshr", a, b, w) : In(v, LShrOfConst(x.lo, y, w))
<1> DEFINE p == 2^w  u == x.lo % p  fl == 2^y.lo  fb == 2^b  fh == 2^y.hi
<1>1. u \in Nat /\ a = x.lo
  <2>1. x.lo \in Int /\ a \in x.lo .. x.hi
    BY WordRange DEF Values
  <2>2. ~CrossesZero(x)
    BY <2>1, SMT DEF CrossesZero
  <2> QED BY <2>1, <2>2, WordsInOrder, SMT
<1>2. /\ fl \in Nat /\ fb \in Nat /\ fh \in Nat /\ fl >= 1 /\ fb >= 1 /\ fl <= fb /\ fb <= fh
      /\ UnsignedEnds(y, w) = y
  <2>1. /\ fl \in Nat /\ fb \in Nat /\ fh \in Nat /\ 1 <= fl /\ fl <= fb /\ fb <= fh
        /\ UnsignedEnds(y, w) = y
    BY AmountPowers, ShiftAmount
  <2> HIDE DEF fl, fb, fh
  <2> QED BY <2>1, SMT
<1>3. LShrOfConst(x.lo, y, w) = Pair(u \div fl, u \div fh)
  BY <1>2 DEF LShrOfConst, ShiftRight
<1>4. u \div fl = u \div fh
  BY DEF ConstantShifted, ShiftRight
<1>5. u \div fh <= u \div fb /\ u \div fb <= u \div fl
  <2> HIDE DEF u, fl, fb, fh
  <2>1. u \in Int /\ u >= 0
    BY <1>1, SMT
  <2> QED BY <1>2, <2>1, DivByMore
<1>6. u \div fb \in Shifted("lshr", a, b, w)
  BY <1>1, ShiftWords
<1>7. In(u \div fb, Pair(u \div fl, u \div fh))
  <2> DEFINE k == u \div fl  m == u \div fh  v == u \div fb
  <2>1. k = m /\ m <= v /\ v <= k
    BY <1>4, <1>5
  <2> HIDE DEF k, m, v
  <2>2. In(v, Pair(k, m))
    BY <2>1 DEF In, Pair
  <2> QED BY <2>2 DEF k, m, v
<1> QED
  BY <1>3, <1>6, <1>7

\* c >> y with a sign
LEMMA AShrConstantIn ==
    ASSUME NEW w \in 1 .. LongWidth, NEW x \in WordRanges(w), NEW y \in Ranges(0, w - 1),
           x.lo = x.hi, ~ConstantShifted("ashr", w, x, y, "left"), ~OtherReading("ashr", w, x),
           NEW a \in Values(x), NEW b \in Values(y)
    PROVE  \E v \in Shifted("ashr", a, b, w) : In(v, AShrOfConst(x.lo, y, w))
<1> DEFINE p == 2^w  h == 2^(w - 1)  c == x.lo  fl == 2^y.lo  fb == 2^b  fh == 2^y.hi
<1>1. c \in Nat /\ c < h /\ c < p /\ a = c /\ p \in Nat /\ h \in Nat
  <2>1. x.lo \in Int /\ x.hi < p /\ a \in x.lo .. x.hi
    BY WordRange DEF Values
  <2>2. p \in Nat /\ h \in Nat
    BY PowersDouble
  <2>3. ~(x.lo < 0) /\ ~(x.hi >= h)
    BY DEF ConstantShifted, OtherReading
  <2> HIDE DEF p, h
  <2> QED BY <2>1, <2>2, <2>3, SMT
<1>2. /\ fl \in Nat /\ fb \in Nat /\ fh \in Nat /\ fl >= 1 /\ fb >= 1 /\ fl <= fb /\ fb <= fh
      /\ UnsignedEnds(y, w) = y
  <2>1. /\ fl \in Nat /\ fb \in Nat /\ fh \in Nat /\ 1 <= fl /\ fl <= fb /\ fb <= fh
        /\ UnsignedEnds(y, w) = y
    BY AmountPowers, ShiftAmount
  <2> HIDE DEF fl, fb, fh
  <2> QED BY <2>1, SMT
<1>3. c % p = c
  <2> HIDE DEF p, c
  <2> QED BY <1>1, SMT
<1>4. Unsigned(c, LongWidth) = c
  <2>1. LongWidth \in 1 .. LongWidth /\ LongWidth \in 0 .. LongWidth /\ w \in 0 .. LongWidth
    BY WidthAssumption, SMT
  <2> DEFINE l == 2^LongWidth  g == 2^(LongWidth - 1)
  <2>2. l \in Nat /\ p <= l /\ g \in Nat
    BY <2>1, PowersInOrder, PowersDouble
  <2>3. -g <= c /\ c < l /\ ~(c < 0)
    <3> HIDE DEF p, l, g, c
    <3> QED BY <1>1, <2>2, SMT
  <2> QED BY <1>1, <2>1, <2>3, UnsignedWord
<1>5. AShrOfConst(c, y, w) = Pair(c \div fl, c \div fh)
  BY <1>2, <1>4 DEF AShrOfConst, ShiftRight
<1>6. c \div fl = c \div fh
  BY <1>3 DEF ConstantShifted, ShiftRight
<1>7. c \div fh <= c \div fb /\ c \div fb <= c \div fl
  <2> HIDE DEF c, fl, fb, fh
  <2>1. c \in Int /\ c >= 0
    BY <1>1, SMT
  <2> QED BY <1>2, <2>1, DivByMore
<1>8. c \div fb \in Shifted("ashr", a, b, w)
  <2>1. LLVM!AsSigned(c % p, w) = c
    <3>1. -h <= c
      <4> HIDE DEF h, c
      <4> QED BY <1>1, SMT
    <3> QED BY <1>1, <3>1, SignedWord
  <2>2. (c \div fb) % p = c \div fb
    <3> HIDE DEF c, fb, p
    <3>1. 1 \in Nat /\ 1 >= 1 /\ c \in Int /\ c >= 0 /\ 1 <= fb
      BY <1>1, <1>2, SMT
    <3>2. c \div fb <= c \div 1
      BY <1>2, <3>1, DivByMore
    <3>3. c \div 1 = c /\ c \div fb \in Int /\ 0 <= c \div fb
      BY <1>1, <1>2, SMT
    <3>4. c \div fb < p
      BY <1>1, <3>2, <3>3, SMT
    <3> DEFINE v == c \div fb
    <3>5. v \in Int /\ 0 <= v /\ v < p
      BY <3>3, <3>4
    <3> HIDE DEF v
    <3>6. v % p = v
      BY <1>1, <3>5, SMT
    <3> QED BY <3>6 DEF v
  <2> QED BY <1>1, <2>1, <2>2, ShiftWords
<1>9. In(c \div fb, Pair(c \div fl, c \div fh))
  <2> DEFINE k == c \div fl  m == c \div fh  v == c \div fb
  <2>1. k = m /\ m <= v /\ v <= k
    BY <1>6, <1>7
  <2> HIDE DEF k, m, v
  <2>2. In(v, Pair(k, m))
    BY <2>1 DEF In, Pair
  <2> QED BY <2>2 DEF k, m, v
<1> QED
  BY <1>5, <1>8, <1>9

-----------------------------------------------------------------------------
(* The queries.                                                            *)

\* A query has the operands its operator is asked about, and what is answered
\* is what the arm answers.
Asked ==
    /\ query.op = "rem" => /\ query.x \in Bounded /\ query.y \in Bounded
                           /\ ~RemDiverges(query.x, query.y)
    /\ query.op = "sdiv" => /\ query.x \in Bounded /\ query.y \in Bounded
                            /\ query.const \in Constants(query.x, query.y)
    /\ query.op \in Shifts => /\ query.w \in Widths
                              /\ query.x \in WordRanges(query.w) /\ query.y \in Ranges(0, query.w - 1)
                              /\ query.const \in Constants(query.x, query.y)
    /\ query.op \in Casts => /\ query.w \in Widths \ {LongWidth}
                             /\ query.x \in WordRanges(IF query.op = "trunc" THEN LongWidth ELSE query.w)
    /\ query.op \in Bitwise => query.x \in Longs /\ query.y \in Longs

Answered == \A r \in answer : r = Answer(query.op, query.w, query.x, query.y, query.const)

IInv == Asked /\ Answered

\* The operators of one kind of query are not of another.
LEMMA KindsDiffer ==
    /\ "rem" \notin Shifts \cup Casts \cup Bitwise /\ "sdiv" \notin Shifts \cup Casts \cup Bitwise
    /\ \A op \in Shifts : op \notin Casts \cup Bitwise \cup {"rem", "sdiv"}
    /\ \A op \in Casts : op \notin Shifts \cup Bitwise \cup {"rem", "sdiv"}
    /\ \A op \in Bitwise : op \notin Shifts \cup Casts \cup {"rem", "sdiv"}
BY DEF Shifts, Casts, Bitwise

\* a query says what it was made of
LEMMA QueryFields ==
    ASSUME NEW op, NEW w, NEW x, NEW y, NEW const, query = Query(op, w, x, y, const)
    PROVE  query.op = op /\ query.w = w /\ query.x = x /\ query.y = y /\ query.const = const
BY DEF Query

\* the queries of the run are all asked properly
LEMMA InitIsAsked == Init => IInv
<1> SUFFICES ASSUME Init PROVE IInv
  OBVIOUS
<1>1. Answered
  BY DEF Init, Answered
<1>2. CASE Division
  <2>1. PICK x \in Bounded, y \in Bounded :
          \E const \in Constants(x, y) : query = Query("sdiv", LongWidth, x, y, const)
    BY <1>2 DEF Division
  <2> PICK const \in Constants(x, y) : query = Query("sdiv", LongWidth, x, y, const)
    BY <2>1
  <2>2. query.op = "sdiv" /\ query.x = x /\ query.y = y /\ query.const = const
    BY QueryFields
  <2> QED
    BY <1>1, <2>2, KindsDiffer, Zenon DEF IInv, Asked
<1>3. CASE Remainder
  <2>1. PICK x \in Bounded, y \in Bounded :
          ~RemDiverges(x, y) /\ query = Query("rem", LongWidth, x, y, "none")
    BY <1>3 DEF Remainder
  <2>2. query.op = "rem" /\ query.x = x /\ query.y = y
    BY <2>1, QueryFields
  <2> QED
    BY <1>1, <2>1, <2>2, KindsDiffer, Zenon DEF IInv, Asked
<1>4. CASE BitwiseOperation
  <2>1. PICK op \in Bitwise, x \in Longs, y \in Longs :
          query = Query(op, LongWidth, x, y, "none")
    BY <1>4 DEF BitwiseOperation
  <2>2. query.op = op /\ query.x = x /\ query.y = y
    BY <2>1, QueryFields
  <2> QED
    BY <1>1, <2>2, KindsDiffer, Zenon DEF IInv, Asked
<1>5. CASE Shift
  <2>1. PICK op \in Shifts, w \in Widths : \E x \in WordRanges(w), y \in Ranges(0, w - 1) :
          \E const \in Constants(x, y) : query = Query(op, w, x, y, const)
    BY <1>5 DEF Shift
  <2>2. PICK x \in WordRanges(w), y \in Ranges(0, w - 1) :
          \E const \in Constants(x, y) : query = Query(op, w, x, y, const)
    BY <2>1
  <2> PICK const \in Constants(x, y) : query = Query(op, w, x, y, const)
    BY <2>2
  <2>3. query.op = op /\ query.w = w /\ query.x = x /\ query.y = y /\ query.const = const
    BY QueryFields
  <2> QED
    BY <1>1, <2>3, KindsDiffer, Zenon DEF IInv, Asked
<1>6. CASE Cast
  <2>1. PICK w \in Widths \ {LongWidth} :
          \/ \E x \in WordRanges(LongWidth) : query = Query("trunc", w, x, x, "none")
          \/ \E op \in {"zext", "sext"}, x \in WordRanges(w) : query = Query(op, w, x, x, "none")
    BY <1>6 DEF Cast
  <2>2. CASE \E x \in WordRanges(LongWidth) : query = Query("trunc", w, x, x, "none")
    <3>1. PICK x \in WordRanges(LongWidth) : query = Query("trunc", w, x, x, "none")
      BY <2>2
    <3>2. query.op = "trunc" /\ query.w = w /\ query.x = x
      BY <3>1, QueryFields
    <3>3. query.op \in Casts
      BY <3>2 DEF Casts
    <3> QED
      BY <1>1, <3>2, <3>3, KindsDiffer, Zenon DEF IInv, Asked
  <2>3. CASE \E op \in {"zext", "sext"}, x \in WordRanges(w) : query = Query(op, w, x, x, "none")
    <3>1. PICK op \in {"zext", "sext"}, x \in WordRanges(w) : query = Query(op, w, x, x, "none")
      BY <2>3
    <3>2. query.op = op /\ query.w = w /\ query.x = x
      BY <3>1, QueryFields
    <3>3. query.op \in Casts /\ query.op # "trunc"
      BY <3>2 DEF Casts
    <3> QED
      BY <1>1, <3>2, <3>3, KindsDiffer, Zenon DEF IInv, Asked
  <2> QED
    BY <2>1, <2>2, <2>3
<1> QED
  BY <1>2, <1>3, <1>4, <1>5, <1>6 DEF Init

\* an evaluation answers the query and keeps it
LEMMA EvaluateAnswers == IInv /\ [Evaluate]_vars => IInv'
<1> SUFFICES ASSUME IInv, [Evaluate]_vars PROVE IInv'
  OBVIOUS
<1>1. CASE Evaluate
  <2>1. query' = query
    BY <1>1 DEF Evaluate
  <2>2. Asked'
    BY <2>1, Zenon DEF IInv, Asked
  <2>3. Answered'
    BY <1>1 DEF Answered, Evaluate
  <2> QED
    BY <2>2, <2>3 DEF IInv
<1>2. CASE UNCHANGED vars
  <2>1. query' = query /\ answer' = answer
    BY <1>2 DEF vars
  <2> QED
    BY <2>1, Zenon DEF IInv, Asked, Answered
<1> QED
  BY <1>1, <1>2

\* the two facts about queries and answers are an invariant
LEMMA AnswersAreKept == Spec => []IInv
BY InitIsAsked, EvaluateAnswers, PTL DEF Spec, vars

-----------------------------------------------------------------------------
(* Remainders.                                                             *)

\* The other arms do not answer for a remainder.
LEMMA RemainderArm ==
    ASSUME NEW w, NEW x, NEW y, NEW const
    PROVE  Answer("rem", w, x, y, const) = RemRange(x, y)
BY Zenon DEF Answer, Casts

\* What modInterval needs of the two ranges.
LEMMA BoundedRanges ==
    ASSUME NEW x \in Bounded
    PROVE  x \in RangePairs /\ Sorted(x)
BY DEF Bounded, Ranges, RangePairs

\* what the invariant says of a query about a remainder
LEMMA RemainderAsked ==
    ASSUME IInv, query.op = "rem", NEW r \in answer
    PROVE  /\ query.x \in RangePairs /\ query.y \in RangePairs
           /\ Sorted(query.x) /\ Sorted(query.y) /\ ~RemDiverges(query.x, query.y)
           /\ r = RemRange(query.x, query.y)
<1>1. r = Answer("rem", query.w, query.x, query.y, query.const)
  BY Zenon DEF IInv, Answered
<1>2. query.x \in Bounded /\ query.y \in Bounded /\ ~RemDiverges(query.x, query.y)
  BY DEF IInv, Asked
<1> QED
  BY <1>1, <1>2, RemainderArm, BoundedRanges

\* Whatever the ranges, the answer to a query about a remainder has every
\* remainder (EveryRemainderIn): the recursion of modInterval over signs, over
\* divisors longer than the dividends and over halves of a dividend loses none.
THEOREM RemaindersAreIn == Spec => []EveryRemainderIn
<1>1. IInv => EveryRemainderIn
  BY RemainderAsked, RemainderContains DEF EveryRemainderIn, Values
<1> QED
  BY <1>1, AnswersAreKept, PTL

\* Whatever the ranges, the answer to a query about a remainder stays within
\* what the operands allow (NoWiderThanOperands).
THEOREM RemaindersAreNarrow == Spec => []NoWiderThanOperands
<1>1. IInv => NoWiderThanOperands
  BY RemainderAsked, RemainderNarrow, Zenon DEF NoWiderThanOperands, LargestRemainder
<1> QED
  BY <1>1, AnswersAreKept, PTL

-----------------------------------------------------------------------------
(* Quotients, shifts and casts.                                            *)

\* What the arms answer, by operator and place of the constant.
LEMMA Arms ==
    ASSUME NEW w, NEW x, NEW y, NEW const
    PROVE  /\ Answer("sdiv", w, x, y, const) =
                  IF const = "left" THEN DivOfConst(x.lo, y)
                  ELSE IF const = "right" THEN DivByConst(x, y.lo) ELSE DivRange(x, y)
           /\ Answer("shl", w, x, y, const) =
                  IF const = "left" THEN ShlOfConst(x.lo, y, w)
                  ELSE IF const = "right" THEN ShlByConst(x, y.lo, w) ELSE ShlRange(x, y, w)
           /\ Answer("ashr", w, x, y, const) =
                  IF const = "left" THEN AShrOfConst(x.lo, y, w)
                  ELSE IF const = "right" THEN AShrByConst(x, y.lo, w) ELSE AShrRange(x, y, w)
           /\ Answer("lshr", w, x, y, const) =
                  IF const = "left" THEN LShrOfConst(x.lo, y, w)
                  ELSE IF const = "right" THEN LShrByConst(x, y.lo, w) ELSE LShrRange(x, y, w)
<1>1. Answer("sdiv", w, x, y, const) =
          IF const = "left" THEN DivOfConst(x.lo, y)
          ELSE IF const = "right" THEN DivByConst(x, y.lo) ELSE DivRange(x, y)
  BY Zenon DEF Answer, Casts
<1>2. Answer("shl", w, x, y, const) =
          IF const = "left" THEN ShlOfConst(x.lo, y, w)
          ELSE IF const = "right" THEN ShlByConst(x, y.lo, w) ELSE ShlRange(x, y, w)
  BY Zenon DEF Answer, Casts
<1>3. Answer("ashr", w, x, y, const) =
          IF const = "left" THEN AShrOfConst(x.lo, y, w)
          ELSE IF const = "right" THEN AShrByConst(x, y.lo, w) ELSE AShrRange(x, y, w)
  BY Zenon DEF Answer, Casts
<1>4. Answer("lshr", w, x, y, const) =
          IF const = "left" THEN LShrOfConst(x.lo, y, w)
          ELSE IF const = "right" THEN LShrByConst(x, y.lo, w) ELSE LShrRange(x, y, w)
  BY Zenon DEF Answer, Casts
<1> QED
  BY <1>1, <1>2, <1>3, <1>4, Zenon

\* A cast keeps the range of its operand.
LEMMA CastArm ==
    ASSUME NEW op \in Casts, NEW w, NEW x, NEW y, NEW const
    PROVE  Answer(op, w, x, y, const) = x
<1>1. Answer("trunc", w, x, y, const) = x
  BY Zenon DEF Answer, Casts, CastRange
<1>2. Answer("zext", w, x, y, const) = x
  BY Zenon DEF Answer, Casts, CastRange
<1>3. Answer("sext", w, x, y, const) = x
  BY Zenon DEF Answer, Casts, CastRange
<1> QED
  BY <1>1, <1>2, <1>3, Zenon DEF Casts

\* an operand that is a constant is a point
LEMMA ConstantsArePoints ==
    ASSUME NEW x, NEW y, NEW const \in Constants(x, y)
    PROVE  /\ const = "left" => x.lo = x.hi
           /\ const = "right" => y.lo = y.hi
BY DEF Constants

\* EveryResultIn for one division
LEMMA DivisionAnswered ==
    ASSUME NEW x \in Bounded, NEW y \in Bounded, NEW const \in Constants(x, y), NEW w,
           ~Undivided("sdiv", x, y, const), NEW a \in Values(x), NEW b \in Values(y), b # 0
    PROVE  LET r == Answer("sdiv", w, x, y, const)
           IN  AtMost(r.lo, Over(a, b)) /\ AtMost(Over(a, b), r.hi)
<1>1. x \in RangePairs /\ y \in RangePairs
  BY BoundedRanges
<1>2. a \in Int /\ b \in Int /\ In(a, x) /\ In(b, y)
  BY <1>1, SMT DEF Values, In, RangePairs
<1>3. ~CrossesZero(y) /\ ~(y.lo = 0 /\ x.lo = 0) /\ (const = "right" => ~(y.hi < 0 /\ x.lo < x.hi))
  BY DEF Undivided
<1>4. CASE const = "left"
  <2>1. a = x.lo /\ x.lo \in Int
    BY <1>1, <1>2, <1>4, ConstantsArePoints, SMT DEF In, RangePairs
  <2>2. AtMost(DivOfConst(x.lo, y).lo, Over(a, b)) /\ AtMost(Over(a, b), DivOfConst(x.lo, y).hi)
    BY <1>1, <1>2, <1>3, <2>1, QuotientOfConstant
  <2> QED
    BY <1>4, <2>2, Arms
<1>5. CASE const = "right"
  <2>1. b = y.lo /\ y.lo = y.hi /\ y.lo \in Int
    BY <1>1, <1>2, <1>5, ConstantsArePoints, SMT DEF In, RangePairs
  <2>2. y.lo > 0 \/ x.lo = x.hi
    <3>1. x.lo \in Int /\ x.hi \in Int /\ x.lo <= x.hi
      BY <1>1, BoundedRanges DEF RangePairs, Sorted
    <3> QED BY <1>3, <1>5, <2>1, <3>1, SMT
  <2>3. AtMost(DivByConst(x, y.lo).lo, Over(a, b)) /\ AtMost(Over(a, b), DivByConst(x, y.lo).hi)
    BY <1>1, <1>2, <2>1, <2>2, QuotientByConstant
  <2> QED
    BY <1>5, <2>3, Arms
<1>6. CASE const # "left" /\ const # "right"
  <2>1. AtMost(DivRange(x, y).lo, Over(a, b)) /\ AtMost(Over(a, b), DivRange(x, y).hi)
    BY <1>1, <1>2, <1>3, QuotientOfRanges
  <2> QED
    BY <1>6, <2>1, Arms
<1> QED
  BY <1>4, <1>5, <1>6

\* EveryResultIn for one shift
LEMMA ShiftAnswered ==
    ASSUME NEW op \in Shifts, NEW w \in Widths, NEW x \in WordRanges(w), NEW y \in Ranges(0, w - 1),
           NEW const \in Constants(x, y), ~Mistaken(op, w, x, y, const),
           NEW a \in Values(x), NEW b \in Values(y)
    PROVE  \E v \in Shifted(op, a, b, w) : In(v, Answer(op, w, x, y, const))
<1>1. w \in 1 .. LongWidth
  BY WidthsAssumption
<1>2. /\ ~ShiftedOut(op, w, x, y) /\ ~UnsignedAroundZero(op, x, const) /\ ~OtherReading(op, w, x)
      /\ ~ConstantShifted(op, w, x, y, const)
  BY DEF Mistaken
<1>3. CASE op = "shl"
  <2>1. CASE const = "left"
    <3>1. x.lo = x.hi /\ x.lo >= 0
      <4>1. x.lo \in Int /\ ~(x.lo < 0) /\ x.lo = x.hi
        BY <1>1, <1>2, <1>3, <2>1, WordRange, ConstantsArePoints DEF ConstantShifted
      <4> QED BY <4>1, SMT
    <3> QED BY <1>1, <1>2, <1>3, <2>1, <3>1, ShlConstantIn, Arms
  <2>2. CASE const # "left"
    <3>1. ~CrossesZero(x)
      BY <1>2, <1>3, <2>2 DEF UnsignedAroundZero
    <3>2. const = "right" => y.lo = y.hi
      BY ConstantsArePoints
    <3> QED BY <1>1, <1>2, <1>3, <2>2, <3>1, <3>2, ShlIn, Arms
  <2> QED BY <2>1, <2>2
<1>4. CASE op = "lshr"
  <2>1. CASE const = "left"
    <3>1. x.lo = x.hi
      BY <2>1, ConstantsArePoints
    <3> QED BY <1>1, <1>2, <1>4, <2>1, <3>1, LShrConstantIn, Arms
  <2>2. CASE const # "left"
    <3>1. ~CrossesZero(x)
      BY <1>2, <1>4, <2>2 DEF UnsignedAroundZero
    <3>2. const = "right" => y.lo = y.hi
      BY ConstantsArePoints
    <3> QED BY <1>1, <1>4, <2>2, <3>1, <3>2, LShrIn, Arms
  <2> QED BY <2>1, <2>2
<1>5. CASE op = "ashr"
  <2>1. CASE const = "left"
    <3>1. x.lo = x.hi
      BY <2>1, ConstantsArePoints
    <3> QED BY <1>1, <1>2, <1>5, <2>1, <3>1, AShrConstantIn, Arms
  <2>2. CASE const # "left"
    <3>1. const = "right" => y.lo = y.hi
      BY ConstantsArePoints
    <3> QED BY <1>1, <1>2, <1>5, <2>2, <3>1, AShrIn, Arms
  <2> QED BY <2>1, <2>2
<1> QED
  BY <1>3, <1>4, <1>5 DEF Shifts

\* Division, shifts and casts, for ranges of every size and words of every
\* width: unless the operands are of a kind that an arm is known to mistake,
\* the range has every quotient, shifted word and converted word
\* (EveryResultIn).
THEOREM ResultsAreIn == Spec => []EveryResultIn
<1>1. IInv => EveryResultIn
  <2> DEFINE op == query.op  x == query.x  y == query.y  w == query.w  const == query.const
  <2> SUFFICES ASSUME IInv, NEW r \in answer, ~Mistaken(op, w, x, y, const),
                      NEW a \in Values(x), NEW b \in Values(y)
               PROVE  /\ op = "sdiv" /\ b # 0 => AtMost(r.lo, Over(a, b)) /\ AtMost(Over(a, b), r.hi)
                      /\ op \in Shifts => \E v \in Shifted(op, a, b, w) : In(v, r)
                      /\ op \in Casts => \E v \in Converted(op, a, w) : In(v, r)
    BY DEF EveryResultIn
  <2>1. r = Answer(op, w, x, y, const)
    BY DEF IInv, Answered
  <2>2. op = "sdiv" /\ b # 0 => AtMost(r.lo, Over(a, b)) /\ AtMost(Over(a, b), r.hi)
    <3> SUFFICES ASSUME op = "sdiv", b # 0 PROVE AtMost(r.lo, Over(a, b)) /\ AtMost(Over(a, b), r.hi)
      OBVIOUS
    <3>1. x \in Bounded /\ y \in Bounded /\ const \in Constants(x, y)
      BY DEF IInv, Asked
    <3>2. ~Undivided("sdiv", x, y, const)
      BY DEF Mistaken
    <3>3. r = Answer("sdiv", w, x, y, const)
      BY <2>1
    <3> HIDE DEF op, x, y, w, const
    <3> QED BY <3>1, <3>2, <3>3, DivisionAnswered
  <2>3. op \in Shifts => \E v \in Shifted(op, a, b, w) : In(v, r)
    <3> SUFFICES ASSUME op \in Shifts PROVE \E v \in Shifted(op, a, b, w) : In(v, r)
      OBVIOUS
    <3>1. w \in Widths /\ x \in WordRanges(w) /\ y \in Ranges(0, w - 1) /\ const \in Constants(x, y)
      BY DEF IInv, Asked
    <3> HIDE DEF op, x, y, w, const
    <3> QED BY <2>1, <3>1, ShiftAnswered
  <2>4. op \in Casts => \E v \in Converted(op, a, w) : In(v, r)
    <3> SUFFICES ASSUME op \in Casts PROVE \E v \in Converted(op, a, w) : In(v, r)
      OBVIOUS
    <3>1. w \in Widths \ {LongWidth} /\ x \in WordRanges(IF op = "trunc" THEN LongWidth ELSE w)
      BY DEF IInv, Asked
    <3>2. w \in (1 .. LongWidth) \ {LongWidth}
      BY <3>1, WidthsAssumption
    <3>3. ~OtherReading(op, w, x) /\ ~TooWide(op, w, x)
      BY DEF Mistaken
    <3> HIDE DEF op, x, y, w, const
    <3>4. r = x
      <4>1. Answer(op, w, x, y, const) = x
        BY CastArm
      <4> QED BY <2>1, <4>1, Zenon
    <3>5. a \in Converted(op, a, w) /\ In(a, x)
      BY <3>1, <3>2, <3>3, CastsIn
    <3> QED BY <3>4, <3>5
  <2> QED
    BY <2>2, <2>3, <2>4
<1> QED
  BY <1>1, AnswersAreKept, PTL

-----------------------------------------------------------------------------
(* Positions and bits.                                                     *)

\* what holds at m, and at a position when it holds at the next, holds from
\* 0 to m
LEMMA Downward ==
    ASSUME NEW m \in Nat, NEW S, m \in S, \A i \in 0 .. m - 1 : i + 1 \in S => i \in S
    PROVE  \A i \in 0 .. m : i \in S
<1> DEFINE Bad == {d \in 0 .. m : m - d \notin S}
<1>1. SUFFICES ASSUME Bad # {} PROVE FALSE
  <2>1. Bad = {}
    BY <1>1
  <2> SUFFICES ASSUME NEW i \in 0 .. m PROVE i \in S
    OBVIOUS
  <2>2. m - i \in 0 .. m /\ m - (m - i) = i
    BY SMT
  <2> QED BY <2>1, <2>2
<1>2. Bad \in SUBSET Nat
  BY SMT
<1>3. PICK d \in Bad : \A e \in Bad : d <= e
  <2> HIDE DEF Bad
  <2> QED BY <1>1, <1>2, LeastNatural
<1>4. d \in 0 .. m /\ m - d \notin S
  BY <1>3
<1>5. d # 0
  BY <1>4, SMT
<1>6. d - 1 \in 0 .. m /\ d - 1 \notin Bad
  BY <1>3, <1>4, <1>5, SMT
<1>7. m - (d - 1) \in S
  BY <1>6
<1>8. m - d \in 0 .. m - 1 /\ m - (d - 1) = (m - d) + 1
  BY <1>4, <1>5, SMT
<1> QED
  BY <1>4, <1>7, <1>8

\* what holds at l, and at a position when it holds at the one before, holds
\* from l to m
LEMMA Upward ==
    ASSUME NEW l \in Nat, NEW m \in Nat, NEW S, l \in S,
           \A i \in l + 1 .. m : i - 1 \in S => i \in S
    PROVE  \A i \in l .. m : i \in S
<1> DEFINE Bad == {i \in l .. m : i \notin S}
<1>1. SUFFICES ASSUME Bad # {} PROVE FALSE
  OBVIOUS
<1>2. Bad \in SUBSET Nat
  BY SMT
<1>3. PICK d \in Bad : \A e \in Bad : d <= e
  <2> HIDE DEF Bad
  <2> QED BY <1>1, <1>2, LeastNatural
<1>4. d \in l .. m /\ d \notin S
  BY <1>3
<1>5. d # l
  BY <1>4
<1>6. d - 1 \in l .. m /\ d - 1 \notin Bad /\ d \in l + 1 .. m
  BY <1>3, <1>4, <1>5, SMT
<1> QED
  BY <1>4, <1>6

\* a recursive function over the first naturals exists
LEMMA Recursion ==
    ASSUME NEW n \in Nat, NEW c \in Int, NEW g \in [Int \X (1 .. n) -> Int]
    PROVE  \E f \in [0 .. n -> Int] : f[0] = c /\ \A k \in 1 .. n : f[k] = g[<<f[k - 1], k>>]
<1> DEFINE Upto(m) == \E f \in [0 .. m -> Int] :
                          f[0] = c /\ \A k \in 1 .. m : f[k] = g[<<f[k - 1], k>>]
           S == {m \in 0 .. n : Upto(m)}
<1>1. 0 \in S
  <2> DEFINE f == [k \in 0 .. 0 |-> c]
  <2>1. f \in [0 .. 0 -> Int] /\ f[0] = c /\ \A k \in 1 .. 0 : f[k] = g[<<f[k - 1], k>>]
    BY SMT
  <2>2. Upto(0)
    <3> HIDE DEF f
    <3> QED BY <2>1
  <2> QED BY <2>2, SMT
<1>2. \A m \in 1 .. n : m - 1 \in S => m \in S
  <2> SUFFICES ASSUME NEW m \in 1 .. n, m - 1 \in S PROVE m \in S
    OBVIOUS
  <2>0. m \in 0 .. n
    BY SMT
  <2>1. PICK f \in [0 .. m - 1 -> Int] :
          f[0] = c /\ \A k \in 1 .. m - 1 : f[k] = g[<<f[k - 1], k>>]
    OBVIOUS
  <2>2. m - 1 \in 0 .. m - 1 /\ m \in Int /\ 0 \in 0 .. m /\ 0 # m /\ m \in 0 .. m
    BY SMT
  <2>3. g[<<f[m - 1], m>>] \in Int
    BY <2>2
  <2> DEFINE h == [k \in 0 .. m |-> IF k = m THEN g[<<f[m - 1], m>>] ELSE f[k]]
  <2>4. \A k \in 0 .. m : k # m => k \in 0 .. m - 1
    BY SMT
  <2>5. h \in [0 .. m -> Int]
    BY <2>3, <2>4
  <2>6. h[0] = c
    BY <2>1, <2>2
  <2>7. \A k \in 1 .. m : h[k] = g[<<h[k - 1], k>>]
    <3> SUFFICES ASSUME NEW k \in 1 .. m PROVE h[k] = g[<<h[k - 1], k>>]
      OBVIOUS
    <3>1. k \in 0 .. m /\ k - 1 \in 0 .. m /\ k - 1 # m /\ (k # m => k \in 1 .. m - 1)
      BY SMT
    <3>2. h[k - 1] = f[k - 1]
      BY <3>1
    <3>3. CASE k = m
      BY <3>1, <3>2, <3>3
    <3>4. CASE k # m
      BY <3>1, <3>2, <3>4, <2>1
    <3> QED BY <3>3, <3>4
  <2>8. Upto(m)
    <3> HIDE DEF h
    <3> QED BY <2>5, <2>6, <2>7
  <2> QED BY <2>0, <2>8
<1>3. n \in S
  <2> HIDE DEF S
  <2>1. \A i \in 0 + 1 .. n : i - 1 \in S => i \in S
    BY <1>2
  <2>2. 0 \in Nat /\ n \in 0 .. n
    BY SMT
  <2> QED BY <1>1, <2>1, <2>2, Upward
<1> QED
  BY <1>3


-----------------------------------------------------------------------------
(* A number without its last j bits.                                       *)

Without(v, j) == v \div 2^j
Bit(v, j) == LLVM!Bit(v, j)

\* dropping one bit more halves, and the remainder is the bit
LEMMA OneBitMore ==
    ASSUME NEW v \in Int, NEW j \in 0 .. LongWidth
    PROVE  /\ Without(v, j) \in Int /\ Without(v, j + 1) \in Int /\ Bit(v, j) \in {0, 1}
           /\ Without(v, j) = 2 * Without(v, j + 1) + Bit(v, j)
<1> DEFINE p == 2^j  q == v \div p  h == v \div (2 * p)  b == q % 2
<1>1. p \in Nat /\ p >= 1
  <2>1. p \in Nat /\ j < p
    BY PowersAreLarge
  <2>2. LongWidth \in Nat /\ j \in Nat
    BY WidthAssumption, SMT
  <2> HIDE DEF p
  <2> QED BY <2>1, <2>2, SMT
<1>2. 2^(j + 1) = 2 * p
  BY PowersOfTwo
<1>3. Without(v, j) = q /\ Without(v, j + 1) = h /\ Bit(v, j) = b
  BY <1>2 DEF Without, Bit, LLVM!Bit
<1> HIDE DEF p
<1>4. q \in Int /\ p * q <= v /\ v < p * q + p
  BY <1>1, SMT
<1>5. h \in Int /\ (2 * p) * h <= v /\ v < (2 * p) * h + 2 * p
  BY <1>1, SMT
<1>6. b \in {0, 1}
  BY <1>4, SMT
<1> HIDE DEF q, h
<1>7. (2 * p) * h = p * (2 * h)
  BY <1>1, <1>5, SMT
<1>8. 2 * h <= q
  <2> SUFFICES ASSUME q + 1 <= 2 * h PROVE FALSE
    BY <1>4, <1>5, SMT
  <2>1. p * (q + 1) <= p * (2 * h) /\ p * (q + 1) = p * q + p
    BY <1>1, <1>4, <1>5, SMT
  <2> QED BY <2>1, <1>1, <1>4, <1>5, <1>7, SMT
<1>9. q <= 2 * h + 1
  <2> SUFFICES ASSUME 2 * h + 2 <= q PROVE FALSE
    BY <1>4, <1>5, SMT
  <2>1. p * (2 * h + 2) <= p * q /\ p * (2 * h + 2) = p * (2 * h) + 2 * p
    BY <1>1, <1>4, <1>5, SMT
  <2> QED BY <2>1, <1>1, <1>4, <1>5, <1>7, SMT
<1>10. q = 2 * h + b
  BY <1>4, <1>5, <1>8, <1>9, SMT
<1> QED
  BY <1>3, <1>4, <1>5, <1>6, <1>10

\* nothing is dropped
LEMMA NothingDropped ==
    ASSUME NEW v \in Int
    PROVE  Without(v, 0) = v
BY PowersOfTwo, SMT DEF Without

\* dropping bits keeps the order
LEMMA DroppedInOrder ==
    ASSUME NEW u \in Int, NEW v \in Int, u <= v, NEW j \in 0 .. LongWidth
    PROVE  Without(u, j) <= Without(v, j)
<1>1. 2^j \in Nat /\ j < 2^j
  BY PowersAreLarge
<1>2. LongWidth \in Nat /\ j \in Nat
  BY WidthAssumption, SMT
<1> DEFINE p == 2^j
<1>3. p \in Nat /\ p >= 1
  <2>1. p \in Nat /\ j < p
    BY <1>1
  <2> HIDE DEF p
  <2> QED BY <2>1, <1>2, SMT
<1>4. u \div p <= v \div p
  <2> HIDE DEF p
  <2> QED BY <1>3, DivInOrder
<1> QED
  BY <1>4 DEF Without

\* a whole multiple of the largest word moves no bit of a word
LEMMA BitsOfMultiple ==
    ASSUME NEW v \in Int, NEW c \in Int, NEW j \in 0 .. LongWidth - 1
    PROVE  Bit(v + c * 2^LongWidth, j) = Bit(v, j)
<1>0. LongWidth \in Nat /\ j \in Nat
  BY WidthAssumption, SMT
<1>1. j + 1 \in 0 .. LongWidth /\ LongWidth \in 0 .. LongWidth /\ j \in 0 .. LongWidth
  BY <1>0, SMT
<1>2. PICK k \in Nat \ {0} : 2^LongWidth = k * 2^(j + 1)
  BY <1>1, PowersDivide
<1> DEFINE p == 2^j
<1>3. p \in Nat /\ p >= 1
  <2>1. p \in Nat /\ j < p
    BY <1>1, PowersAreLarge
  <2> HIDE DEF p
  <2> QED BY <2>1, <1>0, SMT
<1>4. 2^(j + 1) = 2 * p
  BY <1>1, PowersOfTwo
<1> DEFINE m == 2^LongWidth
<1>5. m = k * (2 * p)
  BY <1>2, <1>4
<1> DEFINE z == v + c * m  q == v \div p
<1>6. Bit(z, j) = (z \div p) % 2 /\ Bit(v, j) = q % 2
  BY DEF Bit, LLVM!Bit
<1> HIDE DEF p, m
<1>7. q \in Int /\ p * q <= v /\ v < p * q + p
  BY <1>3, SMT
<1> DEFINE r == c * k
<1>8. r \in Int /\ c * m = p * (2 * r)
  <2>1. c * (k * (2 * p)) = p * (2 * (c * k))
    BY <1>3, SMT
  <2> QED BY <2>1, <1>5, SMT
<1> HIDE DEF q, r
<1>9. z \in Int /\ z = v + p * (2 * r)
  BY <1>8, <1>3, SMT
<1>10. p * (q + 2 * r) <= z /\ z < p * (q + 2 * r) + p
  <2>1. p * (q + 2 * r) = p * q + p * (2 * r)
    BY <1>3, <1>7, <1>8, SMT
  <2> QED BY <2>1, <1>3, <1>7, <1>8, <1>9, SMT
<1> HIDE DEF z
<1>11. z \div p = q + 2 * r
  <2> DEFINE y == z \div p  x == q + 2 * r
  <2>1. y \in Int /\ p * y <= z /\ z < p * y + p
    BY <1>3, <1>9, SMT
  <2>2. x \in Int /\ p * x <= z /\ z < p * x + p
    BY <1>7, <1>8, <1>10, SMT
  <2> HIDE DEF x, y
  <2>3. ~(y + 1 <= x)
    <3> SUFFICES ASSUME y + 1 <= x PROVE FALSE
      OBVIOUS
    <3>1. p * (y + 1) <= p * x /\ p * (y + 1) = p * y + p
      BY <1>3, <2>1, <2>2, SMT
    <3> QED BY <3>1, <1>3, <1>9, <2>1, <2>2, SMT
  <2>4. ~(x + 1 <= y)
    <3> SUFFICES ASSUME x + 1 <= y PROVE FALSE
      OBVIOUS
    <3>1. p * (x + 1) <= p * y /\ p * (x + 1) = p * x + p
      BY <1>3, <2>1, <2>2, SMT
    <3> QED BY <3>1, <1>3, <1>9, <2>1, <2>2, SMT
  <2>5. y = x
    BY <2>1, <2>2, <2>3, <2>4, SMT
  <2> QED BY <2>5 DEF x, y
<1>12. (q + 2 * r) % 2 = q % 2
  BY <1>7, <1>8, SMT
<1> QED
  BY <1>6, <1>11, <1>12 DEF z, m

\* FromBits makes the number with these bits
LEMMA BitsSummed ==
    ASSUME NEW bits \in [0 .. LongWidth - 1 -> {0, 1}]
    PROVE  LET s == LLVM!FromBits(bits, LongWidth)
           IN  s \in Nat /\ s < 2^LongWidth /\ \A j \in 0 .. LongWidth - 1 : Bit(s, j) = bits[j]
<1> DEFINE w == LongWidth
           Equation(f) == f = [k \in 0 .. w |-> IF k = 0 THEN 0 ELSE f[k - 1] + bits[k - 1] * 2^(k - 1)]
           sum == CHOOSE f : Equation(f)
<1>0. w \in Nat /\ w \in 0 .. w /\ 0 \in 0 .. w
  BY WidthAssumption, SMT
<1>1. \A k \in 1 .. w : k - 1 \in 0 .. w - 1 /\ k - 1 \in 0 .. w /\ k \in 0 .. w /\ k # 0 /\ (k - 1) + 1 = k
  BY <1>0, SMT
<1>2. \A k \in 0 .. w - 1 : k \in 0 .. w /\ k + 1 \in 1 .. w /\ k + 1 \in 0 .. w /\ (k + 1) - 1 = k
  BY <1>0, SMT
<1>3. \E f : Equation(f)
  <2> DEFINE g == [p \in Int \X (1 .. w) |-> p[1] + bits[p[2] - 1] * 2^(p[2] - 1)]
  <2>1. \A k \in 1 .. w : bits[k - 1] * 2^(k - 1) \in Int
    <3> SUFFICES ASSUME NEW k \in 1 .. w PROVE bits[k - 1] * 2^(k - 1) \in Int
      OBVIOUS
    <3>1. bits[k - 1] \in {0, 1} /\ 2^(k - 1) \in Nat
      BY <1>1, PowersAreLarge
    <3> QED BY <3>1, SMT
  <2>2. g \in [Int \X (1 .. w) -> Int]
    BY <2>1, SMT
  <2> HIDE DEF w
  <2>3. PICK f \in [0 .. w -> Int] : f[0] = 0 /\ \A k \in 1 .. w : f[k] = g[<<f[k - 1], k>>]
    <3>1. 0 \in Int /\ w \in Nat
      BY <1>0
    <3> HIDE DEF g
    <3> QED BY <2>2, <3>1, Recursion
  <2>4. \A k \in 1 .. w : f[k] = f[k - 1] + bits[k - 1] * 2^(k - 1)
    <3> SUFFICES ASSUME NEW k \in 1 .. w PROVE f[k] = f[k - 1] + bits[k - 1] * 2^(k - 1)
      OBVIOUS
    <3>1. f[k - 1] \in Int
      BY <1>1
    <3>2. g[<<f[k - 1], k>>] = f[k - 1] + bits[k - 1] * 2^(k - 1)
      BY <3>1
    <3> QED BY <2>3, <3>2
  <2>5. \A k \in 0 .. w : f[k] = IF k = 0 THEN 0 ELSE f[k - 1] + bits[k - 1] * 2^(k - 1)
    <3>1. \A k \in 0 .. w : k = 0 \/ k \in 1 .. w
      BY <1>0, SMT
    <3> QED BY <2>3, <2>4, <3>1
  <2>6. Equation(f)
    BY <2>5
  <2> QED BY <2>6
<1>4. Equation(sum)
  BY <1>3
<1>5. LLVM!FromBits(bits, w) = sum[w]
  BY DEF LLVM!FromBits
<1> HIDE DEF sum
<1>6. sum[0] = 0 /\ \A k \in 0 .. w - 1 : sum[k + 1] = sum[k] + bits[k] * 2^k
  BY <1>0, <1>2, <1>4
<1>7. \A k \in 0 .. w - 1 : 2^(k + 1) = 2 * 2^k /\ 2^k \in Nat /\ 2^(k + 1) \in Nat
  BY <1>2, PowersOfTwo, PowersAreLarge
<1> DEFINE Small == {k \in 0 .. w : sum[k] \in Nat /\ sum[k] < 2^k}
<1>8. \A k \in 0 .. w : k \in Small
  <2>1. 0 \in Small
    BY <1>0, <1>6, PowersOfTwo, SMT
  <2>2. \A k \in 0 + 1 .. w : k - 1 \in Small => k \in Small
    <3> SUFFICES ASSUME NEW k \in 1 .. w, k - 1 \in Small PROVE sum[k] \in Nat /\ sum[k] < 2^k
      BY <1>1
    <3> DEFINE p == 2^(k - 1)  s == sum[k - 1]  b == bits[k - 1]
    <3>1. k - 1 \in 0 .. w - 1 /\ (k - 1) + 1 = k
      BY <1>1
    <3>2. p \in Nat /\ 2^k = 2 * p /\ s \in Nat /\ s < p /\ b \in {0, 1}
      BY <1>7, <3>1
    <3>3. sum[k] = s + b * p
      BY <1>6, <3>1
    <3> HIDE DEF p, s, b
    <3>4. s + b * p \in Nat /\ s + b * p < 2 * p
      BY <3>2, SMT
    <3> QED BY <3>2, <3>3, <3>4
  <2> HIDE DEF Small, w
  <2> QED BY <2>1, <2>2, <1>0, Upward
<1> DEFINE s == sum[w]
           Split == {k \in 0 .. w : s = sum[k] + 2^k * Without(s, k)}
<1>9. s \in Nat /\ s < 2^w
  BY <1>0, <1>8
<1>10. \A k \in 0 .. w - 1 : k + 1 \in Split => k \in Split /\ Bit(s, k) = bits[k]
  <2> SUFFICES ASSUME NEW k \in 0 .. w - 1, k + 1 \in Split
               PROVE  s = sum[k] + 2^k * Without(s, k) /\ Bit(s, k) = bits[k]
    BY <1>2
  <2> DEFINE p == 2^k  d == Without(s, k)  e == Without(s, k + 1)  b == bits[k]  t == sum[k]
  <2>1. k \in 0 .. LongWidth /\ s \in Int
    BY <1>2, <1>9, SMT
  <2>2. d \in Int /\ e \in Int /\ Bit(s, k) \in {0, 1} /\ d = 2 * e + Bit(s, k)
    BY <2>1, OneBitMore
  <2>3. s = (t + b * p) + (2 * p) * e
    BY <1>6, <1>7
  <2>4. p \in Nat /\ t \in Nat /\ t < p /\ b \in {0, 1}
    BY <1>7, <1>8, <1>2
  <2>5. d = s \div p
    BY DEF Without
  <2> HIDE DEF p, d, e, b, t, s
  <2>6. s = t + p * (b + 2 * e)
    <3>1. p * (b + 2 * e) = b * p + (2 * p) * e /\ b * p \in Int /\ (2 * p) * e \in Int
      BY <2>2, <2>4, SMT
    <3> QED BY <3>1, <2>3, <2>4, SMT
  <2> DEFINE x == b + 2 * e
  <2>7. x \in Int /\ p * x <= s /\ s < p * x + p
    BY <2>1, <2>2, <2>4, <2>6, SMT
  <2>8. p * d <= s /\ s < p * d + p
    BY <2>1, <2>4, <2>5, SMT
  <2> HIDE DEF x
  <2>9. ~(d + 1 <= x)
    <3> SUFFICES ASSUME d + 1 <= x PROVE FALSE
      OBVIOUS
    <3>1. p * (d + 1) <= p * x /\ p * (d + 1) = p * d + p
      BY <2>2, <2>4, <2>7, SMT
    <3> QED BY <3>1, <2>1, <2>2, <2>4, <2>7, <2>8, SMT
  <2>10. ~(x + 1 <= d)
    <3> SUFFICES ASSUME x + 1 <= d PROVE FALSE
      OBVIOUS
    <3>1. p * (x + 1) <= p * d /\ p * (x + 1) = p * x + p
      BY <2>2, <2>4, <2>7, SMT
    <3> QED BY <3>1, <2>1, <2>2, <2>4, <2>7, <2>8, SMT
  <2>11. d = x
    BY <2>2, <2>7, <2>9, <2>10, SMT
  <2>12. Bit(s, k) = b
    BY <2>2, <2>4, <2>11, SMT DEF x
  <2> QED
    BY <2>6, <2>11, <2>12 DEF x, p, d, b, t
<1>11. w \in Split
  <2> DEFINE p == 2^w
  <2>1. s \in Nat /\ p \in Nat /\ s < p
    BY <1>0, <1>9, PowersAreLarge
  <2>2. Without(s, w) = s \div p
    BY DEF Without
  <2> HIDE DEF p, s
  <2>3. s \div p = 0
    BY <2>1, SMT
  <2>4. s = s + p * 0
    BY <2>1, SMT
  <2> QED BY <1>0, <2>2, <2>3, <2>4 DEF s, p
<1>12. \A k \in 0 .. w : k \in Split
  <2>1. \A i \in 0 .. w - 1 : i + 1 \in Split => i \in Split
    BY <1>10
  <2> HIDE DEF Split, w
  <2> QED BY <1>0, <1>11, <2>1, Downward
<1>13. \A j \in 0 .. w - 1 : Bit(s, j) = bits[j]
  BY <1>2, <1>10, <1>12
<1> QED
  BY <1>5, <1>9, <1>13

\* the operators, bit by bit
Combined(op, p, q) ==
    CASE op = "and" -> p * q
      [] op = "or"  -> IF p + q > 0 THEN 1 ELSE 0
      [] op = "xor" -> (p + q) % 2

\* the operators of the instruction combine each bit
LEMMA BitsCombined ==
    ASSUME NEW op \in Bitwise, NEW a \in Int, NEW b \in Int
    PROVE  LET c == Bitwised(op, a, b)
           IN  /\ c \in Int /\ -(2^(LongWidth - 1)) <= c /\ c < 2^(LongWidth - 1)
               /\ \A j \in 0 .. LongWidth - 1 : Bit(c, j) = Combined(op, Bit(a, j), Bit(b, j))
<1> DEFINE w == LongWidth  u == a % 2^w  v == b % 2^w
           bits == [k \in 0 .. w - 1 |-> Combined(op, Bit(u, k), Bit(v, k))]
           s == LLVM!FromBits(bits, w)
           c == LLVM!AsSigned(s, w)
<1>1. w \in Nat /\ w \in 1 .. w /\ w \in 0 .. w /\ \A k \in 0 .. w - 1 : k \in 0 .. w
  BY WidthAssumption, SMT
<1> DEFINE p == 2^w  h == 2^(w - 1)
<1>2. p = 2 * h /\ h \in Nat /\ h >= 1 /\ p \in Nat
  BY <1>1, PowersDouble
<1>3. \E m \in Int, n \in Int : u = a + m * p /\ v = b + n * p /\ u \in Int /\ v \in Int
  <2>1. u = a % p /\ v = b % p
    OBVIOUS
  <2>2. p \in Nat /\ p >= 1
    <3> HIDE DEF p, h
    <3> QED BY <1>2, SMT
  <2> HIDE DEF p, u, v
  <2>3. \A z \in Int : \E k \in Int : z % p = z + k * p /\ z % p \in Int
    <3> SUFFICES ASSUME NEW z \in Int PROVE \E k \in Int : z % p = z + k * p /\ z % p \in Int
      OBVIOUS
    <3> DEFINE q == z \div p  r == z % p
    <3>1. q \in Int /\ r \in Int /\ z = p * q + r
      BY <2>2, SMT
    <3> HIDE DEF q, r
    <3>2. -q \in Int /\ r = z + (-q) * p
      BY <3>1, <2>2, SMT
    <3> QED BY <3>1, <3>2 DEF r
  <2> QED BY <2>1, <2>3
<1>4. PICK m \in Int, n \in Int : u = a + m * p /\ v = b + n * p /\ u \in Int /\ v \in Int
  BY <1>3
<1>5. \A k \in 0 .. w - 1 : Bit(u, k) = Bit(a, k) /\ Bit(v, k) = Bit(b, k)
  BY <1>4, BitsOfMultiple
<1>6. \A k \in 0 .. w - 1 : Bit(a, k) \in {0, 1} /\ Bit(b, k) \in {0, 1}
  BY <1>1, OneBitMore
<1>7. \A i \in {0, 1}, j \in {0, 1} : Combined(op, i, j) \in {0, 1}
  <2>1. CASE op = "and"
    BY <2>1, SMT DEF Combined
  <2>2. CASE op = "or"
    BY <2>2, SMT DEF Combined
  <2>3. CASE op = "xor"
    BY <2>3, SMT DEF Combined
  <2> QED BY <2>1, <2>2, <2>3 DEF Bitwise
<1>8. bits \in [0 .. w - 1 -> {0, 1}]
  BY <1>5, <1>6, <1>7
<1>9. s \in Nat /\ s < p /\ \A j \in 0 .. w - 1 : Bit(s, j) = bits[j]
  <2> HIDE DEF bits
  <2> QED BY <1>8, BitsSummed
<1>10. LLVM!Arithmetic(op, u, v, w) = s
  <2>1. CASE op = "and"
    <3>1. bits = [k \in 0 .. w - 1 |-> LLVM!Bit(u, k) * LLVM!Bit(v, k)]
      BY <2>1 DEF Combined, Bit
    <3>2. LLVM!Arithmetic("and", u, v, w) = LLVM!FromBits([k \in 0 .. w - 1 |-> LLVM!Bit(u, k) * LLVM!Bit(v, k)], w)
      BY Zenon DEF LLVM!Arithmetic
    <3> QED BY <2>1, <3>1, <3>2, Zenon
  <2>2. CASE op = "or"
    <3>1. bits = [k \in 0 .. w - 1 |-> IF LLVM!Bit(u, k) + LLVM!Bit(v, k) > 0 THEN 1 ELSE 0]
      BY <2>2 DEF Combined, Bit
    <3>2. LLVM!Arithmetic("or", u, v, w) =
            LLVM!FromBits([k \in 0 .. w - 1 |-> IF LLVM!Bit(u, k) + LLVM!Bit(v, k) > 0 THEN 1 ELSE 0], w)
      BY Zenon DEF LLVM!Arithmetic
    <3> QED BY <2>2, <3>1, <3>2, Zenon
  <2>3. CASE op = "xor"
    <3>1. bits = [k \in 0 .. w - 1 |-> (LLVM!Bit(u, k) + LLVM!Bit(v, k)) % 2]
      BY <2>3 DEF Combined, Bit
    <3>2. LLVM!Arithmetic("xor", u, v, w) =
            LLVM!FromBits([k \in 0 .. w - 1 |-> (LLVM!Bit(u, k) + LLVM!Bit(v, k)) % 2], w)
      BY Zenon DEF LLVM!Arithmetic
    <3> QED BY <2>3, <3>1, <3>2, Zenon
  <2> QED BY <2>1, <2>2, <2>3 DEF Bitwise
<1>11. Bitwised(op, a, b) = c
  BY <1>10 DEF Bitwised
<1>12. c = (IF s >= h THEN s - p ELSE s)
  BY DEF LLVM!AsSigned
<1>13. c \in Int /\ -h <= c /\ c < h /\ \E e \in Int : c = s + e * p
  <2> HIDE DEF p, h, s, c
  <2>1. c \in Int /\ -h <= c /\ c < h
    BY <1>2, <1>9, <1>12, SMT
  <2>2. c = s + 0 * p \/ c = s + (-1) * p
    BY <1>2, <1>9, <1>12, SMT
  <2> QED BY <2>1, <2>2, SMT
<1>14. \A j \in 0 .. w - 1 : Bit(c, j) = bits[j]
  <2> PICK e \in Int : c = s + e * p
    BY <1>13
  <2>1. s \in Int
    BY <1>9, SMT
  <2> HIDE DEF s, c, bits
  <2> QED BY <2>1, <1>9, BitsOfMultiple
<1>15. \A j \in 0 .. w - 1 : Bit(c, j) = Combined(op, Bit(a, j), Bit(b, j))
  BY <1>5, <1>14
<1> HIDE DEF c
<1> QED
  BY <1>11, <1>13, <1>15

-----------------------------------------------------------------------------
(* Words of n bits.  Positions count from the sign, as in Bits.            *)

WordsOf(n) == -(2^(n - 1)) .. 2^(n - 1) - 1

\* the number that the positions up to k make
Prefix(v, n, k) == Without(v, n - 1 - k)

\* all bits of a word from the sign on are alike
LEMMA SignRepeats ==
    ASSUME NEW n \in 1 .. LongWidth, NEW v \in WordsOf(n), NEW j \in n - 1 .. LongWidth
    PROVE  /\ Without(v, j) = IF v < 0 THEN -1 ELSE 0
           /\ j < LongWidth => Bit(v, j) = IF v < 0 THEN 1 ELSE 0
<1>0. LongWidth \in Nat /\ n \in Nat /\ n <= LongWidth /\ n >= 1
  BY WidthAssumption, SMT
<1>1. \A i \in n - 1 .. LongWidth : Without(v, i) = IF v < 0 THEN -1 ELSE 0
  <2> SUFFICES ASSUME NEW i \in n - 1 .. LongWidth PROVE Without(v, i) = IF v < 0 THEN -1 ELSE 0
    OBVIOUS
  <2>1. i \in 0 .. LongWidth /\ n - 1 \in 0 .. i
    BY <1>0, SMT
  <2> DEFINE p == 2^i  h == 2^(n - 1)
  <2>2. p \in Nat /\ h \in Nat /\ 1 <= h /\ h <= p
    BY <2>1, PowersInOrder
  <2>3. v \in -h .. h - 1
    BY DEF WordsOf
  <2>4. Without(v, i) = v \div p
    BY DEF Without
  <2> HIDE DEF p, h
  <2>5. v \in Int /\ -p <= v /\ v < p
    BY <2>2, <2>3, SMT
  <2> DEFINE q == v \div p
  <2>6. q \in Int /\ p * q <= v /\ v < p * q + p
    BY <2>2, <2>5, SMT
  <2> HIDE DEF q
  <2>7. CASE v < 0
    <3>1. ~(0 <= q)
      <4> SUFFICES ASSUME 0 <= q PROVE FALSE
        OBVIOUS
      <4>1. p * q >= 0
        BY <2>2, <2>6, SMT
      <4> QED BY <4>1, <2>2, <2>5, <2>6, <2>7, SMT
    <3>2. ~(q <= -2)
      <4> SUFFICES ASSUME q <= -2 PROVE FALSE
        OBVIOUS
      <4>1. p * q <= p * (-2) /\ p * (-2) = -(2 * p)
        BY <2>2, <2>6, SMT
      <4> QED BY <4>1, <2>2, <2>5, <2>6, SMT
    <3>3. q = -1
      BY <3>1, <3>2, <2>6, SMT
    <3> QED BY <3>3, <2>4, <2>7 DEF q
  <2>8. CASE ~(v < 0)
    <3>1. v \div p = 0
      BY <2>2, <2>5, <2>8, SMT
    <3> QED BY <3>1, <2>4, <2>8
  <2> QED BY <2>7, <2>8
<1>2. j < LongWidth => Bit(v, j) = IF v < 0 THEN 1 ELSE 0
  <2> SUFFICES ASSUME j < LongWidth PROVE Bit(v, j) = IF v < 0 THEN 1 ELSE 0
    OBVIOUS
  <2>1. j \in 0 .. LongWidth /\ j + 1 \in n - 1 .. LongWidth
    BY <1>0, SMT
  <2>2. v \in Int
    <3>1. n - 1 \in 0 .. LongWidth
      BY <1>0, SMT
    <3> DEFINE h == 2^(n - 1)
    <3>2. h \in Nat /\ v \in -h .. h - 1
      BY <3>1, PowersAreLarge DEF WordsOf
    <3> HIDE DEF h
    <3> QED BY <3>2, SMT
  <2>3. Without(v, j) = 2 * Without(v, j + 1) + Bit(v, j) /\ Bit(v, j) \in {0, 1}
    BY <2>1, <2>2, OneBitMore
  <2>4. Without(v, j) = (IF v < 0 THEN -1 ELSE 0) /\ Without(v, j + 1) = (IF v < 0 THEN -1 ELSE 0)
    BY <1>1, <2>1
  <2>5. CASE v < 0
    BY <2>3, <2>4, <2>5, SMT
  <2>6. CASE ~(v < 0)
    BY <2>3, <2>4, <2>6, SMT
  <2> QED BY <2>5, <2>6
<1> QED
  BY <1>1, <1>2

\* a number whose sign is all that n - 1 bits leave is a word of n bits
LEMMA WordsAre ==
    ASSUME NEW n \in 1 .. LongWidth, NEW v \in Int, Without(v, n - 1) \in {-1, 0}
    PROVE  v \in WordsOf(n)
<1> DEFINE h == 2^(n - 1)  q == v \div h
<1>1. h \in Nat /\ h >= 1
  BY PowersDouble
<1>2. q \in {-1, 0}
  BY DEF Without
<1>3. WordsOf(n) = -h .. h - 1
  BY DEF WordsOf
<1> HIDE DEF h
<1>4. q \in Int /\ h * q <= v /\ v < h * q + h
  BY <1>1, SMT
<1> HIDE DEF q
<1>5. q = -1 => h * q = -h
  BY <1>1, SMT
<1>6. q = 0 => h * q = 0
  BY <1>1, SMT
<1>7. -h <= v /\ v < h
  BY <1>1, <1>2, <1>4, <1>5, <1>6, SMT
<1> QED
  BY <1>1, <1>3, <1>7, SMT

\* a word, position by position
LEMMA Positioned ==
    ASSUME NEW n \in 1 .. LongWidth, NEW v \in WordsOf(n)
    PROVE  /\ v \in Int /\ Prefix(v, n, n - 1) = v /\ Prefix(v, n, 0) = -Bits(v, n)[0]
           /\ Bits(v, n)[0] = IF v < 0 THEN 1 ELSE 0
           /\ Bits(v, n) \in [0 .. n - 1 -> {0, 1}]
           /\ \A k \in 0 .. n - 1 : Prefix(v, n, k) \in Int /\ Bits(v, n)[k] = Bit(v, n - 1 - k)
           /\ \A k \in 1 .. n - 1 : Prefix(v, n, k) = 2 * Prefix(v, n, k - 1) + Bits(v, n)[k]
<1>0. LongWidth \in Nat /\ n \in Nat /\ n >= 1 /\ n <= LongWidth
  BY WidthAssumption, SMT
<1>1. v \in Int
  <2>1. n - 1 \in 0 .. LongWidth
    BY <1>0, SMT
  <2> DEFINE h == 2^(n - 1)
  <2>2. h \in Nat /\ v \in -h .. h - 1
    BY <2>1, PowersAreLarge DEF WordsOf
  <2> HIDE DEF h
  <2> QED BY <2>2, SMT
<1>2. \A k \in 0 .. n - 1 : n - 1 - k \in 0 .. LongWidth /\ n - 1 - k \in 0 .. LongWidth - 1
  BY <1>0, SMT
<1>3. \A k \in 0 .. n - 1 : Bits(v, n)[k] = Bit(v, n - 1 - k)
  BY DEF Bits, Bit, LLVM!Bit
<1>4. \A k \in 0 .. n - 1 : Bit(v, n - 1 - k) \in {0, 1} /\ Prefix(v, n, k) \in Int
  BY <1>1, <1>2, OneBitMore DEF Prefix
<1>5. Bits(v, n) \in [0 .. n - 1 -> {0, 1}]
  <2>1. DOMAIN Bits(v, n) = 0 .. n - 1 /\ Bits(v, n) = [k \in 0 .. n - 1 |-> Bits(v, n)[k]]
    BY DEF Bits
  <2> QED BY <1>3, <1>4, <2>1, Zenon
<1>6. \A k \in 1 .. n - 1 : Prefix(v, n, k) = 2 * Prefix(v, n, k - 1) + Bits(v, n)[k]
  <2> SUFFICES ASSUME NEW k \in 1 .. n - 1
               PROVE  Prefix(v, n, k) = 2 * Prefix(v, n, k - 1) + Bits(v, n)[k]
    OBVIOUS
  <2>1. k \in 0 .. n - 1 /\ n - 1 - (k - 1) = (n - 1 - k) + 1
    BY <1>0, SMT
  <2>2. Without(v, n - 1 - k) = 2 * Without(v, (n - 1 - k) + 1) + Bit(v, n - 1 - k)
    BY <1>1, <1>2, <2>1, OneBitMore
  <2> QED BY <1>3, <2>1, <2>2 DEF Prefix
<1>7. 0 \in 0 .. n - 1 /\ n - 1 - 0 = n - 1 /\ n - 1 \in n - 1 .. LongWidth /\ n - 1 < LongWidth
      /\ n - 1 - (n - 1) = 0
  BY <1>0, SMT
<1>8. Prefix(v, n, n - 1) = v
  BY <1>1, <1>7, NothingDropped DEF Prefix
<1>9. Prefix(v, n, 0) = (IF v < 0 THEN -1 ELSE 0) /\ Bit(v, n - 1) = (IF v < 0 THEN 1 ELSE 0)
  BY <1>7, SignRepeats DEF Prefix
<1>10. Bits(v, n)[0] = IF v < 0 THEN 1 ELSE 0
  BY <1>3, <1>7, <1>9
<1>11. Prefix(v, n, 0) = -Bits(v, n)[0]
  BY <1>9, <1>10, SMT
<1> QED
  BY <1>1, <1>3, <1>4, <1>5, <1>6, <1>8, <1>10, <1>11

\* the operators combine words of n bits to words of n bits, bit by bit
LEMMA WordsCombined ==
    ASSUME NEW op \in Bitwise, NEW n \in 1 .. LongWidth, NEW a \in WordsOf(n), NEW b \in WordsOf(n)
    PROVE  LET c == Bitwised(op, a, b)
           IN  /\ c \in WordsOf(n)
               /\ \A k \in 0 .. n - 1 :
                     Bits(c, n)[k] = Combined(op, Bits(a, n)[k], Bits(b, n)[k])
<1> DEFINE c == Bitwised(op, a, b)  w == LongWidth
           sa == IF a < 0 THEN 1 ELSE 0  sb == IF b < 0 THEN 1 ELSE 0  d == Combined(op, sa, sb)
<1>0. w \in Nat /\ n \in Nat /\ n >= 1 /\ n <= w
  BY WidthAssumption, SMT
<1>1. a \in Int /\ b \in Int
  BY Positioned
<1>2. /\ c \in Int /\ -(2^(w - 1)) <= c /\ c < 2^(w - 1)
      /\ \A j \in 0 .. w - 1 : Bit(c, j) = Combined(op, Bit(a, j), Bit(b, j))
  BY <1>1, BitsCombined
<1>3. \A j \in n - 1 .. w - 1 : Bit(c, j) = d
  <2> SUFFICES ASSUME NEW j \in n - 1 .. w - 1 PROVE Bit(c, j) = d
    OBVIOUS
  <2>1. j \in n - 1 .. w /\ j < w /\ j \in 0 .. w - 1
    BY <1>0, SMT
  <2>2. Bit(a, j) = sa /\ Bit(b, j) = sb
    BY <2>1, SignRepeats
  <2> QED BY <1>2, <2>1, <2>2
<1> HIDE DEF c, d
<1>4. Without(c, w - 1) = -d
  <2>1. w \in 1 .. w /\ w - 1 \in w - 1 .. w /\ w - 1 < w /\ w - 1 \in n - 1 .. w - 1
    BY <1>0, SMT
  <2>2. c \in WordsOf(w)
    <3> DEFINE h == 2^(w - 1)
    <3>1. h \in Nat /\ c \in Int /\ -h <= c /\ c < h
      BY <1>2, <2>1, PowersDouble
    <3> HIDE DEF h
    <3>2. c \in -h .. h - 1
      BY <3>1, SMT
    <3> QED BY <3>2 DEF WordsOf, h
  <2>3. Without(c, w - 1) = (IF c < 0 THEN -1 ELSE 0) /\ Bit(c, w - 1) = (IF c < 0 THEN 1 ELSE 0)
    BY <2>1, <2>2, SignRepeats
  <2>4. Bit(c, w - 1) = d
    BY <1>3, <2>1
  <2> QED BY <2>3, <2>4, SMT
<1> DEFINE S == {j \in 0 .. w - 1 : j >= n - 1 => Without(c, j) = -d}
<1>5. \A j \in 0 .. w - 1 : j \in S
  <2>1. w - 1 \in Nat /\ w - 1 \in S
    BY <1>0, <1>4, SMT
  <2>2. \A i \in 0 .. (w - 1) - 1 : i + 1 \in S => i \in S
    <3> SUFFICES ASSUME NEW i \in 0 .. (w - 1) - 1, i + 1 \in S, i >= n - 1
                 PROVE  Without(c, i) = -d
      BY <1>0, SMT
    <3>1. i \in 0 .. w /\ i + 1 \in 0 .. w - 1 /\ i + 1 >= n - 1 /\ i \in n - 1 .. w - 1
      BY <1>0, SMT
    <3>2. Without(c, i + 1) = -d
      BY <3>1
    <3>3. Without(c, i) = 2 * Without(c, i + 1) + Bit(c, i) /\ Bit(c, i) \in {0, 1}
      BY <1>2, <3>1, OneBitMore
    <3>4. Bit(c, i) = d
      BY <1>3, <3>1
    <3> QED BY <3>2, <3>3, <3>4, SMT
  <2> HIDE DEF S, w
  <2> QED BY <2>1, <2>2, Downward
<1>6. Without(c, n - 1) = -d /\ d \in {0, 1}
  <2>1. n - 1 \in 0 .. w - 1 /\ n - 1 >= n - 1 /\ n - 1 \in n - 1 .. w - 1 /\ n - 1 \in 0 .. w
    BY <1>0, SMT
  <2>2. Bit(c, n - 1) \in {0, 1}
    BY <1>2, <2>1, OneBitMore
  <2> QED BY <1>3, <1>5, <2>1, <2>2
<1>7. c \in WordsOf(n)
  <2>1. Without(c, n - 1) \in {-1, 0}
    BY <1>6, SMT
  <2> QED BY <1>2, <2>1, WordsAre
<1>8. \A k \in 0 .. n - 1 : Bits(c, n)[k] = Combined(op, Bits(a, n)[k], Bits(b, n)[k])
  <2> SUFFICES ASSUME NEW k \in 0 .. n - 1
               PROVE  Bits(c, n)[k] = Combined(op, Bits(a, n)[k], Bits(b, n)[k])
    OBVIOUS
  <2>1. n - 1 - k \in 0 .. w - 1
    BY <1>0, SMT
  <2>2. /\ Bits(c, n)[k] = Bit(c, n - 1 - k) /\ Bits(a, n)[k] = Bit(a, n - 1 - k)
        /\ Bits(b, n)[k] = Bit(b, n - 1 - k)
    BY <1>7, Positioned
  <2> QED BY <1>2, <2>1, <2>2
<1> QED
  BY <1>7, <1>8 DEF c

\* Word makes the word with these ones
LEMMA WordBits ==
    ASSUME NEW n \in 1 .. LongWidth, NEW sign \in {0, 1}, NEW ones
    PROVE  LET v == Word(sign, ones, n)
           IN  /\ v \in WordsOf(n) /\ Bits(v, n)[0] = sign
               /\ \A k \in 1 .. n - 1 : Bits(v, n)[k] = IF k \in ones THEN 1 ELSE 0
<1> DEFINE b(k) == IF k \in ones THEN 1 ELSE 0
           Equation(f) == f = [k \in 0 .. n - 1 |-> IF k = 0 THEN -sign ELSE 2 * f[k - 1] + b(k)]
           value == CHOOSE f : Equation(f)
           v == value[n - 1]
<1>0. LongWidth \in Nat /\ n \in Nat /\ n >= 1 /\ n <= LongWidth /\ n - 1 \in Nat /\ -sign \in Int
  BY WidthAssumption, SMT
<1>1. Word(sign, ones, n) = v
  BY DEF Word
<1>2. \E f \in [0 .. n - 1 -> Int] : Equation(f)
  <2> DEFINE g == [p \in Int \X (1 .. n - 1) |-> 2 * p[1] + b(p[2])]
  <2>1. g \in [Int \X (1 .. n - 1) -> Int]
    BY SMT
  <2>2. PICK f \in [0 .. n - 1 -> Int] : f[0] = -sign /\ \A k \in 1 .. n - 1 : f[k] = g[<<f[k - 1], k>>]
    <3> HIDE DEF g
    <3> QED BY <2>1, <1>0, Recursion
  <2>3. \A k \in 1 .. n - 1 : f[k] = 2 * f[k - 1] + b(k)
    <3> SUFFICES ASSUME NEW k \in 1 .. n - 1 PROVE f[k] = 2 * f[k - 1] + b(k)
      OBVIOUS
    <3>0. k - 1 \in 0 .. n - 1
      BY <1>0, SMT
    <3>1. f[k - 1] \in Int
      BY <3>0
    <3>2. g[<<f[k - 1], k>>] = 2 * f[k - 1] + b(k)
      BY <3>1
    <3> QED BY <2>2, <3>2
  <2>4. \A k \in 0 .. n - 1 : f[k] = IF k = 0 THEN -sign ELSE 2 * f[k - 1] + b(k)
    <3>1. \A k \in 0 .. n - 1 : k = 0 \/ k \in 1 .. n - 1
      BY <1>0, SMT
    <3> HIDE DEF b
    <3> QED BY <2>2, <2>3, <3>1
  <2>5. Equation(f)
    <3> HIDE DEF b
    <3> QED BY <2>4
  <2> QED BY <2>5
<1>3. Equation(value)
  BY <1>2
<1> HIDE DEF value
<1>4. /\ \A k \in 0 .. n - 1 : value[k] = IF k = 0 THEN -sign ELSE 2 * value[k - 1] + b(k)
      /\ value[0] = -sign
  <2>1. 0 \in 0 .. n - 1
    BY <1>0, SMT
  <2> QED BY <1>3, <2>1
<1>5. \A k \in 0 .. n - 1 : value[k] \in Int
  <2> DEFINE S == {k \in 0 .. n - 1 : value[k] \in Int}
  <2>1. 0 \in S
    BY <1>0, <1>4, SMT
  <2>2. \A k \in 0 + 1 .. n - 1 : k - 1 \in S => k \in S
    <3> SUFFICES ASSUME NEW k \in 1 .. n - 1, k - 1 \in S PROVE k \in S
      OBVIOUS
    <3>1. k \in 0 .. n - 1 /\ k # 0
      BY <1>0, SMT
    <3>2. value[k] = 2 * value[k - 1] + b(k) /\ value[k - 1] \in Int
      BY <1>4, <3>1
    <3>3. b(k) \in Int
      BY SMT
    <3> QED BY <3>1, <3>2, <3>3, SMT
  <2>3. 0 \in Nat
    OBVIOUS
  <2>4. \A k \in 0 .. n - 1 : k \in S
    <3> HIDE DEF S
    <3> QED BY <1>0, <2>1, <2>2, <2>3, Upward
  <2> QED BY <2>4
<1>6. v \in Int
  BY <1>0, <1>5, SMT
<1> HIDE DEF b
<1> DEFINE S == {k \in 0 .. n - 1 : Without(v, n - 1 - k) = value[k]}
<1>7. \A k \in 0 .. (n - 1) - 1 : k + 1 \in S => k \in S /\ Bit(v, n - 1 - (k + 1)) = b(k + 1)
  <2> SUFFICES ASSUME NEW k \in 0 .. (n - 1) - 1, k + 1 \in S
               PROVE  Without(v, n - 1 - k) = value[k] /\ Bit(v, n - 1 - (k + 1)) = b(k + 1)
    BY <1>0, SMT
  <2> DEFINE j == n - 1 - (k + 1)
  <2>1. j \in 0 .. LongWidth /\ j + 1 = n - 1 - k /\ k + 1 \in 0 .. n - 1 /\ k + 1 # 0 /\ (k + 1) - 1 = k
        /\ k \in 0 .. n - 1
    BY <1>0, SMT
  <2>2. Without(v, j) = 2 * Without(v, j + 1) + Bit(v, j) /\ Bit(v, j) \in {0, 1} /\ Without(v, j + 1) \in Int
    <3> HIDE DEF v, j
    <3> QED BY <1>6, <2>1, OneBitMore
  <2>3. value[k + 1] = 2 * value[k] + b(k + 1) /\ value[k] \in Int /\ b(k + 1) \in {0, 1}
    BY <1>4, <1>5, <2>1 DEF b
  <2>4. Without(v, j) = value[k + 1]
    OBVIOUS
  <2> DEFINE x == Without(v, j + 1)  y == Bit(v, j)  z == value[k]  t == b(k + 1)
  <2>5. 2 * x + y = 2 * z + t /\ x \in Int /\ z \in Int /\ y \in {0, 1} /\ t \in {0, 1}
    BY <2>2, <2>3, <2>4
  <2> HIDE DEF x, y, z, t
  <2>6. x = z /\ y = t
    BY <2>5, SMT
  <2> QED BY <2>1, <2>6 DEF x, y, z, t
<1>8. n - 1 \in S
  <2>1. n - 1 - (n - 1) = 0 /\ n - 1 \in 0 .. n - 1
    BY <1>0, SMT
  <2> QED BY <1>6, <2>1, NothingDropped
<1>9. \A k \in 0 .. n - 1 : k \in S
  <2>1. \A i \in 0 .. (n - 1) - 1 : i + 1 \in S => i \in S
    BY <1>7
  <2> HIDE DEF S
  <2> QED BY <1>0, <1>8, <2>1, Downward
<1>10. v \in WordsOf(n) /\ Prefix(v, n, 0) = -sign
  <2>1. 0 \in 0 .. n - 1 /\ n - 1 - 0 = n - 1
    BY <1>0, SMT
  <2>2. Without(v, n - 1) = -sign
    BY <1>4, <1>9, <2>1
  <2>3. Without(v, n - 1) \in {-1, 0}
    BY <2>2, SMT
  <2> QED BY <1>6, <2>1, <2>2, <2>3, WordsAre DEF Prefix
<1>11. Bits(v, n)[0] = sign
  <2>1. Prefix(v, n, 0) = -Bits(v, n)[0] /\ Bits(v, n)[0] \in {0, 1}
    <3>1. /\ Prefix(v, n, 0) = -Bits(v, n)[0] /\ Bits(v, n)[0] = IF v < 0 THEN 1 ELSE 0
      BY <1>10, Positioned
    <3> QED BY <3>1
  <2> QED BY <1>10, <2>1, SMT
<1>12. \A k \in 1 .. n - 1 : Bits(v, n)[k] = b(k)
  <2> SUFFICES ASSUME NEW k \in 1 .. n - 1 PROVE Bits(v, n)[k] = b(k)
    OBVIOUS
  <2>1. k - 1 \in 0 .. (n - 1) - 1 /\ (k - 1) + 1 = k /\ k \in 0 .. n - 1
    BY <1>0, SMT
  <2>2. Bit(v, n - 1 - k) = b(k)
    <3>1. k \in S
      BY <1>9, <2>1
    <3>2. Bit(v, n - 1 - ((k - 1) + 1)) = b((k - 1) + 1)
      <4> HIDE DEF S
      <4> QED BY <1>7, <2>1, <3>1
    <3> QED BY <3>2, <2>1
  <2>3. Bits(v, n)[k] = Bit(v, n - 1 - k)
    BY <1>10, <2>1, Positioned
  <2> QED BY <2>2, <2>3
<1> HIDE DEF v
<1> QED
  BY <1>1, <1>10, <1>11, <1>12 DEF b

-----------------------------------------------------------------------------
(* The order of words is the order of their first difference.              *)

\* a set between two bounds has a least and a greatest member
LEMMA BoundedExtremes ==
    ASSUME NEW l \in Int, NEW h \in Int, NEW T \in SUBSET (l .. h), T # {}
    PROVE  /\ Min(T) \in T /\ \A x \in T : Min(T) <= x
           /\ Max(T) \in T /\ \A x \in T : x <= Max(T)
<1>1. \E x \in T : \A y \in T : x <= y
  <2> DEFINE D == {d \in Nat : l + d \in T}
  <2>1. \A x \in T : x \in Int /\ x - l \in D /\ l + (x - l) = x
    BY SMT
  <2>2. D \in SUBSET Nat /\ D # {}
    BY <2>1
  <2>3. PICK d \in D : \A e \in D : d <= e
    <3> HIDE DEF D
    <3> QED BY <2>2, LeastNatural
  <2>4. d \in Nat /\ l + d \in T
    BY <2>3
  <2>5. \A y \in T : l + d <= y
    <3> SUFFICES ASSUME NEW y \in T PROVE l + d <= y
      OBVIOUS
    <3>1. y \in Int /\ d <= y - l
      BY <2>1, <2>3
    <3> QED BY <3>1, <2>4, SMT
  <2> QED BY <2>4, <2>5
<1>2. \E x \in T : \A y \in T : x >= y
  <2> DEFINE D == {d \in Nat : h - d \in T}
  <2>1. \A x \in T : x \in Int /\ h - x \in D /\ h - (h - x) = x
    BY SMT
  <2>2. D \in SUBSET Nat /\ D # {}
    BY <2>1
  <2>3. PICK d \in D : \A e \in D : d <= e
    <3> HIDE DEF D
    <3> QED BY <2>2, LeastNatural
  <2>4. d \in Nat /\ h - d \in T
    BY <2>3
  <2>5. \A y \in T : h - d >= y
    <3> SUFFICES ASSUME NEW y \in T PROVE h - d >= y
      OBVIOUS
    <3>1. y \in Int /\ d <= h - y
      BY <2>1, <2>3
    <3> QED BY <3>1, <2>4, SMT
  <2> QED BY <2>4, <2>5
<1>3. Min(T) \in T /\ \A x \in T : Min(T) <= x
  BY <1>1 DEF Min
<1>4. Max(T) \in T /\ \A x \in T : Max(T) >= x
  BY <1>2 DEF Max
<1>5. \A x \in T : x \in Int
  BY SMT
<1> QED
  BY <1>3, <1>4, <1>5, SMT

\* equal positions make equal prefixes, and equal prefixes have equal positions
LEMMA SamePrefix ==
    ASSUME NEW n \in 1 .. LongWidth, NEW u \in WordsOf(n), NEW v \in WordsOf(n), NEW m \in 0 .. n - 1
    PROVE  Prefix(u, n, m) = Prefix(v, n, m) <=> \A k \in 0 .. m : Bits(u, n)[k] = Bits(v, n)[k]
<1>0. n \in Nat /\ n >= 1 /\ m \in Nat /\ 0 \in 0 .. n - 1 /\ 0 \in 0 .. m
      /\ \A k \in 0 .. m : k \in 0 .. n - 1
  BY WidthAssumption, SMT
<1> DEFINE p(k) == Prefix(u, n, k)  q(k) == Prefix(v, n, k)  b(k) == Bits(u, n)[k]  c(k) == Bits(v, n)[k]
<1>1. /\ p(0) = -b(0) /\ q(0) = -c(0)
      /\ \A k \in 0 .. n - 1 : p(k) \in Int /\ q(k) \in Int /\ b(k) \in {0, 1} /\ c(k) \in {0, 1}
      /\ \A k \in 1 .. n - 1 : p(k) = 2 * p(k - 1) + b(k) /\ q(k) = 2 * q(k - 1) + c(k)
  <2>1. /\ p(0) = -b(0) /\ \A k \in 1 .. n - 1 : p(k) = 2 * p(k - 1) + b(k)
        /\ Bits(u, n) \in [0 .. n - 1 -> {0, 1}] /\ \A k \in 0 .. n - 1 : p(k) \in Int
    BY Positioned
  <2>2. /\ q(0) = -c(0) /\ \A k \in 1 .. n - 1 : q(k) = 2 * q(k - 1) + c(k)
        /\ Bits(v, n) \in [0 .. n - 1 -> {0, 1}] /\ \A k \in 0 .. n - 1 : q(k) \in Int
    BY Positioned
  <2>3. \A k \in 0 .. n - 1 : b(k) \in {0, 1} /\ c(k) \in {0, 1}
    BY <2>1, <2>2
  <2> HIDE DEF p, q, b, c
  <2> QED BY <2>1, <2>2, <2>3
<1> SUFFICES p(m) = q(m) <=> \A k \in 0 .. m : b(k) = c(k)
  OBVIOUS
<1> HIDE DEF p, q, b, c
<1>2. ASSUME \A k \in 0 .. m : b(k) = c(k) PROVE p(m) = q(m)
  <2> DEFINE S == {k \in 0 .. m : p(k) = q(k)}
  <2>1. 0 \in S
    BY <1>0, <1>1, <1>2
  <2>2. \A k \in 0 + 1 .. m : k - 1 \in S => k \in S
    <3> SUFFICES ASSUME NEW k \in 1 .. m, k - 1 \in S PROVE k \in S
      OBVIOUS
    <3>1. k \in 0 .. m /\ k \in 1 .. n - 1
      BY <1>0, SMT
    <3> QED BY <1>1, <1>2, <3>1
  <2>3. m \in 0 .. m /\ 0 \in Nat
    BY <1>0, SMT
  <2>4. m \in S
    <3> HIDE DEF S
    <3> QED BY <1>0, <2>1, <2>2, <2>3, Upward
  <2> QED BY <2>4
<1>3. ASSUME p(m) = q(m) PROVE \A k \in 0 .. m : b(k) = c(k)
  <2> DEFINE S == {k \in 0 .. m : p(k) = q(k)}
  <2>1. m \in S
    BY <1>0, <1>3, SMT
  <2>2. \A k \in 0 .. m - 1 : k + 1 \in S => k \in S
    <3> SUFFICES ASSUME NEW k \in 0 .. m - 1, k + 1 \in S PROVE k \in S
      OBVIOUS
    <3>1. k \in 0 .. m /\ k \in 0 .. n - 1 /\ k + 1 \in 1 .. n - 1 /\ k + 1 \in 0 .. n - 1 /\ (k + 1) - 1 = k
      BY <1>0, SMT
    <3>2. p(k + 1) = 2 * p(k) + b(k + 1) /\ q(k + 1) = 2 * q(k) + c(k + 1)
      BY <1>1, <3>1
    <3>3. p(k) \in Int /\ q(k) \in Int /\ b(k + 1) \in {0, 1} /\ c(k + 1) \in {0, 1}
      BY <1>1, <3>1
    <3>4. p(k + 1) = q(k + 1)
      OBVIOUS
    <3>5. p(k) = q(k)
      BY <3>2, <3>3, <3>4, SMT
    <3> QED BY <3>1, <3>5
  <2>3. \A k \in 0 .. m : k \in S
    <3> HIDE DEF S
    <3> QED BY <1>0, <2>1, <2>2, Downward
  <2> SUFFICES ASSUME NEW k \in 0 .. m PROVE b(k) = c(k)
    OBVIOUS
  <2>4. p(k) = q(k)
    BY <2>3
  <2>5. CASE k = 0
    <3>1. -b(0) = -c(0) /\ b(0) \in {0, 1} /\ c(0) \in {0, 1}
      BY <1>0, <1>1, <2>4, <2>5
    <3>2. b(0) = c(0)
      BY <3>1, SMT
    <3> QED BY <2>5, <3>2
  <2>6. CASE k # 0
    <3>1. k - 1 \in 0 .. m /\ k \in 1 .. n - 1 /\ k - 1 \in 0 .. n - 1
      BY <1>0, <2>6, SMT
    <3>2. p(k - 1) = q(k - 1) /\ p(k) = 2 * p(k - 1) + b(k) /\ q(k) = 2 * q(k - 1) + c(k)
      BY <1>1, <2>3, <3>1
    <3>3. p(k - 1) \in Int /\ b(k) \in {0, 1} /\ c(k) \in {0, 1}
      BY <1>0, <1>1, <3>1
    <3>4. 2 * p(k - 1) + b(k) = 2 * p(k - 1) + c(k)
      BY <2>4, <3>2
    <3>5. b(k) = c(k)
      BY <3>3, <3>4, SMT
    <3> QED BY <3>5
  <2> QED BY <2>5, <2>6
<1> QED
  BY <1>2, <1>3

\* words with the same bits are the same
LEMMA SameWord ==
    ASSUME NEW n \in 1 .. LongWidth, NEW u \in WordsOf(n), NEW v \in WordsOf(n),
           \A k \in 0 .. n - 1 : Bits(u, n)[k] = Bits(v, n)[k]
    PROVE  u = v
<1>1. n - 1 \in 0 .. n - 1
  BY WidthAssumption, SMT
<1>2. Prefix(u, n, n - 1) = Prefix(v, n, n - 1)
  BY <1>1, SamePrefix
<1> QED
  BY <1>2, Positioned

\* the prefixes of words are ordered as the words, and where they differ
\* decide their order
LEMMA PrefixesInOrder ==
    ASSUME NEW n \in 1 .. LongWidth, NEW u \in WordsOf(n), NEW v \in WordsOf(n), NEW k \in 0 .. n - 1
    PROVE  /\ u <= v => Prefix(u, n, k) <= Prefix(v, n, k)
           /\ Prefix(u, n, k) < Prefix(v, n, k) => u < v
<1>1. u \in Int /\ v \in Int /\ n - 1 - k \in 0 .. LongWidth
  BY Positioned, WidthAssumption, SMT
<1>2. u <= v => Prefix(u, n, k) <= Prefix(v, n, k)
  BY <1>1, DroppedInOrder DEF Prefix
<1>3. v <= u => Prefix(v, n, k) <= Prefix(u, n, k)
  BY <1>1, DroppedInOrder DEF Prefix
<1>4. Prefix(u, n, k) \in Int /\ Prefix(v, n, k) \in Int
  BY Positioned
<1> QED
  BY <1>1, <1>2, <1>3, <1>4, SMT

\* a word is at most another when its prefix is and no later bit is larger
LEMMA Dominated ==
    ASSUME NEW n \in 1 .. LongWidth, NEW u \in WordsOf(n), NEW v \in WordsOf(n), NEW m \in 0 .. n - 1,
           Prefix(u, n, m) <= Prefix(v, n, m),
           \A k \in m + 1 .. n - 1 : Bits(u, n)[k] <= Bits(v, n)[k]
    PROVE  u <= v
<1>0. n \in Nat /\ n >= 1 /\ m \in Nat /\ n - 1 \in Nat /\ n - 1 \in m .. n - 1 /\ m \in m .. n - 1
  BY WidthAssumption, SMT
<1> DEFINE S == {k \in m .. n - 1 : Prefix(u, n, k) <= Prefix(v, n, k)}
<1>1. m \in S
  BY <1>0
<1>2. \A k \in m + 1 .. n - 1 : k - 1 \in S => k \in S
  <2> SUFFICES ASSUME NEW k \in m + 1 .. n - 1, k - 1 \in S
               PROVE  Prefix(u, n, k) <= Prefix(v, n, k)
    BY <1>0, SMT
  <2>1. k \in 1 .. n - 1 /\ k - 1 \in 0 .. n - 1 /\ k \in 0 .. n - 1
    BY <1>0, SMT
  <2>2. /\ Prefix(u, n, k) = 2 * Prefix(u, n, k - 1) + Bits(u, n)[k]
        /\ Prefix(u, n, k - 1) \in Int /\ Bits(u, n) \in [0 .. n - 1 -> {0, 1}]
    BY <2>1, Positioned
  <2>3. /\ Prefix(v, n, k) = 2 * Prefix(v, n, k - 1) + Bits(v, n)[k]
        /\ Prefix(v, n, k - 1) \in Int /\ Bits(v, n) \in [0 .. n - 1 -> {0, 1}]
    BY <2>1, Positioned
  <2> DEFINE x == Prefix(u, n, k - 1)  y == Prefix(v, n, k - 1)  b == Bits(u, n)[k]  c == Bits(v, n)[k]
  <2>4. x \in Int /\ y \in Int /\ b \in {0, 1} /\ c \in {0, 1} /\ b <= c /\ x <= y
    BY <2>1, <2>2, <2>3
  <2>5. Prefix(u, n, k) = 2 * x + b /\ Prefix(v, n, k) = 2 * y + c
    BY <2>2, <2>3
  <2> HIDE DEF x, y, b, c
  <2>6. 2 * x + b <= 2 * y + c
    BY <2>4, SMT
  <2> QED BY <2>5, <2>6
<1>3. n - 1 \in S
  <2> HIDE DEF S
  <2> QED BY <1>0, <1>1, <1>2, Upward
<1> QED
  BY <1>3, Positioned

-----------------------------------------------------------------------------
(* Patterns.                                                               *)

Patterns(n) == {p \in [0 .. n - 1 -> 0 .. Free] : p[0] \in {0, 1}}

Matches(v, p, n) == \A k \in 0 .. n - 1 : p[k] = Free \/ Bits(v, n)[k] = p[k]

\* what the last position with a value says of the positions behind it
LEMMA LastIsLast ==
    ASSUME NEW n \in Nat \ {0}, NEW p \in [0 .. n - 1 -> 0 .. Free], NEW v
    PROVE  LET l == LastPosition(p, v)
           IN  /\ l \in 0 .. n - 1 /\ (l # 0 => p[l] = v)
               /\ \A k \in l + 1 .. n - 1 : p[k] # v
<1> DEFINE T == {0} \cup Positions(p, v)  l == Max(T)
<1>1. T \in SUBSET (0 .. n - 1) /\ T # {}
  BY SMT DEF Positions
<1>2. l \in T /\ \A x \in T : x <= l
  <2>1. 0 \in Int /\ n - 1 \in Int
    BY SMT
  <2> HIDE DEF T
  <2> QED BY <1>1, <2>1, BoundedExtremes
<1>3. l \in 0 .. n - 1 /\ (l # 0 => p[l] = v)
  <2>1. l \in 0 .. n - 1
    <3> HIDE DEF T, l
    <3> QED BY <1>1, <1>2
  <2>2. l # 0 => l \in Positions(p, v)
    <3> HIDE DEF l
    <3> QED BY <1>2
  <2> HIDE DEF l
  <2> QED BY <2>1, <2>2 DEF Positions
<1>4. \A k \in l + 1 .. n - 1 : p[k] # v
  <2> HIDE DEF l
  <2> SUFFICES ASSUME NEW k \in l + 1 .. n - 1, p[k] = v PROVE FALSE
    OBVIOUS
  <2>1. k \in 0 .. n - 1 /\ k # 0 /\ ~(k <= l)
    BY <1>3, SMT
  <2>2. k \in T
    BY <2>1 DEF Positions
  <2> QED BY <1>2, <2>1, <2>2
<1> QED
  BY <1>3, <1>4 DEF LastPosition

\* a cut pattern is matched by what begins as it does
LEMMA CutMatches ==
    ASSUME NEW n \in Nat \ {0}, NEW b \in [0 .. n - 1 -> {0, 1}], NEW m \in 0 .. n - 1, NEW v
    PROVE  /\ Cut(b, m) \in Patterns(n)
           /\ Matches(v, Cut(b, m), n) <=> \A k \in 0 .. m : Bits(v, n)[k] = b[k]
<1>1. DOMAIN b = 0 .. n - 1 /\ 0 \in 0 .. n - 1 /\ 0 <= m /\ m \in Int
  BY SMT
<1>2. Cut(b, m) = [j \in 0 .. n - 1 |-> IF j <= m THEN b[j] ELSE Free]
  BY <1>1 DEF Cut
<1>3. \A j \in 0 .. n - 1 : b[j] \in 0 .. Free /\ b[j] # Free /\ Free \in 0 .. Free
  BY SMT DEF Free
<1>4. Cut(b, m) \in [0 .. n - 1 -> 0 .. Free]
  BY <1>2, <1>3
<1>5. Cut(b, m)[0] \in {0, 1}
  BY <1>1, <1>2
<1>6. \A k : k \in 0 .. m <=> k \in 0 .. n - 1 /\ k <= m
  BY SMT
<1>7. Matches(v, Cut(b, m), n) <=> \A k \in 0 .. m : Bits(v, n)[k] = b[k]
  <2>1. \A k \in 0 .. n - 1 : Cut(b, m)[k] = IF k <= m THEN b[k] ELSE Free
    BY <1>2
  <2> QED BY <1>3, <1>6, <2>1 DEF Matches
<1> QED
  BY <1>4, <1>5, <1>7 DEF Patterns

\* a flipped pattern by what first differs from it at the position
LEMMA FlipMatches ==
    ASSUME NEW n \in Nat \ {0}, NEW b \in [0 .. n - 1 -> {0, 1}], NEW m \in 1 .. n - 1, NEW v
    PROVE  /\ Flip(b, m) \in Patterns(n)
           /\ Matches(v, Flip(b, m), n) <=>
                  /\ \A k \in 0 .. m - 1 : Bits(v, n)[k] = b[k]
                  /\ Bits(v, n)[m] = 1 - b[m]
<1>1. m \in 0 .. n - 1 /\ m \in Int /\ 0 \in 0 .. n - 1 /\ 0 # m /\ 0 <= m
  BY SMT
<1>2. Cut(b, m) \in Patterns(n) /\ Cut(b, m) \in [0 .. n - 1 -> 0 .. Free]
  BY <1>1, CutMatches DEF Patterns
<1>3. \A j \in 0 .. n - 1 : Cut(b, m)[j] = IF j <= m THEN b[j] ELSE Free
  <2>1. DOMAIN b = 0 .. n - 1
    OBVIOUS
  <2> QED BY <2>1 DEF Cut
<1>4. \A j \in 0 .. n - 1 : Flip(b, m)[j] = IF j = m THEN 1 - b[m] ELSE IF j <= m THEN b[j] ELSE Free
  <2>1. DOMAIN Cut(b, m) = 0 .. n - 1
    BY <1>2
  <2> QED BY <1>3, <2>1 DEF Flip
<1>5. \A j \in 0 .. n - 1 : b[j] # Free /\ 1 - b[j] # Free /\ 1 - b[j] \in 0 .. Free
  <2> SUFFICES ASSUME NEW j \in 0 .. n - 1
               PROVE  b[j] # Free /\ 1 - b[j] # Free /\ 1 - b[j] \in 0 .. Free
    OBVIOUS
  <2> DEFINE x == b[j]
  <2>1. x \in {0, 1}
    OBVIOUS
  <2> HIDE DEF x
  <2>2. x # Free /\ 1 - x # Free /\ 1 - x \in 0 .. Free
    BY <2>1, SMT DEF Free
  <2> QED BY <2>2 DEF x
<1>6. Flip(b, m) \in [0 .. n - 1 -> 0 .. Free]
  <2>1. 1 - b[m] \in 0 .. Free
    BY <1>1, <1>5
  <2> QED BY <1>2, <2>1 DEF Flip
<1>7. Flip(b, m)[0] \in {0, 1}
  BY <1>1, <1>4
<1>8. \A k : k \in 0 .. m - 1 <=> k \in 0 .. n - 1 /\ k <= m /\ k # m
  BY SMT
<1>9. Matches(v, Flip(b, m), n) <=> /\ \A k \in 0 .. m - 1 : Bits(v, n)[k] = b[k]
                                    /\ Bits(v, n)[m] = 1 - b[m]
  BY <1>1, <1>4, <1>5, <1>8 DEF Matches
<1> QED
  BY <1>6, <1>7, <1>9 DEF Patterns

\* the words that begin like l up to position t are at least l exactly when
\* they match one of l's patterns
LEMMA AboveLower ==
    ASSUME NEW n \in 1 .. LongWidth, NEW l \in WordsOf(n), NEW v \in WordsOf(n), NEW t \in 0 .. n - 1,
           Prefix(v, n, t) = Prefix(l, n, t)
    PROVE  LET b == Bits(l, n)  start == LastPosition(b, 1)
           IN  l <= v <=> \/ Matches(v, Cut(b, Max2(start, t)), n)
                          \/ \E k \in {j \in t + 1 .. start - 1 : b[j] = 0} : Matches(v, Flip(b, k), n)
<1> DEFINE b == Bits(l, n)  c == Bits(v, n)  start == LastPosition(b, 1)  m == Max2(start, t)
<1>0. n \in Nat \ {0} /\ t \in Int /\ 0 <= t
  BY WidthAssumption, SMT
<1>1. /\ b \in [0 .. n - 1 -> {0, 1}] /\ c \in [0 .. n - 1 -> {0, 1}]
      /\ \A k \in 0 .. n - 1 : Prefix(l, n, k) \in Int /\ Prefix(v, n, k) \in Int
      /\ \A k \in 1 .. n - 1 : Prefix(l, n, k) = 2 * Prefix(l, n, k - 1) + b[k]
      /\ \A k \in 1 .. n - 1 : Prefix(v, n, k) = 2 * Prefix(v, n, k - 1) + c[k]
  BY Positioned
<1>2. start \in 0 .. n - 1 /\ (start # 0 => b[start] = 1) /\ \A k \in start + 1 .. n - 1 : b[k] # 1
  <2>1. b \in [0 .. n - 1 -> 0 .. Free]
    <3>1. \A k \in 0 .. n - 1 : b[k] \in 0 .. Free
      BY <1>1, SMT DEF Free
    <3> HIDE DEF b
    <3> QED BY <1>1, <3>1
  <2> HIDE DEF b
  <2> QED BY <1>0, <2>1, LastIsLast
<1>3. m \in 0 .. n - 1 /\ start <= m /\ t <= m /\ (m = t \/ (m = start /\ t < start))
  <2>1. start \in 0 .. n - 1
    BY <1>2
  <2>2. m = IF start >= t THEN start ELSE t
    BY DEF Max2
  <2> HIDE DEF start, m
  <2> QED BY <1>0, <2>1, <2>2, SMT
<1>4. \A k \in 0 .. t : c[k] = b[k]
  BY SamePrefix
<1> HIDE DEF b, c, start, m
<1>5. Matches(v, Cut(b, m), n) <=> \A k \in 0 .. m : c[k] = b[k]
  <2>1. b \in [0 .. n - 1 -> {0, 1}] /\ m \in 0 .. n - 1
    BY <1>1, <1>3
  <2>2. Matches(v, Cut(b, m), n) <=> \A k \in 0 .. m : Bits(v, n)[k] = b[k]
    BY <1>0, <2>1, CutMatches
  <2> QED BY <2>2 DEF c
<1>6. \A k \in t + 1 .. start - 1 :
        /\ k \in 1 .. n - 1 /\ k \in 0 .. n - 1 /\ k - 1 \in 0 .. n - 1
        /\ Matches(v, Flip(b, k), n) <=> (\A j \in 0 .. k - 1 : c[j] = b[j]) /\ c[k] = 1 - b[k]
  <2> SUFFICES ASSUME NEW k \in t + 1 .. start - 1
               PROVE  /\ k \in 1 .. n - 1 /\ k \in 0 .. n - 1 /\ k - 1 \in 0 .. n - 1
                      /\ Matches(v, Flip(b, k), n) <=> (\A j \in 0 .. k - 1 : c[j] = b[j]) /\ c[k] = 1 - b[k]
    OBVIOUS
  <2>1. k \in 1 .. n - 1 /\ k \in 0 .. n - 1 /\ k - 1 \in 0 .. n - 1
    BY <1>0, <1>2, SMT
  <2>2. b \in [0 .. n - 1 -> {0, 1}]
    BY <1>1
  <2>3. Matches(v, Flip(b, k), n) <=> (\A j \in 0 .. k - 1 : Bits(v, n)[j] = b[j]) /\ Bits(v, n)[k] = 1 - b[k]
    BY <1>0, <2>1, <2>2, FlipMatches
  <2> QED BY <2>1, <2>3 DEF c
<1>7. ASSUME Matches(v, Cut(b, m), n) PROVE l <= v
  <2>1. Prefix(l, n, m) = Prefix(v, n, m)
    BY <1>3, <1>5, <1>7, SamePrefix DEF b, c
  <2>2. \A k \in m + 1 .. n - 1 : b[k] <= c[k]
    <3> SUFFICES ASSUME NEW k \in m + 1 .. n - 1 PROVE b[k] <= c[k]
      OBVIOUS
    <3>1. k \in start + 1 .. n - 1 /\ k \in 0 .. n - 1
      BY <1>0, <1>2, <1>3, SMT
    <3>2. b[k] = 0 /\ c[k] \in {0, 1}
      BY <1>1, <1>2, <3>1
    <3> QED BY <3>2, SMT
  <2>3. Prefix(l, n, m) <= Prefix(v, n, m)
    BY <1>1, <1>3, <2>1, SMT
  <2> QED BY <1>3, <2>2, <2>3, Dominated DEF b, c
<1>8. ASSUME NEW k \in {j \in t + 1 .. start - 1 : b[j] = 0}, Matches(v, Flip(b, k), n) PROVE l <= v
  <2>1. k \in 1 .. n - 1 /\ k \in 0 .. n - 1 /\ k - 1 \in 0 .. n - 1 /\ b[k] = 0
        /\ (\A j \in 0 .. k - 1 : c[j] = b[j]) /\ c[k] = 1 - b[k]
    BY <1>6, <1>8
  <2>2. Prefix(v, n, k - 1) = Prefix(l, n, k - 1)
    BY <2>1, SamePrefix DEF b, c
  <2>3. Prefix(l, n, k) = 2 * Prefix(l, n, k - 1) + b[k] /\ Prefix(v, n, k) = 2 * Prefix(v, n, k - 1) + c[k]
    BY <1>1, <2>1
  <2>4. Prefix(l, n, k - 1) \in Int
    BY <1>1, <2>1
  <2>5. Prefix(l, n, k) < Prefix(v, n, k)
    <3>1. c[k] = 1
      BY <2>1, SMT
    <3>2. Prefix(l, n, k) = 2 * Prefix(l, n, k - 1) + 0 /\ Prefix(v, n, k) = 2 * Prefix(l, n, k - 1) + 1
      BY <2>1, <2>2, <2>3, <3>1
    <3> QED BY <2>4, <3>2, SMT
  <2>6. l < v
    BY <2>1, <2>5, PrefixesInOrder
  <2> QED BY <2>6, Positioned, SMT
<1>9. ASSUME l <= v, ~Matches(v, Cut(b, m), n)
      PROVE  \E k \in {j \in t + 1 .. start - 1 : b[j] = 0} : Matches(v, Flip(b, k), n)
  <2> DEFINE T == {k \in 0 .. m : c[k] # b[k]}
  <2>1. T # {} /\ T \in SUBSET Nat
    BY <1>5, <1>9, SMT
  <2>2. PICK k \in T : \A j \in T : k <= j
    <3> HIDE DEF T
    <3> QED BY <2>1, LeastNatural
  <2>3. k \in 0 .. m /\ c[k] # b[k]
    BY <2>2
  <2>4. \A j \in 0 .. k - 1 : c[j] = b[j]
    <3> SUFFICES ASSUME NEW j \in 0 .. k - 1 PROVE c[j] = b[j]
      OBVIOUS
    <3>1. j \in 0 .. m /\ ~(k <= j)
      BY <1>3, <2>3, SMT
    <3> QED BY <2>2, <3>1
  <2>5. ~(k <= t)
    <3> SUFFICES ASSUME k <= t PROVE FALSE
      OBVIOUS
    <3>1. k \in 0 .. t
      BY <1>0, <2>3, SMT
    <3> QED BY <1>4, <2>3, <3>1
  <2>6. m = start /\ t < start /\ k \in 1 .. n - 1 /\ k \in t + 1 .. start /\ k - 1 \in 0 .. n - 1 /\ k \in 0 .. n - 1
    BY <1>0, <1>2, <1>3, <2>3, <2>5, SMT
  <2>7. Prefix(v, n, k - 1) = Prefix(l, n, k - 1)
    BY <2>4, <2>6, SamePrefix DEF b, c
  <2>8. Prefix(l, n, k) <= Prefix(v, n, k)
    BY <1>9, <2>6, PrefixesInOrder
  <2>9. b[k] = 0 /\ c[k] = 1
    <3>1. Prefix(l, n, k) = 2 * Prefix(l, n, k - 1) + b[k] /\ Prefix(v, n, k) = 2 * Prefix(l, n, k - 1) + c[k]
          /\ Prefix(l, n, k - 1) \in Int /\ b[k] \in {0, 1} /\ c[k] \in {0, 1}
      BY <1>1, <2>6, <2>7
    <3> DEFINE x == Prefix(l, n, k - 1)  y == b[k]  z == c[k]
    <3>2. 2 * x + y <= 2 * x + z /\ x \in Int /\ y \in {0, 1} /\ z \in {0, 1} /\ z # y
      BY <2>3, <2>8, <3>1
    <3> HIDE DEF x, y, z
    <3>3. y = 0 /\ z = 1
      BY <3>2, SMT
    <3> QED BY <3>3 DEF y, z
  <2>10. k # start
    BY <1>0, <1>2, <2>6, <2>9, SMT
  <2>11. k \in t + 1 .. start - 1
    BY <1>0, <1>2, <2>6, <2>10, SMT
  <2>12. c[k] = 1 - b[k]
    BY <2>9, SMT
  <2> QED BY <1>6, <2>4, <2>9, <2>11, <2>12
<1> QED
  BY <1>7, <1>8, <1>9 DEF b, start, m

\* the words that begin like h up to position t are at most h exactly when
\* they match one of h's patterns
LEMMA BelowUpper ==
    ASSUME NEW n \in 1 .. LongWidth, NEW h \in WordsOf(n), NEW v \in WordsOf(n), NEW t \in 0 .. n - 1,
           Prefix(v, n, t) = Prefix(h, n, t)
    PROVE  LET b == Bits(h, n)  start == LastPosition(b, 0)
           IN  v <= h <=> \/ Matches(v, Cut(b, Max2(start, t)), n)
                          \/ \E k \in {j \in t + 1 .. start - 1 : b[j] = 1} : Matches(v, Flip(b, k), n)
<1> DEFINE b == Bits(h, n)  c == Bits(v, n)  start == LastPosition(b, 0)  m == Max2(start, t)
<1>0. n \in Nat \ {0} /\ t \in Int /\ 0 <= t
  BY WidthAssumption, SMT
<1>1. /\ b \in [0 .. n - 1 -> {0, 1}] /\ c \in [0 .. n - 1 -> {0, 1}]
      /\ \A k \in 0 .. n - 1 : Prefix(h, n, k) \in Int /\ Prefix(v, n, k) \in Int
      /\ \A k \in 1 .. n - 1 : Prefix(h, n, k) = 2 * Prefix(h, n, k - 1) + b[k]
      /\ \A k \in 1 .. n - 1 : Prefix(v, n, k) = 2 * Prefix(v, n, k - 1) + c[k]
  BY Positioned
<1>2. start \in 0 .. n - 1 /\ (start # 0 => b[start] = 0) /\ \A k \in start + 1 .. n - 1 : b[k] # 0
  <2>1. b \in [0 .. n - 1 -> 0 .. Free]
    <3>1. \A k \in 0 .. n - 1 : b[k] \in 0 .. Free
      BY <1>1, SMT DEF Free
    <3> HIDE DEF b
    <3> QED BY <1>1, <3>1
  <2> HIDE DEF b
  <2> QED BY <1>0, <2>1, LastIsLast
<1>3. m \in 0 .. n - 1 /\ start <= m /\ t <= m /\ (m = t \/ (m = start /\ t < start))
  <2>1. start \in 0 .. n - 1
    BY <1>2
  <2>2. m = IF start >= t THEN start ELSE t
    BY DEF Max2
  <2> HIDE DEF start, m
  <2> QED BY <1>0, <2>1, <2>2, SMT
<1>4. \A k \in 0 .. t : c[k] = b[k]
  BY SamePrefix
<1> HIDE DEF b, c, start, m
<1>5. Matches(v, Cut(b, m), n) <=> \A k \in 0 .. m : c[k] = b[k]
  <2>1. b \in [0 .. n - 1 -> {0, 1}] /\ m \in 0 .. n - 1
    BY <1>1, <1>3
  <2>2. Matches(v, Cut(b, m), n) <=> \A k \in 0 .. m : Bits(v, n)[k] = b[k]
    BY <1>0, <2>1, CutMatches
  <2> QED BY <2>2 DEF c
<1>6. \A k \in t + 1 .. start - 1 :
        /\ k \in 1 .. n - 1 /\ k \in 0 .. n - 1 /\ k - 1 \in 0 .. n - 1
        /\ Matches(v, Flip(b, k), n) <=> (\A j \in 0 .. k - 1 : c[j] = b[j]) /\ c[k] = 1 - b[k]
  <2> SUFFICES ASSUME NEW k \in t + 1 .. start - 1
               PROVE  /\ k \in 1 .. n - 1 /\ k \in 0 .. n - 1 /\ k - 1 \in 0 .. n - 1
                      /\ Matches(v, Flip(b, k), n) <=> (\A j \in 0 .. k - 1 : c[j] = b[j]) /\ c[k] = 1 - b[k]
    OBVIOUS
  <2>1. k \in 1 .. n - 1 /\ k \in 0 .. n - 1 /\ k - 1 \in 0 .. n - 1
    BY <1>0, <1>2, SMT
  <2>2. b \in [0 .. n - 1 -> {0, 1}]
    BY <1>1
  <2>3. Matches(v, Flip(b, k), n) <=> (\A j \in 0 .. k - 1 : Bits(v, n)[j] = b[j]) /\ Bits(v, n)[k] = 1 - b[k]
    BY <1>0, <2>1, <2>2, FlipMatches
  <2> QED BY <2>1, <2>3 DEF c
<1>7. ASSUME Matches(v, Cut(b, m), n) PROVE v <= h
  <2>1. Prefix(h, n, m) = Prefix(v, n, m)
    BY <1>3, <1>5, <1>7, SamePrefix DEF b, c
  <2>2. \A k \in m + 1 .. n - 1 : c[k] <= b[k]
    <3> SUFFICES ASSUME NEW k \in m + 1 .. n - 1 PROVE c[k] <= b[k]
      OBVIOUS
    <3>1. k \in start + 1 .. n - 1 /\ k \in 0 .. n - 1
      BY <1>0, <1>2, <1>3, SMT
    <3>2. b[k] = 1 /\ c[k] \in {0, 1}
      BY <1>1, <1>2, <3>1
    <3> QED BY <3>2, SMT
  <2>3. Prefix(v, n, m) <= Prefix(h, n, m)
    BY <1>1, <1>3, <2>1, SMT
  <2> QED BY <1>3, <2>2, <2>3, Dominated DEF b, c
<1>8. ASSUME NEW k \in {j \in t + 1 .. start - 1 : b[j] = 1}, Matches(v, Flip(b, k), n) PROVE v <= h
  <2>1. k \in 1 .. n - 1 /\ k \in 0 .. n - 1 /\ k - 1 \in 0 .. n - 1 /\ b[k] = 1
        /\ (\A j \in 0 .. k - 1 : c[j] = b[j]) /\ c[k] = 1 - b[k]
    BY <1>6, <1>8
  <2>2. Prefix(v, n, k - 1) = Prefix(h, n, k - 1)
    BY <2>1, SamePrefix DEF b, c
  <2>3. Prefix(h, n, k) = 2 * Prefix(h, n, k - 1) + b[k] /\ Prefix(v, n, k) = 2 * Prefix(v, n, k - 1) + c[k]
    BY <1>1, <2>1
  <2>4. Prefix(h, n, k - 1) \in Int
    BY <1>1, <2>1
  <2>5. Prefix(v, n, k) < Prefix(h, n, k)
    <3>1. c[k] = 0
      BY <2>1, SMT
    <3>2. Prefix(h, n, k) = 2 * Prefix(h, n, k - 1) + 1 /\ Prefix(v, n, k) = 2 * Prefix(h, n, k - 1) + 0
      BY <2>1, <2>2, <2>3, <3>1
    <3> QED BY <2>4, <3>2, SMT
  <2>6. v < h
    BY <2>1, <2>5, PrefixesInOrder
  <2> QED BY <2>6, Positioned, SMT
<1>9. ASSUME v <= h, ~Matches(v, Cut(b, m), n)
      PROVE  \E k \in {j \in t + 1 .. start - 1 : b[j] = 1} : Matches(v, Flip(b, k), n)
  <2> DEFINE T == {k \in 0 .. m : c[k] # b[k]}
  <2>1. T # {} /\ T \in SUBSET Nat
    BY <1>5, <1>9, SMT
  <2>2. PICK k \in T : \A j \in T : k <= j
    <3> HIDE DEF T
    <3> QED BY <2>1, LeastNatural
  <2>3. k \in 0 .. m /\ c[k] # b[k]
    BY <2>2
  <2>4. \A j \in 0 .. k - 1 : c[j] = b[j]
    <3> SUFFICES ASSUME NEW j \in 0 .. k - 1 PROVE c[j] = b[j]
      OBVIOUS
    <3>1. j \in 0 .. m /\ ~(k <= j)
      BY <1>3, <2>3, SMT
    <3> QED BY <2>2, <3>1
  <2>5. ~(k <= t)
    <3> SUFFICES ASSUME k <= t PROVE FALSE
      OBVIOUS
    <3>1. k \in 0 .. t
      BY <1>0, <2>3, SMT
    <3> QED BY <1>4, <2>3, <3>1
  <2>6. m = start /\ t < start /\ k \in 1 .. n - 1 /\ k \in t + 1 .. start /\ k - 1 \in 0 .. n - 1 /\ k \in 0 .. n - 1
    BY <1>0, <1>2, <1>3, <2>3, <2>5, SMT
  <2>7. Prefix(v, n, k - 1) = Prefix(h, n, k - 1)
    BY <2>4, <2>6, SamePrefix DEF b, c
  <2>8. Prefix(v, n, k) <= Prefix(h, n, k)
    BY <1>9, <2>6, PrefixesInOrder
  <2>9. b[k] = 1 /\ c[k] = 0
    <3>1. Prefix(h, n, k) = 2 * Prefix(h, n, k - 1) + b[k] /\ Prefix(v, n, k) = 2 * Prefix(h, n, k - 1) + c[k]
          /\ Prefix(h, n, k - 1) \in Int /\ b[k] \in {0, 1} /\ c[k] \in {0, 1}
      BY <1>1, <2>6, <2>7
    <3> DEFINE x == Prefix(h, n, k - 1)  y == b[k]  z == c[k]
    <3>2. 2 * x + z <= 2 * x + y /\ x \in Int /\ y \in {0, 1} /\ z \in {0, 1} /\ z # y
      BY <2>3, <2>8, <3>1
    <3> HIDE DEF x, y, z
    <3>3. y = 1 /\ z = 0
      BY <3>2, SMT
    <3> QED BY <3>3 DEF y, z
  <2>10. k # start
    BY <1>0, <1>2, <2>6, <2>9, SMT
  <2>11. k \in t + 1 .. start - 1
    BY <1>0, <1>2, <2>6, <2>10, SMT
  <2>12. c[k] = 1 - b[k]
    BY <2>9, SMT
  <2> QED BY <1>6, <2>4, <2>9, <2>11, <2>12
<1> QED
  BY <1>7, <1>8, <1>9 DEF b, start, m

\* The patterns that a range of words splits into are matched by the words in
\* the range and by no other.
LEMMA PatternsCover ==
    ASSUME NEW n \in 1 .. LongWidth, NEW l \in WordsOf(n), NEW h \in WordsOf(n), l <= h,
           NEW v \in WordsOf(n)
    PROVE  LET P == getDisjointUnionSet(Bits(l, n), Bits(h, n))
           IN  P \subseteq Patterns(n) /\ (l <= v /\ v <= h <=> \E p \in P : Matches(v, p, n))
<1> DEFINE a == Bits(l, n)  b == Bits(h, n)  T == {k \in DOMAIN a : a[k] # b[k]}  turn == Min(T)
           start == LastPosition(a, 1)  end == LastPosition(b, 0)
           P == getDisjointUnionSet(a, b)
<1>0. n \in Nat \ {0} /\ 0 \in Int /\ n - 1 \in Int
  BY WidthAssumption, SMT
<1>1. /\ l \in Int /\ a \in [0 .. n - 1 -> {0, 1}] /\ Prefix(l, n, 0) = -a[0]
      /\ \A k \in 0 .. n - 1 : Prefix(l, n, k) \in Int
      /\ \A k \in 1 .. n - 1 : Prefix(l, n, k) = 2 * Prefix(l, n, k - 1) + a[k]
  BY Positioned
<1>2. /\ h \in Int /\ b \in [0 .. n - 1 -> {0, 1}] /\ Prefix(h, n, 0) = -b[0]
      /\ \A k \in 0 .. n - 1 : Prefix(h, n, k) \in Int
      /\ \A k \in 1 .. n - 1 : Prefix(h, n, k) = 2 * Prefix(h, n, k - 1) + b[k]
  BY Positioned
<1>3. v \in Int /\ Bits(v, n) \in [0 .. n - 1 -> {0, 1}] /\ \A k \in 0 .. n - 1 : Prefix(v, n, k) \in Int
  BY Positioned
<1>4. DOMAIN a = 0 .. n - 1 /\ DOMAIN b = 0 .. n - 1
  BY <1>1, <1>2
<1>5. \A k \in 0 .. n - 1 : a[k] \in {0, 1} /\ b[k] \in {0, 1}
  BY <1>1, <1>2
<1>6. a \in [0 .. n - 1 -> 0 .. Free] /\ b \in [0 .. n - 1 -> 0 .. Free]
  <2>1. \A k \in 0 .. n - 1 : a[k] \in 0 .. Free /\ b[k] \in 0 .. Free
    BY <1>5, SMT DEF Free
  <2> HIDE DEF a, b
  <2> QED BY <1>1, <1>2, <2>1
<1>9. a \in [0 .. n - 1 -> {0, 1}]
  BY <1>1
<1>10. b \in [0 .. n - 1 -> {0, 1}]
  BY <1>2
<1>7. CASE a = b
  <2>1. l = h
    BY <1>7, SameWord
  <2>2. P = {a}
    BY <1>7, Zenon DEF getDisjointUnionSet
  <2>3. a \in Patterns(n)
    <3>1. 0 \in 0 .. n - 1
      BY <1>0, SMT
    <3> QED BY <1>5, <1>6, <3>1 DEF Patterns
  <2>4. Matches(v, a, n) <=> \A k \in 0 .. n - 1 : Bits(v, n)[k] = a[k]
    <3>1. \A k \in 0 .. n - 1 : a[k] # Free
      BY <1>5, SMT DEF Free
    <3> QED BY <3>1 DEF Matches
  <2>5. Matches(v, a, n) <=> v = l
    BY <2>4, SameWord
  <2>6. l <= v /\ v <= h <=> v = l
    BY <1>1, <1>3, <2>1, SMT
  <2> QED BY <2>2, <2>3, <2>5, <2>6
<1>8. CASE a # b
  <2> DEFINE A == Cut(a, Max2(start, turn))  B == Cut(b, Max2(end, turn))
             J == {j \in turn + 1 .. start - 1 : a[j] = 0}
             K == {j \in turn + 1 .. end - 1 : b[j] = 1}
  <2>1. P = {A, B} \cup {Flip(a, k) : k \in J} \cup {Flip(b, k) : k \in K}
    BY <1>8, Zenon DEF getDisjointUnionSet
  <2>2. turn \in 0 .. n - 1 /\ a[turn] # b[turn] /\ \A k \in 0 .. n - 1 : k < turn => a[k] = b[k]
    <3>1. T \in SUBSET (0 .. n - 1) /\ T # {}
      <4>1. T # {}
        <5> SUFFICES ASSUME T = {} PROVE FALSE
          OBVIOUS
        <5>1. \A k \in 0 .. n - 1 : a[k] = b[k]
          BY <1>4
        <5> HIDE DEF a, b
        <5>2. a = b
          BY <1>1, <1>2, <5>1
        <5> QED BY <1>8, <5>2
      <4> QED BY <1>4, <4>1
    <3>2. turn \in T /\ \A k \in T : turn <= k
      <4> HIDE DEF T
      <4> QED BY <1>0, <3>1, BoundedExtremes
    <3>3. turn \in 0 .. n - 1 /\ a[turn] # b[turn]
      <4> HIDE DEF turn
      <4> QED BY <1>4, <3>2
    <3>4. \A k \in 0 .. n - 1 : k < turn => a[k] = b[k]
      <4> SUFFICES ASSUME NEW k \in 0 .. n - 1, k < turn, a[k] # b[k] PROVE FALSE
        OBVIOUS
      <4>1. k \in T
        BY <1>4
      <4> HIDE DEF T
      <4>2. turn <= k
        BY <3>2, <4>1
      <4> HIDE DEF turn
      <4> QED BY <3>3, <4>2, SMT
    <3> QED BY <3>3, <3>4
  <2>3. start \in 0 .. n - 1 /\ end \in 0 .. n - 1
    <3> HIDE DEF a, b
    <3> QED BY <1>0, <1>6, LastIsLast
  <2> HIDE DEF turn, start, end, a, b, P
  <2>4. /\ turn <= Max2(start, turn) /\ Max2(start, turn) \in 0 .. n - 1
        /\ turn <= Max2(end, turn) /\ Max2(end, turn) \in 0 .. n - 1
        /\ turn \in Int /\ 0 <= turn
    BY <2>2, <2>3, SMT DEF Max2
  <2>5. Prefix(h, n, turn) = Prefix(l, n, turn) + 1
    <3>1. Prefix(l, n, turn) <= Prefix(h, n, turn)
      BY <2>2, PrefixesInOrder
    <3>2. CASE turn = 0
      <4>1. -a[0] <= -b[0] /\ a[0] \in {0, 1} /\ b[0] \in {0, 1} /\ a[0] # b[0]
        BY <1>1, <1>2, <1>5, <2>2, <3>1, <3>2
      <4>2. -b[0] = -a[0] + 1
        BY <4>1, SMT
      <4> QED BY <1>1, <1>2, <3>2, <4>2
    <3>3. CASE turn # 0
      <4>1. turn \in 1 .. n - 1 /\ turn - 1 \in 0 .. n - 1 /\ \A k \in 0 .. turn - 1 : k \in 0 .. n - 1 /\ k < turn
        BY <1>0, <2>2, <3>3, SMT
      <4>2. Prefix(l, n, turn - 1) = Prefix(h, n, turn - 1)
        BY <2>2, <4>1, SamePrefix DEF a, b
      <4> DEFINE x == Prefix(l, n, turn - 1)  y == a[turn]  z == b[turn]
      <4>3. Prefix(l, n, turn) = 2 * x + y /\ Prefix(h, n, turn) = 2 * x + z
        BY <1>1, <1>2, <4>1, <4>2
      <4>4. x \in Int /\ y \in {0, 1} /\ z \in {0, 1} /\ y # z /\ 2 * x + y <= 2 * x + z
        BY <1>1, <1>5, <2>2, <3>1, <4>1, <4>3
      <4> HIDE DEF x, y, z
      <4>5. 2 * x + z = 2 * x + y + 1
        BY <4>4, SMT
      <4> QED BY <4>3, <4>5
    <3> QED BY <3>2, <3>3
  <2>6. \A k \in J : k \in 1 .. n - 1 /\ turn <= k - 1 /\ \A j \in 0 .. turn : j \in 0 .. k - 1
    BY <1>0, <2>3, <2>4, SMT
  <2>7. \A k \in K : k \in 1 .. n - 1 /\ turn <= k - 1 /\ \A j \in 0 .. turn : j \in 0 .. k - 1
    BY <1>0, <2>3, <2>4, SMT
  <2>8. P \subseteq Patterns(n)
    <3>1. A \in Patterns(n) /\ B \in Patterns(n)
      BY <1>0, <1>1, <1>2, <2>4, CutMatches
    <3>2. \A k \in J : Flip(a, k) \in Patterns(n)
      BY <1>0, <1>9, <2>6, FlipMatches
    <3>3. \A k \in K : Flip(b, k) \in Patterns(n)
      BY <1>0, <1>10, <2>7, FlipMatches
    <3> HIDE DEF A, B, J, K
    <3> QED BY <2>1, <3>1, <3>2, <3>3
  <2> DEFINE Low  == Matches(v, A, n) \/ \E k \in J : Matches(v, Flip(a, k), n)
             High == Matches(v, B, n) \/ \E k \in K : Matches(v, Flip(b, k), n)
  <2>9. (\E p \in P : Matches(v, p, n)) <=> Low \/ High
    <3> HIDE DEF A, B, J, K
    <3> QED BY <2>1
  <2>10. Low => Prefix(v, n, turn) = Prefix(l, n, turn)
    <3> SUFFICES ASSUME Low PROVE \A k \in 0 .. turn : Bits(v, n)[k] = a[k]
      BY <2>2, SamePrefix DEF a
    <3>1. CASE Matches(v, A, n)
      <4>1. \A k \in 0 .. Max2(start, turn) : Bits(v, n)[k] = a[k]
        BY <1>0, <1>9, <2>4, <3>1, CutMatches
      <4>2. \A k \in 0 .. turn : k \in 0 .. Max2(start, turn)
        BY <2>4, SMT
      <4> QED BY <4>1, <4>2
    <3>2. CASE \E k \in J : Matches(v, Flip(a, k), n)
      <4> PICK k \in J : Matches(v, Flip(a, k), n)
        BY <3>2
      <4>1. \A j \in 0 .. k - 1 : Bits(v, n)[j] = a[j]
        BY <1>0, <1>9, <2>6, FlipMatches
      <4> QED BY <2>6, <4>1
    <3> HIDE DEF A, J
    <3> QED BY <3>1, <3>2
  <2>11. High => Prefix(v, n, turn) = Prefix(h, n, turn)
    <3> SUFFICES ASSUME High PROVE \A k \in 0 .. turn : Bits(v, n)[k] = b[k]
      BY <2>2, SamePrefix DEF b
    <3>1. CASE Matches(v, B, n)
      <4>1. \A k \in 0 .. Max2(end, turn) : Bits(v, n)[k] = b[k]
        BY <1>0, <1>10, <2>4, <3>1, CutMatches
      <4>2. \A k \in 0 .. turn : k \in 0 .. Max2(end, turn)
        BY <2>4, SMT
      <4> QED BY <4>1, <4>2
    <3>2. CASE \E k \in K : Matches(v, Flip(b, k), n)
      <4> PICK k \in K : Matches(v, Flip(b, k), n)
        BY <3>2
      <4>1. \A j \in 0 .. k - 1 : Bits(v, n)[j] = b[j]
        BY <1>0, <1>10, <2>7, FlipMatches
      <4> QED BY <2>7, <4>1
    <3> HIDE DEF B, K
    <3> QED BY <3>1, <3>2
  <2>12. Prefix(v, n, turn) = Prefix(l, n, turn) => (l <= v <=> Low) /\ v < h
    <3> SUFFICES ASSUME Prefix(v, n, turn) = Prefix(l, n, turn) PROVE (l <= v <=> Low) /\ v < h
      OBVIOUS
    <3>1. l <= v <=> Low
      BY <2>2, AboveLower DEF a, start
    <3>2. Prefix(v, n, turn) < Prefix(h, n, turn)
      BY <1>1, <2>2, <2>5, SMT
    <3> QED BY <2>2, <3>1, <3>2, PrefixesInOrder
  <2>13. Prefix(v, n, turn) = Prefix(h, n, turn) => (v <= h <=> High) /\ l < v
    <3> SUFFICES ASSUME Prefix(v, n, turn) = Prefix(h, n, turn) PROVE (v <= h <=> High) /\ l < v
      OBVIOUS
    <3>1. v <= h <=> High
      BY <2>2, BelowUpper DEF b, end
    <3>2. Prefix(l, n, turn) < Prefix(v, n, turn)
      BY <1>1, <2>2, <2>5, SMT
    <3> QED BY <2>2, <3>1, <3>2, PrefixesInOrder
  <2>14. l <= v /\ v <= h => \/ Prefix(v, n, turn) = Prefix(l, n, turn)
                             \/ Prefix(v, n, turn) = Prefix(h, n, turn)
    <3> SUFFICES ASSUME l <= v, v <= h
                 PROVE  \/ Prefix(v, n, turn) = Prefix(l, n, turn)
                        \/ Prefix(v, n, turn) = Prefix(h, n, turn)
      OBVIOUS
    <3>1. Prefix(l, n, turn) <= Prefix(v, n, turn) /\ Prefix(v, n, turn) <= Prefix(h, n, turn)
      BY <2>2, PrefixesInOrder
    <3> DEFINE x == Prefix(l, n, turn)  y == Prefix(v, n, turn)
    <3>2. x \in Int /\ y \in Int /\ x <= y /\ y <= x + 1
      BY <1>1, <1>3, <2>2, <2>5, <3>1
    <3> HIDE DEF x, y
    <3>3. y = x \/ y = x + 1
      BY <3>2, SMT
    <3> QED BY <2>5, <3>3 DEF x, y
  <2> HIDE DEF Low, High
  <2>15. l <= v /\ v <= h <=> Low \/ High
    <3>1. v < h => v <= h
      BY <1>2, <1>3, SMT
    <3>2. l < v => l <= v
      BY <1>1, <1>3, SMT
    <3> QED BY <2>10, <2>11, <2>12, <2>13, <2>14, <3>1, <3>2, Zenon
  <2> QED BY <2>8, <2>9, <2>15 DEF P, a, b
<1> QED
  BY <1>7, <1>8

-----------------------------------------------------------------------------
(* What two patterns leave to their words.                                 *)

\* a position that both patterns fix has one combination, and one that they
\* leave free may have two
LEMMA CombinedBits ==
    /\ \A op \in Bitwise : \A i \in {0, 1}, j \in {0, 1} : Combined(op, i, j) \in {0, 1}
    /\ \A i \in {0, 1}, j \in {0, 1} :
          /\ Combined("and", i, j) = (IF i = 1 /\ j = 1 THEN 1 ELSE 0)
          /\ Combined("or", i, j) = (IF i = 1 \/ j = 1 THEN 1 ELSE 0)
          /\ Combined("xor", i, j) = (IF i = j THEN 0 ELSE 1)
<1>1. \A i \in {0, 1}, j \in {0, 1} : Combined("and", i, j) = (IF i = 1 /\ j = 1 THEN 1 ELSE 0)
  BY SMT DEF Combined
<1>2. \A i \in {0, 1}, j \in {0, 1} : Combined("or", i, j) = (IF i = 1 \/ j = 1 THEN 1 ELSE 0)
  BY SMT DEF Combined
<1>3. \A i \in {0, 1}, j \in {0, 1} : Combined("xor", i, j) = (IF i = j THEN 0 ELSE 1)
  BY SMT DEF Combined
<1> QED
  BY <1>1, <1>2, <1>3 DEF Bitwise

\* the sign of a combination is the one the patterns agree on
LEMMA SignsCombined ==
    ASSUME NEW op \in Bitwise, NEW n \in 1 .. LongWidth, NEW p \in Patterns(n), NEW q \in Patterns(n)
    PROVE  SignBit(op, p, q) \in {0, 1} /\ SignBit(op, p, q) = Combined(op, p[0], q[0])
<1>1. p[0] \in {0, 1} /\ q[0] \in {0, 1}
  BY DEF Patterns
<1> DEFINE i == p[0]  j == q[0]
<1>2. i \in {0, 1} /\ j \in {0, 1}
  BY <1>1
<1> HIDE DEF i, j
<1>3. i * j = Combined("and", i, j) /\ Max2(i, j) = Combined("or", i, j) /\ (i + j) % 2 = Combined("xor", i, j)
  BY <1>2, CombinedBits, SMT DEF Max2
<1>4. CASE op = "and"
  <2>1. SignBit("and", p, q) = i * j
    BY Zenon DEF SignBit, i, j
  <2> QED BY <1>2, <1>3, <1>4, <2>1, CombinedBits DEF i, j
<1>5. CASE op = "or"
  <2>1. SignBit("or", p, q) = Max2(i, j)
    BY Zenon DEF SignBit, i, j
  <2> QED BY <1>2, <1>3, <1>5, <2>1, CombinedBits DEF i, j
<1>6. CASE op = "xor"
  <2>1. SignBit("xor", p, q) = (i + j) % 2
    BY Zenon DEF SignBit, i, j
  <2> QED BY <1>2, <1>3, <1>6, <2>1, CombinedBits DEF i, j
<1> QED
  BY <1>4, <1>5, <1>6 DEF Bitwise

\* the positions of a pattern, and the candidates
LEMMA Candidates ==
    ASSUME NEW n \in Nat \ {0}, NEW p \in Patterns(n), NEW q \in Patterns(n)
    PROVE  /\ \A v : Positions(p, v) = {k \in 1 .. n - 1 : p[k] = v}
           /\ LowestOnes("and", p, q) = {Positions(p, 1) \cap Positions(q, 1)}
           /\ LowestOnes("or", p, q) = {Positions(p, 1) \cup Positions(q, 1)}
           /\ LowestOnes("xor", p, q) = {Positions(p, 1) \cap Positions(q, 0), Positions(p, 0) \cap Positions(q, 1)}
           /\ HighestZeros("and", p, q) = {Positions(p, 0) \cup Positions(q, 0)}
           /\ HighestZeros("or", p, q) = {Positions(p, 0) \cap Positions(q, 0)}
           /\ HighestZeros("xor", p, q) = {Positions(p, 0) \cap Positions(q, 0), Positions(p, 1) \cap Positions(q, 1)}
<1>1. DOMAIN p = 0 .. n - 1
  BY DEF Patterns
<1>2. (0 .. n - 1) \ {0} = 1 .. n - 1
  BY SMT
<1>3. \A v : Positions(p, v) = {k \in 1 .. n - 1 : p[k] = v}
  BY <1>1, <1>2 DEF Positions
<1>4. /\ LowestOnes("and", p, q) = {Positions(p, 1) \cap Positions(q, 1)}
      /\ HighestZeros("and", p, q) = {Positions(p, 0) \cup Positions(q, 0)}
  BY Zenon DEF LowestOnes, HighestZeros
<1>5. /\ LowestOnes("or", p, q) = {Positions(p, 1) \cup Positions(q, 1)}
      /\ HighestZeros("or", p, q) = {Positions(p, 0) \cap Positions(q, 0)}
  BY Zenon DEF LowestOnes, HighestZeros
<1>6. LowestOnes("xor", p, q) = {Positions(p, 1) \cap Positions(q, 0), Positions(p, 0) \cap Positions(q, 1)}
  BY Zenon DEF LowestOnes
<1>7. HighestZeros("xor", p, q) = {Positions(p, 0) \cap Positions(q, 0), Positions(p, 1) \cap Positions(q, 1)}
  BY Zenon DEF HighestZeros
<1> QED
  BY <1>3, <1>4, <1>5, <1>6, <1>7

\* Whatever words match two patterns, their combination has the sign of the
\* patterns, a one where a candidate for the least result has one, and a zero
\* where one for the greatest has one.
LEMMA FixedPositions ==
    ASSUME NEW op \in Bitwise, NEW n \in 1 .. LongWidth, NEW p \in Patterns(n), NEW q \in Patterns(n),
           NEW a \in WordsOf(n), NEW b \in WordsOf(n), Matches(a, p, n), Matches(b, q, n)
    PROVE  LET c == Bits(Bitwised(op, a, b), n)
           IN  /\ c[0] = SignBit(op, p, q)
               /\ \A ones \in LowestOnes(op, p, q) : \A k \in 1 .. n - 1 : k \in ones => c[k] = 1
               /\ \A zeros \in HighestZeros(op, p, q) : \A k \in 1 .. n - 1 : k \in zeros => c[k] = 0
<1> DEFINE c == Bits(Bitwised(op, a, b), n)  x == Bits(a, n)  y == Bits(b, n)
<1>0. n \in Nat \ {0} /\ 0 \in 0 .. n - 1 /\ \A k \in 1 .. n - 1 : k \in 0 .. n - 1
  BY WidthAssumption, SMT
<1>1. \A k \in 0 .. n - 1 : c[k] = Combined(op, x[k], y[k])
  BY WordsCombined
<1>2. x \in [0 .. n - 1 -> {0, 1}] /\ y \in [0 .. n - 1 -> {0, 1}]
  BY Positioned
<1>3. \A k \in 0 .. n - 1 : x[k] \in {0, 1} /\ y[k] \in {0, 1}
  BY <1>2
<1>4. \A k \in 0 .. n - 1 : (p[k] = Free \/ x[k] = p[k]) /\ (q[k] = Free \/ y[k] = q[k])
  BY DEF Matches
<1> HIDE DEF c, x, y
<1>5. c[0] = SignBit(op, p, q)
  <2>1. p[0] # Free /\ q[0] # Free
    BY SMT DEF Patterns, Free
  <2> QED BY <1>0, <1>1, <1>4, <2>1, SignsCombined
<1>6. \A k \in 1 .. n - 1 : /\ k \in Positions(p, 1) => x[k] = 1
                            /\ k \in Positions(p, 0) => x[k] = 0
                            /\ k \in Positions(q, 1) => y[k] = 1
                            /\ k \in Positions(q, 0) => y[k] = 0
  <2>1. 0 # Free /\ 1 # Free
    BY SMT DEF Free
  <2> QED BY <1>0, <1>4, <2>1 DEF Positions
<1>7. /\ \A ones \in LowestOnes(op, p, q) : \A k \in 1 .. n - 1 : k \in ones => c[k] = 1
      /\ \A zeros \in HighestZeros(op, p, q) : \A k \in 1 .. n - 1 : k \in zeros => c[k] = 0
  <2> DEFINE p1 == Positions(p, 1)  p0 == Positions(p, 0)  q1 == Positions(q, 1)  q0 == Positions(q, 0)
  <2>0. \A k \in 1 .. n - 1 : /\ k \in p1 => x[k] = 1
                              /\ k \in p0 => x[k] = 0
                              /\ k \in q1 => y[k] = 1
                              /\ k \in q0 => y[k] = 0
    BY <1>6
  <2>1. CASE op = "and"
    <3>1. LowestOnes(op, p, q) = {p1 \cap q1} /\ HighestZeros(op, p, q) = {p0 \cup q0}
      BY <1>0, <2>1, Candidates
    <3>2. \A k \in 1 .. n - 1 : c[k] = IF x[k] = 1 /\ y[k] = 1 THEN 1 ELSE 0
      BY <1>0, <1>1, <1>3, <2>1, CombinedBits
    <3> HIDE DEF p1, p0, q1, q0
    <3> QED BY <2>0, <3>1, <3>2
  <2>2. CASE op = "or"
    <3>1. LowestOnes(op, p, q) = {p1 \cup q1} /\ HighestZeros(op, p, q) = {p0 \cap q0}
      BY <1>0, <2>2, Candidates
    <3>2. \A k \in 1 .. n - 1 : c[k] = IF x[k] = 1 \/ y[k] = 1 THEN 1 ELSE 0
      BY <1>0, <1>1, <1>3, <2>2, CombinedBits
    <3> HIDE DEF p1, p0, q1, q0
    <3> QED BY <2>0, <3>1, <3>2
  <2>3. CASE op = "xor"
    <3>1. LowestOnes(op, p, q) = {p1 \cap q0, p0 \cap q1} /\ HighestZeros(op, p, q) = {p0 \cap q0, p1 \cap q1}
      BY <1>0, <2>3, Candidates
    <3>2. \A k \in 1 .. n - 1 : c[k] = IF x[k] = y[k] THEN 0 ELSE 1
      BY <1>0, <1>1, <1>3, <2>3, CombinedBits
    <3> HIDE DEF p1, p0, q1, q0
    <3> QED BY <2>0, <3>1, <3>2
  <2> QED BY <2>1, <2>2, <2>3 DEF Bitwise
<1> QED
  BY <1>5, <1>7 DEF c

\* so every combination is between the candidates
LEMMA BetweenCandidates ==
    ASSUME NEW op \in Bitwise, NEW n \in 1 .. LongWidth, NEW p \in Patterns(n), NEW q \in Patterns(n),
           NEW a \in WordsOf(n), NEW b \in WordsOf(n), Matches(a, p, n), Matches(b, q, n)
    PROVE  LET c == Bitwised(op, a, b)  sign == SignBit(op, p, q)
           IN  /\ \A ones \in LowestOnes(op, p, q) : Word(sign, ones, n) <= c
               /\ \A zeros \in HighestZeros(op, p, q) : c <= Word(sign, (1 .. n - 1) \ zeros, n)
<1> DEFINE c == Bitwised(op, a, b)  sign == SignBit(op, p, q)  x == Bits(c, n)
<1>0. n \in Nat \ {0} /\ 0 \in 0 .. n - 1 /\ 0 + 1 = 1 /\ \A k \in 1 .. n - 1 : k \in 0 .. n - 1
  BY WidthAssumption, SMT
<1>1. c \in WordsOf(n)
  BY WordsCombined
<1>2. sign \in {0, 1}
  BY SignsCombined
<1>3. /\ x[0] = sign
      /\ \A ones \in LowestOnes(op, p, q) : \A k \in 1 .. n - 1 : k \in ones => x[k] = 1
      /\ \A zeros \in HighestZeros(op, p, q) : \A k \in 1 .. n - 1 : k \in zeros => x[k] = 0
  BY FixedPositions
<1> HIDE DEF c, sign
<1>4. x \in [0 .. n - 1 -> {0, 1}] /\ Prefix(c, n, 0) = -x[0]
  BY <1>1, Positioned
<1>5. \A k \in 1 .. n - 1 : x[k] \in {0, 1}
  BY <1>0, <1>4
<1>6. \A ones : LET w == Word(sign, ones, n)
                IN  /\ w \in WordsOf(n) /\ Prefix(w, n, 0) = Prefix(c, n, 0) /\ Prefix(c, n, 0) \in Int
                    /\ \A k \in 1 .. n - 1 : Bits(w, n)[k] = IF k \in ones THEN 1 ELSE 0
  <2> SUFFICES ASSUME NEW ones
               PROVE  LET w == Word(sign, ones, n)
                      IN  /\ w \in WordsOf(n) /\ Prefix(w, n, 0) = Prefix(c, n, 0) /\ Prefix(c, n, 0) \in Int
                          /\ \A k \in 1 .. n - 1 : Bits(w, n)[k] = IF k \in ones THEN 1 ELSE 0
    OBVIOUS
  <2> DEFINE w == Word(sign, ones, n)
  <2>1. /\ w \in WordsOf(n) /\ Bits(w, n)[0] = sign
        /\ \A k \in 1 .. n - 1 : Bits(w, n)[k] = IF k \in ones THEN 1 ELSE 0
    BY <1>2, WordBits
  <2> HIDE DEF w
  <2>2. Prefix(w, n, 0) = -Bits(w, n)[0]
    BY <2>1, Positioned
  <2>3. Prefix(c, n, 0) \in Int
    BY <1>0, <1>1, Positioned
  <2> QED BY <1>3, <1>4, <2>1, <2>2, <2>3 DEF w
<1>7. ASSUME NEW ones \in LowestOnes(op, p, q) PROVE Word(sign, ones, n) <= c
  <2> DEFINE w == Word(sign, ones, n)
  <2>1. /\ w \in WordsOf(n) /\ Prefix(w, n, 0) = Prefix(c, n, 0) /\ Prefix(c, n, 0) \in Int
        /\ \A k \in 1 .. n - 1 : Bits(w, n)[k] = IF k \in ones THEN 1 ELSE 0
    BY <1>6
  <2> HIDE DEF w
  <2>2. \A k \in 0 + 1 .. n - 1 : Bits(w, n)[k] <= x[k]
    <3> SUFFICES ASSUME NEW k \in 1 .. n - 1 PROVE Bits(w, n)[k] <= x[k]
      BY <1>0
    <3>1. CASE k \in ones
      <4>1. Bits(w, n)[k] = 1 /\ x[k] = 1
        BY <1>3, <1>7, <2>1, <3>1
      <4> QED BY <4>1, SMT
    <3>2. CASE k \notin ones
      <4>1. Bits(w, n)[k] = 0 /\ x[k] \in {0, 1}
        BY <1>5, <2>1, <3>2
      <4> QED BY <4>1, SMT
    <3> QED BY <3>1, <3>2
  <2>3. Prefix(w, n, 0) <= Prefix(c, n, 0)
    BY <2>1, SMT
  <2>4. w <= c
    BY <1>0, <1>1, <2>1, <2>2, <2>3, Dominated
  <2> QED BY <2>4 DEF w
<1>8. ASSUME NEW zeros \in HighestZeros(op, p, q) PROVE c <= Word(sign, (1 .. n - 1) \ zeros, n)
  <2> DEFINE w == Word(sign, (1 .. n - 1) \ zeros, n)
  <2>1. /\ w \in WordsOf(n) /\ Prefix(w, n, 0) = Prefix(c, n, 0) /\ Prefix(c, n, 0) \in Int
        /\ \A k \in 1 .. n - 1 : Bits(w, n)[k] = IF k \in (1 .. n - 1) \ zeros THEN 1 ELSE 0
    BY <1>6
  <2> HIDE DEF w
  <2>2. \A k \in 0 + 1 .. n - 1 : x[k] <= Bits(w, n)[k]
    <3> SUFFICES ASSUME NEW k \in 1 .. n - 1 PROVE x[k] <= Bits(w, n)[k]
      BY <1>0
    <3>1. CASE k \in zeros
      <4>1. Bits(w, n)[k] = 0 /\ x[k] = 0
        BY <1>3, <1>8, <2>1, <3>1
      <4> QED BY <4>1, SMT
    <3>2. CASE k \notin zeros
      <4>1. Bits(w, n)[k] = 1 /\ x[k] \in {0, 1}
        BY <1>5, <2>1, <3>2
      <4> QED BY <4>1, SMT
    <3> QED BY <3>1, <3>2
  <2>3. Prefix(c, n, 0) <= Prefix(w, n, 0)
    BY <2>1, SMT
  <2>4. c <= w
    BY <1>0, <1>1, <2>1, <2>2, <2>3, Dominated
  <2> QED BY <2>4 DEF w
<1> QED
  BY <1>7, <1>8 DEF c, sign

\* a pattern with its free positions filled with zeros, or with ones
LEMMA Filled ==
    ASSUME NEW n \in 1 .. LongWidth, NEW p \in Patterns(n)
    PROVE  LET a == Word(p[0], Positions(p, 1), n)  b == Word(p[0], (1 .. n - 1) \ Positions(p, 0), n)
           IN  /\ a \in WordsOf(n) /\ Matches(a, p, n) /\ b \in WordsOf(n) /\ Matches(b, p, n)
               /\ \A k \in 1 .. n - 1 : Bits(a, n)[k] = IF k \in Positions(p, 1) THEN 1 ELSE 0
               /\ \A k \in 1 .. n - 1 : Bits(b, n)[k] = IF k \in Positions(p, 0) THEN 0 ELSE 1
<1> DEFINE a == Word(p[0], Positions(p, 1), n)  b == Word(p[0], (1 .. n - 1) \ Positions(p, 0), n)
<1>0. n \in Nat \ {0} /\ \A k \in 0 .. n - 1 : k = 0 \/ k \in 1 .. n - 1
  BY WidthAssumption, SMT
<1>1. p[0] \in {0, 1} /\ \A k \in 0 .. n - 1 : p[k] \in {0, 1, Free}
  <2>1. 0 .. Free = {0, 1, Free}
    BY SMT DEF Free
  <2> QED BY <2>1 DEF Patterns
<1>2. /\ a \in WordsOf(n) /\ Bits(a, n)[0] = p[0]
      /\ \A k \in 1 .. n - 1 : Bits(a, n)[k] = IF k \in Positions(p, 1) THEN 1 ELSE 0
  BY <1>1, WordBits
<1>3. /\ b \in WordsOf(n) /\ Bits(b, n)[0] = p[0]
      /\ \A k \in 1 .. n - 1 : Bits(b, n)[k] = IF k \in (1 .. n - 1) \ Positions(p, 0) THEN 1 ELSE 0
  BY <1>1, WordBits
<1> HIDE DEF a, b
<1>4. \A v : \A k \in 1 .. n - 1 : k \in Positions(p, v) <=> p[k] = v
  <2>1. \A v : Positions(p, v) = {k \in 1 .. n - 1 : p[k] = v}
    BY <1>0, Candidates
  <2> QED BY <2>1
<1>5. \A k \in 1 .. n - 1 : p[k] \in {0, 1, Free}
  <2>1. \A k \in 1 .. n - 1 : k \in 0 .. n - 1
    BY <1>0, SMT
  <2> QED BY <1>1, <2>1
<1>6. \A k \in 1 .. n - 1 : p[k] = Free \/ Bits(a, n)[k] = p[k]
  BY <1>2, <1>4, <1>5
<1>7. \A k \in 1 .. n - 1 : Bits(b, n)[k] = IF k \in Positions(p, 0) THEN 0 ELSE 1
  BY <1>3
<1>8. \A k \in 1 .. n - 1 : p[k] = Free \/ Bits(b, n)[k] = p[k]
  BY <1>4, <1>5, <1>7
<1> QED
  BY <1>0, <1>2, <1>3, <1>6, <1>7, <1>8 DEF Matches, a, b

\* for "and" and "or" the candidates are combinations
LEMMA CandidatesAttained ==
    ASSUME NEW op \in {"and", "or"}, NEW n \in 1 .. LongWidth, NEW p \in Patterns(n), NEW q \in Patterns(n)
    PROVE  /\ \A ones \in LowestOnes(op, p, q) :
                 \E a \in WordsOf(n), b \in WordsOf(n) :
                    Matches(a, p, n) /\ Matches(b, q, n) /\ Bitwised(op, a, b) = Word(SignBit(op, p, q), ones, n)
           /\ \A zeros \in HighestZeros(op, p, q) :
                 \E a \in WordsOf(n), b \in WordsOf(n) :
                    /\ Matches(a, p, n) /\ Matches(b, q, n)
                    /\ Bitwised(op, a, b) = Word(SignBit(op, p, q), (1 .. n - 1) \ zeros, n)
<1>0. n \in Nat \ {0} /\ op \in Bitwise /\ \A k \in 0 .. n - 1 : k = 0 \/ k \in 1 .. n - 1
  BY WidthAssumption, SMT DEF Bitwise
<1>8. \A k \in 1 .. n - 1 : k \in 0 .. n - 1
  BY <1>0, SMT
<1> DEFINE p1 == Positions(p, 1)  p0 == Positions(p, 0)  q1 == Positions(q, 1)  q0 == Positions(q, 0)
           sign == SignBit(op, p, q)
<1>1. sign \in {0, 1}
  BY <1>0, SignsCombined
<1>2. ASSUME NEW a \in WordsOf(n), NEW b \in WordsOf(n), Matches(a, p, n), Matches(b, q, n), NEW ones,
             \A k \in 1 .. n - 1 : Combined(op, Bits(a, n)[k], Bits(b, n)[k]) = IF k \in ones THEN 1 ELSE 0
      PROVE  Bitwised(op, a, b) = Word(sign, ones, n)
  <2> DEFINE c == Bitwised(op, a, b)  w == Word(sign, ones, n)
  <2>1. c \in WordsOf(n) /\ \A k \in 0 .. n - 1 : Bits(c, n)[k] = Combined(op, Bits(a, n)[k], Bits(b, n)[k])
    BY <1>0, WordsCombined
  <2>2. Bits(c, n)[0] = sign
    BY <1>0, <1>2, FixedPositions
  <2>3. /\ w \in WordsOf(n) /\ Bits(w, n)[0] = sign
        /\ \A k \in 1 .. n - 1 : Bits(w, n)[k] = IF k \in ones THEN 1 ELSE 0
    BY <1>1, WordBits
  <2> HIDE DEF c, w
  <2>4. \A k \in 0 .. n - 1 : Bits(c, n)[k] = Bits(w, n)[k]
    BY <1>0, <1>2, <1>8, <2>1, <2>2, <2>3
  <2>5. c = w
    BY <2>1, <2>3, <2>4, SameWord
  <2> QED BY <2>5 DEF c, w
<1> DEFINE a0 == Word(p[0], p1, n)  a1 == Word(p[0], (1 .. n - 1) \ p0, n)
           b0 == Word(q[0], q1, n)  b1 == Word(q[0], (1 .. n - 1) \ q0, n)
<1>3. /\ a0 \in WordsOf(n) /\ Matches(a0, p, n) /\ a1 \in WordsOf(n) /\ Matches(a1, p, n)
      /\ \A k \in 1 .. n - 1 : Bits(a0, n)[k] = IF k \in p1 THEN 1 ELSE 0
      /\ \A k \in 1 .. n - 1 : Bits(a1, n)[k] = IF k \in p0 THEN 0 ELSE 1
  BY Filled
<1>4. /\ b0 \in WordsOf(n) /\ Matches(b0, q, n) /\ b1 \in WordsOf(n) /\ Matches(b1, q, n)
      /\ \A k \in 1 .. n - 1 : Bits(b0, n)[k] = IF k \in q1 THEN 1 ELSE 0
      /\ \A k \in 1 .. n - 1 : Bits(b1, n)[k] = IF k \in q0 THEN 0 ELSE 1
  BY Filled
<1>9. /\ LowestOnes("and", p, q) = {p1 \cap q1} /\ HighestZeros("and", p, q) = {p0 \cup q0}
      /\ LowestOnes("or", p, q) = {p1 \cup q1} /\ HighestZeros("or", p, q) = {p0 \cap q0}
  BY <1>0, Candidates
<1> HIDE DEF a0, a1, b0, b1, p1, p0, q1, q0, sign
<1>5. ASSUME NEW ones \in LowestOnes(op, p, q) PROVE Bitwised(op, a0, b0) = Word(sign, ones, n)
  <2>1. \A k \in 1 .. n - 1 : Bits(a0, n)[k] \in {0, 1} /\ Bits(b0, n)[k] \in {0, 1}
    BY <1>3, <1>4
  <2>2. \A k \in 1 .. n - 1 : Combined(op, Bits(a0, n)[k], Bits(b0, n)[k]) = IF k \in ones THEN 1 ELSE 0
    <3>1. CASE op = "and"
      <4>1. ones = p1 \cap q1
        BY <1>5, <1>9, <3>1
      <4>2. \A k \in 1 .. n - 1 : Combined("and", Bits(a0, n)[k], Bits(b0, n)[k]) =
                                     IF Bits(a0, n)[k] = 1 /\ Bits(b0, n)[k] = 1 THEN 1 ELSE 0
        BY <2>1, CombinedBits
      <4> QED BY <1>3, <1>4, <3>1, <4>1, <4>2
    <3>2. CASE op = "or"
      <4>1. ones = p1 \cup q1
        BY <1>5, <1>9, <3>2
      <4>2. \A k \in 1 .. n - 1 : Combined("or", Bits(a0, n)[k], Bits(b0, n)[k]) =
                                     IF Bits(a0, n)[k] = 1 \/ Bits(b0, n)[k] = 1 THEN 1 ELSE 0
        BY <2>1, CombinedBits
      <4> QED BY <1>3, <1>4, <3>2, <4>1, <4>2
    <3> QED BY <3>1, <3>2
  <2> QED BY <1>2, <1>3, <1>4, <2>2
<1>6. ASSUME NEW zeros \in HighestZeros(op, p, q) PROVE Bitwised(op, a1, b1) = Word(sign, (1 .. n - 1) \ zeros, n)
  <2>1. \A k \in 1 .. n - 1 : Bits(a1, n)[k] \in {0, 1} /\ Bits(b1, n)[k] \in {0, 1}
    BY <1>3, <1>4
  <2>2. \A k \in 1 .. n - 1 : Combined(op, Bits(a1, n)[k], Bits(b1, n)[k]) =
                                 IF k \in (1 .. n - 1) \ zeros THEN 1 ELSE 0
    <3>1. CASE op = "and"
      <4>1. zeros = p0 \cup q0
        BY <1>6, <1>9, <3>1
      <4>2. \A k \in 1 .. n - 1 : Combined("and", Bits(a1, n)[k], Bits(b1, n)[k]) =
                                     IF Bits(a1, n)[k] = 1 /\ Bits(b1, n)[k] = 1 THEN 1 ELSE 0
        BY <2>1, CombinedBits
      <4> QED BY <1>3, <1>4, <3>1, <4>1, <4>2
    <3>2. CASE op = "or"
      <4>1. zeros = p0 \cap q0
        BY <1>6, <1>9, <3>2
      <4>2. \A k \in 1 .. n - 1 : Combined("or", Bits(a1, n)[k], Bits(b1, n)[k]) =
                                     IF Bits(a1, n)[k] = 1 \/ Bits(b1, n)[k] = 1 THEN 1 ELSE 0
        BY <2>1, CombinedBits
      <4> QED BY <1>3, <1>4, <3>2, <4>1, <4>2
    <3> QED BY <3>1, <3>2
  <2> QED BY <1>2, <1>3, <1>4, <2>2
<1> QED
  BY <1>3, <1>4, <1>5, <1>6 DEF sign

-----------------------------------------------------------------------------
(* The bitwise arm.                                                        *)

\* The size of a pattern suffices for every value of both ranges.
LEMMA SizeSuffices ==
    ASSUME NEW x \in Longs, NEW y \in Longs
    PROVE  LET n == bitSize(x, y)
           IN  /\ n \in 1 .. LongWidth
               /\ x.lo \in WordsOf(n) /\ x.hi \in WordsOf(n) /\ y.lo \in WordsOf(n) /\ y.hi \in WordsOf(n)
               /\ Values(x) \subseteq WordsOf(n) /\ Values(y) \subseteq WordsOf(n)
<1> DEFINE w == LongWidth  T == {Abs(x.lo), Abs(x.hi), Abs(y.lo), Abs(y.hi)}  m == Max(T)
           K == {k \in 0 .. w : 2^k > m}  k0 == Min(K)  n == Max2(2, 1 + k0)
           top == 2^(w - 1)
<1>0. w \in Nat /\ w >= 2 /\ w \in 1 .. w /\ w - 1 \in 0 .. w /\ 0 \in Int /\ w \in Int
  BY WidthAssumption, SMT
<1>1. top \in Nat
  BY <1>0, PowersAreLarge
<1>2. /\ x.lo \in Int /\ x.hi \in Int /\ x.lo <= x.hi /\ -top < x.lo /\ x.hi < top
      /\ y.lo \in Int /\ y.hi \in Int /\ y.lo <= y.hi /\ -top < y.lo /\ y.hi < top
  BY BoundedRanges DEF Longs, RangePairs, Sorted
<1>3. bitSize(x, y) = n
  BY DEF bitSize
<1> HIDE DEF top
<1>4. T \in SUBSET (0 .. top - 1) /\ T # {} /\ top - 1 \in Int
  BY <1>1, <1>2, SMT DEF Abs
<1>5. m \in T /\ \A e \in T : e <= m
  <2> HIDE DEF T
  <2> QED BY <1>0, <1>4, BoundedExtremes
<1>6. m \in Int /\ 0 <= m /\ m < top
  <2> HIDE DEF T, m
  <2>1. m \in 0 .. top - 1
    BY <1>4, <1>5
  <2> QED BY <1>1, <2>1, SMT
<1>7. Abs(x.lo) <= m /\ Abs(x.hi) <= m /\ Abs(y.lo) <= m /\ Abs(y.hi) <= m
  <2> HIDE DEF m
  <2> QED BY <1>5
<1> HIDE DEF m
<1>8. w - 1 \in K
  <2>1. 2^(w - 1) > m
    BY <1>1, <1>6, SMT DEF top
  <2> QED BY <1>0, <2>1
<1>9. k0 \in K /\ k0 <= w - 1
  <2>1. K \in SUBSET (0 .. w) /\ K # {}
    BY <1>8
  <2> HIDE DEF K
  <2> QED BY <1>0, <1>8, <2>1, BoundedExtremes
<1>10. k0 \in 0 .. w /\ 2^k0 > m /\ k0 <= w - 1
  <2> HIDE DEF k0
  <2> QED BY <1>9
<1> HIDE DEF k0
<1>11. n \in 1 .. w /\ n - 1 \in 0 .. w /\ k0 \in 0 .. n - 1
  BY <1>0, <1>10, SMT DEF Max2
<1> DEFINE h == 2^(n - 1)
<1>12. h \in Nat /\ m < h
  <2> DEFINE g == 2^k0
  <2>1. g \in Nat /\ h \in Nat /\ g <= h
    BY <1>11, PowersInOrder
  <2>2. g > m
    BY <1>10
  <2> HIDE DEF g, h
  <2> QED BY <1>6, <2>1, <2>2, SMT
<1>13. WordsOf(n) = -h .. h - 1
  BY DEF WordsOf
<1> HIDE DEF n, h
<1>14. -h < x.lo /\ x.hi < h /\ -h < y.lo /\ y.hi < h
  BY <1>2, <1>6, <1>7, <1>12, SMT DEF Abs
<1>15. /\ x.lo \in -h .. h - 1 /\ x.hi \in -h .. h - 1 /\ y.lo \in -h .. h - 1 /\ y.hi \in -h .. h - 1
       /\ x.lo .. x.hi \subseteq -h .. h - 1 /\ y.lo .. y.hi \subseteq -h .. h - 1
  BY <1>2, <1>12, <1>14, SMT
<1> QED
  BY <1>3, <1>11, <1>13, <1>15 DEF Values

\* BitwiseExact for one operation
LEMMA BitwiseAnswered ==
    ASSUME NEW op \in Bitwise, NEW x \in Longs, NEW y \in Longs, ~NegativeResult(op, x, y)
    PROVE  LET r == bitwiseInterval(op, x, y)
               results == {Bitwised(op, a, b) : a \in Values(x), b \in Values(y)}
           IN  /\ \A v \in results : In(v, r)
               /\ op # "xor" => {r.lo, r.hi} \subseteq results
<1> DEFINE n == bitSize(x, y)  h == 2^(n - 1)
           P == getDisjointUnionSet(Bits(x.lo, n), Bits(x.hi, n))
           Q == getDisjointUnionSet(Bits(y.lo, n), Bits(y.hi, n))
           results == {Bitwised(op, a, b) : a \in Values(x), b \in Values(y)}
           least(p)    == {Word(SignBit(op, p[1], p[2]), ones, n) : ones \in LowestOnes(op, p[1], p[2])}
           greatest(p) == {Word(SignBit(op, p[1], p[2]), (1 .. n - 1) \ zeros, n) :
                              zeros \in HighestZeros(op, p[1], p[2])}
           S == UNION {least(p) : p \in P \X Q}
           T == UNION {greatest(p) : p \in P \X Q}
           r == bitwiseInterval(op, x, y)
<1>1. /\ n \in 1 .. LongWidth
      /\ x.lo \in WordsOf(n) /\ x.hi \in WordsOf(n) /\ y.lo \in WordsOf(n) /\ y.hi \in WordsOf(n)
      /\ Values(x) \subseteq WordsOf(n) /\ Values(y) \subseteq WordsOf(n)
  BY SizeSuffices
<1>2. r = Pair(convertBin2Dec(Min(S), n), convertBin2Dec(Max(T), n))
  BY DEF bitwiseInterval
<1>3. /\ x.lo \in Int /\ x.hi \in Int /\ x.lo <= x.hi /\ y.lo \in Int /\ y.hi \in Int /\ y.lo <= y.hi
  BY BoundedRanges DEF Longs, RangePairs, Sorted
<1> HIDE DEF n, r, P, Q, least, greatest, S, T
<1>4. /\ P \subseteq Patterns(n) /\ Q \subseteq Patterns(n)
      /\ \A a \in WordsOf(n) : a \in Values(x) <=> \E p \in P : Matches(a, p, n)
      /\ \A b \in WordsOf(n) : b \in Values(y) <=> \E q \in Q : Matches(b, q, n)
  <2>1. \A v \in WordsOf(n) : P \subseteq Patterns(n) /\ (x.lo <= v /\ v <= x.hi <=> \E p \in P : Matches(v, p, n))
    BY <1>1, <1>3, PatternsCover DEF P
  <2>2. \A v \in WordsOf(n) : Q \subseteq Patterns(n) /\ (y.lo <= v /\ v <= y.hi <=> \E q \in Q : Matches(v, q, n))
    BY <1>1, <1>3, PatternsCover DEF Q
  <2>3. \A v \in WordsOf(n) : (v \in Values(x) <=> x.lo <= v /\ v <= x.hi) /\ (v \in Values(y) <=> y.lo <= v /\ v <= y.hi)
    <3> SUFFICES ASSUME NEW v \in WordsOf(n)
                 PROVE  (v \in Values(x) <=> x.lo <= v /\ v <= x.hi) /\ (v \in Values(y) <=> y.lo <= v /\ v <= y.hi)
      OBVIOUS
    <3>1. v \in Int
      BY <1>1, Positioned
    <3> QED BY <1>3, <3>1, SMT DEF Values
  <2> QED BY <1>1, <2>1, <2>2, <2>3
<1>5. P # {} /\ Q # {}
  <2>1. x.lo \in Values(x) /\ y.lo \in Values(y)
    BY <1>3, SMT DEF Values
  <2> QED BY <1>1, <1>4, <2>1
<1>6. /\ \A a \in Values(x), b \in Values(y) : Bitwised(op, a, b) >= 0
      /\ \A a \in Values(x), b \in Values(y) : Bitwised(op, a, b) \in WordsOf(n)
  <2>1. \A a \in Values(x), b \in Values(y) : Bitwised(op, a, b) \in WordsOf(n)
    BY <1>1, WordsCombined
  <2>2. \A v \in WordsOf(n) : v \in Int
    BY <1>1, Positioned
  <2>3. \A a \in Values(x), b \in Values(y) : ~(Bitwised(op, a, b) < 0)
    BY DEF NegativeResult
  <2> QED BY <2>1, <2>2, <2>3, SMT
<1>7. \A p \in P, q \in Q : SignBit(op, p, q) = 0
  <2> SUFFICES ASSUME NEW p \in P, NEW q \in Q PROVE SignBit(op, p, q) = 0
    OBVIOUS
  <2>1. p \in Patterns(n) /\ q \in Patterns(n)
    BY <1>4
  <2>2. PICK a \in WordsOf(n) : Matches(a, p, n)
    BY <1>1, <2>1, Filled
  <2>3. PICK b \in WordsOf(n) : Matches(b, q, n)
    BY <1>1, <2>1, Filled
  <2>4. a \in Values(x) /\ b \in Values(y)
    BY <1>4, <2>2, <2>3
  <2> DEFINE c == Bitwised(op, a, b)
  <2>5. c \in WordsOf(n) /\ c >= 0 /\ Bits(c, n)[0] = SignBit(op, p, q)
    BY <1>1, <1>6, <2>1, <2>2, <2>3, <2>4, FixedPositions
  <2> HIDE DEF c
  <2>6. c \in Int /\ Bits(c, n)[0] = IF c < 0 THEN 1 ELSE 0
    BY <1>1, <2>5, Positioned
  <2>7. ~(c < 0)
    BY <2>5, <2>6, SMT
  <2> QED BY <2>5, <2>6, <2>7
<1>8. \A p \in P, q \in Q : \A ones : Word(SignBit(op, p, q), ones, n) \in 0 .. h - 1
  <2> SUFFICES ASSUME NEW p \in P, NEW q \in Q, NEW ones PROVE Word(0, ones, n) \in 0 .. h - 1
    BY <1>7
  <2> DEFINE v == Word(0, ones, n)
  <2>1. v \in WordsOf(n) /\ Bits(v, n)[0] = 0
    BY <1>1, WordBits
  <2> HIDE DEF v
  <2>2. v \in Int /\ Bits(v, n)[0] = IF v < 0 THEN 1 ELSE 0
    BY <1>1, <2>1, Positioned
  <2>3. v \in -h .. h - 1
    BY <2>1 DEF WordsOf
  <2>4. h \in Nat
    BY <1>1, PowersDouble
  <2> HIDE DEF h
  <2>5. v \in 0 .. h - 1
    BY <2>1, <2>2, <2>3, <2>4, SMT
  <2> QED BY <2>5 DEF v
<1>9. \A v : v \in S <=> \E p \in P, q \in Q : \E ones \in LowestOnes(op, p, q) : v = Word(SignBit(op, p, q), ones, n)
  <2> SUFFICES ASSUME NEW v
               PROVE  v \in S <=> \E p \in P, q \in Q : \E ones \in LowestOnes(op, p, q) : v = Word(SignBit(op, p, q), ones, n)
    OBVIOUS
  <2>1. v \in S <=> \E z \in P \X Q : v \in least(z)
    BY DEF S
  <2>2. \A p \in P, q \in Q : v \in least(<<p, q>>) <=> \E ones \in LowestOnes(op, p, q) : v = Word(SignBit(op, p, q), ones, n)
    BY DEF least
  <2>3. ASSUME v \in S PROVE \E p \in P, q \in Q : \E ones \in LowestOnes(op, p, q) : v = Word(SignBit(op, p, q), ones, n)
    <3>1. PICK z \in P \X Q : v \in least(z)
      BY <2>1, <2>3
    <3>2. PICK p \in P, q \in Q : z = <<p, q>>
      OBVIOUS
    <3>3. v \in least(<<p, q>>)
      BY <3>1, <3>2
    <3> QED BY <2>2, <3>3
  <2>4. ASSUME NEW p \in P, NEW q \in Q, \E ones \in LowestOnes(op, p, q) : v = Word(SignBit(op, p, q), ones, n) PROVE v \in S
    <3>1. v \in least(<<p, q>>) /\ <<p, q>> \in P \X Q
      BY <2>2, <2>4
    <3> QED BY <2>1, <3>1
  <2> QED BY <2>3, <2>4
<1>10. \A v : v \in T <=> \E p \in P, q \in Q : \E zeros \in HighestZeros(op, p, q) :
                             v = Word(SignBit(op, p, q), (1 .. n - 1) \ zeros, n)
  <2> SUFFICES ASSUME NEW v
               PROVE  v \in T <=> \E p \in P, q \in Q : \E zeros \in HighestZeros(op, p, q) : v = Word(SignBit(op, p, q), (1 .. n - 1) \ zeros, n)
    OBVIOUS
  <2>1. v \in T <=> \E z \in P \X Q : v \in greatest(z)
    BY DEF T
  <2>2. \A p \in P, q \in Q : v \in greatest(<<p, q>>) <=> \E zeros \in HighestZeros(op, p, q) : v = Word(SignBit(op, p, q), (1 .. n - 1) \ zeros, n)
    BY DEF greatest
  <2>3. ASSUME v \in T PROVE \E p \in P, q \in Q : \E zeros \in HighestZeros(op, p, q) : v = Word(SignBit(op, p, q), (1 .. n - 1) \ zeros, n)
    <3>1. PICK z \in P \X Q : v \in greatest(z)
      BY <2>1, <2>3
    <3>2. PICK p \in P, q \in Q : z = <<p, q>>
      OBVIOUS
    <3>3. v \in greatest(<<p, q>>)
      BY <3>1, <3>2
    <3> QED BY <2>2, <3>3
  <2>4. ASSUME NEW p \in P, NEW q \in Q, \E zeros \in HighestZeros(op, p, q) : v = Word(SignBit(op, p, q), (1 .. n - 1) \ zeros, n) PROVE v \in T
    <3>1. v \in greatest(<<p, q>>) /\ <<p, q>> \in P \X Q
      BY <2>2, <2>4
    <3> QED BY <2>1, <3>1
  <2> QED BY <2>3, <2>4
<1>11. \A p \in P, q \in Q : LowestOnes(op, p, q) # {} /\ HighestZeros(op, p, q) # {}
  <2> SUFFICES ASSUME NEW p \in P, NEW q \in Q PROVE LowestOnes(op, p, q) # {} /\ HighestZeros(op, p, q) # {}
    OBVIOUS
  <2>1. p \in Patterns(n) /\ q \in Patterns(n) /\ n \in Nat \ {0}
    BY <1>1, <1>4, WidthAssumption, SMT
  <2>2. CASE op = "and"
    <3>1. /\ LowestOnes("and", p, q) = {Positions(p, 1) \cap Positions(q, 1)}
          /\ HighestZeros("and", p, q) = {Positions(p, 0) \cup Positions(q, 0)}
      BY <2>1, Candidates
    <3> QED BY <2>2, <3>1
  <2>3. CASE op = "or"
    <3>1. /\ LowestOnes("or", p, q) = {Positions(p, 1) \cup Positions(q, 1)}
          /\ HighestZeros("or", p, q) = {Positions(p, 0) \cap Positions(q, 0)}
      BY <2>1, Candidates
    <3> QED BY <2>3, <3>1
  <2>4. CASE op = "xor"
    <3>1. /\ Positions(p, 1) \cap Positions(q, 0) \in LowestOnes("xor", p, q)
          /\ Positions(p, 0) \cap Positions(q, 0) \in HighestZeros("xor", p, q)
      BY <2>1, Candidates
    <3> QED BY <2>4, <3>1
  <2> QED BY <2>2, <2>3, <2>4 DEF Bitwise
<1>12. /\ S \in SUBSET (0 .. h - 1) /\ S # {} /\ T \in SUBSET (0 .. h - 1) /\ T # {}
  <2>1. S \in SUBSET (0 .. h - 1) /\ T \in SUBSET (0 .. h - 1)
    <3> HIDE DEF h
    <3>1. \A v \in S : v \in 0 .. h - 1
      <4> SUFFICES ASSUME NEW v \in S PROVE v \in 0 .. h - 1
        OBVIOUS
      <4>1. PICK p \in P, q \in Q : \E ones \in LowestOnes(op, p, q) : v = Word(SignBit(op, p, q), ones, n)
        BY <1>9
      <4> QED BY <1>8, <4>1
    <3>2. \A v \in T : v \in 0 .. h - 1
      <4> SUFFICES ASSUME NEW v \in T PROVE v \in 0 .. h - 1
        OBVIOUS
      <4>1. PICK p \in P, q \in Q : \E zeros \in HighestZeros(op, p, q) :
                                       v = Word(SignBit(op, p, q), (1 .. n - 1) \ zeros, n)
        BY <1>10
      <4> QED BY <1>8, <4>1
    <3> QED BY <3>1, <3>2
  <2>2. PICK p \in P, q \in Q : TRUE
    BY <1>5
  <2>3. \E v : v \in S
    BY <1>9, <1>11
  <2>4. \E v : v \in T
    BY <1>10, <1>11
  <2> QED BY <2>1, <2>3, <2>4
<1>13. /\ Min(S) \in S /\ (\A v \in S : Min(S) <= v) /\ Max(T) \in T /\ \A v \in T : v <= Max(T)
  <2>1. h \in Nat
    BY <1>1, PowersDouble
  <2>2. h - 1 \in Int /\ 0 \in Int
    <3> HIDE DEF h
    <3> QED BY <2>1, SMT
  <2> HIDE DEF h
  <2> QED BY <1>12, <2>2, BoundedExtremes
<1> DEFINE low == Min(S)  high == Max(T)
<1>14. r.lo = low /\ r.hi = high /\ low \in Int /\ high \in Int
  <2> DEFINE m == 2^n
  <2>1. m = 2 * h /\ h \in Nat /\ h >= 1
    BY <1>1, PowersDouble
  <2>2. low \in 0 .. h - 1 /\ high \in 0 .. h - 1
    BY <1>12, <1>13
  <2>3. convertBin2Dec(low, n) = low % m /\ convertBin2Dec(high, n) = high % m
    BY DEF convertBin2Dec
  <2>4. r.lo = convertBin2Dec(low, n) /\ r.hi = convertBin2Dec(high, n)
    BY <1>2 DEF Pair
  <2> HIDE DEF h, m, low, high
  <2>5. /\ low \in Int /\ 0 <= low /\ low < m /\ high \in Int /\ 0 <= high /\ high < m /\ m \in Nat /\ m >= 1
    BY <2>1, <2>2, SMT
  <2>6. low % m = low /\ high % m = high
    BY <2>5, SmallWord
  <2> QED BY <2>3, <2>4, <2>5, <2>6
<1> HIDE DEF low, high
<1>15. ASSUME NEW a \in Values(x), NEW b \in Values(y) PROVE In(Bitwised(op, a, b), r)
  <2>1. a \in WordsOf(n) /\ b \in WordsOf(n)
    BY <1>1
  <2>2. PICK p \in P : Matches(a, p, n)
    BY <1>4, <2>1
  <2>3. PICK q \in Q : Matches(b, q, n)
    BY <1>4, <2>1
  <2>4. p \in Patterns(n) /\ q \in Patterns(n)
    BY <1>4
  <2> DEFINE c == Bitwised(op, a, b)
  <2>5. /\ \A ones \in LowestOnes(op, p, q) : Word(SignBit(op, p, q), ones, n) <= c
        /\ \A zeros \in HighestZeros(op, p, q) : c <= Word(SignBit(op, p, q), (1 .. n - 1) \ zeros, n)
    BY <1>1, <2>1, <2>2, <2>3, <2>4, BetweenCandidates
  <2>6. c \in Int
    BY <1>1, <1>6, Positioned
  <2> HIDE DEF c
  <2>7. low <= c
    <3>1. PICK ones \in LowestOnes(op, p, q) : TRUE
      BY <1>11
    <3> DEFINE v == Word(SignBit(op, p, q), ones, n)
    <3>2. v \in S /\ v <= c
      BY <1>9, <2>5
    <3>3. v \in Int
      <4>1. v \in 0 .. h - 1
        BY <1>12, <3>2
      <4> HIDE DEF v, h
      <4> QED BY <4>1, SMT
    <3> HIDE DEF v
    <3>4. low <= v
      BY <1>13, <3>2 DEF low
    <3> QED BY <1>14, <2>6, <3>2, <3>3, <3>4, SMT
  <2>8. c <= high
    <3>1. PICK zeros \in HighestZeros(op, p, q) : TRUE
      BY <1>11
    <3> DEFINE v == Word(SignBit(op, p, q), (1 .. n - 1) \ zeros, n)
    <3>2. v \in T /\ c <= v
      BY <1>10, <2>5
    <3>3. v \in Int
      <4>1. v \in 0 .. h - 1
        BY <1>12, <3>2
      <4> HIDE DEF v, h
      <4> QED BY <4>1, SMT
    <3> HIDE DEF v
    <3>4. v <= high
      BY <1>13, <3>2 DEF high
    <3> QED BY <1>14, <2>6, <3>2, <3>3, <3>4, SMT
  <2> QED BY <1>14, <2>7, <2>8 DEF In, c
<1>16. ASSUME op # "xor" PROVE low \in results /\ high \in results
  <2>0. op \in {"and", "or"}
    BY <1>16 DEF Bitwise
  <2>1. low \in results
    <3>1. PICK p \in P, q \in Q : \E ones \in LowestOnes(op, p, q) : low = Word(SignBit(op, p, q), ones, n)
      BY <1>9, <1>13 DEF low
    <3>2. p \in Patterns(n) /\ q \in Patterns(n)
      BY <1>4
    <3>3. PICK a \in WordsOf(n), b \in WordsOf(n) : Matches(a, p, n) /\ Matches(b, q, n) /\ Bitwised(op, a, b) = low
      BY <1>1, <2>0, <3>1, <3>2, CandidatesAttained
    <3>4. a \in Values(x) /\ b \in Values(y)
      BY <1>4, <3>3
    <3> QED BY <3>3, <3>4
  <2>2. high \in results
    <3>1. PICK p \in P, q \in Q : \E zeros \in HighestZeros(op, p, q) :
                                     high = Word(SignBit(op, p, q), (1 .. n - 1) \ zeros, n)
      BY <1>10, <1>13 DEF high
    <3>2. p \in Patterns(n) /\ q \in Patterns(n)
      BY <1>4
    <3>3. PICK a \in WordsOf(n), b \in WordsOf(n) : Matches(a, p, n) /\ Matches(b, q, n) /\ Bitwised(op, a, b) = high
      BY <1>1, <2>0, <3>1, <3>2, CandidatesAttained
    <3>4. a \in Values(x) /\ b \in Values(y)
      BY <1>4, <3>3
    <3> QED BY <3>3, <3>4
  <2> QED BY <2>1, <2>2
<1> QED
  BY <1>14, <1>15, <1>16 DEF r

\* The arms of the bitwise operators.
LEMMA BitwiseArms ==
    ASSUME NEW op \in Bitwise, NEW w, NEW x, NEW y, NEW const
    PROVE  Answer(op, w, x, y, const) = bitwiseInterval(op, x, y)
<1>1. Answer("and", w, x, y, const) = bitwiseInterval("and", x, y)
  BY Zenon DEF Answer, Casts, AndRange
<1>2. Answer("or", w, x, y, const) = bitwiseInterval("or", x, y)
  BY Zenon DEF Answer, Casts, OrRange
<1>3. Answer("xor", w, x, y, const) = bitwiseInterval("xor", x, y)
  BY Zenon DEF Answer, Casts, XorRange
<1> QED
  BY <1>1, <1>2, <1>3, Zenon DEF Bitwise

\* The arms of "and", "or" and "xor", for ranges of 64 bits and less: unless
\* a result is negative, the range has every combination of two values of the
\* ranges, and for "and" and "or" both of its ends are one (BitwiseExact).
THEOREM BitwiseIsExact == Spec => []BitwiseExact
<1>1. IInv => BitwiseExact
  <2> DEFINE op == query.op  x == query.x  y == query.y
             results == {Bitwised(op, a, b) : a \in Values(x), b \in Values(y)}
  <2> SUFFICES ASSUME IInv, NEW r \in answer, op \in Bitwise, ~NegativeResult(op, x, y)
               PROVE  (\A v \in results : In(v, r)) /\ (op # "xor" => {r.lo, r.hi} \subseteq results)
    BY DEF BitwiseExact
  <2>1. r = Answer(op, query.w, x, y, query.const)
    BY DEF IInv, Answered
  <2>2. x \in Longs /\ y \in Longs
    BY DEF IInv, Asked
  <2> HIDE DEF op, x, y
  <2>3. r = bitwiseInterval(op, x, y)
    BY <2>1, BitwiseArms
  <2> QED BY <2>2, <2>3, BitwiseAnswered
<1> QED
  BY <1>1, AnswersAreKept, PTL
=============================================================================
