---------------------------- MODULE WordIntervals ---------------------------
(***************************************************************************)
(* The arms of rangeAnalysis that know about words: division, shifts, the  *)
(* bitwise operators and the casts.  An operand is a range; a constant is  *)
(* the range (c, c), and arms that treat it apart are operators of their   *)
(* own.  w is the width of the instruction's type.  The widths of C's int  *)
(* and of int64_t are parameters, so that small instances keep what        *)
(* depends on which of them is wider.                                      *)
(***************************************************************************)
EXTENDS IntervalArithmetic

CONSTANTS IntWidth, LongWidth

ASSUME WidthAssumption == /\ IntWidth \in Nat \ {0} /\ LongWidth \in Nat
                          /\ IntWidth < LongWidth

Ends(x) == {x.lo, x.hi}
Extremes(s) == Pair(Min(s), Max(s))

-----------------------------------------------------------------------------
(* Division, in doubles: an end is a fraction <<n, d>> with 0 <= d, where  *)
(* <<1, 0>> and <<-1, 0>> are the infinities and <<0, 0>> is not a number. *)

Over(a, b) == IF b > 0 THEN <<a, b>> ELSE IF b < 0 THEN <<-a, -b>>
              ELSE <<IF a > 0 THEN 1 ELSE IF a < 0 THEN -1 ELSE 0, 0>>

IsNumber(p) == p # <<0, 0>>
Below(p, q) == /\ IsNumber(p) /\ IsNumber(q)
               /\ IF p[2] = 0 /\ q[2] = 0 THEN p[1] < q[1] ELSE p[1] * q[2] < q[1] * p[2]

\* std::min and std::max: the first argument, unless the second is beyond it
Least(p, q)    == IF Below(q, p) THEN q ELSE p
Greatest(p, q) == IF Below(p, q) THEN q ELSE p

\* x1 / x2
DivRange(x, y) ==
    LET a == Over(x.lo, y.lo)  b == Over(x.lo, y.hi)
        c == Over(x.hi, y.lo)  d == Over(x.hi, y.hi)
    IN  Pair(Least(Least(Least(a, b), c), d), Greatest(Greatest(Greatest(a, b), c), d))

\* c / x
DivOfConst(c, x) == Pair(Least(Over(c, x.lo), Over(c, x.hi)),
                         Greatest(Over(c, x.lo), Over(c, x.hi)))

\* x / c: the two ends are divided and not reordered
DivByConst(x, c) == Pair(Over(x.lo, c), Over(x.hi, c))

-----------------------------------------------------------------------------
(* Shifts.  static_cast<bool>, static_cast<uint8_t>, ...; a negative       *)
(* double becomes the word that it is congruent to, as on the x86-64 and   *)
(* AArch64 builds.                                                         *)

Unsigned(v, w)  == IF w = 1 THEN (IF v = 0 THEN 0 ELSE 1) ELSE v % 2^w
AsInt(v, w)     == ((v + 2^(w - 1)) % (2^w)) - 2^(w - 1)
Signed(v, w)    == IF w = 1 THEN Unsigned(v, w) ELSE AsInt(v, w)
UnsignedEnds(x, w) == Pair(Unsigned(x.lo, w), Unsigned(x.hi, w))

ShiftLeft(a, s)  == (a * 2^s) % 2^LongWidth
ShiftRight(a, s) == a \div 2^s

\* Mutant: the left operand is not cast.
ShlRange_SignedLeft(x, y, w) == Extremes({ShiftLeft(a, s) : a \in Ends(x), s \in Ends(y)})

\* x1 << x2: the left operand is unsigned, the result has 64 bits
ShlRange(x, y, w) == Extremes({ShiftLeft(a, s) : a \in Ends(UnsignedEnds(x, w)), s \in Ends(y)})

\* c << x: c is sign extended, the ends are not reordered
ShlOfConst(c, x, w) ==
    LET y == UnsignedEnds(x, w)
    IN  Pair(ShiftLeft(Unsigned(c, LongWidth), y.lo), ShiftLeft(Unsigned(c, LongWidth), y.hi))

\* x << c: a type narrower than int is promoted, the others wrap
ShlByConst(x, c, w) ==
    LET ends == UnsignedEnds(x, w)
        left(a) == IF w < IntWidth THEN a * 2^c ELSE (a * 2^c) % 2^w
    IN  Extremes({left(ends.lo), left(ends.hi)})

\* x1 >> x2, with the sign
AShrRange(x, y, w) == Extremes({ShiftRight(a, s) : a \in Ends(x), s \in Ends(y)})

\* c >> x: a logical shift of the sign-extended constant, ends not reordered
AShrOfConst(c, x, w) ==
    LET y == UnsignedEnds(x, w)
    IN  Pair(ShiftRight(Unsigned(c, LongWidth), y.lo), ShiftRight(Unsigned(c, LongWidth), y.hi))

\* x >> c
AShrByConst(x, c, w) ==
    Extremes({ShiftRight(Signed(x.lo, w), c), ShiftRight(Signed(x.hi, w), c)})

\* x1 >> x2, without the sign
LShrRange(x, y, w) == Extremes({ShiftRight(a, s) : a \in Ends(UnsignedEnds(x, w)), s \in Ends(UnsignedEnds(y, w))})

\* c >> x: the constant is zero extended, the ends are not reordered
LShrOfConst(c, x, w) ==
    LET y == UnsignedEnds(x, w)
    IN  Pair(ShiftRight(c % 2^w, y.lo), ShiftRight(c % 2^w, y.hi))

\* x >> c
LShrByConst(x, c, w) ==
    Extremes({ShiftRight(Unsigned(x.lo, w), c), ShiftRight(Unsigned(x.hi, w), c)})

-----------------------------------------------------------------------------
(* Bitwise operators.  A word of n bits is a function from its positions,  *)
(* 0 being the sign; a position may be Free, either 0 or 1.                *)

Free == 2
Bits(v, n) == [k \in 0 .. n - 1 |-> (v \div 2^(n - 1 - k)) % 2]
Positions(p, v) == {k \in DOMAIN p \ {0} : p[k] = v}
LastPosition(p, v) == Max({0} \cup Positions(p, v))

\* everything behind position k is free; the same with position k inverted
Cut(b, k)  == [j \in DOMAIN b |-> IF j <= k THEN b[j] ELSE Free]
Flip(b, k) == [Cut(b, k) EXCEPT ![k] = 1 - b[k]]

\* Mutant: only the two outer patterns.
getDisjointUnionSet_NoSplit(lower, upper) ==
    LET turn == Min({k \in DOMAIN lower : lower[k] # upper[k]})
    IN  IF lower = upper THEN {lower}
        ELSE {Cut(lower, Max2(LastPosition(lower, 1), turn)),
              Cut(upper, Max2(LastPosition(upper, 0), turn))}

\* patterns that together match the words from lower to upper, and no other
getDisjointUnionSet(lower, upper) ==
    LET turn  == Min({k \in DOMAIN lower : lower[k] # upper[k]})
        start == LastPosition(lower, 1)
        end   == LastPosition(upper, 0)
    IN  IF lower = upper THEN {lower}
        ELSE {Cut(lower, Max2(start, turn)), Cut(upper, Max2(end, turn))}
             \cup {Flip(lower, k) : k \in {j \in turn + 1 .. start - 1 : lower[j] = 0}}
             \cup {Flip(upper, k) : k \in {j \in turn + 1 .. end - 1 : upper[j] = 1}}

\* getBitPos: where a result of the patterns must have a one, where a zero.
\* For xor the two ways of a difference, or of an agreement, are candidates
\* of their own, although both apply.
LowestOnes(op, a, b) ==
    CASE op = "and" -> {Positions(a, 1) \cap Positions(b, 1)}
      [] op = "or"  -> {Positions(a, 1) \cup Positions(b, 1)}
      [] op = "xor" -> {Positions(a, 1) \cap Positions(b, 0), Positions(a, 0) \cap Positions(b, 1)}

HighestZeros(op, a, b) ==
    CASE op = "and" -> {Positions(a, 0) \cup Positions(b, 0)}
      [] op = "or"  -> {Positions(a, 0) \cap Positions(b, 0)}
      [] op = "xor" -> {Positions(a, 0) \cap Positions(b, 0), Positions(a, 1) \cap Positions(b, 1)}

SignBit(op, a, b) == CASE op = "and" -> a[0] * b[0]
                       [] op = "or"  -> Max2(a[0], b[0])
                       [] op = "xor" -> (a[0] + b[0]) % 2

\* The word with these ones.  max_element compares the sign first and then
\* the positions one by one, so that it picks the least word, or the greatest.
Word(sign, ones, n) ==
    LET value[k \in 0 .. n - 1] ==
            IF k = 0 THEN -sign ELSE 2 * value[k - 1] + (IF k \in ones THEN 1 ELSE 0)
    IN  value[n - 1]

\* "minus 1" and "negate" on 64 bits, then a minus: a word that begins with a
\* one gets the value it has without a sign
convertBin2Dec(v, n) == v % 2^n

\* the bits of the largest end, and a sign
bitSize(x, y) ==
    LET m == Max({Abs(x.lo), Abs(x.hi), Abs(y.lo), Abs(y.hi)})
    IN  Max2(2, 1 + Min({k \in 0 .. LongWidth : 2^k > m}))

bitwiseInterval(op, x, y) ==
    LET n     == bitSize(x, y)
        pairs == getDisjointUnionSet(Bits(x.lo, n), Bits(x.hi, n)) \X
                 getDisjointUnionSet(Bits(y.lo, n), Bits(y.hi, n))
        least(p)    == {Word(SignBit(op, p[1], p[2]), ones, n) : ones \in LowestOnes(op, p[1], p[2])}
        greatest(p) == {Word(SignBit(op, p[1], p[2]), (1 .. n - 1) \ zeros, n) :
                            zeros \in HighestZeros(op, p[1], p[2])}
    IN  Pair(convertBin2Dec(Min(UNION {least(p) : p \in pairs}), n),
             convertBin2Dec(Max(UNION {greatest(p) : p \in pairs}), n))

\* x1 & x2, x1 | x2, x1 ^ x2; a constant is the range (c, c)
AndRange(x, y) == bitwiseInterval("and", x, y)
OrRange(x, y)  == bitwiseInterval("or", x, y)
XorRange(x, y) == bitwiseInterval("xor", x, y)

\* trunc, zext, sext and the conversions: the operand's range
CastRange(x) == x
=============================================================================
