----------------------------- MODULE Rationals -----------------------------
(***************************************************************************)
(* The doubles of the Newton front end, as exact fractions.  A literal, an *)
(* exponent and the exponent of a dimension are small fractions, on which  *)
(* the operations the parser uses are exact; an infinity, a NaN or an      *)
(* irrational power is NotExact.                                           *)
(***************************************************************************)
EXTENDS Integers

LOCAL INSTANCE FiniteSetsExt

NotExact == <<0, 0>>

LOCAL Abs(i) == IF i < 0 THEN -i ELSE i

Fraction(n, d) ==
    LET g == Max({k \in 1 .. Abs(d) : n % k = 0 /\ Abs(d) % k = 0})
        sign == IF d < 0 THEN -1 ELSE 1
    IN  IF d = 0 THEN NotExact ELSE <<sign * (n \div g), Abs(d) \div g>>

Whole(n) == <<n, 1>>
Zero == Whole(0)

Plus(p, q) == Fraction(p[1] * q[2] + q[1] * p[2], p[2] * q[2])
Less(p, q) == Fraction(p[1] * q[2] - q[1] * p[2], p[2] * q[2])
Times(p, q) == Fraction(p[1] * q[1], p[2] * q[2])
Over(p, q) == Fraction(p[1] * q[2], p[2] * q[1])

(* pow: a whole exponent, or a power of one or of zero.                    *)
Power(base, exponent) ==
    LET power[n \in Nat] == IF n = 0 THEN Whole(1) ELSE Times(base, power[n - 1])
    IN  IF base = NotExact \/ exponent = NotExact THEN NotExact
        ELSE IF exponent[2] = 1 /\ exponent[1] >= 0 THEN power[exponent[1]]
        ELSE IF exponent[2] = 1 THEN Over(Whole(1), power[-exponent[1]])
        ELSE IF base \in {Zero, Whole(1)} /\ exponent[1] > 0 THEN base
        ELSE NotExact
=============================================================================
