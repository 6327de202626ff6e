----------------------------- MODULE Rationals -----------------------------
(***************************************************************************)
(* Fractions <<numerator, denominator>> in lowest terms, with a positive   *)
(* denominator: the numbers of indicators and rules, which the code keeps  *)
(* as float64. Arithmetic is exact here, so what is shown is shown up to   *)
(* rounding.                                                               *)
(***************************************************************************)
EXTENDS Integers

\* float64 NaN and "not available": what has no value yet.
NoValue == <<0, 0>>

Num(n) == <<n, 1>>
Zero   == Num(0)

RECURSIVE Gcd(_, _)
Gcd(a, b) == IF b = 0 THEN a ELSE Gcd(b, a % b)

Lowered(n, d, g) == <<n \div g, d \div g>>

\* n over d, for a positive d.
Frac(n, d) == Lowered(n, d, Gcd(n, d))

a ++ b == Frac(a[1] * b[2] + b[1] * a[2], a[2] * b[2])
a -- b == Frac(a[1] * b[2] - b[1] * a[2], a[2] * b[2])
a ** b == Frac(a[1] * b[1], a[2] * b[2])

\* A divisor below zero gives its sign to the numerator.
Sign(n) == IF n < 0 THEN -1 ELSE 1

a // b == Frac(Sign(b[1]) * a[1] * b[2], a[2] * b[1] * Sign(b[1]))

a \prec b == a[1] * b[2] < b[1] * a[2]

Greatest(a, b) == IF a \prec b THEN b ELSE a
Least(a, b)    == IF b \prec a THEN b ELSE a
Magnitude(a)   == <<Sign(a[1]) * a[1], a[2]>>
=============================================================================
