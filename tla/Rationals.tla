------------------------------ MODULE Rationals ------------------------------
(***************************************************************************)
(* The doubles of the statistics, as exact rationals: rounding is left out, *)
(* everything else an expression of the C code does is computed. A division *)
(* by zero gives one of the infinities or NaN, with denominator 0.          *)
(***************************************************************************)
LOCAL INSTANCE Integers

Abs(n) == IF n < 0 THEN -n ELSE n
Sign(n) == IF n < 0 THEN -1 ELSE IF n = 0 THEN 0 ELSE 1
gcd[p \in Nat \X Nat] ==
    IF p[2] = 0 THEN p[1] ELSE gcd[<<p[2], p[1] % p[2]>>]

\* n/d, in lowest terms
Rational(n, d) ==
    IF d = 0 THEN [num |-> Sign(n), den |-> 0]
    ELSE LET g == gcd[<<Abs(n), Abs(d)>>] * Sign(d)
         IN [num |-> IF g < 0 THEN -(n \div (-g)) ELSE n \div g, den |-> Abs(d) \div Abs(g)]

Double(n) == [num |-> n, den |-> 1]
Zero == Double(0)
One == Double(1)

Plus(p, q)  == Rational(p.num * q.den + q.num * p.den, p.den * q.den)
Minus(p, q) == Rational(p.num * q.den - q.num * p.den, p.den * q.den)
Times(p, q) == Rational(p.num * q.num, p.den * q.den)
Over(p, q)  == Rational(p.num * q.den, p.den * q.num)
Scaled(n, p) == Rational(n * p.num, p.den)

\* the powers that the moments need
Power(n, k) ==
    CASE k = 1 -> n
      [] k = 2 -> n * n
      [] k = 3 -> n * n * n
      [] k = 4 -> n * n * n * n
pow(p, k) == Rational(Power(p.num, k), Power(p.den, k))

Positive(p) == p.num > 0

\* x * |x| / y: the square, with the sign of x, of x / sqrt(y)
SignedSquare(x, y) == Over(Scaled(Sign(x.num), Times(x, x)), y)
=============================================================================
