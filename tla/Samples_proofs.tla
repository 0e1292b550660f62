---------------------------- MODULE Samples_proofs ----------------------------
(***************************************************************************)
(* The moments, the variances and the gains of the statistics are those of  *)
(* the samples the step bits say were received, and so are the results, for *)
(* every command line and every output.                                     *)
(*                                                                         *)
(* The argument: an update with one more number gives from the batch values *)
(* of a sample those of the larger one (MomentsOneMore, VarianceOneMore), by *)
(* identities between fractions (Arithmetic_proofs). So Follows holds of    *)
(* the memory and, without the thetas, of what a restart would read.        *)
(***************************************************************************)
EXTENDS Statistics_proofs, Arithmetic_proofs

\* the numbers of x, and one more
Numeric(x) == IsFiniteSet(DOMAIN x) /\ \A i \in DOMAIN x : x[i] \in Int
Extends(y, x, i) ==
    /\ Numeric(x) /\ Numeric(y)
    /\ i \notin DOMAIN x /\ DOMAIN y = DOMAIN x \cup {i}
    /\ \A j \in DOMAIN x : y[j] = x[j]

LEMMA CountOf ==
    ASSUME NEW x, Numeric(x)
    PROVE  /\ N(x) \in Nat /\ (N(x) = 0 <=> DOMAIN x = {})
           /\ \A k \in 1 .. 4 : PowerSum(x, k) \in Int /\ (N(x) = 0 => PowerSum(x, k) = 0)
<1>1. N(x) \in Nat /\ (N(x) = 0 <=> DOMAIN x = {})
  BY FS_CardinalityType, FS_EmptySet DEF N, Numeric
<1>2. ASSUME NEW k \in 1 .. 4
      PROVE  PowerSum(x, k) \in Int /\ (DOMAIN x = {} => PowerSum(x, k) = 0)
  <2> DEFINE f == [i \in DOMAIN x |-> Power(x[i], k)]
  <2>1. PowerSum(x, k) = SumFunctionOnSet(f, DOMAIN x)
    BY DEF PowerSum, SumFunction
  <2>2. \A i \in DOMAIN x : f[i] \in Int
    BY PowerType DEF Numeric
  <2> HIDE DEF f
  <2> QED
    BY <2>1, <2>2, SumType, SumEmpty DEF Numbers, Numeric
<1> QED
  BY <1>1, <1>2

LEMMA SumsGrow ==
    ASSUME NEW x, NEW y, NEW i, Extends(y, x, i)
    PROVE  /\ N(y) = N(x) + 1
           /\ \A k \in 1 .. 4 : PowerSum(y, k) = PowerSum(x, k) + Power(y[i], k)
<1>1. N(y) = N(x) + 1
  BY FS_AddElement DEF N, Extends, Numeric
<1>2. ASSUME NEW k \in 1 .. 4
      PROVE  PowerSum(y, k) = PowerSum(x, k) + Power(y[i], k)
  <2> DEFINE S == DOMAIN x
             f == [j \in S |-> Power(x[j], k)]
             g == [j \in DOMAIN y |-> Power(y[j], k)]
  <2>1. /\ PowerSum(x, k) = SumFunctionOnSet(f, S)
        /\ PowerSum(y, k) = SumFunctionOnSet(g, S \cup {i})
    BY DEF PowerSum, SumFunction, Extends
  <2>2. \A j \in S \cup {i} : g[j] \in Int /\ g[j] = Power(y[j], k)
    BY PowerType DEF Numeric, Extends
  <2>3. \A j \in S : f[j] = g[j] /\ f[j] \in Int
    BY <2>2 DEF Extends
  <2>4. IsFiniteSet(S) /\ i \notin S
    BY DEF Extends, Numeric
  <2> HIDE DEF S, f, g
  <2>5. SumFunctionOnSet(f, S) = SumFunctionOnSet(g, S)
    BY <2>3, <2>4, SumSame
  <2>6. SumFunctionOnSet(g, S \cup {i}) = SumFunctionOnSet(g, S) + g[i]
    BY <2>2, <2>4, SumOneMore DEF Numbers
  <2> QED
    BY <2>1, <2>2, <2>5, <2>6
<1> QED
  BY <1>1, <1>2

-----------------------------------------------------------------------------
(* The moments of what was received, one number after the other.             *)

\* m[k] is the mean of the k-th powers of the numbers of x
Moments(m, x) ==
    /\ DOMAIN m = 1 .. max_order
    /\ \A k \in 1 .. max_order : m[k] = IF N(x) = 0 THEN Zero ELSE BatchMoment(x, k)

LEMMA OrderIs == max_order \in 0 .. 4
  BY DEF max_order

LEMMA MomentStep ==
    ASSUME NEW x, NEW y, NEW i, Extends(y, x, i), NEW k \in 1 .. 4,
           NEW m, m = IF N(x) = 0 THEN Zero ELSE BatchMoment(x, k)
    PROVE  increment_moments_mean(m, Double(y[i]), N(x) + 1, k) = BatchMoment(y, k)
<1> DEFINE v == Power(y[i], k)
           p == PowerSum(x, k)
           c == N(x)
<1>1. /\ y[i] \in Int /\ v \in Int /\ p \in Int /\ c \in Nat /\ (c = 0 => p = 0)
      /\ 1 \in Positives
  <2>1. y[i] \in Int /\ Numeric(x) /\ 1 \in Positives
    BY DEF Extends, Numeric, Positives
  <2>2. v \in Int
    BY <2>1, PowerType
  <2>3. p \in Int /\ c \in Nat /\ (c = 0 => p = 0)
    BY <2>1, CountOf
  <2> QED
    BY <2>1, <2>2, <2>3
<1>2. pow(Double(y[i]), k) = Rational(v, 1)
  <2>1. Power(1, k) = 1
    <3>1. Power(1, k) = 1 * 1 * 1 * 1 \/ Power(1, k) = 1 * 1 * 1 \/ Power(1, k) = 1 * 1 \/ Power(1, k) = 1
      <4>1. k = 1 \/ k = 2 \/ k = 3 \/ k = 4
        OBVIOUS
      <4> QED
        BY <4>1, PowerType
    <3> QED
      BY <3>1
  <2> QED
    BY <1>1, <2>1, DoubleIsRational, PowIs
<1>3. m = IF c = 0 THEN Zero ELSE Rational(p, c)
  BY DEF BatchMoment
<1>4. BatchMoment(y, k) = Rational(p + v, c + 1)
  BY SumsGrow DEF BatchMoment
<1> HIDE DEF v, p, c
<1>5. Plus(m, Over(Minus(Rational(v, 1), m), Double(c + 1))) = Rational(p + v, c + 1)
  BY <1>1, <1>3, MeanStep
<1> QED
  BY <1>2, <1>4, <1>5 DEF increment_moments_mean, c

\* h[i] is a polynomial of x[i]
Polynomial(h, x, a4, a3, a2, a1, a0) ==
    /\ DOMAIN h = DOMAIN x
    /\ \A i \in DOMAIN x : h[i] = a4 * Power(x[i], 4) + a3 * Power(x[i], 3)
                                  + a2 * Power(x[i], 2) + a1 * x[i] + a0

\* Its sum, from the sums of the powers.
LEMMA PolynomialSum ==
    ASSUME NEW x, Numeric(x), NEW a4 \in Int, NEW a3 \in Int, NEW a2 \in Int,
           NEW a1 \in Int, NEW a0 \in Int, NEW h, Polynomial(h, x, a4, a3, a2, a1, a0)
    PROVE  SumFunction(h) = a4 * PowerSum(x, 4) + a3 * PowerSum(x, 3)
                            + a2 * PowerSum(x, 2) + a1 * PowerSum(x, 1) + a0 * N(x)
<1> DEFINE S == DOMAIN x
           P == [k \in 1 .. 4 |-> PowerSum(x, k)]
<1>01. /\ IsFiniteSet(S) /\ \A i \in S : x[i] \in Int
       /\ \A k \in 1 .. 4 : P[k] = SumFunction([i \in S |-> Power(x[i], k)])
       /\ DOMAIN h = S /\ N(x) = Cardinality(S)
       /\ P[1] = PowerSum(x, 1) /\ P[2] = PowerSum(x, 2) /\ P[3] = PowerSum(x, 3)
       /\ P[4] = PowerSum(x, 4)
  BY DEF Numeric, Polynomial, N, PowerSum
<1>02. \A i \in S : h[i] = a4 * Power(x[i], 4) + a3 * Power(x[i], 3)
                                  + a2 * Power(x[i], 2) + a1 * x[i] + a0
  BY DEF Polynomial
<1> HIDE DEF S, P
<1> DEFINE f(k) == [i \in S |-> Power(x[i], k)]
           one == [i \in S |-> 1]
           h1 == [i \in S |-> a1 * x[i] + a0]
           h2 == [i \in S |-> a2 * Power(x[i], 2) + h1[i]]
           h3 == [i \in S |-> a3 * Power(x[i], 3) + h2[i]]
           h4 == [i \in S |-> a4 * Power(x[i], 4) + h3[i]]
           T(g) == SumFunctionOnSet(g, S)
<1>1. ASSUME NEW i \in S
      PROVE  /\ \A k \in 1 .. 4 : f(k)[i] \in Int /\ f(k)[i] = Power(x[i], k)
             /\ f(1)[i] = x[i] /\ one[i] = 1
             /\ h1[i] \in Int /\ h2[i] \in Int /\ h3[i] \in Int /\ h4[i] \in Int
             /\ h[i] = h4[i]
  <2>1. /\ x[i] \in Int /\ Power(x[i], 1) = x[i] /\ \A k \in 1 .. 4 : Power(x[i], k) \in Int
        /\ h[i] = a4 * Power(x[i], 4) + a3 * Power(x[i], 3) + a2 * Power(x[i], 2)
                  + a1 * x[i] + a0
    BY <1>01, <1>02, PowerType
  <2>2. \A k \in 1 .. 4 : f(k)[i] \in Int /\ f(k)[i] = Power(x[i], k)
    BY <2>1
  <2>3. /\ h1[i] = a1 * x[i] + a0
        /\ h2[i] = a2 * Power(x[i], 2) + h1[i]
        /\ h3[i] = a3 * Power(x[i], 3) + h2[i]
        /\ h4[i] = a4 * Power(x[i], 4) + h3[i]
    OBVIOUS
  <2> HIDE DEF f, h1, h2, h3, h4
  <2>4. h1[i] \in Int /\ h2[i] \in Int /\ h3[i] \in Int /\ h4[i] \in Int
    BY <2>1, <2>3
  <2>5. h[i] = h4[i]
    BY <2>1, <2>3
  <2> QED
    BY <2>1, <2>2, <2>4, <2>5 DEF f
<1>2. \A k \in 1 .. 4 : P[k] = T(f(k)) /\ P[k] \in Int
  <2> TAKE k \in 1 .. 4
  <2>1. DOMAIN f(k) = S
    OBVIOUS
  <2>2. P[k] = SumFunction(f(k))
    BY <1>01
  <2>3. \A i \in S : f(k)[i] \in Int
    BY <1>1
  <2> HIDE DEF f
  <2>4. P[k] = T(f(k))
    BY <2>1, <2>2 DEF SumFunction
  <2>5. T(f(k)) \in Int
    BY <1>01, <2>3, SumType DEF Numbers
  <2> QED
    BY <2>4, <2>5
<1>3. T(one) = 1 * Cardinality(S) /\ Cardinality(S) \in Nat
  BY <1>01, <1>1, SumConstant, FS_CardinalityType
<1>4. \A i \in S : /\ h1[i] = a1 * f(1)[i] + a0 * one[i]
                   /\ h2[i] = a2 * f(2)[i] + 1 * h1[i]
                   /\ h3[i] = a3 * f(3)[i] + 1 * h2[i]
                   /\ h4[i] = a4 * f(4)[i] + 1 * h3[i]
  <2> TAKE i \in S
  <2>1. /\ h1[i] = a1 * x[i] + a0
        /\ h2[i] = a2 * Power(x[i], 2) + h1[i]
        /\ h3[i] = a3 * Power(x[i], 3) + h2[i]
        /\ h4[i] = a4 * Power(x[i], 4) + h3[i]
    OBVIOUS
  <2> HIDE DEF f, one, h1, h2, h3, h4
  <2> QED
    BY <1>1, <2>1
<1>5. DOMAIN h = S /\ SumFunction(h) = T(h)
  BY <1>01 DEF SumFunction
<1> HIDE DEF f, one, h1, h2, h3, h4
<1>6. T(h1) = a1 * T(f(1)) + a0 * T(one)
  <2> DEFINE u == f(1)
  <2>1. Combines(h1, a1, u, a0, one, S)
    BY <1>1, <1>4 DEF Combines
  <2>2. 1 \in Int
    OBVIOUS
  <2> HIDE DEF u
  <2>3. T(h1) = a1 * T(u) + a0 * T(one)
    BY <1>01, <2>1, <2>2, SumLinear
  <2> QED
    BY <2>3 DEF u
<1>7. T(h2) = a2 * T(f(2)) + 1 * T(h1)
  <2> DEFINE u == f(2)
  <2>1. Combines(h2, a2, u, 1, h1, S)
    BY <1>1, <1>4 DEF Combines
  <2>2. 1 \in Int
    OBVIOUS
  <2> HIDE DEF u
  <2>3. T(h2) = a2 * T(u) + 1 * T(h1)
    BY <1>01, <2>1, <2>2, SumLinear
  <2> QED
    BY <2>3 DEF u
<1>8. T(h3) = a3 * T(f(3)) + 1 * T(h2)
  <2> DEFINE u == f(3)
  <2>1. Combines(h3, a3, u, 1, h2, S)
    BY <1>1, <1>4 DEF Combines
  <2>2. 1 \in Int
    OBVIOUS
  <2> HIDE DEF u
  <2>3. T(h3) = a3 * T(u) + 1 * T(h2)
    BY <1>01, <2>1, <2>2, SumLinear
  <2> QED
    BY <2>3 DEF u
<1>9. T(h4) = a4 * T(f(4)) + 1 * T(h3)
  <2> DEFINE u == f(4)
  <2>1. Combines(h4, a4, u, 1, h3, S)
    BY <1>1, <1>4 DEF Combines
  <2>2. 1 \in Int
    OBVIOUS
  <2> HIDE DEF u
  <2>3. T(h4) = a4 * T(u) + 1 * T(h3)
    BY <1>01, <2>1, <2>2, SumLinear
  <2> QED
    BY <2>3 DEF u
<1>10. T(h) = T(h4)
  BY <1>01, <1>1, SumSame
<1> HIDE DEF T
<1>11. /\ P[1] = T(f(1)) /\ P[2] = T(f(2)) /\ P[3] = T(f(3)) /\ P[4] = T(f(4))
       /\ P[1] \in Int /\ P[2] \in Int /\ P[3] \in Int /\ P[4] \in Int
  BY <1>2
<1>12. SumFunction(h) = a4 * P[4] + a3 * P[3] + a2 * P[2] + a1 * P[1] + a0 * Cardinality(S)
  BY <1>3, <1>5, <1>6, <1>7, <1>8, <1>9, <1>10, <1>11
<1> QED
  BY <1>01, <1>12

\* The sums of the powers of n * x - p, where n counts and p sums the numbers of x.
LEMMA CentralSums ==
    ASSUME NEW x, Numeric(x), NEW n, n = N(x), NEW p, p = PowerSum(x, 1),
           NEW q, q = PowerSum(x, 2), NEW r, r = PowerSum(x, 3), NEW s, s = PowerSum(x, 4),
           NEW F, \A k \in 2 .. 4 :
                     F[k] = SumFunction([i \in DOMAIN x |-> Power(n * x[i] - p, k)])
    PROVE  /\ F[2] = n * (n * q - p * p)
           /\ F[3] = n * (n * n * r - 3 * n * p * q + 2 * p * p * p)
           /\ F[4] = n * (n * n * n * s - 4 * n * n * p * r + 6 * n * p * p * q
                          - 3 * p * p * p * p)
<1> DEFINE S == DOMAIN x
           h(k) == [i \in S |-> Power(n * x[i] - p, k)]
<1>1. /\ n \in Nat /\ p \in Int /\ q \in Int /\ r \in Int /\ s \in Int
      /\ \A i \in S : x[i] \in Int
  BY CountOf DEF Numeric
<1>3. \A k \in 2 .. 4 : F[k] = SumFunction(h(k)) /\ DOMAIN h(k) = S
  OBVIOUS
<1>4. \A u \in Int : /\ Power(u, 1) = u /\ Power(u, 2) = u * u /\ Power(u, 3) = u * u * u
                     /\ Power(u, 4) = u * u * u * u
  BY PowerType
<1>5. F[2] = n * (n * q - p * p)
  <2> DEFINE a2 == n * n
             a1 == 0 - 2 * n * p
             a0 == p * p
             g == h(2)
  <2>1. a2 \in Int /\ a1 \in Int /\ a0 \in Int /\ 0 \in Int
    BY <1>1
  <2>2. ASSUME NEW i \in S
        PROVE  g[i] = 0 * Power(x[i], 4) + 0 * Power(x[i], 3) + a2 * Power(x[i], 2) + a1 * x[i] + a0
    <3>1. g[i] = (n * x[i] - p) * (n * x[i] - p)
      BY <1>1, <1>4
    <3> HIDE DEF h, g
    <3> DEFINE u == x[i]
    <3>2. u \in Int
      BY <1>1
    <3> HIDE DEF u
    <3>3. (n * u - p) * (n * u - p)
             = 0 * (u * u * u * u) + 0 * (u * u * u) + a2 * (u * u) + a1 * u + a0
      BY <1>1, <3>2
    <3> HIDE DEF a2, a1, a0
    <3> QED
      BY <1>4, <3>1, <3>2, <3>3 DEF u
  <2>3. DOMAIN g = S /\ F[2] = SumFunction(g)
    BY <1>3
  <2> HIDE DEF a2, a1, a0, g
  <2>4. Polynomial(g, x, 0, 0, a2, a1, a0)
    BY <2>2, <2>3 DEF Polynomial
  <2>5. SumFunction(g) = 0 * s + 0 * r + a2 * q + a1 * p + a0 * n
    BY <2>1, <2>4, PolynomialSum
  <2> QED
    BY <1>1, <2>3, <2>5 DEF a2, a1, a0
<1>6. F[3] = n * (n * n * r - 3 * n * p * q + 2 * p * p * p)
  <2> DEFINE a3 == n * n * n
             a2 == 0 - 3 * n * n * p
             a1 == 3 * n * p * p
             a0 == 0 - p * p * p
             g == h(3)
  <2>1. a3 \in Int /\ a2 \in Int /\ a1 \in Int /\ a0 \in Int /\ 0 \in Int
    BY <1>1
  <2>2. ASSUME NEW i \in S
        PROVE  g[i] = 0 * Power(x[i], 4) + a3 * Power(x[i], 3) + a2 * Power(x[i], 2) + a1 * x[i] + a0
    <3>1. g[i] = (n * x[i] - p) * (n * x[i] - p) * (n * x[i] - p)
      BY <1>1, <1>4
    <3> HIDE DEF h, g
    <3> DEFINE u == x[i]
    <3>2. u \in Int
      BY <1>1
    <3> HIDE DEF u
    <3>3. (n * u - p) * (n * u - p) * (n * u - p)
             = 0 * (u * u * u * u) + a3 * (u * u * u) + a2 * (u * u) + a1 * u + a0
      BY <1>1, <3>2
    <3> HIDE DEF a3, a2, a1, a0
    <3> QED
      BY <1>4, <3>1, <3>2, <3>3 DEF u
  <2>3. DOMAIN g = S /\ F[3] = SumFunction(g)
    BY <1>3
  <2> HIDE DEF a3, a2, a1, a0, g
  <2>4. Polynomial(g, x, 0, a3, a2, a1, a0)
    BY <2>2, <2>3 DEF Polynomial
  <2>5. SumFunction(g) = 0 * s + a3 * r + a2 * q + a1 * p + a0 * n
    BY <2>1, <2>4, PolynomialSum
  <2> QED
    BY <1>1, <2>3, <2>5 DEF a3, a2, a1, a0
<1>7. F[4] = n * (n * n * n * s - 4 * n * n * p * r + 6 * n * p * p * q
                    - 3 * p * p * p * p)
  <2> DEFINE a4 == n * n * n * n
             a3 == 0 - 4 * n * n * n * p
             a2 == 6 * n * n * p * p
             a1 == 0 - 4 * n * p * p * p
             a0 == p * p * p * p
             g == h(4)
  <2>1. a4 \in Int /\ a3 \in Int /\ a2 \in Int /\ a1 \in Int /\ a0 \in Int /\ 0 \in Int
    BY <1>1
  <2>2. ASSUME NEW i \in S
        PROVE  g[i] = a4 * Power(x[i], 4) + a3 * Power(x[i], 3) + a2 * Power(x[i], 2) + a1 * x[i] + a0
    <3>1. g[i] = (n * x[i] - p) * (n * x[i] - p) * (n * x[i] - p) * (n * x[i] - p)
      BY <1>1, <1>4
    <3> HIDE DEF h, g
    <3> DEFINE u == x[i]
    <3>2. u \in Int
      BY <1>1
    <3> HIDE DEF u
    <3>3. (n * u - p) * (n * u - p) * (n * u - p) * (n * u - p)
             = a4 * (u * u * u * u) + a3 * (u * u * u) + a2 * (u * u) + a1 * u + a0
      BY <1>1, <3>2
    <3> HIDE DEF a4, a3, a2, a1, a0
    <3> QED
      BY <1>4, <3>1, <3>2, <3>3 DEF u
  <2>3. DOMAIN g = S /\ F[4] = SumFunction(g)
    BY <1>3
  <2> HIDE DEF a4, a3, a2, a1, a0, g
  <2>4. Polynomial(g, x, a4, a3, a2, a1, a0)
    BY <2>2, <2>3 DEF Polynomial
  <2>5. SumFunction(g) = a4 * s + a3 * r + a2 * q + a1 * p + a0 * n
    BY <2>1, <2>4, PolynomialSum
  <2> QED
    BY <1>1, <2>3, <2>5 DEF a4, a3, a2, a1, a0
<1> QED
  BY <1>5, <1>6, <1>7

\* The central moments are those of the numbers, whatever was computed from
\* their moments before.
LEMMA ThetaIs ==
    ASSUME NEW x, Numeric(x), N(x) > 0, NEW m, NEW K \in 2 .. 4,
           \A k \in 1 .. K : m[k] = BatchMoment(x, k)
    PROVE  Theta(m, K) = BatchCentral(x, K)
<1> DEFINE n == N(x)
           p == PowerSum(x, 1)
           q == PowerSum(x, 2)
           r == PowerSum(x, 3)
           s == PowerSum(x, 4)
           F == [k \in 2 .. 4 |-> SumFunction([i \in DOMAIN x |-> Power(n * x[i] - p, k)])]
           f2 == n * q - p * p
           f3 == n * n * r - 3 * n * p * q + 2 * p * p * p
           f4 == n * n * n * s - 4 * n * n * p * r + 6 * n * p * p * q - 3 * p * p * p * p
           n2 == n * n
           n3 == n * n * n
           n4 == n * n * n * n
<1>1. /\ n \in Nat /\ n > 0 /\ p \in Int /\ q \in Int /\ r \in Int /\ s \in Int
      /\ n \in Positives
  BY CountOf DEF Positives
<1>2. F[2] = n * f2 /\ F[3] = n * f3 /\ F[4] = n * f4
  <2>1. \A k \in 2 .. 4 : F[k] = SumFunction([i \in DOMAIN x |-> Power(n * x[i] - p, k)])
    OBVIOUS
  <2> HIDE DEF F
  <2> QED
    BY <2>1, CentralSums
<1>3. /\ \A k \in 2 .. 4 : BatchCentral(x, k) = Rational(F[k], Power(n, k) * n)
      /\ Power(n, 2) = n2 /\ Power(n, 3) = n3 /\ Power(n, 4) = n4
  BY PowerType DEF BatchCentral
<1>4. /\ m[1] = Rational(p, n) /\ m[2] = Rational(q, n)
      /\ K >= 3 => m[3] = Rational(r, n)
      /\ K = 4 => m[4] = Rational(s, n)
  BY DEF BatchMoment
<1> HIDE DEF F, n, p, q, r, s
<1>5. /\ n2 \in Positives /\ n3 \in Positives /\ n4 \in Positives
      /\ n2 \in Int /\ n3 \in Int /\ n4 \in Int
      /\ f2 \in Int /\ f3 \in Int /\ f4 \in Int
      /\ p * p \in Int /\ p * p * p \in Int /\ p * p * p * p \in Int
      /\ p * q \in Int /\ p * r \in Int /\ p * p * q \in Int
  <2>1. n2 \in Positives /\ n3 \in Positives /\ n4 \in Positives
    <3>1. \A k \in 1 .. 4 : Power(n, k) \in Positives
      BY <1>1, PowerType
    <3> QED
      BY <1>3, <3>1
  <2> QED
    BY <1>1, <2>1
<1>6. /\ n * f2 = f2 * n /\ n * f3 = f3 * n /\ n * f4 = f4 * n
      /\ n3 = n2 * n /\ n4 = n3 * n /\ n4 = n2 * n2
      /\ n2 = n * n /\ n3 = n * n2 /\ n4 = n * n3
  BY <1>1
<1>7. pow(m[1], 2) = Rational(p * p, n2)
  BY <1>1, <1>3, <1>4, PowIs, PowerType
<1>8. CASE K = 2
  <2>1. m[2] = Rational(q * n, n2)
    BY <1>1, <1>4, Expanded
  <2>2. q * n \in Int /\ q * n - p * p = f2
    BY <1>1
  <2> HIDE DEF f2, n2
  <2>3. Minus(m[2], pow(m[1], 2)) = Rational(f2, n2)
    BY <1>5, <1>7, <2>1, <2>2, PlusSame
  <2>4. BatchCentral(x, 2) = Rational(f2 * n, n2 * n)
    BY <1>2, <1>3, <1>6
  <2>5. Rational(f2 * n, n2 * n) = Rational(f2, n2)
    BY <1>1, <1>5, Expanded
  <2> QED
    BY <1>8, <2>3, <2>4, <2>5 DEF Theta
<1>9. CASE K = 3
  <2> DEFINE a == r * n2
             b == 3 * (p * q) * n
             c == 2 * (p * p * p)
  <2>0. a \in Int /\ b \in Int /\ c \in Int /\ a - b \in Int /\ a - b + c = f3
        /\ 3 * (p * q) \in Int
    BY <1>1
  <2>1. m[3] = Rational(a, n3)
    <3>1. m[3] = Rational(r, n)
      BY <1>4, <1>9
    <3> HIDE DEF n2, n3
    <3>2. Rational(r * n2, n * n2) = Rational(r, n)
      BY <1>1, <1>5, Expanded
    <3> QED
      BY <1>6, <3>1, <3>2
  <2>2. Scaled(3, Times(m[1], m[2])) = Rational(b, n3)
    <3>1. Times(m[1], m[2]) = Rational(p * q, n2)
      BY <1>1, <1>4, TimesIs
    <3>2. Scaled(3, Rational(p * q, n2)) = Rational(3 * (p * q), n2)
      BY <1>5, ScaledIs
    <3> HIDE DEF n2, n3
    <3>3. Rational(3 * (p * q) * n, n2 * n) = Rational(3 * (p * q), n2)
      BY <1>1, <1>5, <2>0, Expanded
    <3> QED
      BY <1>6, <3>1, <3>2, <3>3
  <2>3. Scaled(2, pow(m[1], 3)) = Rational(c, n3)
    <3>1. pow(m[1], 3) = Rational(p * p * p, n3)
      BY <1>1, <1>3, <1>4, PowIs, PowerType
    <3> HIDE DEF n3
    <3> QED
      BY <1>5, <3>1, ScaledIs
  <2> HIDE DEF a, b, c, f3, n2, n3
  <2>4. Minus(m[3], Scaled(3, Times(m[1], m[2]))) = Rational(a - b, n3)
    <3>1. Minus(Rational(a, n3), Rational(b, n3)) = Rational(a - b, n3)
      BY <1>5, <2>0, PlusSame
    <3> QED
      BY <2>1, <2>2, <3>1
  <2>5. Plus(Rational(a - b, n3), Rational(c, n3)) = Rational(f3, n3)
    <3>1. Plus(Rational(a - b, n3), Rational(c, n3)) = Rational(a - b + c, n3)
      BY <1>5, <2>0, PlusSame
    <3> QED
      BY <2>0, <3>1
  <2>6. BatchCentral(x, 3) = Rational(f3 * n, n3 * n)
    BY <1>2, <1>3, <1>6
  <2>7. Rational(f3 * n, n3 * n) = Rational(f3, n3)
    BY <1>1, <1>5, Expanded
  <2> QED
    BY <1>9, <2>3, <2>4, <2>5, <2>6, <2>7 DEF Theta
<1>10. CASE K = 4
  <2> DEFINE a == s * n3
             b == 4 * (p * r) * n2
             c == 6 * (p * p * q) * n
             e == 3 * (p * p * p * p)
  <2>0. /\ a \in Int /\ b \in Int /\ c \in Int /\ e \in Int
        /\ a - b \in Int /\ a - b + c \in Int /\ a - b + c - e = f4
        /\ 4 * (p * r) \in Int /\ 6 * (p * p * q) \in Int
    BY <1>1
  <2>1. m[4] = Rational(a, n4)
    <3>1. m[4] = Rational(s, n)
      BY <1>4, <1>10
    <3> HIDE DEF n3, n4
    <3>2. Rational(s * n3, n * n3) = Rational(s, n)
      BY <1>1, <1>5, Expanded
    <3> QED
      BY <1>6, <3>1, <3>2
  <2>2. Scaled(4, Times(m[1], m[3])) = Rational(b, n4)
    <3>1. Times(m[1], m[3]) = Rational(p * r, n2)
      <4>1. m[1] = Rational(p, n) /\ m[3] = Rational(r, n)
        BY <1>4, <1>10
      <4> QED
        BY <1>1, <4>1, TimesIs
    <3>2. Scaled(4, Rational(p * r, n2)) = Rational(4 * (p * r), n2)
      BY <1>5, ScaledIs
    <3> HIDE DEF n2, n4
    <3>3. Rational(4 * (p * r) * n2, n2 * n2) = Rational(4 * (p * r), n2)
      BY <1>5, <2>0, Expanded
    <3> QED
      BY <1>6, <3>1, <3>2, <3>3
  <2>3. Scaled(6, Times(pow(m[1], 2), m[2])) = Rational(c, n4)
    <3>1. Times(pow(m[1], 2), m[2]) = Rational(p * p * q, n3)
      BY <1>1, <1>4, <1>5, <1>6, <1>7, TimesIs
    <3>2. Scaled(6, Rational(p * p * q, n3)) = Rational(6 * (p * p * q), n3)
      BY <1>5, ScaledIs
    <3> HIDE DEF n3, n4
    <3>3. Rational(6 * (p * p * q) * n, n3 * n) = Rational(6 * (p * p * q), n3)
      BY <1>1, <1>5, <2>0, Expanded
    <3> QED
      BY <1>6, <3>1, <3>2, <3>3
  <2>4. Scaled(3, pow(m[1], 4)) = Rational(e, n4)
    <3>1. pow(m[1], 4) = Rational(p * p * p * p, n4)
      <4>1. pow(m[1], 4) = Rational(Power(p, 4), Power(n, 4))
        BY <1>1, <1>4, PowIs
      <4> QED
        BY <1>3, <4>1, PowerType
    <3> HIDE DEF n4
    <3> QED
      BY <1>5, <3>1, ScaledIs
  <2> HIDE DEF a, b, c, e, f4, n2, n3, n4
  <2>5. Minus(m[4], Scaled(4, Times(m[1], m[3]))) = Rational(a - b, n4)
    <3>1. Minus(Rational(a, n4), Rational(b, n4)) = Rational(a - b, n4)
      BY <1>5, <2>0, PlusSame
    <3> QED
      BY <2>1, <2>2, <3>1
  <2>6. Plus(Rational(a - b, n4), Rational(c, n4)) = Rational(a - b + c, n4)
    BY <1>5, <2>0, PlusSame
  <2>7. Minus(Rational(a - b + c, n4), Rational(e, n4)) = Rational(f4, n4)
    <3>1. Minus(Rational(a - b + c, n4), Rational(e, n4)) = Rational(a - b + c - e, n4)
      BY <1>5, <2>0, PlusSame
    <3> QED
      BY <2>0, <3>1
  <2>8. BatchCentral(x, 4) = Rational(f4 * n, n4 * n)
    BY <1>2, <1>3, <1>6
  <2>9. Rational(f4 * n, n4 * n) = Rational(f4, n4)
    BY <1>1, <1>5, Expanded
  <2> QED
    BY <1>10, <2>3, <2>4, <2>5, <2>6, <2>7, <2>8, <2>9 DEF Theta
<1> QED
  BY <1>8, <1>9, <1>10

\* One number is its own mean.
LEMMA CentralOfOne ==
    ASSUME NEW x, Numeric(x), N(x) = 1, NEW k \in 2 .. 4
    PROVE  BatchCentral(x, k) = Zero
<1> DEFINE S == DOMAIN x
           p == PowerSum(x, 1)
           f == [i \in S |-> Power(1 * x[i] - p, k)]
           g == [i \in S |-> Power(x[i], 1)]
<1>1. /\ IsFiniteSet(S) /\ Cardinality(S) = 1 /\ \A i \in S : x[i] \in Int
  BY DEF Numeric, N
<1>2. PICK i : S = {i}
  BY <1>1, FS_Singleton
<1>3. p = x[i]
  <2>1. p = SumFunctionOnSet(g, {} \cup {i})
    BY <1>2 DEF PowerSum, SumFunction
  <2>2. \A j \in {} \cup {i} : g[j] \in Int /\ g[j] = x[j]
    BY <1>1, <1>2, PowerType
  <2> HIDE DEF g
  <2>3. SumFunctionOnSet(g, {} \cup {i}) = SumFunctionOnSet(g, {}) + g[i]
    BY <2>2, FS_EmptySet, SumOneMore DEF Numbers
  <2>4. x[i] \in Int
    BY <1>1, <1>2
  <2> QED
    BY <2>1, <2>2, <2>3, <2>4, SumEmpty
<1>4. Power(0, k) = 0
  <2>1. k = 2 \/ k = 3 \/ k = 4
    OBVIOUS
  <2>2. Power(0, 2) = 0 * 0 /\ Power(0, 3) = 0 * 0 * 0 /\ Power(0, 4) = 0 * 0 * 0 * 0
    BY PowerType
  <2> QED
    BY <2>1, <2>2
<1>5. \A j \in S : f[j] = 0
  <2>1. x[i] \in Int /\ f[i] = Power(1 * x[i] - p, k)
    BY <1>1, <1>2
  <2>2. 1 * x[i] - p = 0
    BY <1>3, <2>1
  <2> QED
    BY <1>2, <1>4, <2>1, <2>2
<1>6. SumFunction(f) = 0
  <2>1. SumFunction(f) = SumFunctionOnSet(f, S)
    BY DEF SumFunction
  <2> HIDE DEF f, S
  <2>2. SumFunctionOnSet(f, S) = 0 * Cardinality(S)
    BY <1>1, <1>5, SumConstant
  <2> QED
    BY <1>1, <2>1, <2>2
<1>7. Power(1, k) = 1
  <2>1. k = 2 \/ k = 3 \/ k = 4
    OBVIOUS
  <2>2. Power(1, 2) = 1 * 1 /\ Power(1, 3) = 1 * 1 * 1 /\ Power(1, 4) = 1 * 1 * 1 * 1
    BY PowerType
  <2> QED
    BY <2>1, <2>2
<1>8. BatchCentral(x, k) = Rational(0, 1)
  BY <1>6, <1>7 DEF BatchCentral
<1> QED
  BY <1>8, DoubleIsRational DEF Zero

\* One vector more of a time step: the moments, whatever the thetas were.
IsMomentsOf(mo, x, follows) ==
    /\ mo.increment = N(x) /\ Moments(mo.m, x)
    /\ DOMAIN mo.theta = 2 .. max_order
    /\ follows \/ N(x) = 0 => \A k \in 2 .. max_order :
          mo.theta[k] = IF N(x) = 0 THEN Zero ELSE BatchCentral(x, k)

LEMMA MomentsOneMore ==
    ASSUME NEW x, NEW y, NEW i, Extends(y, x, i),
           NEW mo, IsMoments(mo), NEW f, IsMomentsOf(mo, x, f),
           NEW new, new = increment_moments(mo, Double(y[i]))
    PROVE  IsMoments(new) /\ IsMomentsOf(new, y, TRUE)
<1> DEFINE n == mo.increment + 1
           m == [k \in DOMAIN mo.m |->
                    increment_moments_mean(mo.m[k], Double(y[i]), n, k)]
           th == [k \in DOMAIN mo.theta |-> IF n > 1 THEN Theta(m, k) ELSE mo.theta[k]]
<1>1. new = [mo EXCEPT !.increment = n, !.m = m, !.theta = th]
  BY DEF increment_moments, IsMoments
<1>2. /\ N(x) \in Nat /\ N(y) = N(x) + 1 /\ mo.increment = N(x)
      /\ DOMAIN mo.m = 1 .. max_order /\ DOMAIN mo.theta = 2 .. max_order
      /\ \A k \in 1 .. max_order : mo.m[k] = IF N(x) = 0 THEN Zero ELSE BatchMoment(x, k)
      /\ N(x) = 0 => \A k \in 2 .. max_order : mo.theta[k] = Zero
      /\ Numeric(y) /\ max_order \in 0 .. 4
  BY CountOf, SumsGrow, OrderIs DEF IsMomentsOf, Moments, Extends
<1>3. \A k \in 1 .. max_order : m[k] = BatchMoment(y, k)
  <2> TAKE k \in 1 .. max_order
  <2>1. k \in 1 .. 4
    BY <1>2
  <2>2. m[k] = increment_moments_mean(mo.m[k], Double(y[i]), N(x) + 1, k)
    BY <1>2
  <2>3. mo.m[k] = IF N(x) = 0 THEN Zero ELSE BatchMoment(x, k)
    BY <1>2
  <2> HIDE DEF m
  <2> QED
    BY <2>1, <2>2, <2>3, MomentStep
<1>4. DOMAIN m = 1 .. max_order /\ DOMAIN th = 2 .. max_order
  BY <1>2
<1>5. \A k \in 2 .. max_order : th[k] = BatchCentral(y, k)
  <2> TAKE k \in 2 .. max_order
  <2>1. k \in 2 .. 4 /\ \A l \in 1 .. k : l \in 1 .. max_order
    BY <1>2
  <2>2. th[k] = IF n > 1 THEN Theta(m, k) ELSE mo.theta[k]
    BY <1>2
  <2>3. CASE N(x) = 0
    <3>1. th[k] = Zero /\ N(y) = 1
      BY <1>2, <2>2, <2>3
    <3> QED
      BY <1>2, <2>1, <3>1, CentralOfOne
  <2>4. CASE N(x) # 0
    <3>1. th[k] = Theta(m, k) /\ N(y) > 0
      BY <1>2, <2>2, <2>4
    <3>2. \A l \in 1 .. k : m[l] = BatchMoment(y, l)
      BY <1>3, <2>1
    <3> HIDE DEF m, th
    <3> QED
      BY <1>2, <2>1, <3>1, <3>2, ThetaIs
  <2> QED
    BY <2>3, <2>4
<1> HIDE DEF m, th
<1>6. /\ IsMoments(new) /\ new.increment = n /\ new.m = m /\ new.theta = th
  BY <1>1 DEF IsMoments
<1>7. N(y) # 0 /\ n = N(y)
  BY <1>2
<1> QED
  BY <1>3, <1>4, <1>5, <1>6, <1>7 DEF IsMomentsOf, Moments

\* The thetas are not written.
LEMMA MomentsRead ==
    ASSUME NEW mo, IsMoments(mo), NEW x, NEW f, IsMomentsOf(mo, x, f), Numeric(x),
           NEW new, new = [mo EXCEPT !.theta = [k \in 2 .. max_order |-> Zero]]
    PROVE  IsMomentsOf(new, x, FALSE)
<1> DEFINE z == [k \in 2 .. max_order |-> Zero]
<1>1. DOMAIN z = 2 .. max_order /\ \A k \in 2 .. max_order : z[k] = Zero
  OBVIOUS
<1>2. new = [mo EXCEPT !.theta = z]
  OBVIOUS
<1> HIDE DEF z
<1>3. new.increment = mo.increment /\ new.m = mo.m /\ new.theta = z
  BY <1>2 DEF IsMoments
<1> QED
  BY <1>1, <1>3 DEF IsMomentsOf

-----------------------------------------------------------------------------
(* The variances of the Sobol' indices.                                      *)

IsVarianceOf(v, x) ==
    /\ v.mean_structure.increment = N(x)
    /\ v.mean_structure.mean = IF N(x) = 0 THEN Zero ELSE BatchMoment(x, 1)
    /\ v.variance = IF N(x) <= 1 THEN Zero
                    ELSE Rational(N(x) * PowerSum(x, 2) - PowerSum(x, 1) * PowerSum(x, 1),
                                  N(x) * (N(x) - 1))

LEMMA SumsOfOne ==
    ASSUME NEW x, Numeric(x), N(x) = 1
    PROVE  PowerSum(x, 2) = PowerSum(x, 1) * PowerSum(x, 1)
<1> DEFINE S == DOMAIN x
<1>1. /\ IsFiniteSet(S) /\ Cardinality(S) = 1 /\ \A i \in S : x[i] \in Int
  BY DEF Numeric, N
<1>2. PICK i : S = {i}
  BY <1>1, FS_Singleton
<1>3. ASSUME NEW k \in {1, 2}
      PROVE  PowerSum(x, k) = Power(x[i], k)
  <2> DEFINE g == [j \in S |-> Power(x[j], k)]
  <2>1. PowerSum(x, k) = SumFunctionOnSet(g, {} \cup {i})
    BY <1>2 DEF PowerSum, SumFunction
  <2>2. \A j \in {} \cup {i} : g[j] \in Int /\ g[j] = Power(x[j], k)
    <3>1. k \in 1 .. 4 /\ x[i] \in Int
      BY <1>1, <1>2
    <3>2. Power(x[i], k) \in Int
      BY <3>1, PowerType
    <3> QED
      BY <1>2, <3>2
  <2> HIDE DEF g
  <2>3. SumFunctionOnSet(g, {} \cup {i}) = SumFunctionOnSet(g, {}) + g[i]
    BY <2>2, FS_EmptySet, SumOneMore DEF Numbers
  <2> QED
    BY <2>1, <2>2, <2>3, SumEmpty
<1> QED
  BY <1>3, PowerType

LEMMA VarianceOneMore ==
    ASSUME NEW x, NEW y, NEW i, Extends(y, x, i), NEW v, IsVarianceOf(v, x)
    PROVE  IsVarianceOf(increment_variance(v, Double(y[i])), y)
<1> DEFINE c == N(x)
           p == PowerSum(x, 1)
           q == PowerSum(x, 2)
           u == y[i]
           new == increment_variance(v, Double(u))
           mean == v.mean_structure.mean
           m == increment_mean(v.mean_structure, Double(u))
           d == Minus(Double(u), m.mean)
           n == c + 1
<1>1. /\ c \in Nat /\ p \in Int /\ q \in Int /\ u \in Int
      /\ c = 0 => p = 0 /\ q = 0
      /\ c = 1 => q = p * p
      /\ N(y) = n /\ PowerSum(y, 1) = p + u /\ PowerSum(y, 2) = q + u * u
  <2>1. Numeric(x) /\ Numeric(y) /\ u \in Int
    BY DEF Extends, Numeric
  <2>2. c \in Nat /\ p \in Int /\ q \in Int /\ (c = 0 => p = 0 /\ q = 0)
    BY <2>1, CountOf
  <2>3. c = 1 => q = p * p
    BY <2>1, SumsOfOne
  <2>4. /\ N(y) = n /\ PowerSum(y, 1) = p + Power(u, 1) /\ PowerSum(y, 2) = q + Power(u, 2)
    BY SumsGrow
  <2> QED
    BY <2>1, <2>2, <2>3, <2>4, PowerType
<1>2. /\ v.mean_structure.increment = c
      /\ mean = IF c = 0 THEN Zero ELSE Rational(p, c)
      /\ v.variance = IF c <= 1 THEN Zero ELSE Rational(c * q - p * p, c * (c - 1))
  BY DEF IsVarianceOf, BatchMoment
<1>3. m.increment = n /\ m.mean = Plus(mean, Over(Minus(Double(u), mean), Double(n)))
  BY <1>2 DEF increment_mean
<1>4. /\ new.mean_structure = m
      /\ new.variance = IF n <= 1 THEN v.variance
             ELSE Over(Plus(Scaled(n - 2, v.variance),
                            Times(Times(d, d), Rational(n, n - 1))), Double(n - 1))
  <2> DEFINE w == increment_mean(v.mean_structure, Double(u))
  <2>1. /\ new.mean_structure = w
        /\ new.variance = IF w.increment <= 1 THEN v.variance
              ELSE Over(Plus(Scaled(w.increment - 2, v.variance),
                        Times(Times(Minus(Double(u), w.mean), Minus(Double(u), w.mean)),
                              Rational(w.increment, w.increment - 1))),
                        Double(w.increment - 1))
    BY DEF increment_variance
  <2> QED
    BY <1>3, <2>1
<1> HIDE DEF c, p, q, u, new, mean, m
<1>5. m.mean = Rational(p + u, n)
  <2>1. Double(u) = Rational(u, 1)
    BY <1>1, DoubleIsRational
  <2>2. mean = (IF c = 0 THEN Zero ELSE Rational(p, c)) /\ (c = 0 => p = 0)
    BY <1>1, <1>2
  <2>3. c \in Nat /\ p \in Int /\ u \in Int
    BY <1>1
  <2>4. Plus(mean, Over(Minus(Rational(u, 1), mean), Double(c + 1))) = Rational(p + u, c + 1)
    BY <2>2, <2>3, MeanStep
  <2> QED
    BY <1>3, <2>1, <2>4
<1>6. new.variance = IF n <= 1 THEN Zero
                     ELSE Rational(n * (q + u * u) - (p + u) * (p + u), n * (n - 1))
  <2>1. CASE c = 0
    BY <1>2, <1>4, <2>1
  <2>2. CASE c # 0
    <3> DEFINE var == v.variance
    <3>1. c \in Positives /\ ~(n <= 1)
      BY <1>1, <2>2 DEF Positives
    <3>2. var = IF c = 1 THEN Zero ELSE Rational(c * q - p * p, c * (c - 1))
      BY <1>1, <1>2, <2>2
    <3>3. d = Minus(Double(u), Rational(p + u, n))
      BY <1>5
    <3> HIDE DEF n, d, var
    <3>4. n = c + 1
      BY DEF n
    <3>41. p \in Int /\ q \in Int /\ u \in Int /\ (c = 1 => q = p * p)
      BY <1>1
    <3>5. Over(Plus(Scaled(n - 2, var), Times(Times(d, d), Rational(n, n - 1))), Double(n - 1))
             = Rational(n * (q + u * u) - (p + u) * (p + u), n * (n - 1))
      <4>1. OneMore(c, p, q, var, u, n, d)
        BY <3>1, <3>2, <3>3, <3>4, <3>41 DEF OneMore
      <4> QED
        BY <4>1, VarianceStep
    <3> QED
      BY <1>4, <3>1, <3>5 DEF var
  <2> QED
    BY <2>1, <2>2
<1>7. n # 0
  BY <1>1
<1> QED
  BY <1>1, <1>3, <1>4, <1>5, <1>6, <1>7 DEF IsVarianceOf, BatchMoment, new, u

LEMMA VarianceIs ==
    ASSUME NEW x, Numeric(x), N(x) > 1, NEW v, IsVarianceOf(v, x)
    PROVE  v.variance = BatchCovariance(x, x)
<1> DEFINE n == N(x)
           p == PowerSum(x, 1)
           q == PowerSum(x, 2)
           F == [k \in 2 .. 4 |-> SumFunction([i \in DOMAIN x |-> Power(n * x[i] - p, k)])]
           e == n * q - p * p
<1>1. n \in Nat /\ n > 1 /\ p \in Int /\ q \in Int
  BY CountOf
<1>2. F[2] = n * e
  <2>1. \A k \in 2 .. 4 : F[k] = SumFunction([i \in DOMAIN x |-> Power(n * x[i] - p, k)])
    OBVIOUS
  <2> HIDE DEF F
  <2> QED
    BY <2>1, CentralSums
<1>3. SumFunction(x) = p
  <2> DEFINE g == [i \in DOMAIN x |-> Power(x[i], 1)]
  <2>1. p = SumFunctionOnSet(g, DOMAIN x) /\ SumFunction(x) = SumFunctionOnSet(x, DOMAIN x)
    BY DEF PowerSum, SumFunction
  <2>2. \A i \in DOMAIN x : x[i] = g[i] /\ x[i] \in Int
    BY PowerType DEF Numeric
  <2>3. IsFiniteSet(DOMAIN x)
    BY DEF Numeric
  <2> HIDE DEF g, p
  <2>4. SumFunctionOnSet(x, DOMAIN x) = SumFunctionOnSet(g, DOMAIN x)
    BY <2>2, <2>3, SumSame
  <2> QED
    BY <2>1, <2>4
<1>4. [i \in DOMAIN x |-> (n * x[i] - SumFunction(x)) * (n * x[i] - SumFunction(x))]
         = [i \in DOMAIN x |-> Power(n * x[i] - p, 2)]
  <2>1. \A w : Power(w, 2) = w * w
    BY PowerType
  <2> QED
    BY <1>3, <2>1
<1>5. BatchCovariance(x, x) = Rational(F[2], n * n * (n - 1))
  BY <1>4 DEF BatchCovariance
<1>6. v.variance = Rational(e, n * (n - 1))
  BY <1>1 DEF IsVarianceOf
<1> HIDE DEF n, p, q, F
<1>7. /\ n \in Positives /\ n - 1 \in Positives /\ n * (n - 1) \in Positives
      /\ e \in Int /\ n * e = e * n /\ n * n * (n - 1) = (n * (n - 1)) * n
  BY <1>1 DEF Positives
<1> HIDE DEF e
<1>8. Rational(e * n, (n * (n - 1)) * n) = Rational(e, n * (n - 1))
  BY <1>7, Expanded
<1> QED
  BY <1>2, <1>5, <1>6, <1>7, <1>8

-----------------------------------------------------------------------------
(* Quantiles and Sobol' indices.                                             *)

\* gamma after n updates
Gain(n) ==
    Plus(Rational(9 * (n - 1), 10 * (options.sampling_size - 1)), Rational(1, 10))
IsGained(q) == q.increment > 1 => q.gamma = Gain(q.increment)

LEMMA GainOneMore ==
    ASSUME NEW q, IsQuantile(q), NEW new, new = increment_quantile(q, options.sampling_size)
    PROVE  IsGained(new)
<1> DEFINE i == q.increment + 1
           g == IF i > 1 THEN Gain(i) ELSE q.gamma
<1>1. new = [q EXCEPT !.increment = i, !.gamma = g]
  BY DEF increment_quantile, Gain, IsQuantile
<1> HIDE DEF i, g
<1>2. new.increment = i /\ new.gamma = g
  BY <1>1 DEF IsQuantile
<1> QED
  BY <1>2 DEF IsGained, g

ColumnOf(R, t, a) == [s \in R |-> Value[s][t][a]]

IsSobolOf(so, R, t) ==
    /\ IsVarianceOf(so.variance_a, ColumnOf(R, t, 1))
    /\ IsVarianceOf(so.variance_b, ColumnOf(R, t, 2))
    /\ \A i \in 1 .. options.nb_parameters :
          IsVarianceOf(so.sobol_martinez[i].variance_k, ColumnOf(R, t, i + 2))

\* The numbers in a column, and one more.
LEMMA ColumnGrows ==
    ASSUME options \in Options, NEW t \in Steps, NEW R \in SUBSET Simulations,
           NEW a \in 1 .. 2 + options.nb_parameters
    PROVE  /\ Numeric(ColumnOf(R, t, a))
           /\ \A s \in Simulations \ R :
                 /\ Extends(ColumnOf(R \cup {s}, t, a), ColumnOf(R, t, a), s)
                 /\ ColumnOf(R \cup {s}, t, a)[s] = Value[s][t][a]
<1>1. \A s \in Simulations : Value[s][t][a] \in Int /\ a \in DOMAIN Value[s][t]
  <2> TAKE s \in Simulations
  <2>1. /\ Value[s][t] \in Seq(Int) /\ Len(Value[s][t]) >= 2 + options.nb_parameters
        /\ options.nb_parameters \in Nat
    BY OptionTypes
  <2>2. a \in 1 .. Len(Value[s][t])
    BY <2>1
  <2> QED
    BY <2>1, <2>2
<1>2. IsFiniteSet(Simulations)
  BY OptionTypes, FS_Interval DEF Simulations
<1>3. \A Q \in SUBSET Simulations : Numeric(ColumnOf(Q, t, a))
  BY <1>1, <1>2, FS_Subset DEF Numeric, ColumnOf
<1>4. ASSUME NEW s \in Simulations \ R
      PROVE  /\ Extends(ColumnOf(R \cup {s}, t, a), ColumnOf(R, t, a), s)
             /\ ColumnOf(R \cup {s}, t, a)[s] = Value[s][t][a]
  <2>1. Numeric(ColumnOf(R, t, a)) /\ Numeric(ColumnOf(R \cup {s}, t, a))
    BY <1>3
  <2> QED
    BY <2>1 DEF Extends, ColumnOf
<1> QED
  BY <1>3, <1>4

LEMMA SobolParts ==
    ASSUME NEW so, NEW x, NEW new, new = increment_sobol_martinez(so, x)
    PROVE  /\ new.variance_a = increment_variance(so.variance_a, x[1])
           /\ new.variance_b = increment_variance(so.variance_b, x[2])
           /\ \A i \in DOMAIN so.sobol_martinez :
                 new.sobol_martinez[i].variance_k =
                    increment_variance(so.sobol_martinez[i].variance_k, x[i + 2])
  BY Zenon DEF increment_sobol_martinez

LEMMA SobolOneMore ==
    ASSUME options \in Options, NEW t \in Steps, NEW R \in SUBSET Simulations,
           NEW s \in Simulations \ R, NEW so, IsSobol(so), IsSobolOf(so, R, t),
           NEW new, new = increment_sobol_martinez(so, Output(s, t))
    PROVE  IsSobolOf(new, R \cup {s}, t)
<1> DEFINE x == Output(s, t)
           A == 1 .. 2 + options.nb_parameters
<1>0. new = increment_sobol_martinez(so, x)
  OBVIOUS
<1> HIDE DEF x
<1>1. /\ new.variance_a = increment_variance(so.variance_a, x[1])
      /\ new.variance_b = increment_variance(so.variance_b, x[2])
      /\ \A i \in DOMAIN so.sobol_martinez :
            new.sobol_martinez[i].variance_k =
                  increment_variance(so.sobol_martinez[i].variance_k, x[i + 2])
  BY <1>0, SobolParts
<1>2. DOMAIN so.sobol_martinez = 1 .. options.nb_parameters
  BY DEF IsSobol, FunctionOn
<1>3. options.nb_parameters \in Nat
  BY OptionTypes
<1>4. \A a \in A : x[a] = Double(Value[s][t][a])
  <2>1. /\ Value[s][t] \in Seq(Int) /\ Len(Value[s][t]) >= 2 + options.nb_parameters
    BY OptionTypes
  <2>2. \A a \in A : a \in DOMAIN Value[s][t]
    <3> TAKE a \in A
    <3>1. a \in 1 .. Len(Value[s][t])
      BY <1>3, <2>1
    <3> QED
      BY <2>1, <3>1
  <2> QED
    BY <2>2 DEF Output, x
<1>5. ASSUME NEW a \in A, NEW v, IsVarianceOf(v, ColumnOf(R, t, a))
      PROVE  IsVarianceOf(increment_variance(v, x[a]), ColumnOf(R \cup {s}, t, a))
  <2> DEFINE c == ColumnOf(R, t, a)
             d == ColumnOf(R \cup {s}, t, a)
  <2>1. Extends(d, c, s) /\ d[s] = Value[s][t][a]
    BY ColumnGrows
  <2> HIDE DEF c, d
  <2>2. IsVarianceOf(increment_variance(v, Double(d[s])), d)
    BY <1>5, <2>1, VarianceOneMore DEF c
  <2> QED
    BY <1>4, <2>1, <2>2 DEF d
<1>6. 1 \in A /\ 2 \in A /\ \A i \in 1 .. options.nb_parameters : i + 2 \in A
  BY <1>3
<1> HIDE DEF A
<1>7. IsVarianceOf(new.variance_a, ColumnOf(R \cup {s}, t, 1))
  BY <1>1, <1>5, <1>6 DEF IsSobolOf
<1>8. IsVarianceOf(new.variance_b, ColumnOf(R \cup {s}, t, 2))
  BY <1>1, <1>5, <1>6 DEF IsSobolOf
<1>9. \A i \in 1 .. options.nb_parameters :
         IsVarianceOf(new.sobol_martinez[i].variance_k, ColumnOf(R \cup {s}, t, i + 2))
  BY <1>1, <1>2, <1>5, <1>6 DEF IsSobolOf
<1> QED
  BY <1>7, <1>8, <1>9 DEF IsSobolOf

-----------------------------------------------------------------------------
(* The outputs of a time step, of one run or of runs A and B.                *)

OutcomesOf(S, t) == [i \in S |-> Outcome(t, i)]
SampleOf(R) == R \X (1 .. Width)

LEMMA OutcomesGrow ==
    ASSUME options \in Options, NEW t \in Steps, NEW S \in SUBSET (Simulations \X {1, 2})
    PROVE  /\ Numeric(OutcomesOf(S, t))
           /\ \A i \in (Simulations \X {1, 2}) \ S :
                 /\ Extends(OutcomesOf(S \cup {i}, t), OutcomesOf(S, t), i)
                 /\ OutcomesOf(S \cup {i}, t)[i] = Outcome(t, i)
<1> DEFINE T == Simulations \X {1, 2}
<1>1. \A i \in T : Outcome(t, i) \in Int
  BY OutcomesAreIntegers
<1>2. IsFiniteSet(T)
  <2>1. IsFiniteSet(Simulations)
    BY OptionTypes, FS_Interval DEF Simulations
  <2>2. IsFiniteSet({1, 2})
    <3>1. {1, 2} = {1} \cup {2}
      OBVIOUS
    <3>2. IsFiniteSet({1} \cup {2})
      BY FS_Singleton, FS_AddElement
    <3> QED
      BY <3>1, <3>2
  <2> QED
    BY <2>1, <2>2, FS_Product
<1> HIDE DEF T
<1>3. \A Q \in SUBSET T : Numeric(OutcomesOf(Q, t))
  BY <1>1, <1>2, FS_Subset DEF Numeric, OutcomesOf
<1>4. ASSUME NEW i \in T \ S
      PROVE  /\ Extends(OutcomesOf(S \cup {i}, t), OutcomesOf(S, t), i)
             /\ OutcomesOf(S \cup {i}, t)[i] = Outcome(t, i)
  <2>1. S \subseteq T
    BY DEF T
  <2>2. Numeric(OutcomesOf(S, t)) /\ Numeric(OutcomesOf(S \cup {i}, t))
    BY <1>3, <2>1
  <2> QED
    BY <2>2 DEF Extends, OutcomesOf
<1> QED
  BY <1>3, <1>4 DEF T

LEMMA SampleIs ==
    ASSUME NEW R \in SUBSET Simulations
    PROVE  /\ SampleOf(R) \in SUBSET (Simulations \X {1, 2})
           /\ \A s : SampleOf(R \cup {s}) =
                 IF Op("sobol") THEN (SampleOf(R) \cup {<<s, 1>>}) \cup {<<s, 2>>}
                 ELSE SampleOf(R) \cup {<<s, 1>>}
           /\ \A s : s \notin R => <<s, 1>> \notin SampleOf(R) /\ <<s, 2>> \notin SampleOf(R)
<1>1. 1 .. Width = IF Op("sobol") THEN {1, 2} ELSE {1}
  <2>1. 1 .. 1 = {1} /\ 1 .. 2 = {1, 2}
    OBVIOUS
  <2> QED
    BY <2>1 DEF Width
<1>2. CASE Op("sobol")
  <2>1. 1 .. Width = {1, 2}
    BY <1>1, <1>2
  <2> QED
    BY <1>2, <2>1 DEF SampleOf
<1>3. CASE ~Op("sobol")
  <2>1. 1 .. Width = {1}
    BY <1>1, <1>3
  <2> QED
    BY <1>3, <2>1 DEF SampleOf
<1> QED
  BY <1>2, <1>3

\* What the outputs of a message leave of the moments of its time step.
WithMoments(mo, s, t) ==
    LET one == increment_moments(mo, Double(Value[s][t][1])) IN
    IF Op("sobol") THEN increment_moments(one, Double(Value[s][t][2])) ELSE one

LEMMA MessageMoments ==
    ASSUME options \in Options, NEW t \in Steps, NEW R \in SUBSET Simulations,
           NEW s \in Simulations \ R, NEW mo, IsMoments(mo), NEW f,
           IsMomentsOf(mo, OutcomesOf(SampleOf(R), t), f)
    PROVE  IsMomentsOf(WithMoments(mo, s, t), OutcomesOf(SampleOf(R \cup {s}), t), TRUE)
<1> DEFINE S == SampleOf(R)
           S1 == S \cup {<<s, 1>>}
           S2 == S1 \cup {<<s, 2>>}
           x == OutcomesOf(S, t)
           x1 == OutcomesOf(S1, t)
           x2 == OutcomesOf(S2, t)
           one == increment_moments(mo, Double(Value[s][t][1]))
<1>1. /\ S \in SUBSET (Simulations \X {1, 2}) /\ S1 \in SUBSET (Simulations \X {1, 2})
      /\ <<s, 1>> \in (Simulations \X {1, 2}) \ S
      /\ <<s, 2>> \in (Simulations \X {1, 2}) \ S1
      /\ SampleOf(R \cup {s}) = IF Op("sobol") THEN S2 ELSE S1
  <2>1. /\ S \in SUBSET (Simulations \X {1, 2})
        /\ SampleOf(R \cup {s}) = IF Op("sobol") THEN S2 ELSE S1
        /\ <<s, 1>> \notin S /\ <<s, 2>> \notin S
    BY SampleIs
  <2>2. <<s, 1>> # <<s, 2>> /\ s \in Simulations
    OBVIOUS
  <2> HIDE DEF S
  <2> QED
    BY <2>1, <2>2
<1>2. \A k : Outcome(t, <<s, k>>) = Value[s][t][k]
  BY DEF Outcome
<1> HIDE DEF S
<1>3. Extends(x1, x, <<s, 1>>) /\ x1[<<s, 1>>] = Value[s][t][1]
  BY <1>1, <1>2, OutcomesGrow
<1> HIDE DEF S1
<1>4. Extends(x2, x1, <<s, 2>>) /\ x2[<<s, 2>>] = Value[s][t][2]
  BY <1>1, <1>2, OutcomesGrow
<1> HIDE DEF x, x1, x2, one, S2
<1>5. IsMoments(one) /\ IsMomentsOf(one, x1, TRUE)
  <2> DEFINE i == <<s, 1>>
  <2>1. Extends(x1, x, i) /\ one = increment_moments(mo, Double(x1[i]))
    BY <1>3 DEF one
  <2>2. IsMomentsOf(mo, x, f)
    BY DEF x, S
  <2> HIDE DEF i
  <2> QED
    BY <2>1, <2>2, MomentsOneMore
<1>6. CASE Op("sobol")
  <2>1. WithMoments(mo, s, t) = increment_moments(one, Double(x2[<<s, 2>>]))
    BY <1>4, <1>6 DEF WithMoments, one
  <2>2. IsMomentsOf(WithMoments(mo, s, t), x2, TRUE)
    BY <1>4, <1>5, <2>1, MomentsOneMore
  <2> QED
    BY <1>1, <1>6, <2>2 DEF x2
<1>7. CASE ~Op("sobol")
  <2>1. WithMoments(mo, s, t) = one
    BY <1>7 DEF WithMoments, one
  <2> QED
    BY <1>1, <1>5, <1>7, <2>1 DEF x1
<1> QED
  BY <1>6, <1>7

-----------------------------------------------------------------------------
(* The data and the file.                                                    *)

\* What was computed is that of the outputs received; the thetas too, of the time
\* steps in f, which have received something.
Follows(d, f) ==
    \A t \in Steps :
        /\ t \in f => Received(d, t) # {}
        /\ IsMomentsOf(d.moments[t], OutcomesOf(SampleOf(Received(d, t)), t), t \in f)
        /\ Op("quantile") => \A j \in 1 .. options.nb_quantiles : IsGained(d.quantiles[t][j])
        /\ Op("sobol") => IsSobolOf(d.sobol_indices[t], Received(d, t), t)

LEMMA SampleIsNumeric ==
    ASSUME options \in Options, NEW d, d.step_simu \in [Simulations -> SUBSET Steps],
           NEW t \in Steps
    PROVE  /\ Received(d, t) \in SUBSET Simulations
           /\ Numeric(OutcomesOf(SampleOf(Received(d, t)), t))
<1>1. Received(d, t) \in SUBSET Simulations
  BY ReceivedIsFinite
<1>2. SampleOf(Received(d, t)) \in SUBSET (Simulations \X {1, 2})
  BY <1>1, SampleIs
<1> QED
  BY <1>1, <1>2, OutcomesGrow

LEMMA AllocFollows ==
    ASSUME options \in Options
    PROVE  Follows(melissa_alloc_data, {})
<1> DEFINE d == melissa_alloc_data
<1>1. /\ d.step_simu = [s \in Simulations |-> {}]
      /\ d.moments = [t \in Steps |-> init_moments(max_order)]
      /\ Op("quantile") => d.quantiles = [t \in Steps |->
             [j \in 1 .. options.nb_quantiles |-> init_quantile(j)]]
      /\ Op("sobol") => d.sobol_indices = [t \in Steps |->
             init_sobol_martinez(options.nb_parameters)]
  BY DEF melissa_alloc_data, Allocated
<1> HIDE DEF d
<1>2. \A t \in Steps : Received(d, t) = {}
  BY <1>1 DEF Received
<1>3. \A x : DOMAIN x = {} => N(x) = 0
  BY FS_EmptySet DEF N
<1>4. ASSUME NEW t \in Steps
      PROVE  IsMomentsOf(d.moments[t], OutcomesOf(SampleOf(Received(d, t)), t), t \in {})
  <2> DEFINE x == OutcomesOf(SampleOf(Received(d, t)), t)
             mo == d.moments[t]
  <2>1. N(x) = 0
    BY <1>2, <1>3 DEF OutcomesOf, SampleOf
  <2>2. mo = init_moments(max_order)
    BY <1>1
  <2> HIDE DEF x, mo
  <2>3. /\ mo.increment = 0 /\ DOMAIN mo.m = 1 .. max_order /\ DOMAIN mo.theta = 2 .. max_order
        /\ \A k \in 1 .. max_order : mo.m[k] = Zero
        /\ \A k \in 2 .. max_order : mo.theta[k] = Zero
    BY <2>2 DEF init_moments
  <2> QED
    BY <2>1, <2>3 DEF IsMomentsOf, Moments, x, mo
<1>5. ASSUME NEW t \in Steps, Op("quantile"), NEW j \in 1 .. options.nb_quantiles
      PROVE  IsGained(d.quantiles[t][j])
  <2>1. d.quantiles[t][j] = init_quantile(j)
    <3>1. d.quantiles = [u \in Steps |-> [i \in 1 .. options.nb_quantiles |-> init_quantile(i)]]
      BY <1>1, <1>5
    <3>2. d.quantiles[t] = [i \in 1 .. options.nb_quantiles |-> init_quantile(i)]
      BY <3>1
    <3> QED
      BY <3>2
  <2>2. init_quantile(j).increment = 0
    BY DEF init_quantile
  <2> QED
    BY <2>1, <2>2 DEF IsGained
<1>6. ASSUME NEW t \in Steps, Op("sobol")
      PROVE  IsSobolOf(d.sobol_indices[t], Received(d, t), t)
  <2> DEFINE so == d.sobol_indices[t]
  <2>1. so = init_sobol_martinez(options.nb_parameters)
    BY <1>1, <1>6
  <2> HIDE DEF so
  <2>2. /\ so.variance_a = init_variance /\ so.variance_b = init_variance
        /\ \A i \in 1 .. options.nb_parameters :
              so.sobol_martinez[i].variance_k = init_variance
    BY <2>1 DEF init_sobol_martinez
  <2>3. \A a : N(ColumnOf(Received(d, t), t, a)) = 0
    BY <1>2, <1>3 DEF ColumnOf
  <2>4. \A x : N(x) = 0 => IsVarianceOf(init_variance, x)
    BY DEF IsVarianceOf, init_variance, init_mean
  <2> QED
    BY <2>2, <2>3, <2>4 DEF IsSobolOf, so
<1> QED
  BY <1>4, <1>5, <1>6 DEF Follows, d

LEMMA SaveFollows ==
    ASSUME options \in Options, NEW d, DataShape(d), NEW f, Follows(d, f)
    PROVE  Follows(read_saved_stats(melissa_alloc_data, save_stats(d)), {})
<1> DEFINE e == WithoutThetas(d)
           z == [k \in 2 .. max_order |-> Zero]
           ms == [t \in Steps |-> [d.moments[t] EXCEPT !.theta = z]]
<1>1. /\ e.moments = ms /\ e.step_simu = d.step_simu
      /\ e.quantiles = d.quantiles /\ e.sobol_indices = d.sobol_indices
  <2>1. e = [d EXCEPT !.moments = ms]
    BY DEF WithoutThetas
  <2>2. FunctionOn(Fields, d)
    BY DEF DataShape
  <2> HIDE DEF e, ms
  <2> QED
    BY <2>1, <2>2 DEF FunctionOn, Fields
<1> HIDE DEF e
<1>2. \A t : Received(e, t) = Received(d, t)
  BY <1>1 DEF Received
<1>3. ASSUME NEW t \in Steps
      PROVE  IsMomentsOf(e.moments[t], OutcomesOf(SampleOf(Received(e, t)), t), t \in {})
  <2> DEFINE x == OutcomesOf(SampleOf(Received(d, t)), t)
             mo == d.moments[t]
             new == e.moments[t]
             g == t \in f
  <2>1. new = [mo EXCEPT !.theta = z]
    BY <1>1
  <2>2. IsMoments(mo) /\ IsMomentsOf(mo, x, g)
    BY DEF DataShape, MomentsShape, Follows
  <2>3. Numeric(x)
    BY SampleIsNumeric DEF DataShape
  <2> HIDE DEF x, mo, new, g
  <2>4. IsMomentsOf(new, x, FALSE)
    BY <2>1, <2>2, <2>3, MomentsRead
  <2>5. (t \in {}) = FALSE
    OBVIOUS
  <2> QED
    BY <1>2, <2>4, <2>5 DEF x, new
<1>4. ASSUME NEW t \in Steps
      PROVE  /\ Op("quantile") => \A j \in 1 .. options.nb_quantiles : IsGained(e.quantiles[t][j])
             /\ Op("sobol") => IsSobolOf(e.sobol_indices[t], Received(e, t), t)
  BY <1>1, <1>2 DEF Follows
<1>5. Follows(e, {})
  BY <1>3, <1>4 DEF Follows
<1> QED
  BY <1>5, SavedIsRead DEF e

\* One vector, in the moments and the quantiles.
Ready(a) ==
    /\ FunctionOn(Fields, a) /\ a.stats_init = TRUE
    /\ MomentsShape(a) /\ QuantileShape(a)

LEMMA VectorParts ==
    ASSUME NEW a, Ready(a), NEW t \in Steps, NEW s, NEW y, NEW b, b = Update(a, t, s, y)
    PROVE  /\ Ready(b) /\ b.sobol_indices = a.sobol_indices
           /\ \A u \in Steps :
                 /\ b.moments[u] = IF u = t THEN increment_moments(a.moments[u], y)
                                   ELSE a.moments[u]
                 /\ Op("quantile") => \A j \in 1 .. options.nb_quantiles :
                       IsGained(a.quantiles[u][j]) => IsGained(b.quantiles[u][j])
<1> DEFINE n == options.sampling_size
<1>1. /\ FunctionOn(Fields, b) /\ b.stats_init = TRUE
      /\ b.moments = UpdatedMoments(a, t, y)
      /\ b.quantiles = UpdatedQuantiles(a, t, n)
      /\ b.sobol_indices = a.sobol_indices
  <2>1. FunctionOn(Fields, a) /\ a.stats_init = TRUE
    BY DEF Ready
  <2>2. b = Update(a, t, s, y)
    OBVIOUS
  <2>3. b.moments = UpdatedMoments(a, t, y)
    BY <2>1, <2>2, UpdateParts
  <2>4. b.sobol_indices = a.sobol_indices
    BY <2>1, <2>2 DEF Update, FunctionOn, Fields
  <2>5. b.quantiles = UpdatedQuantiles(a, t, n)
    BY <2>1, <2>2, UpdateParts
  <2>6. FunctionOn(Fields, b) /\ b.stats_init = TRUE
    BY <2>1, <2>2, UpdateParts
  <2> QED
    BY <2>3, <2>4, <2>5, <2>6
<1> HIDE DEF n
<1>2. Ready(b)
  BY <1>1, MomentsUpdated, QuantilesUpdated DEF Ready
<1>3. DOMAIN a.moments = Steps
  BY DEF Ready, MomentsShape, FunctionOn
<1>4. ASSUME NEW u \in Steps
      PROVE  b.moments[u] = IF u = t THEN increment_moments(a.moments[u], y)
                            ELSE a.moments[u]
  BY <1>1, <1>3 DEF UpdatedMoments
<1>5. ASSUME NEW u \in Steps, Op("quantile"), NEW j \in 1 .. options.nb_quantiles,
             IsGained(a.quantiles[u][j])
      PROVE  IsGained(b.quantiles[u][j])
  <2> DEFINE q == a.quantiles[u][j]
  <2>1. /\ DOMAIN a.quantiles = Steps /\ DOMAIN a.quantiles[u] = 1 .. options.nb_quantiles
        /\ IsQuantile(q)
    BY <1>5 DEF Ready, QuantileShape, FunctionOn, StepsOf
  <2>2. b.quantiles[u][j] = IF u = t THEN increment_quantile(q, n) ELSE q
    <3> DEFINE f(w) == IF w = t THEN [i \in DOMAIN a.quantiles[w] |->
                                         increment_quantile(a.quantiles[w][i], n)]
                       ELSE a.quantiles[w]
    <3>1. b.quantiles = [w \in DOMAIN a.quantiles |-> f(w)]
      BY <1>1 DEF UpdatedQuantiles
    <3>2. b.quantiles[u] = f(u)
      BY <2>1, <3>1
    <3> QED
      BY <2>1, <3>2
  <2> HIDE DEF q
  <2>3. IsGained(increment_quantile(q, n))
    BY <2>1, GainOneMore DEF n
  <2> QED
    BY <1>5, <2>2, <2>3 DEF q
<1> QED
  BY <1>1, <1>2, <1>4, <1>5

\* What the vectors of a message change.
LEMMA ComputeParts ==
    ASSUME options \in Options, NEW d, DataShape(d), NEW s \in Simulations, NEW t \in Steps,
           NEW m, m = compute_stats(d, t, s, Output(s, t))
    PROVE  \A u \in Steps :
              /\ m.moments[u] = IF u = t THEN WithMoments(d.moments[u], s, t) ELSE d.moments[u]
              /\ Op("quantile") => \A j \in 1 .. options.nb_quantiles :
                    IsGained(d.quantiles[u][j]) => IsGained(m.quantiles[u][j])
              /\ Op("sobol") => m.sobol_indices[u] =
                    IF u = t THEN increment_sobol_martinez(d.sobol_indices[u], Output(s, t))
                    ELSE d.sobol_indices[u]
<1> DEFINE x == Output(s, t)
           v(k) == Value[s][t][k]
           da == Update(d, t, s, x[1])
           ds == [da EXCEPT !.sobol_indices[t] = increment_sobol_martinez(@, x)]
           db == Update(ds, t, s, x[2])
           n == options.sampling_size
<1>1. /\ v(1) \in Int /\ v(2) \in Int /\ x[1] = Double(v(1)) /\ x[2] = Double(v(2))
  <2>1. /\ Value[s][t] \in Seq(Int) /\ Len(Value[s][t]) >= 2 + options.nb_parameters
        /\ options.nb_parameters \in Nat
    BY OptionTypes
  <2>2. 1 \in DOMAIN Value[s][t] /\ 2 \in DOMAIN Value[s][t]
    BY <2>1
  <2> QED
    BY <2>1, <2>2 DEF Output
<1>2. m = IF Op("sobol") THEN db ELSE da
  BY DEF compute_stats
<1> HIDE DEF x, v
<1>4. Ready(d)
  BY DEF DataShape, Ready
<1>5. da = Update(d, t, s, Double(v(1))) /\ db = Update(ds, t, s, Double(v(2)))
  BY <1>1
<1> HIDE DEF da, db
<1>6. /\ Ready(da) /\ da.sobol_indices = d.sobol_indices
      /\ \A u \in Steps :
            /\ da.moments[u] = IF u = t THEN increment_moments(d.moments[u], Double(v(1)))
                               ELSE d.moments[u]
            /\ Op("quantile") => \A j \in 1 .. options.nb_quantiles :
                  IsGained(d.quantiles[u][j]) => IsGained(da.quantiles[u][j])
  BY <1>4, <1>5, VectorParts
<1>7. CASE ~Op("sobol")
  BY <1>2, <1>6, <1>7 DEF WithMoments, v
<1>8. CASE Op("sobol")
  <2>1. /\ Ready(ds)
        /\ ds.sobol_indices = [da.sobol_indices EXCEPT ![t] = increment_sobol_martinez(@, x)]
        /\ ds.moments = da.moments /\ ds.quantiles = da.quantiles
    <3>1. FunctionOn(Fields, da) /\ da.stats_init = TRUE /\ MomentsShape(da) /\ QuantileShape(da)
      BY <1>6 DEF Ready
    <3>2. /\ FunctionOn(Fields, ds) /\ ds.stats_init = TRUE
          /\ ds.sobol_indices = [da.sobol_indices EXCEPT ![t] = increment_sobol_martinez(@, x)]
          /\ ds.moments = da.moments /\ ds.quantiles = da.quantiles
      BY <3>1 DEF FunctionOn, Fields
    <3> HIDE DEF ds
    <3> QED
      BY <3>1, <3>2 DEF Ready, MomentsShape, QuantileShape
  <2> HIDE DEF ds
  <2>2. /\ db.sobol_indices = ds.sobol_indices
        /\ \A u \in Steps :
              /\ db.moments[u] = IF u = t THEN increment_moments(ds.moments[u], Double(v(2)))
                                 ELSE ds.moments[u]
              /\ Op("quantile") => \A j \in 1 .. options.nb_quantiles :
                    IsGained(ds.quantiles[u][j]) => IsGained(db.quantiles[u][j])
    BY <1>5, <2>1, VectorParts
  <2>3. DOMAIN d.sobol_indices = Steps
    BY <1>8 DEF DataShape, SobolShape, FunctionOn, StepsOf
  <2>4. m = db
    BY <1>2, <1>8
  <2>5. \A u \in Steps : m.sobol_indices[u] =
           IF u = t THEN increment_sobol_martinez(d.sobol_indices[u], x) ELSE d.sobol_indices[u]
    BY <1>6, <2>1, <2>2, <2>3, <2>4
  <2>6. \A u \in Steps : m.moments[u] =
           IF u = t THEN WithMoments(d.moments[u], s, t) ELSE d.moments[u]
    BY <1>6, <1>8, <2>1, <2>2, <2>4 DEF WithMoments, v
  <2>7. \A u \in Steps : Op("quantile") => \A j \in 1 .. options.nb_quantiles :
           IsGained(d.quantiles[u][j]) => IsGained(m.quantiles[u][j])
    BY <1>6, <2>1, <2>2, <2>4
  <2> QED
    BY <2>5, <2>6, <2>7 DEF x
<1> QED
  BY <1>7, <1>8

LEMMA MessageFollows ==
    ASSUME options \in Options, NEW d, DataShape(d), NEW f, Follows(d, f),
           NEW s \in Simulations, NEW t \in Steps, t \notin d.step_simu[s],
           FunctionOn(Fields, compute_stats(d, t, s, Output(s, t))),
           compute_stats(d, t, s, Output(s, t)).step_simu = d.step_simu,
           NEW n, n = [compute_stats(d, t, s, Output(s, t)) EXCEPT
                          !.step_simu[s] = @ \cup {t}]
    PROVE  Follows(n, f \cup {t})
<1> DEFINE m == compute_stats(d, t, s, Output(s, t))
<1>1. \A u \in Steps :
         /\ m.moments[u] = IF u = t THEN WithMoments(d.moments[u], s, t) ELSE d.moments[u]
         /\ Op("quantile") => \A j \in 1 .. options.nb_quantiles :
               IsGained(d.quantiles[u][j]) => IsGained(m.quantiles[u][j])
         /\ Op("sobol") => m.sobol_indices[u] =
               IF u = t THEN increment_sobol_martinez(d.sobol_indices[u], Output(s, t))
               ELSE d.sobol_indices[u]
  BY ComputeParts
<1>2. n = [m EXCEPT !.step_simu[s] = @ \cup {t}] /\ FunctionOn(Fields, m) /\ m.step_simu = d.step_simu
  OBVIOUS
<1> HIDE DEF m
<1>3. /\ n.step_simu = [d.step_simu EXCEPT ![s] = @ \cup {t}]
      /\ n.moments = m.moments /\ n.quantiles = m.quantiles /\ n.sobol_indices = m.sobol_indices
  BY <1>2 DEF FunctionOn, Fields
<1>4. d.step_simu \in [Simulations -> SUBSET Steps]
  BY DEF DataShape
<1>5. /\ Received(n, t) = Received(d, t) \cup {s} /\ s \in Simulations \ Received(d, t)
      /\ \A u : u # t => Received(n, u) = Received(d, u)
  BY <1>3, <1>4 DEF Received
<1>6. \A u \in Steps : Received(d, u) \in SUBSET Simulations
  BY <1>4, SampleIsNumeric
<1>7. ASSUME NEW u \in Steps
      PROVE  /\ u \in f \cup {t} => Received(n, u) # {}
             /\ IsMomentsOf(n.moments[u], OutcomesOf(SampleOf(Received(n, u)), u), u \in f \cup {t})
             /\ Op("sobol") => IsSobolOf(n.sobol_indices[u], Received(n, u), u)
  <2> DEFINE R == Received(d, u)
             g == u \in f
  <2>1. /\ R \in SUBSET Simulations /\ IsMomentsOf(d.moments[u], OutcomesOf(SampleOf(R), u), g)
        /\ Op("sobol") => IsSobolOf(d.sobol_indices[u], R, u)
        /\ u \in f => R # {}
    BY <1>6 DEF Follows
  <2>2. /\ IsMoments(d.moments[u])
        /\ Op("sobol") => IsSobol(d.sobol_indices[u])
    BY DEF DataShape, MomentsShape, SobolShape, StepsOf
  <2>3. CASE u = t
    <3>1. Received(n, u) = R \cup {s} /\ s \in Simulations \ R
      BY <1>5, <2>3
    <3>2. n.moments[u] = WithMoments(d.moments[u], s, u)
      BY <1>1, <1>3, <2>3
    <3> HIDE DEF R, g
    <3>3. IsMomentsOf(n.moments[u], OutcomesOf(SampleOf(R \cup {s}), u), TRUE)
      <4> DEFINE mo == d.moments[u]
      <4>1. /\ IsMoments(mo) /\ IsMomentsOf(mo, OutcomesOf(SampleOf(R), u), g)
            /\ R \in SUBSET Simulations /\ s \in Simulations \ R
            /\ n.moments[u] = WithMoments(mo, s, u)
        BY <2>1, <2>2, <3>1, <3>2
      <4> HIDE DEF mo
      <4>2. IsMomentsOf(WithMoments(mo, s, u), OutcomesOf(SampleOf(R \cup {s}), u), TRUE)
        BY <4>1, MessageMoments
      <4> QED
        BY <4>1, <4>2
    <3>4. (u \in f \cup {t}) = TRUE
      BY <2>3
    <3>5. Op("sobol") => IsSobolOf(n.sobol_indices[u], R \cup {s}, u)
      <4>1. Op("sobol") => n.sobol_indices[u] = increment_sobol_martinez(d.sobol_indices[u], Output(s, u))
        BY <1>1, <1>3, <2>3
      <4> QED
        BY <2>1, <2>2, <3>1, <4>1, SobolOneMore
    <3> QED
      BY <3>1, <3>3, <3>4, <3>5
  <2>4. CASE u # t
    <3>1. Received(n, u) = R /\ n.moments[u] = d.moments[u]
          /\ (Op("sobol") => n.sobol_indices[u] = d.sobol_indices[u])
      BY <1>1, <1>3, <1>5, <2>4
    <3>2. (u \in f \cup {t}) = g
      BY <2>4
    <3> HIDE DEF R, g
    <3>3. IsMomentsOf(n.moments[u], OutcomesOf(SampleOf(Received(n, u)), u), u \in f \cup {t})
      BY <2>1, <3>1, <3>2
    <3> QED
      BY <2>1, <2>4, <3>1, <3>3
  <2> QED
    BY <2>3, <2>4
<1>8. ASSUME NEW u \in Steps, Op("quantile"), NEW j \in 1 .. options.nb_quantiles
      PROVE  IsGained(n.quantiles[u][j])
  BY <1>1, <1>3, <1>8 DEF Follows
<1> QED
  BY <1>7, <1>8 DEF Follows

-----------------------------------------------------------------------------

BInv ==
    /\ IF data.stats_init THEN Follows(data, fresh) ELSE fresh = {}
    /\ file = NoFile \/ Follows(Kept, {})

LEMMA PreparedFollows ==
    ASSUME SInv, BInv, restart => file.exists
    PROVE  Follows(Prepared, fresh)
<1>1. CASE data = NotInitialized
  <2>1. Prepared = melissa_init_data /\ fresh = {}
    BY <1>1 DEF Prepared, NotInitialized, BInv
  <2>2. CASE restart
    BY <2>1, <2>2 DEF BInv, NoFile, melissa_init_data, Kept
  <2>3. CASE ~restart
    BY <2>1, <2>3, AllocFollows DEF melissa_init_data, SInv
  <2> QED
    BY <2>2, <2>3
<1>2. CASE Agrees(data)
  BY <1>2 DEF Prepared, Agrees, DataShape, BInv
<1> QED
  BY <1>1, <1>2 DEF SInv

LEMMA SameFollowing ==
    ASSUME options' = options, NEW d, NEW f
    PROVE  Follows(d, f) <=> Follows(d, f)'
<1>1. /\ Steps' = Steps /\ Width' = Width
      /\ \A o : Op(o)' <=> Op(o)
  BY SameOptions
<1>2. max_order' = max_order
  BY <1>1 DEF max_order
<1>3. \A t : Received(d, t)' = Received(d, t)
  BY DEF Received
<1>4. \A R : SampleOf(R)' = SampleOf(R)
  BY <1>1 DEF SampleOf
<1>5. \A S, t : OutcomesOf(S, t)' = OutcomesOf(S, t)
  BY DEF OutcomesOf, Outcome
<1>6. \A mo, x, g : IsMomentsOf(mo, x, g)' <=> IsMomentsOf(mo, x, g)
  BY <1>2 DEF IsMomentsOf, Moments
<1>7. \A q : IsGained(q)' <=> IsGained(q)
  BY DEF IsGained, Gain
<1>8. \A so, R, t : IsSobolOf(so, R, t)' <=> IsSobolOf(so, R, t)
  BY DEF IsSobolOf, ColumnOf
<1> QED
  BY <1>1, <1>3, <1>4, <1>5, <1>6, <1>7, <1>8 DEF Follows

LEMMA BInvNext ==
    ASSUME SInv, BInv, restart => file.exists, [Next]_vars
    PROVE  BInv'
<1>1. ASSUME options' = options, file' = file
      PROVE  file' = NoFile \/ Follows(Kept, {})'
  <2>1. Kept' = Kept
    BY <1>1, SameReading DEF Kept
  <2> QED
    BY <1>1, <2>1, SameFollowing DEF BInv
<1>2. ASSUME data.stats_init, options' = options, file' = save_stats(data)
      PROVE  Follows(Kept, {})'
  <2>1. Follows(data, fresh) /\ DataShape(data) /\ options \in Options
    BY <1>2 DEF BInv, SInv, Agrees, NotInitialized
  <2>2. Follows(read_saved_stats(melissa_alloc_data, file'), {})
    BY <1>2, <2>1, SaveFollows
  <2>3. Kept' = read_saved_stats(melissa_alloc_data, file')
    BY <1>2, SameReading DEF Kept
  <2> QED
    BY <1>2, <2>2, <2>3, SameFollowing
<1>3. ASSUME options' = options, data' = data, fresh' = fresh
      PROVE  IF data'.stats_init THEN Follows(data, fresh)' ELSE fresh' = {}
  <2>1. CASE data.stats_init
    <3>1. Follows(data', fresh')
      BY <1>3, <2>1 DEF BInv
    <3> QED
      BY <1>3, <2>1, <3>1, SameFollowing
  <2>2. CASE ~data.stats_init
    BY <1>3, <2>2 DEF BInv
  <2> QED
    BY <2>1, <2>2
<1>4. ASSUME NEW s \in Simulations, NEW t \in Steps, Receive(s, t)
      PROVE  BInv'
  <2>1. options' = options /\ file' = file
    BY <1>4 DEF Receive
  <2>2. Agrees(Prepared) /\ Follows(Prepared, fresh) /\ options \in Options
    BY PreparedAgrees, PreparedFollows DEF SInv
  <2>3. Follows(data', fresh') /\ data'.stats_init = TRUE
    <3>1. CASE t \in Prepared.step_simu[s]
      BY <1>4, <2>2, <3>1 DEF Receive, Agrees, DataShape
    <3>2. CASE t \notin Prepared.step_simu[s]
      <4> DEFINE m == compute_stats(Prepared, t, s, Output(s, t))
      <4>1. data' = [m EXCEPT !.step_simu[s] = @ \cup {t}] /\ fresh' = fresh \cup {t}
        BY <1>4, <3>2 DEF Receive
      <4>2. DataShape(m) /\ m.step_simu = Prepared.step_simu
        BY <2>2, ComputeCounts DEF Agrees
      <4>3. Agrees(data')
        BY <2>2, <3>2, <4>1, MessageCounts
      <4>4. Follows(data', fresh \cup {t})
        BY <2>2, <3>2, <4>1, <4>2, MessageFollows DEF Agrees, DataShape
      <4> QED
        BY <4>1, <4>3, <4>4 DEF Agrees, DataShape
    <3> QED
      BY <3>1, <3>2
  <2>4. Follows(data, fresh)'
    BY <2>1, <2>3, SameFollowing
  <2> QED
    BY <1>1, <2>1, <2>3, <2>4 DEF BInv
<1>5. CASE Checkpoint
  <2>1. /\ data.stats_init /\ file' = save_stats(data) /\ options' = options
        /\ data' = data /\ fresh' = fresh
    BY <1>5 DEF Checkpoint
  <2> QED
    BY <1>2, <1>3, <2>1 DEF BInv
<1>6. CASE CrashAndRestart
  <2>1. /\ file' = file /\ options' = options /\ data' = NotInitialized /\ fresh' = {}
    BY <1>6 DEF CrashAndRestart
  <2>2. data'.stats_init = FALSE
    BY <2>1 DEF NotInitialized
  <2> QED
    BY <1>1, <2>1, <2>2 DEF BInv
<1>7. CASE Finalize
  <2>1. /\ data.stats_init /\ file' = save_stats(data) /\ options' = options
        /\ data' = data /\ fresh' = fresh
    BY <1>7 DEF Finalize
  <2> QED
    BY <1>2, <1>3, <2>1 DEF BInv
<1>8. CASE UNCHANGED vars
  <2>1. /\ options' = options /\ data' = data /\ file' = file /\ fresh' = fresh
    BY <1>8 DEF vars
  <2> QED
    BY <1>1, <1>3, <2>1 DEF BInv
<1> QED
  BY <1>4, <1>5, <1>6, <1>7, <1>8 DEF Next

LEMMA BInvHolds == Spec => [](SInv /\ BInv)
<1>1. Init => BInv
  BY DEF Init, BInv, NotInitialized
<1>2. (SInv /\ (restart => file.exists)) /\ BInv /\ [Next]_vars => BInv'
  BY BInvNext
<1> QED
  BY <1>1, <1>2, SInvHolds, PTL DEF Spec

-----------------------------------------------------------------------------
(* The theorems of the contents.                                             *)

\* what the invariant says of initialized data
LEMMA DataFollows ==
    ASSUME SInv, BInv, data.stats_init
    PROVE  /\ options \in Options /\ Agrees(data) /\ Follows(data, fresh)
           /\ data.step_simu \in [Simulations -> SUBSET Steps]
           /\ \A t : Outcomes(t) = OutcomesOf(SampleOf(Received(data, t)), t)
<1>1. Agrees(data) /\ Follows(data, fresh) /\ options \in Options
  BY DEF SInv, BInv, NotInitialized
<1>2. data.step_simu \in [Simulations -> SUBSET Steps]
  BY <1>1 DEF Agrees, DataShape
<1>3. \A t : Outcomes(t) = OutcomesOf(SampleOf(Received(data, t)), t)
  BY DEF Outcomes, OutcomesOf, Sample, SampleOf
<1> QED
  BY <1>1, <1>2, <1>3

\* Something was received when a simulation is: the sample has a number in it.
LEMMA SampleHasNumbers ==
    ASSUME options \in Options, data.step_simu \in [Simulations -> SUBSET Steps],
           NEW t \in Steps, Received(data, t) # {},
           Outcomes(t) = OutcomesOf(SampleOf(Received(data, t)), t)
    PROVE  Numeric(Outcomes(t)) /\ N(Outcomes(t)) \in Nat /\ N(Outcomes(t)) # 0
<1>1. Numeric(Outcomes(t))
  BY SampleIsNumeric
<1>2. DOMAIN Outcomes(t) # {}
  <2>1. 1 \in 1 .. Width
    BY WidthIs
  <2>2. PICK s : s \in Received(data, t)
    OBVIOUS
  <2>3. <<s, 1>> \in Sample(t)
    BY <2>1, <2>2 DEF Sample
  <2> QED
    BY <2>3 DEF Outcomes
<1> QED
  BY <1>1, <1>2, CountOf

\* The moments do not depend on the order of the messages: they are the means of
\* the powers of all that was received (general_moments.c 41-56 and 142-166).
THEOREM MomentsAreOfTheSamples == Spec => []MomentsAreBatch
<1>1. ASSUME SInv, BInv PROVE MomentsAreBatch
  <2> SUFFICES ASSUME data.stats_init, NEW t \in Steps, Received(data, t) # {},
                      NEW k \in 1 .. max_order
               PROVE  data.moments[t].m[k] = BatchMoment(Outcomes(t), k)
    BY DEF MomentsAreBatch
  <2>1. /\ options \in Options /\ data.step_simu \in [Simulations -> SUBSET Steps]
        /\ Outcomes(t) = OutcomesOf(SampleOf(Received(data, t)), t)
        /\ Follows(data, fresh)
    BY <1>1, DataFollows
  <2>2. N(Outcomes(t)) # 0
    BY <2>1, SampleHasNumbers
  <2>3. Moments(data.moments[t].m, Outcomes(t))
    BY <2>1 DEF Follows, IsMomentsOf
  <2> QED
    BY <2>2, <2>3 DEF Moments
<1> QED
  BY <1>1, BInvHolds, PTL

\* What the variance, the skewness and the kurtosis are computed from belongs to
\* the moments at all times, except between a restart and the first message of
\* the time step after it (general_moments.c 169-187, 355-382).
THEOREM ThetasAreOfTheSamples == Spec => []ThetasFollow
<1>1. ASSUME SInv, BInv, TypeOK PROVE ThetasFollow
  <2> SUFFICES ASSUME data.stats_init, NEW t \in fresh, NEW k \in 2 .. max_order
               PROVE  data.moments[t].theta[k] = BatchCentral(Outcomes(t), k)
    BY DEF ThetasFollow
  <2>1. /\ options \in Options /\ data.step_simu \in [Simulations -> SUBSET Steps]
        /\ Outcomes(t) = OutcomesOf(SampleOf(Received(data, t)), t)
        /\ Follows(data, fresh)
    BY <1>1, DataFollows
  <2>2. t \in Steps
    BY <1>1 DEF TypeOK
  <2>3. N(Outcomes(t)) # 0
    BY <2>1, <2>2, SampleHasNumbers DEF Follows
  <2>4. IsMomentsOf(data.moments[t], Outcomes(t), TRUE)
    BY <2>1, <2>2 DEF Follows
  <2> QED
    BY <2>3, <2>4 DEF IsMomentsOf
<1> QED
  BY <1>1, BInvHolds, StatisticsTypeOK, PTL

\* The gain 1/n^gamma of a quantile keeps gamma between 0.1 and 1 in a study
\* without Sobol' indices: no simulation is counted twice, so the updates stay
\* within "nmax maximum number of iterations" (quantile.c 78-79 and 104).
THEOREM GainsStayInRange == Spec => []QuantileGain
<1>1. ASSUME SInv, BInv PROVE QuantileGain
  <2> SUFFICES ASSUME data.stats_init, Op("quantile"), ~Op("sobol"), NEW t \in Steps,
                      NEW j \in 1 .. options.nb_quantiles,
                      data.quantiles[t][j].increment > 1
               PROVE  /\ ~Less(data.quantiles[t][j].gamma, Rational(1, 10))
                      /\ ~Less(One, data.quantiles[t][j].gamma)
    BY DEF QuantileGain
  <2> DEFINE n == data.quantiles[t][j].increment
             size == options.sampling_size
             g == data.quantiles[t][j].gamma
  <2>1. /\ options \in Options /\ data.step_simu \in [Simulations -> SUBSET Steps]
        /\ Agrees(data) /\ Follows(data, fresh)
    BY <1>1, DataFollows
  <2>2. n = Width * Count(data, t) /\ g = Gain(n)
    BY <2>1 DEF Agrees, CountsAgree, Follows, IsGained
  <2>3. n \in Nat /\ size \in Nat /\ n <= size
    <3>1. size \in Nat
      BY <2>1, OptionTypes
    <3>2. IsFiniteSet(Simulations) /\ Cardinality(Simulations) = size
      <4>1. Simulations = 0 .. size - 1
        BY DEF Simulations
      <4> HIDE DEF size
      <4> QED
        BY <3>1, <4>1, FS_Interval
    <3>3. Received(data, t) \subseteq Simulations
      BY <2>1, ReceivedIsFinite
    <3>4. Count(data, t) \in Nat /\ Count(data, t) <= size
      BY <3>2, <3>3, FS_Subset, FS_CardinalityType DEF Count
    <3>5. Width = 1
      BY DEF Width
    <3> QED
      BY <2>2, <3>1, <3>4, <3>5
  <2>4. g = Plus(Rational(9 * (n - 1), 10 * (size - 1)), Rational(1, 10))
    BY <2>2 DEF Gain
  <2>5. n > 1
    OBVIOUS
  <2> HIDE DEF n, size, g
  <2> DEFINE a == 9 * (n - 1)
             b == 10 * (size - 1)
             c == a * 10 + 1 * b
             d == b * 10
  <2>6. a \in Int /\ b \in Positives /\ 1 \in Int /\ 10 \in Positives
    BY <2>3, <2>5 DEF Positives
  <2>7. g = Rational(c, d)
    BY <2>4, <2>6, PlusIs
  <2>8. c \in Int /\ d \in Positives /\ 1 \in Positives
    BY <2>6 DEF Positives
  <2>9. ~(c * 10 < 1 * d) /\ ~(1 * d < c * 1)
    BY <2>3, <2>5
  <2>10. One = Rational(1, 1)
    BY DoubleIsRational DEF One
  <2> HIDE DEF a, b, c, d
  <2>11. ~Less(g, Rational(1, 10))
    BY <2>6, <2>7, <2>8, <2>9, LessIs
  <2>12. ~Less(One, g)
    BY <2>6, <2>7, <2>8, <2>9, <2>10, LessIs
  <2> QED
    BY <2>11, <2>12 DEF g
<1> QED
  BY <1>1, BInvHolds, PTL

\* The variances the indices of Sobol' are divided by are those of the outputs of
\* the runs A, B and C of the groups received (variance.c 104-119, sobol.c 258-263).
THEOREM VariancesAreOfTheColumns == Spec => []SobolVariances
<1>1. ASSUME SInv, BInv PROVE SobolVariances
  <2> SUFFICES ASSUME data.stats_init, Op("sobol"), NEW t \in Steps,
                      Cardinality(Received(data, t)) > 1
               PROVE  LET so == data.sobol_indices[t] IN
                      /\ so.variance_a.variance = BatchCovariance(Column(t, 1), Column(t, 1))
                      /\ so.variance_b.variance = BatchCovariance(Column(t, 2), Column(t, 2))
                      /\ \A i \in 1 .. options.nb_parameters :
                            so.sobol_martinez[i].variance_k.variance =
                                BatchCovariance(Column(t, i + 2), Column(t, i + 2))
    BY DEF SobolVariances
  <2> DEFINE so == data.sobol_indices[t]
             R == Received(data, t)
  <2>1. /\ options \in Options /\ data.step_simu \in [Simulations -> SUBSET Steps]
        /\ Follows(data, fresh)
    BY <1>1, DataFollows
  <2>2. R \in SUBSET Simulations /\ options.nb_parameters \in Nat
    BY <2>1, ReceivedIsFinite, OptionTypes
  <2>3. IsSobolOf(so, R, t)
    BY <2>1 DEF Follows
  <2>4. \A a : Column(t, a) = ColumnOf(R, t, a)
    BY DEF Column, ColumnOf
  <2>5. Cardinality(R) > 1
    OBVIOUS
  <2> HIDE DEF R, so
  <2>6. ASSUME NEW a \in 1 .. 2 + options.nb_parameters, NEW v, IsVarianceOf(v, ColumnOf(R, t, a))
        PROVE  v.variance = BatchCovariance(ColumnOf(R, t, a), ColumnOf(R, t, a))
    <3> DEFINE x == ColumnOf(R, t, a)
    <3>1. Numeric(x)
      BY <2>1, <2>2, ColumnGrows
    <3>2. N(x) = Cardinality(R)
      BY DEF N, ColumnOf
    <3>3. IsVarianceOf(v, x)
      BY <2>6
    <3> HIDE DEF x
    <3>4. v.variance = BatchCovariance(x, x)
      BY <2>5, <3>1, <3>2, <3>3, VarianceIs
    <3> QED
      BY <3>4 DEF x
  <2>7. so.variance_a.variance = BatchCovariance(ColumnOf(R, t, 1), ColumnOf(R, t, 1))
    <3>1. 1 \in 1 .. 2 + options.nb_parameters
      BY <2>2
    <3> QED
      BY <2>3, <2>6, <3>1 DEF IsSobolOf
  <2>8. so.variance_b.variance = BatchCovariance(ColumnOf(R, t, 2), ColumnOf(R, t, 2))
    <3>1. 2 \in 1 .. 2 + options.nb_parameters
      BY <2>2
    <3> QED
      BY <2>3, <2>6, <3>1 DEF IsSobolOf
  <2>9. ASSUME NEW i \in 1 .. options.nb_parameters
        PROVE  so.sobol_martinez[i].variance_k.variance =
                   BatchCovariance(ColumnOf(R, t, i + 2), ColumnOf(R, t, i + 2))
    <3>1. i + 2 \in 1 .. 2 + options.nb_parameters
      BY <2>2
    <3> QED
      BY <2>3, <2>6, <3>1 DEF IsSobolOf
  <2> QED
    BY <2>4, <2>7, <2>8, <2>9 DEF so
<1> QED
  BY <1>1, BInvHolds, PTL

-----------------------------------------------------------------------------
(* The files of results.                                                     *)

\* every file bears the name of its statistic
LEMMA NamesOfResults ==
    ASSUME NEW d
    PROVE  /\ \A r \in write_mean(d) : r.name = "mean"
           /\ \A r \in write_variance(d) : r.name = "variance"
           /\ \A r \in write_skewness(d) : r.name = "skewness"
           /\ \A r \in write_kurtosis(d) : r.name = "kurtosis"
           /\ \A r \in write_min(d) : r.name = "min"
           /\ \A r \in write_min_id(d) : r.name = "min_id"
           /\ \A r \in write_max(d) : r.name = "max"
           /\ \A r \in write_max_id(d) : r.name = "max_id"
           /\ \A r \in write_threshold(d) : r.name = "threshold"
           /\ \A r \in write_quantile(d) : r.name = "quantile"
           /\ \A r \in write_sobol(d) : r.name = "sobol"
           /\ \A r \in write_sobol_tot(d) : r.name = "sobol_tot"
<1>1. \A r \in write_mean(d) : r.name = "mean"
  BY DEF write_mean, Results
<1>2. \A r \in write_variance(d) : r.name = "variance"
  BY DEF write_variance, Results
<1>3. \A r \in write_skewness(d) : r.name = "skewness"
  BY DEF write_skewness, Results
<1>4. \A r \in write_kurtosis(d) : r.name = "kurtosis"
  BY DEF write_kurtosis, Results
<1>5. \A r \in write_min(d) : r.name = "min"
  BY DEF write_min, Results
<1>6. \A r \in write_min_id(d) : r.name = "min_id"
  BY DEF write_min_id, Results
<1>7. \A r \in write_max(d) : r.name = "max"
  BY DEF write_max, Results
<1>8. \A r \in write_max_id(d) : r.name = "max_id"
  BY DEF write_max_id, Results
<1>9. \A r \in write_threshold(d) : r.name = "threshold"
  BY DEF write_threshold, Results
<1>10. \A r \in write_quantile(d) : r.name = "quantile"
  BY DEF write_quantile, Results
<1>11. \A r \in write_sobol(d) : r.name = "sobol"
  BY DEF write_sobol, Results
<1>12. \A r \in write_sobol_tot(d) : r.name = "sobol_tot"
  BY DEF write_sobol_tot, Results
<1> QED
  BY <1>1, <1>2, <1>3, <1>4, <1>5, <1>6, <1>7, <1>8, <1>9, <1>10, <1>11, <1>12

\* The files of a statistic are those its own function writes.
LEMMA OwnResults ==
    ASSUME NEW d, results = melissa_write_stats(d), NEW t
    PROVE  /\ Written("mean", t) = {r \in write_mean(d) : r.step = t}
           /\ Written("variance", t) = {r \in write_variance(d) : r.step = t}
           /\ Written("min", t) = {r \in write_min(d) : r.step = t}
           /\ Written("max", t) = {r \in write_max(d) : r.step = t}
<1> DEFINE P == write_mean(d) \cup write_variance(d) \cup write_min(d) \cup write_max(d)
           Q == write_skewness(d) \cup write_kurtosis(d) \cup write_min_id(d)
                \cup write_max_id(d) \cup write_threshold(d) \cup write_quantile(d)
                \cup write_sobol(d) \cup write_sobol_tot(d)
<1>1. results = P \cup Q
  BY DEF melissa_write_stats
<1>2. \A r \in Q : r.name \notin {"mean", "variance", "min", "max"}
  BY NamesOfResults
<1>3. \A r \in P :
         /\ r.name = "mean" <=> r \in write_mean(d)
         /\ r.name = "variance" <=> r \in write_variance(d)
         /\ r.name = "min" <=> r \in write_min(d)
         /\ r.name = "max" <=> r \in write_max(d)
  BY NamesOfResults
<1>4. /\ write_mean(d) \subseteq P /\ write_variance(d) \subseteq P
      /\ write_min(d) \subseteq P /\ write_max(d) \subseteq P
  OBVIOUS
<1> HIDE DEF P, Q
<1>5. ASSUME NEW name \in {"mean", "variance", "min", "max"}, NEW W, W \subseteq P,
             \A r \in P : r.name = name <=> r \in W
      PROVE  Written(name, t) = {r \in W : r.step = t}
  BY <1>1, <1>2, <1>5 DEF Written
<1>6. Written("mean", t) = {r \in write_mean(d) : r.step = t}
  BY <1>3, <1>4, <1>5
<1>7. Written("variance", t) = {r \in write_variance(d) : r.step = t}
  BY <1>3, <1>4, <1>5
<1>8. Written("min", t) = {r \in write_min(d) : r.step = t}
  BY <1>3, <1>4, <1>5
<1>9. Written("max", t) = {r \in write_max(d) : r.step = t}
  BY <1>3, <1>4, <1>5
<1> QED
  BY <1>6, <1>7, <1>8, <1>9

\* One file of a time step for each of these statistics, if it was asked for.
LEMMA ResultOf ==
    ASSUME NEW d, results = melissa_write_stats(d), NEW t \in Steps
    PROVE  /\ Op("mean") => {r.value : r \in Written("mean", t)} = {d.moments[t].m[1]}
           /\ Op("variance") =>
                 {r.value : r \in Written("variance", t)} = {d.moments[t].theta[2]}
           /\ Op("min_and_max") =>
                 /\ {r.value : r \in Written("min", t)} = {d.min_max[t].min}
                 /\ {r.value : r \in Written("max", t)} = {d.min_max[t].max}
<1> DEFINE File(name, value) == [name |-> name, of |-> 0, step |-> t, value |-> value]
<1>1. ASSUME NEW W, NEW name, NEW value, W = {File(name, value)}
      PROVE  {r.value : r \in W} = {value}
  <2>1. File(name, value).value = value
    OBVIOUS
  <2> QED
    BY <1>1, <2>1
<1>2. Op("mean") => {r \in write_mean(d) : r.step = t} = {File("mean", d.moments[t].m[1])}
  BY DEF write_mean, Results
<1>3. Op("variance") =>
         {r \in write_variance(d) : r.step = t} = {File("variance", d.moments[t].theta[2])}
  BY DEF write_variance, Results
<1>4. Op("min_and_max") => {r \in write_min(d) : r.step = t} = {File("min", d.min_max[t].min)}
  BY DEF write_min, Results
<1>5. Op("min_and_max") => {r \in write_max(d) : r.step = t} = {File("max", d.min_max[t].max)}
  BY DEF write_max, Results
<1> HIDE DEF File
<1>6. ASSUME Op("mean")
      PROVE  {r.value : r \in Written("mean", t)} = {d.moments[t].m[1]}
  <2>1. Written("mean", t) = {File("mean", d.moments[t].m[1])}
    BY <1>2, <1>6, OwnResults
  <2> QED
    BY <1>1, <2>1
<1>7. ASSUME Op("variance")
      PROVE  {r.value : r \in Written("variance", t)} = {d.moments[t].theta[2]}
  <2> DEFINE v == d.moments[t].theta[2]
  <2>1. Written("variance", t) = {File("variance", v)}
    BY <1>3, <1>7, OwnResults
  <2> HIDE DEF v
  <2>2. {r.value : r \in Written("variance", t)} = {v}
    BY <1>1, <2>1
  <2> QED
    BY <2>2 DEF v
<1>8. ASSUME Op("min_and_max")
      PROVE  {r.value : r \in Written("min", t)} = {d.min_max[t].min}
  <2>1. Written("min", t) = {File("min", d.min_max[t].min)}
    BY <1>4, <1>8, OwnResults
  <2> QED
    BY <1>1, <2>1
<1>9. ASSUME Op("min_and_max")
      PROVE  {r.value : r \in Written("max", t)} = {d.min_max[t].max}
  <2>1. Written("max", t) = {File("max", d.min_max[t].max)}
    BY <1>5, <1>9, OwnResults
  <2> QED
    BY <1>1, <2>1
<1> QED
  BY <1>6, <1>7, <1>8, <1>9

\* The results are those of the final data, and the server does nothing after them.
RInv ==
    results # {} => data.stats_init /\ Finished /\ results = melissa_write_stats(data)

\* what is written of some data does not depend on the step it is written in
LEMMA SameResults ==
    ASSUME options' = options, data' = data
    PROVE  /\ (Finished' <=> Finished)
           /\ melissa_write_stats(data)' = melissa_write_stats(data)
<1>1. /\ Simulations' = Simulations /\ Steps' = Steps
      /\ \A o : Op(o)' <=> Op(o)
  BY SameOptions
<1>2. Finished' <=> Finished
  BY <1>1 DEF Finished
<1>3. /\ write_mean(data)' = write_mean(data)
      /\ write_variance(data)' = write_variance(data)
      /\ write_min(data)' = write_min(data)
      /\ write_min_id(data)' = write_min_id(data)
      /\ write_max(data)' = write_max(data)
      /\ write_max_id(data)' = write_max_id(data)
  BY <1>1 DEF write_mean, write_variance, write_min, write_min_id, write_max, write_max_id,
              Results
<1>4. /\ write_skewness(data)' = write_skewness(data)
      /\ write_kurtosis(data)' = write_kurtosis(data)
  BY <1>1 DEF write_skewness, write_kurtosis, Results
<1>5. /\ write_threshold(data)' = write_threshold(data)
      /\ write_quantile(data)' = write_quantile(data)
  BY <1>1 DEF write_threshold, write_quantile, Results
<1>6. /\ write_sobol(data)' = write_sobol(data)
      /\ write_sobol_tot(data)' = write_sobol_tot(data)
  BY <1>1 DEF write_sobol, write_sobol_tot, Results
<1> QED
  BY <1>2, <1>3, <1>4, <1>5, <1>6 DEF melissa_write_stats

LEMMA RInvHolds == Spec => []RInv
<1>1. Init => RInv
  BY DEF Init, RInv
<1>2. ASSUME RInv, [Next]_vars PROVE RInv'
  <2>1. ASSUME results = {}, results' = results PROVE RInv'
    BY <2>1 DEF RInv
  <2>2. ASSUME NEW s \in Simulations, NEW t \in Steps, Receive(s, t)
        PROVE  RInv'
    BY <2>1, <2>2 DEF Receive, Running
  <2>3. CASE Checkpoint
    BY <2>1, <2>3 DEF Checkpoint, Running
  <2>4. CASE CrashAndRestart
    BY <2>1, <2>4 DEF CrashAndRestart, Running
  <2>5. CASE Finalize
    BY <2>5, SameResults DEF Finalize, RInv
  <2>6. CASE UNCHANGED vars
    BY <1>2, <2>6, SameResults DEF vars, RInv
  <2> QED
    BY <1>2, <2>2, <2>3, <2>4, <2>5, <2>6 DEF Next
<1> QED
  BY <1>1, <1>2, PTL DEF Spec
\* The statistics that were asked for are written, for every time step, and are
\* those of all the simulations: the mean, the extremes, and the variance if the
\* step got a message since the last restart (melissa_output.c 130-279, server.cxx
\* 866-948).
THEOREM ResultsAreOfAll == Spec => []ResultsOfAll
<1>1. ASSUME SInv, BInv, RInv, TypeOK, MomentsAreBatch, ThetasFollow, ExtremesAreReached
      PROVE  ResultsOfAll
  <2> SUFFICES ASSUME results # {}, NEW t \in Steps
               PROVE  /\ Received(data, t) = Simulations
                      /\ \A name \in {"mean", "variance", "min", "max"} :
                            Asked(name, t) =>
                                {r.value : r \in Written(name, t)} = Expected(name, t)
    BY DEF ResultsOfAll
  <2>1. data.stats_init /\ Finished /\ results = melissa_write_stats(data)
    BY <1>1 DEF RInv
  <2>2. Received(data, t) = Simulations
    <3>1. data.step_simu \in [Simulations -> SUBSET Steps]
      BY <1>1, <2>1, DataFollows
    <3> QED
      BY <2>1, <3>1 DEF Received, Finished
  <2>3. Simulations # {}
    <3>1. options.sampling_size \in Nat /\ options.sampling_size >= 1
      BY <1>1, OptionTypes DEF SInv, Options, Valid
    <3> QED
      BY <3>1 DEF Simulations
  <2>4. ASSUME Asked("mean", t)
        PROVE  {r.value : r \in Written("mean", t)} = Expected("mean", t)
    <3>1. Op("mean")
      BY <2>4 DEF Asked
    <3>2. 1 \in 1 .. max_order
      BY <3>1 DEF max_order
    <3>3. data.moments[t].m[1] = BatchMoment(Outcomes(t), 1)
      BY <1>1, <2>1, <2>2, <2>3, <3>2 DEF MomentsAreBatch
    <3>4. {r.value : r \in Written("mean", t)} = {data.moments[t].m[1]}
      BY <2>1, <3>1, ResultOf
    <3> QED
      BY <3>3, <3>4 DEF Expected
  <2>5. ASSUME Asked("variance", t)
        PROVE  {r.value : r \in Written("variance", t)} = Expected("variance", t)
    <3>1. Op("variance") /\ t \in fresh
      BY <2>5 DEF Asked
    <3>2. 2 \in 2 .. max_order
      BY <3>1 DEF max_order
    <3>3. data.moments[t].theta[2] = BatchCentral(Outcomes(t), 2)
      BY <1>1, <2>1, <3>1, <3>2 DEF ThetasFollow
    <3>4. {r.value : r \in Written("variance", t)} = {data.moments[t].theta[2]}
      BY <2>1, <3>1, ResultOf
    <3> QED
      BY <3>3, <3>4 DEF Expected
  <2>6. ASSUME Op("min_and_max")
        PROVE  /\ {r.value : r \in Written("min", t)} = Expected("min", t)
               /\ {r.value : r \in Written("max", t)} = Expected("max", t)
    <3> DEFINE all == {Outcome(t, i) : i \in Sample(t)}
               mm == data.min_max[t]
    <3>1. all # {}
      <4>1. 1 \in 1 .. Width
        BY WidthIs
      <4>2. PICK s : s \in Received(data, t)
        BY <2>2, <2>3
      <4>3. <<s, 1>> \in Sample(t)
        BY <4>1, <4>2 DEF Sample
      <4> QED
        BY <4>3
    <3>2. mm.min = Double(Min(all)) /\ mm.max = Double(Max(all))
      BY <1>1, <2>1, <2>6, <3>1 DEF ExtremesAreReached
    <3>3. Expected("min", t) = {Double(Min(all))} /\ Expected("max", t) = {Double(Max(all))}
      BY DEF Expected
    <3>4. /\ {r.value : r \in Written("min", t)} = {mm.min}
          /\ {r.value : r \in Written("max", t)} = {mm.max}
      BY <2>1, <2>6, ResultOf
    <3> HIDE DEF all, mm
    <3> QED
      BY <3>2, <3>3, <3>4
  <2>7. (Asked("min", t) => Op("min_and_max")) /\ (Asked("max", t) => Op("min_and_max"))
    BY DEF Asked
  <2> QED
    BY <2>2, <2>4, <2>5, <2>6, <2>7
<1> QED
  BY <1>1, BInvHolds, RInvHolds, StatisticsTypeOK, MomentsAreOfTheSamples,
     ThetasAreOfTheSamples, ExtremesAreOfTheSamples, PTL
=============================================================================
