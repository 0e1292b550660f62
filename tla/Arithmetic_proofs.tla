-------------------------- MODULE Arithmetic_proofs --------------------------
(***************************************************************************)
(* The arithmetic under the statistics, and the sums of the redistribution. *)
(*   - Sums of functions over finite sets: SumFunctionOnSet of the community *)
(*     modules is a fold over the elements in an order CHOOSE picks; here it *)
(*     is shown to be a sum, whatever the order.                            *)
(*   - Fractions: gcd is the greatest common divisor, so that two equal     *)
(*     fractions are the same Rational, and Plus, Minus, Times, Over, pow   *)
(*     and Less are what they are of fractions a/b.                         *)
(*   - The steps of a mean and of a variance, as identities of fractions.   *)
(***************************************************************************)
EXTENDS Integers, IterativeStatistics, Functions, FiniteSetTheorems, WellFoundedInduction, TLAPS

\* A set of natural numbers has a least element: the induction of these proofs.
LEMMA LeastNat ==
    ASSUME NEW T \in SUBSET Nat, T # {}
    PROVE  \E n \in T : \A m \in T : n <= m
<1> DEFINE Below == {ss \in Nat \X Nat : ss[1] < ss[2]}
<1>1. IsWellFoundedOn(Below, Nat)
  BY NatLessThanWellFounded DEF OpToRel
<1>2. PICK n \in T : \A m \in T : ~(<<m, n>> \in Below)
  BY <1>1, WFMin
<1>3. \A m \in T : ~(m < n)
  BY <1>2
<1> QED
  BY <1>3

\* the recursion behind the sum of a function
pick(s) == CHOOSE x \in s : TRUE
SumRec(f, S) ==
    CHOOSE g : g = [s \in SUBSET S |->
        IF s = {} THEN 0 ELSE f[pick(s)] + g[s \ {pick(s)}]]

LEMMA SumIter ==
   ASSUME NEW f, NEW S
   PROVE SumFunctionOnSet(f,S) = SumRec(f,S)[S]
  BY DEF SumFunctionOnSet, FoldFunctionOnSet, MapThenFoldSet, SumRec, pick

LEMMA PickIsIn == ASSUME NEW s, s # {} PROVE pick(s) \in s
  BY DEF pick

LEMMA SmallerSet == 
  ASSUME NEW s, IsFiniteSet(s), NEW x \in s
  PROVE  /\ IsFiniteSet(s \ {x}) /\ Cardinality(s) \in Nat /\ Cardinality(s \ {x}) \in Nat
         /\ Cardinality(s \ {x}) = Cardinality(s) - 1
  BY FS_RemoveElement, FS_CardinalityType

\* The recursion has a solution.
LEMMA SumRecursive ==
  ASSUME NEW f, NEW T, IsFiniteSet(T)
  PROVE  \A s \in SUBSET T :
             SumRec(f, T)[s] =
                 IF s = {} THEN 0 ELSE f[pick(s)] + SumRec(f, T)[s \ {pick(s)}]
<1> DEFINE Good(g, s) == g[s] = IF s = {} THEN 0 ELSE f[pick(s)] + g[s \ {pick(s)}]
           Upto(n) == \E g : \A s \in SUBSET T : Cardinality(s) <= n => Good(g, s)
<1>0. \A s \in SUBSET T :
         IsFiniteSet(s) /\ Cardinality(s) \in Nat /\ Cardinality(s) <= Cardinality(T)
  BY FS_Subset, FS_CardinalityType
<1>1. Upto(0)
  <2> DEFINE g == [s \in SUBSET T |-> 0]
  <2>1. \A s \in SUBSET T : Cardinality(s) <= 0 => s = {}
    BY <1>0, FS_EmptySet
  <2>2. \A s \in SUBSET T : Cardinality(s) <= 0 => Good(g, s)
    BY <2>1
  <2> QED
    BY <2>2
<1>2. ASSUME NEW n \in Nat, Upto(n) PROVE Upto(n + 1)
  <2>1. PICK g : \A s \in SUBSET T : Cardinality(s) <= n => Good(g, s)
    BY <1>2
  <2> DEFINE h == [s \in SUBSET T |-> IF Cardinality(s) <= n THEN g[s] ELSE f[pick(s)] + g[s \ {pick(s)}]]
  <2>2. ASSUME NEW s \in SUBSET T, Cardinality(s) <= n + 1 PROVE Good(h, s)
    <3>1. CASE s = {}
      BY <1>0, <2>1, <3>1, FS_EmptySet
    <3>2. CASE s # {}
      <4> DEFINE r == s \ {pick(s)}
      <4>1. r \in SUBSET T /\ Cardinality(r) <= n
        BY <1>0, <2>2, <3>2, PickIsIn, SmallerSet
      <4>2. h[r] = g[r]
        BY <4>1
      <4>3. h[s] = f[pick(s)] + g[r]
        BY <2>1, <3>2
      <4> QED
        BY <3>2, <4>2, <4>3
    <3> QED
      BY <3>1, <3>2
  <2> QED
    BY <2>2
<1> HIDE DEF Upto
<1>3. \A n \in Nat : Upto(n)
  <2> DEFINE Bad == {n \in Nat : ~Upto(n)}
  <2> SUFFICES ASSUME Bad # {} PROVE FALSE
    OBVIOUS
  <2>1. PICK n \in Bad : \A m \in Bad : n <= m
    BY LeastNat
  <2>2. n \in Nat \ {0} /\ n - 1 \in Nat /\ ~Upto(n)
    BY <1>1, <2>1
  <2>3. Upto(n - 1)
    BY <2>1, <2>2
  <2>4. Upto((n - 1) + 1)
    BY <1>2, <2>2, <2>3
  <2> QED
    BY <2>2, <2>4
<1>4. Upto(Cardinality(T))
  BY <1>0, <1>3
<1>5. PICK g : \A s \in SUBSET T : Good(g, s)
  BY <1>0, <1>4 DEF Upto
<1> DEFINE h == [s \in SUBSET T |-> g[s]]
           Solves(k) == k = [s \in SUBSET T |-> IF s = {} THEN 0 ELSE f[pick(s)] + k[s \ {pick(s)}]]
<1>6. \A s \in SUBSET T : s \ {pick(s)} \in SUBSET T
  OBVIOUS
<1>7. Solves(h)
  BY <1>5, <1>6
<1> HIDE DEF h
<1>8. SumRec(f, T) = CHOOSE k : Solves(k)
  BY DEF SumRec
<1>9. Solves(CHOOSE k : Solves(k))
  <2> HIDE DEF Solves
  <2> QED
    BY <1>7
<1> QED
  BY <1>8, <1>9

\* what the terms of a sum may be
Numbers == {Nat, Int}

\* The terms can be taken in any order.
LEMMA SumAnyOrder ==
  ASSUME NEW f, NEW T, IsFiniteSet(T), NEW R \in Numbers, \A x \in T : f[x] \in R
  PROVE  \A s \in SUBSET T : /\ SumRec(f, T)[s] \in R
                             /\ \A y \in s : SumRec(f, T)[s] = f[y] + SumRec(f, T)[s \ {y}]
<1> DEFINE g == SumRec(f, T)
           Good(s) == g[s] \in R /\ \A y \in s : g[s] = f[y] + g[s \ {y}]
           Bad == {n \in Nat : \E s \in SUBSET T : Cardinality(s) = n /\ ~Good(s)}
<1>0. \A s \in SUBSET T : IsFiniteSet(s) /\ Cardinality(s) \in Nat
  BY FS_Subset, FS_CardinalityType
<1>1. \A s \in SUBSET T : g[s] = IF s = {} THEN 0 ELSE f[pick(s)] + g[s \ {pick(s)}]
  BY SumRecursive
<1> HIDE DEF g
<1> SUFFICES ASSUME Bad # {} PROVE FALSE
  BY <1>0 DEF g
<1>2. PICK n \in Bad : \A m \in Bad : n <= m
  BY LeastNat
<1>3. PICK s \in SUBSET T : Cardinality(s) = n /\ ~Good(s)
  BY <1>2
<1>4. s # {}
  <2>1. 0 \in R
    BY DEF Numbers
  <2> QED
    BY <1>1, <1>3, <2>1
<1> DEFINE x == pick(s)
<1>5. x \in s
  BY <1>4, PickIsIn
<1> HIDE DEF x
<1>6. g[s] = f[x] + g[s \ {x}]
  BY <1>1, <1>4 DEF x
<1>7. \A z \in s : Good(s \ {z})
  <2> TAKE z \in s
  <2>1. s \ {z} \in SUBSET T /\ Cardinality(s \ {z}) \in Nat /\ Cardinality(s \ {z}) < n
    BY <1>0, <1>3, SmallerSet
  <2>2. n \in Nat
    BY <1>2
  <2>3. Cardinality(s \ {z}) \notin Bad
    <3> HIDE DEF Bad
    <3> QED
      BY <1>2, <2>1, <2>2
  <2> QED
    BY <2>1, <2>3
<1>8. g[s] \in R /\ f[x] \in R
  BY <1>5, <1>6, <1>7 DEF Numbers
<1>9. ASSUME NEW y \in s PROVE g[s] = f[y] + g[s \ {y}]
  <2>1. CASE y = x
    BY <1>6, <2>1
  <2>2. CASE y # x
    <3> DEFINE r == (s \ {x}) \ {y}
    <3>1. g[s \ {x}] = f[y] + g[r]
      <4>1. Good(s \ {x}) /\ y \in s \ {x}
        BY <1>5, <1>7, <2>2
      <4> HIDE DEF r
      <4> QED
        BY <4>1 DEF r
    <3>2. r = (s \ {y}) \ {x}
      OBVIOUS
    <3>3. g[s \ {y}] = f[x] + g[r]
      <4>1. Good(s \ {y}) /\ x \in s \ {y}
        BY <1>5, <1>7, <2>2
      <4> HIDE DEF r
      <4> QED
        BY <4>1, <3>2
    <3>4. g[r] \in R /\ f[y] \in R
      <4>1. Good(s \ {x}) /\ y \in s \ {x}
        BY <1>5, <1>7, <2>2
      <4>2. r \in SUBSET T /\ Cardinality(r) \in Nat /\ Cardinality(r) < n
        <5>1. IsFiniteSet(s \ {x}) /\ Cardinality(s \ {x}) = n - 1 /\ n \in Nat
          BY <1>0, <1>2, <1>3, <1>5, SmallerSet
        <5>2. Cardinality(r) \in Nat /\ Cardinality(r) = Cardinality(s \ {x}) - 1
          BY <5>1, <2>2, SmallerSet
        <5> QED
          BY <5>1, <5>2
      <4> QED
        BY <1>2, <4>2
    <3> QED
      BY <1>6, <1>8, <3>1, <3>3, <3>4 DEF Numbers
  <2> QED
    BY <2>1, <2>2
<1> QED
  BY <1>3, <1>8, <1>9

\* A sum does not depend on the set it is taken from.
LEMMA SumOfSubset ==
  ASSUME NEW f, NEW T, IsFiniteSet(T), NEW S \in SUBSET T
  PROVE  SumFunctionOnSet(f, S) = SumRec(f, T)[S]
<1> DEFINE g == SumRec(f, T)
           h == SumRec(f, S)
           Bad == {n \in Nat : \E s \in SUBSET S : Cardinality(s) = n /\ g[s] # h[s]}
<1>0. IsFiniteSet(S) /\ \A s \in SUBSET S : IsFiniteSet(s) /\ Cardinality(s) \in Nat
  BY FS_Subset, FS_CardinalityType
<1>1. \A s \in SUBSET S : /\ g[s] = IF s = {} THEN 0 ELSE f[pick(s)] + g[s \ {pick(s)}]
                          /\ h[s] = IF s = {} THEN 0 ELSE f[pick(s)] + h[s \ {pick(s)}]
  <2>1. \A s \in SUBSET T : g[s] = IF s = {} THEN 0 ELSE f[pick(s)] + g[s \ {pick(s)}]
    BY SumRecursive
  <2>2. \A s \in SUBSET S : h[s] = IF s = {} THEN 0 ELSE f[pick(s)] + h[s \ {pick(s)}]
    BY <1>0, SumRecursive
  <2> HIDE DEF g, h
  <2> QED
    BY <2>1, <2>2
<1> HIDE DEF g, h
<1>2. Bad = {}
  <2> SUFFICES ASSUME Bad # {} PROVE FALSE
    OBVIOUS
  <2>1. PICK n \in Bad : \A m \in Bad : n <= m
    BY LeastNat
  <2>2. PICK s \in SUBSET S : Cardinality(s) = n /\ g[s] # h[s]
    BY <2>1
  <2>3. s # {} /\ pick(s) \in s
    BY <1>1, <2>2, PickIsIn
  <2> DEFINE r == s \ {pick(s)}
  <2>4. r \in SUBSET S /\ Cardinality(r) \in Nat /\ Cardinality(r) < n
    BY <1>0, <2>2, <2>3, SmallerSet
  <2>5. g[r] = h[r]
    BY <2>1, <2>4
  <2> QED
    BY <1>1, <2>2, <2>3, <2>5
<1>3. g[S] = h[S]
  BY <1>0, <1>2
<1> QED
  BY <1>3, SumIter DEF g, h

LEMMA SumEmpty == ASSUME NEW f PROVE SumFunctionOnSet(f, {}) = 0
  BY SumRecursive, SumIter, FS_EmptySet

\* One more term.
LEMMA SumOneMore ==
  ASSUME NEW f, NEW S, IsFiniteSet(S), NEW x, x \notin S, NEW R \in Numbers,
         \A y \in S \cup {x} : f[y] \in R
  PROVE  /\ SumFunctionOnSet(f, S) \in R
         /\ SumFunctionOnSet(f, S \cup {x}) = SumFunctionOnSet(f, S) + f[x]
<1> DEFINE T == S \cup {x}
           g == SumRec(f, T)
<1>1. IsFiniteSet(T) /\ S = T \ {x} /\ x \in T
  BY FS_AddElement
<1>2. /\ g[S] \in R /\ g[T] = f[x] + g[T \ {x}]
  <2>1. \A y \in T : f[y] \in R
    OBVIOUS
  <2> HIDE DEF T
  <2>2. IsFiniteSet(T)
    BY <1>1
  <2>3. \A s \in SUBSET T : /\ SumRec(f, T)[s] \in R
                            /\ \A y \in s : SumRec(f, T)[s] = f[y] + SumRec(f, T)[s \ {y}]
    BY <2>1, <2>2, SumAnyOrder
  <2> QED
    BY <1>1, <2>3
<1>3. SumFunctionOnSet(f, S) = g[S] /\ SumFunctionOnSet(f, T) = g[T]
  BY <1>1, SumOfSubset
<1> HIDE DEF g
<1>4. f[x] \in R /\ f[x] + g[S] = g[S] + f[x]
  BY <1>2 DEF Numbers
<1>5. SumFunctionOnSet(f, T) = SumFunctionOnSet(f, S) + f[x]
  BY <1>1, <1>2, <1>3, <1>4
<1> QED
  BY <1>2, <1>3, <1>5

LEMMA SumType ==
  ASSUME NEW f, NEW S, IsFiniteSet(S), NEW R \in Numbers, \A x \in S : f[x] \in R
  PROVE  SumFunctionOnSet(f, S) \in R
  BY SumAnyOrder, SumIter


\* What holds of the empty set and is kept by one more element holds of a finite
\* set; the sets it holds of are a set, so that the lemma can be cited.
LEMMA OneByOne ==
    ASSUME NEW T, IsFiniteSet(T), NEW G, {} \in G,
           \A s \in SUBSET T : \A x \in T \ s : s \in G => s \cup {x} \in G
    PROVE  T \in G
<1> DEFINE Bad == {n \in Nat : \E s \in SUBSET T : Cardinality(s) = n /\ s \notin G}
<1>0. \A s \in SUBSET T : IsFiniteSet(s) /\ Cardinality(s) \in Nat
  BY FS_Subset, FS_CardinalityType
<1>1. Bad = {}
  <2> SUFFICES ASSUME Bad # {} PROVE FALSE
    OBVIOUS
  <2>1. PICK n \in Bad : \A m \in Bad : n <= m
    BY LeastNat
  <2>2. PICK s \in SUBSET T : Cardinality(s) = n /\ s \notin G
    BY <2>1
  <2>3. PICK x \in s : TRUE
    BY <2>2
  <2> DEFINE r == s \ {x}
  <2>4. r \in SUBSET T /\ Cardinality(r) \in Nat /\ Cardinality(r) < n /\ x \in T \ r
    BY <1>0, <2>2, <2>3, SmallerSet
  <2>5. r \in G
    BY <2>1, <2>4
  <2>6. s = r \cup {x}
    BY <2>3
  <2> QED
    BY <2>2, <2>4, <2>5, <2>6
<1> QED
  BY <1>0, <1>1

\* A sum depends on its terms only.
LEMMA SumSame ==
  ASSUME NEW f, NEW g, NEW S, IsFiniteSet(S), \A x \in S : f[x] = g[x] /\ f[x] \in Int
  PROVE  SumFunctionOnSet(f, S) = SumFunctionOnSet(g, S)
<1> DEFINE G == {s \in SUBSET S : SumFunctionOnSet(f, s) = SumFunctionOnSet(g, s)}
<1>1. {} \in G
  BY SumEmpty
<1>2. ASSUME NEW s \in SUBSET S, NEW x \in S \ s, s \in G
      PROVE  s \cup {x} \in G
  <2>1. IsFiniteSet(s) /\ s \cup {x} \in SUBSET S /\ Int \in Numbers
    BY FS_Subset DEF Numbers
  <2>2. SumFunctionOnSet(f, s \cup {x}) = SumFunctionOnSet(f, s) + f[x]
    BY <2>1, SumOneMore
  <2>3. SumFunctionOnSet(g, s \cup {x}) = SumFunctionOnSet(g, s) + g[x]
    BY <2>1, SumOneMore
  <2> QED
    BY <1>2, <2>1, <2>2, <2>3
<1> HIDE DEF G
<1>3. S \in G
  BY <1>1, <1>2, OneByOne
<1> QED
  BY <1>3 DEF G

\* A sum of sums of multiples is the sum of the multiples of the sums.
Combines(h, a, f, b, g, S) ==
    \A x \in S : f[x] \in Int /\ g[x] \in Int /\ h[x] = a * f[x] + b * g[x]

LEMMA SumLinear ==
  ASSUME NEW f, NEW g, NEW h, NEW S, IsFiniteSet(S), NEW a \in Int, NEW b \in Int,
         Combines(h, a, f, b, g, S)
  PROVE  /\ SumFunctionOnSet(f, S) \in Int /\ SumFunctionOnSet(g, S) \in Int
         /\ SumFunctionOnSet(h, S) = a * SumFunctionOnSet(f, S) + b * SumFunctionOnSet(g, S)
<1> DEFINE G == {s \in SUBSET S :
                   /\ SumFunctionOnSet(f, s) \in Int /\ SumFunctionOnSet(g, s) \in Int
                   /\ SumFunctionOnSet(h, s)
                         = a * SumFunctionOnSet(f, s) + b * SumFunctionOnSet(g, s)}
<1>1. {} \in G
  BY SumEmpty
<1>2. ASSUME NEW s \in SUBSET S, NEW x \in S \ s, s \in G
      PROVE  s \cup {x} \in G
  <2>1. IsFiniteSet(s) /\ s \cup {x} \in SUBSET S /\ Int \in Numbers
    BY FS_Subset DEF Numbers
  <2>2. \A y \in s \cup {x} : f[y] \in Int /\ g[y] \in Int /\ h[y] \in Int
    BY <2>1 DEF Combines
  <2>3. SumFunctionOnSet(f, s \cup {x}) = SumFunctionOnSet(f, s) + f[x]
    BY <2>1, <2>2, SumOneMore
  <2>4. SumFunctionOnSet(g, s \cup {x}) = SumFunctionOnSet(g, s) + g[x]
    BY <2>1, <2>2, SumOneMore
  <2>5. SumFunctionOnSet(h, s \cup {x}) = SumFunctionOnSet(h, s) + h[x]
    BY <2>1, <2>2, SumOneMore
  <2> DEFINE sf == SumFunctionOnSet(f, s)
             sg == SumFunctionOnSet(g, s)
             fx == f[x]
             gx == g[x]
  <2>6. /\ sf \in Int /\ sg \in Int /\ fx \in Int /\ gx \in Int
        /\ SumFunctionOnSet(h, s) = a * sf + b * sg /\ h[x] = a * fx + b * gx
    BY <1>2 DEF Combines
  <2> HIDE DEF sf, sg, fx, gx
  <2>7. (a * sf + b * sg) + (a * fx + b * gx) = a * (sf + fx) + b * (sg + gx)
    BY <2>6
  <2> QED
    BY <2>1, <2>3, <2>4, <2>5, <2>6, <2>7 DEF sf, sg, fx, gx
<1> HIDE DEF G
<1>3. S \in G
  BY <1>1, <1>2, OneByOne
<1> QED
  BY <1>3 DEF G

LEMMA SumConstant ==
  ASSUME NEW f, NEW S, IsFiniteSet(S), NEW c \in Int, \A x \in S : f[x] = c
  PROVE  SumFunctionOnSet(f, S) = c * Cardinality(S)
<1> DEFINE G == {s \in SUBSET S : SumFunctionOnSet(f, s) = c * Cardinality(s)}
<1>1. {} \in G
  BY SumEmpty, FS_EmptySet
<1>2. ASSUME NEW s \in SUBSET S, NEW x \in S \ s, s \in G
      PROVE  s \cup {x} \in G
  <2>1. IsFiniteSet(s) /\ s \cup {x} \in SUBSET S /\ Int \in Numbers
    BY FS_Subset DEF Numbers
  <2>2. SumFunctionOnSet(f, s \cup {x}) = SumFunctionOnSet(f, s) + f[x]
    BY <2>1, SumOneMore
  <2>3. Cardinality(s) \in Nat /\ Cardinality(s \cup {x}) = Cardinality(s) + 1
    BY <2>1, FS_AddElement, FS_CardinalityType
  <2>4. \A n \in Nat : c * n + c = c * (n + 1)
    OBVIOUS
  <2> QED
    BY <1>2, <2>1, <2>2, <2>3, <2>4
<1> HIDE DEF G
<1>3. S \in G
  BY <1>1, <1>2, OneByOne
<1> QED
  BY <1>3 DEF G

-----------------------------------------------------------------------------
(* Quotients and the greatest common divisor.                                *)

LEMMA ExactQuotient ==
    ASSUME NEW g \in Int, g > 0, NEW q \in Int
    PROVE  (q * g) \div g = q
  OBVIOUS

\* A factor of a product can be taken out of an equation.
LEMMA Cancel ==
    ASSUME NEW a \in Int, NEW b \in Int, NEW c \in Int \ {0}, a * c = b * c
    PROVE  a = b
<1>1. c * (a - b) = 0
  <2>1. c * (a - b) = c * a - c * b
    <3>1. \A x, y, z \in Int : x * (y - z) = x * y - x * z
      OBVIOUS
    <3> QED
      BY <3>1
  <2>2. c * a = a * c /\ c * b = b * c
    OBVIOUS
  <2> QED
    BY <2>1, <2>2
<1>2. CASE a - b >= 1
  <2>1. CASE c >= 1
    BY <1>1, <1>2, <2>1
  <2>2. CASE c <= 0 - 1
    BY <1>1, <1>2, <2>2
  <2> QED
    BY <2>1, <2>2
<1>3. CASE a - b <= 0 - 1
  <2>1. CASE c >= 1
    BY <1>1, <1>3, <2>1
  <2>2. CASE c <= 0 - 1
    BY <1>1, <1>3, <2>2
  <2> QED
    BY <2>1, <2>2
<1> QED
  BY <1>2, <1>3

\* g divides a and b, and is a sum of multiples of them
IsGcd(a, b, g) ==
    g \in Nat /\ \E x, y, u, v \in Int : a = x * g /\ b = y * g /\ u * a + v * b = g

\* One step of Euclid's algorithm keeps the common divisors.
LEMMA GcdStep ==
    ASSUME NEW a \in Nat, NEW b \in Nat \ {0}, NEW g
    PROVE  IsGcd(a, b, g) <=> IsGcd(b, a % b, g)
<1> DEFINE q == a \div b
           r == a % b
<1>1. q \in Int /\ r \in Int /\ a = b * q + r
  OBVIOUS
<1> HIDE DEF q, r
<1>2. ASSUME IsGcd(a, b, g) PROVE IsGcd(b, r, g)
  <2>1. PICK x, y, u, v \in Int : a = x * g /\ b = y * g /\ u * a + v * b = g
    BY <1>2 DEF IsGcd
  <2>2. g \in Nat
    BY <1>2 DEF IsGcd
  <2>3. r = (x - y * q) * g
    BY <1>1, <2>1, <2>2
  <2>4. (u * q + v) * b + u * r = g
    BY <1>1, <2>1, <2>2
  <2>5. x - y * q \in Int /\ u * q + v \in Int
    BY <1>1
  <2> QED
    BY <2>1, <2>2, <2>3, <2>4, <2>5 DEF IsGcd
<1>3. ASSUME IsGcd(b, r, g) PROVE IsGcd(a, b, g)
  <2>1. PICK x, y, u, v \in Int : b = x * g /\ r = y * g /\ u * b + v * r = g
    BY <1>3 DEF IsGcd
  <2>2. g \in Nat
    BY <1>3 DEF IsGcd
  <2>3. a = (x * q + y) * g
    BY <1>1, <2>1, <2>2
  <2>4. v * a + (u - v * q) * b = g
    BY <1>1, <2>1, <2>2
  <2>5. x * q + y \in Int /\ u - v * q \in Int
    BY <1>1
  <2> QED
    BY <2>1, <2>2, <2>3, <2>4, <2>5 DEF IsGcd
<1> QED
  BY <1>2, <1>3 DEF r

LEMMA GcdOfZero ==
    ASSUME NEW a \in Nat, NEW g
    PROVE  IsGcd(a, 0, g) <=> g = a
<1>1. ASSUME IsGcd(a, 0, g) PROVE g = a
  <2>1. PICK x, u \in Int : a = x * g /\ u * a = g
    BY <1>1 DEF IsGcd
  <2>2. g \in Nat
    BY <1>1 DEF IsGcd
  <2>3. CASE g = 0
    BY <2>1, <2>2, <2>3
  <2>4. CASE g # 0
    <3>1. (x * u) * g = 1 * g
      BY <2>1, <2>2
    <3>2. x * u = 1
      BY <2>2, <2>4, <3>1, Cancel
    <3>3. x >= 1
      BY <2>1, <2>2, <2>4, <3>2
    <3>4. u >= 1
      BY <3>2, <3>3
    <3>5. x = 1
      BY <3>2, <3>3, <3>4
    <3> QED
      BY <2>1, <2>2, <3>5
  <2> QED
    BY <2>3, <2>4
<1>2. IsGcd(a, 0, a)
  <2>1. a = 1 * a /\ 0 = 0 * a /\ 1 * a + 0 * 0 = a
    OBVIOUS
  <2> QED
    BY <2>1 DEF IsGcd
<1> QED
  BY <1>1, <1>2

\* The recursion of gcd has a solution.
LEMMA GcdRecursive ==
    \A p \in Nat \X Nat :
        gcd[p] = IF p[2] = 0 THEN p[1] ELSE gcd[<<p[2], p[1] % p[2]>>]
<1> DEFINE Pairs == Nat \X Nat
           Solves(f) == f = [p \in Pairs |-> IF p[2] = 0 THEN p[1]
                                             ELSE f[<<p[2], p[1] % p[2]>>]]
           G == [p \in Pairs |-> CHOOSE g : IsGcd(p[1], p[2], g)]
<1>1. ASSUME NEW p \in Pairs
      PROVE  G[p] = IF p[2] = 0 THEN p[1] ELSE G[<<p[2], p[1] % p[2]>>]
  <2>1. CASE p[2] = 0
    <3>1. \A g : IsGcd(p[1], p[2], g) <=> g = p[1]
      BY <2>1, GcdOfZero
    <3> QED
      BY <2>1, <3>1
  <2>2. CASE p[2] # 0
    <3>1. <<p[2], p[1] % p[2]>> \in Pairs
      BY <2>2
    <3>2. \A g : IsGcd(p[1], p[2], g) <=> IsGcd(p[2], p[1] % p[2], g)
      BY <2>2, GcdStep
    <3>3. (CHOOSE g : IsGcd(p[1], p[2], g)) = CHOOSE g : IsGcd(p[2], p[1] % p[2], g)
      BY <3>2
    <3> QED
      BY <2>2, <3>1, <3>3
  <2> QED
    BY <2>1, <2>2
<1>2. Solves(G)
  BY <1>1
<1> HIDE DEF G
<1>3. gcd = CHOOSE f : Solves(f)
  BY DEF gcd
<1>4. Solves(CHOOSE f : Solves(f))
  <2> HIDE DEF Solves
  <2> QED
    BY <1>2
<1> QED
  BY <1>3, <1>4

\* Euclid's algorithm computes the greatest common divisor.
LEMMA GcdIsGcd ==
    \A a, b \in Nat : IsGcd(a, b, gcd[<<a, b>>])
<1> DEFINE Bad == {b \in Nat : \E a \in Nat : ~IsGcd(a, b, gcd[<<a, b>>])}
<1> SUFFICES ASSUME Bad # {} PROVE FALSE
  OBVIOUS
<1>1. PICK b \in Bad : \A c \in Bad : b <= c
  BY LeastNat
<1>2. PICK a \in Nat : ~IsGcd(a, b, gcd[<<a, b>>])
  BY <1>1
<1>3. CASE b = 0
  BY <1>2, <1>3, GcdRecursive, GcdOfZero
<1>4. CASE b # 0
  <2>1. b \in Nat \ {0} /\ a % b \in Nat /\ a % b < b
    BY <1>1, <1>4
  <2>2. gcd[<<a, b>>] = gcd[<<b, a % b>>]
    BY <2>1, GcdRecursive
  <2>3. IsGcd(b, a % b, gcd[<<b, a % b>>])
    BY <1>1, <2>1
  <2> QED
    BY <1>2, <2>1, <2>2, <2>3, GcdStep
<1> QED
  BY <1>3, <1>4

-----------------------------------------------------------------------------
(* Rationals in lowest terms.                                                *)

Positives == Nat \ {0}

\* r is a / b, in lowest terms: its denominator divides that of any other form
IsRatio(r, a, b) ==
    /\ r = [num |-> r.num, den |-> r.den]
    /\ r.num \in Int /\ r.den \in Positives
    /\ r.num * b = a * r.den
    /\ \E u, v \in Int : u * r.num + v * r.den = 1

LEMMA RationalIsRatio ==
    ASSUME NEW a \in Int, NEW b \in Positives
    PROVE  IsRatio(Rational(a, b), a, b)
<1> DEFINE g == gcd[<<Abs(a), b>>]
<1>1. Abs(a) \in Nat /\ Abs(b) = b /\ Sign(b) = 1 /\ b # 0 /\ b \in Nat
  BY DEF Abs, Sign, Positives
<1>2. IsGcd(Abs(a), b, g)
  BY <1>1, GcdIsGcd
<1>3. PICK x, y, u, v \in Int : Abs(a) = x * g /\ b = y * g /\ u * Abs(a) + v * b = g
  BY <1>2 DEF IsGcd
<1> HIDE DEF g
<1>4. g \in Nat /\ g # 0
  BY <1>1, <1>2, <1>3 DEF IsGcd
<1>5. PICK s \in {1, 0 - 1} : a = s * Abs(a) /\ Abs(a) = s * a
  BY DEF Abs
<1>6. a = (s * x) * g /\ s * x \in Int
  BY <1>3, <1>4, <1>5
<1>7. Rational(a, b) = [num |-> a \div g, den |-> b \div g]
  <2>1. g * Sign(b) = g /\ ~(g < 0) /\ Abs(g) = g
    BY <1>1, <1>4 DEF Abs
  <2>2. gcd[<<Abs(a), Abs(b)>>] = g
    BY <1>1 DEF g
  <2> QED
    BY <1>1, <2>1, <2>2 DEF Rational
<1>8. a \div g = s * x /\ b \div g = y
  BY <1>3, <1>4, <1>6, ExactQuotient
<1>9. y \in Positives
  BY <1>1, <1>3, <1>4 DEF Positives
<1>10. (s * x) * b = a * y
  BY <1>3, <1>4, <1>6
<1>11. (u * s) * (s * x) + v * y = 1
  <2>1. ((u * s) * (s * x) + v * y) * g = 1 * g
    <3>1. (u * s) * ((s * x) * g) + v * (y * g) = g
      BY <1>3, <1>5, <1>6
    <3> QED
      BY <1>3, <1>4, <1>5, <3>1
  <2> QED
    BY <1>4, <1>5, <2>1, Cancel
<1>12. u * s \in Int
  BY <1>5
<1> DEFINE r == Rational(a, b)
<1>13. r = [num |-> s * x, den |-> y]
  BY <1>7, <1>8
<1> HIDE DEF r
<1>14. r.num = s * x /\ r.den = y /\ r = [num |-> r.num, den |-> r.den]
  BY <1>13
<1>15. IsRatio(r, a, b)
  BY <1>6, <1>9, <1>10, <1>11, <1>12, <1>14 DEF IsRatio
<1> QED
  BY <1>15 DEF r

\* The denominator in lowest terms divides every other.
LEMMA LowestTerms ==
    ASSUME NEW r, NEW a \in Int, NEW b \in Positives, IsRatio(r, a, b),
           NEW c \in Int, NEW d \in Positives, a * d = c * b
    PROVE  /\ r.num * d = c * r.den
           /\ \E m \in Positives : d = m * r.den
<1>1. r.num \in Int /\ r.den \in Nat /\ r.den # 0 /\ r.num * b = a * r.den
      /\ b \in Nat /\ b # 0 /\ d \in Nat /\ d # 0
  BY DEF IsRatio, Positives
<1>2. r.num * d = c * r.den
  <2>1. (r.num * d) * b = (c * r.den) * b
    <3>1. (r.num * d) * b = (r.num * b) * d
      BY <1>1
    <3>2. (r.num * b) * d = (a * d) * r.den
      BY <1>1
    <3>3. (a * d) * r.den = (c * r.den) * b
      BY <1>1
    <3> QED
      BY <3>1, <3>2, <3>3
  <2>2. r.num * d \in Int /\ c * r.den \in Int /\ b \in Int \ {0}
    BY <1>1
  <2> QED
    BY <2>1, <2>2, Cancel
<1>3. PICK u, v \in Int : u * r.num + v * r.den = 1
  BY DEF IsRatio
<1>4. d = (u * c + v * d) * r.den
  <2>1. d = (u * r.num + v * r.den) * d
    BY <1>1, <1>3
  <2>2. (u * r.num + v * r.den) * d = u * (r.num * d) + v * d * r.den
    BY <1>1
  <2>3. u * (c * r.den) + v * d * r.den = (u * c + v * d) * r.den
    BY <1>1
  <2> QED
    BY <1>2, <2>1, <2>2, <2>3
<1>5. u * c + v * d \in Positives
  BY <1>1, <1>4 DEF Positives
<1> QED
  BY <1>2, <1>4, <1>5

LEMMA SameRatio ==
    ASSUME NEW r, NEW a \in Int, NEW b \in Positives, IsRatio(r, a, b),
           NEW q, NEW c \in Int, NEW d \in Positives, IsRatio(q, c, d),
           a * d = c * b
    PROVE  r = q
<1>1. /\ r.num \in Int /\ r.den \in Positives /\ q.num \in Int /\ q.den \in Positives
      /\ r.num * b = a * r.den /\ q.num * d = c * q.den
  BY DEF IsRatio
<1>2. r.num * d = c * r.den
  BY LowestTerms
<1>3. q.num * b = a * q.den
  BY LowestTerms
<1>4. \E m \in Positives : q.den = m * r.den
  <2>1. a * q.den = q.num * b
    BY <1>1, <1>3
  <2> QED
    BY <1>1, <2>1, LowestTerms
<1>5. \E m \in Positives : r.den = m * q.den
  <2>1. c * r.den = r.num * d
    BY <1>1, <1>2
  <2> QED
    BY <1>1, <2>1, LowestTerms
<1>6. r.den = q.den
  <2>1. PICK m \in Positives : q.den = m * r.den
    BY <1>4
  <2>2. PICK k \in Positives : r.den = k * q.den
    BY <1>5
  <2>3. q.den >= r.den
    BY <1>1, <2>1 DEF Positives
  <2>4. r.den >= q.den
    BY <1>1, <2>2 DEF Positives
  <2> QED
    BY <1>1, <2>3, <2>4 DEF Positives
<1>7. r.num = q.num
  <2>1. r.num * b = q.num * b
    BY <1>1, <1>3, <1>6
  <2> QED
    BY <1>1, <2>1, Cancel DEF Positives
<1> QED
  BY <1>6, <1>7 DEF IsRatio

\* The same value has the same lowest terms.
LEMMA SameRational ==
    ASSUME NEW a \in Int, NEW b \in Positives, NEW c \in Int, NEW d \in Positives,
           a * d = c * b
    PROVE  Rational(a, b) = Rational(c, d)
  BY RationalIsRatio, SameRatio

LEMMA RationalType ==
    ASSUME NEW a \in Int, NEW b \in Positives
    PROVE  /\ Rational(a, b).num \in Int /\ Rational(a, b).den \in Positives
           /\ Rational(a, b).num * b = a * Rational(a, b).den
  BY RationalIsRatio DEF IsRatio

LEMMA DoubleIsRational ==
    ASSUME NEW n \in Int
    PROVE  Double(n) = Rational(n, 1)
<1>1. 1 \in Positives
  BY DEF Positives
<1>2. IsRatio(Double(n), n, 1)
  <2>1. Double(n) = [num |-> n, den |-> 1]
    BY DEF Double
  <2>2. 0 * n + 1 * 1 = 1 /\ n * 1 = n /\ 0 \in Int /\ 1 \in Int
    OBVIOUS
  <2> DEFINE r == Double(n)
  <2>3. r.num = n /\ r.den = 1 /\ r = [num |-> r.num, den |-> r.den]
    BY <2>1
  <2> HIDE DEF r
  <2>4. \E u, v \in Int : u * r.num + v * r.den = 1
    BY <2>2, <2>3
  <2>5. IsRatio(r, n, 1)
    BY <1>1, <2>2, <2>3, <2>4 DEF IsRatio
  <2> QED
    BY <2>5 DEF r
<1> QED
  BY <1>1, <1>2, RationalIsRatio, SameRatio

\* Both terms of a fraction times the same factor.
LEMMA Expanded ==
    ASSUME NEW a \in Int, NEW b \in Positives, NEW c \in Positives
    PROVE  Rational(a * c, b * c) = Rational(a, b)
<1>1. a * c \in Int /\ b * c \in Positives /\ (a * c) * b = a * (b * c)
  BY DEF Positives
<1> QED
  BY <1>1, SameRational

\* The operations, on any form of their operands.
LEMMA PlusIs ==
    ASSUME NEW a \in Int, NEW b \in Positives, NEW c \in Int, NEW d \in Positives
    PROVE  Plus(Rational(a, b), Rational(c, d)) = Rational(a * d + c * b, b * d)
<1> DEFINE p == Rational(a, b)
           q == Rational(c, d)
<1>1. /\ p.num \in Int /\ p.den \in Positives /\ p.num * b = a * p.den
      /\ q.num \in Int /\ q.den \in Positives /\ q.num * d = c * q.den
  BY RationalType
<1> HIDE DEF p, q
<1>2. /\ p.num * q.den + q.num * p.den \in Int /\ p.den * q.den \in Positives
      /\ a * d + c * b \in Int /\ b * d \in Positives
  BY <1>1 DEF Positives
<1>3. (p.num * q.den + q.num * p.den) * (b * d) = (a * d + c * b) * (p.den * q.den)
  <2>1. (p.num * q.den + q.num * p.den) * (b * d)
           = (p.num * b) * (q.den * d) + (q.num * d) * (p.den * b)
    <3>1. \A x, y, z, w, u, v \in Int :
             (x * w + z * y) * (u * v) = (x * u) * (w * v) + (z * v) * (y * u)
      OBVIOUS
    <3>2. /\ p.num \in Int /\ p.den \in Int /\ q.num \in Int /\ q.den \in Int
          /\ b \in Int /\ d \in Int
      BY <1>1 DEF Positives
    <3> DEFINE x == p.num
               y == p.den
               z == q.num
               w == q.den
    <3>3. x \in Int /\ y \in Int /\ z \in Int /\ w \in Int /\ b \in Int /\ d \in Int
      BY <3>2
    <3> HIDE DEF x, y, z, w
    <3>4. (x * w + z * y) * (b * d) = (x * b) * (w * d) + (z * d) * (y * b)
      BY <3>1, <3>3
    <3> QED
      BY <3>4 DEF x, y, z, w
  <2>2. (a * p.den) * (q.den * d) + (c * q.den) * (p.den * b)
           = (a * d + c * b) * (p.den * q.den)
    BY <1>1 DEF Positives
  <2> QED
    BY <1>1, <2>1, <2>2
<1> QED
  BY <1>2, <1>3, SameRational DEF Plus, p, q

LEMMA MinusIs ==
    ASSUME NEW a \in Int, NEW b \in Positives, NEW c \in Int, NEW d \in Positives
    PROVE  Minus(Rational(a, b), Rational(c, d)) = Rational(a * d - c * b, b * d)
<1> DEFINE p == Rational(a, b)
           q == Rational(c, d)
<1>1. /\ p.num \in Int /\ p.den \in Positives /\ p.num * b = a * p.den
      /\ q.num \in Int /\ q.den \in Positives /\ q.num * d = c * q.den
  BY RationalType
<1> HIDE DEF p, q
<1>2. /\ p.num * q.den - q.num * p.den \in Int /\ p.den * q.den \in Positives
      /\ a * d - c * b \in Int /\ b * d \in Positives
  BY <1>1 DEF Positives
<1>3. (p.num * q.den - q.num * p.den) * (b * d) = (a * d - c * b) * (p.den * q.den)
  <2>1. (p.num * q.den - q.num * p.den) * (b * d)
           = (p.num * b) * (q.den * d) - (q.num * d) * (p.den * b)
    <3>1. \A x, y, z, w, u, v \in Int :
             (x * w - z * y) * (u * v) = (x * u) * (w * v) - (z * v) * (y * u)
      OBVIOUS
    <3>2. /\ p.num \in Int /\ p.den \in Int /\ q.num \in Int /\ q.den \in Int
          /\ b \in Int /\ d \in Int
      BY <1>1 DEF Positives
    <3> DEFINE x == p.num
               y == p.den
               z == q.num
               w == q.den
    <3>3. x \in Int /\ y \in Int /\ z \in Int /\ w \in Int /\ b \in Int /\ d \in Int
      BY <3>2
    <3> HIDE DEF x, y, z, w
    <3>4. (x * w - z * y) * (b * d) = (x * b) * (w * d) - (z * d) * (y * b)
      BY <3>1, <3>3
    <3> QED
      BY <3>4 DEF x, y, z, w
  <2>2. (a * p.den) * (q.den * d) - (c * q.den) * (p.den * b)
           = (a * d - c * b) * (p.den * q.den)
    BY <1>1 DEF Positives
  <2> QED
    BY <1>1, <2>1, <2>2
<1> QED
  BY <1>2, <1>3, SameRational DEF Minus, p, q

LEMMA TimesIs ==
    ASSUME NEW a \in Int, NEW b \in Positives, NEW c \in Int, NEW d \in Positives
    PROVE  Times(Rational(a, b), Rational(c, d)) = Rational(a * c, b * d)
<1> DEFINE p == Rational(a, b)
           q == Rational(c, d)
<1>1. /\ p.num \in Int /\ p.den \in Positives /\ p.num * b = a * p.den
      /\ q.num \in Int /\ q.den \in Positives /\ q.num * d = c * q.den
  BY RationalType
<1> HIDE DEF p, q
<1>2. /\ p.num * q.num \in Int /\ p.den * q.den \in Positives
      /\ a * c \in Int /\ b * d \in Positives
  BY <1>1 DEF Positives
<1>3. (p.num * q.num) * (b * d) = (a * c) * (p.den * q.den)
  <2>1. (p.num * q.num) * (b * d) = (p.num * b) * (q.num * d)
    BY <1>1 DEF Positives
  <2>2. (a * p.den) * (c * q.den) = (a * c) * (p.den * q.den)
    BY <1>1 DEF Positives
  <2> QED
    BY <1>1, <2>1, <2>2
<1> QED
  BY <1>2, <1>3, SameRational DEF Times, p, q

LEMMA OverIs ==
    ASSUME NEW a \in Int, NEW b \in Positives, NEW n \in Positives
    PROVE  Over(Rational(a, b), Double(n)) = Rational(a, b * n)
<1> DEFINE p == Rational(a, b)
<1>1. p.num \in Int /\ p.den \in Positives /\ p.num * b = a * p.den
  BY RationalType
<1> HIDE DEF p
<1>2. /\ p.num * 1 \in Int /\ p.den * n \in Positives /\ b * n \in Positives
      /\ p.num * 1 = p.num
  BY <1>1 DEF Positives
<1>3. (p.num * 1) * (b * n) = a * (p.den * n)
  <2>1. p.num * (b * n) = (p.num * b) * n
    BY <1>1 DEF Positives
  <2>2. (a * p.den) * n = a * (p.den * n)
    BY <1>1 DEF Positives
  <2> QED
    BY <1>1, <1>2, <2>1, <2>2
<1>4. Over(p, Double(n)) = Rational(p.num * 1, p.den * n)
  BY DEF Over, Double
<1> QED
  BY <1>2, <1>3, <1>4, SameRational DEF p

LEMMA ScaledIs ==
    ASSUME NEW n \in Int, NEW a \in Int, NEW b \in Positives
    PROVE  Scaled(n, Rational(a, b)) = Rational(n * a, b)
<1> DEFINE p == Rational(a, b)
<1>1. p.num \in Int /\ p.den \in Positives /\ p.num * b = a * p.den
  BY RationalType
<1> HIDE DEF p
<1>2. n * p.num \in Int /\ n * a \in Int
  BY <1>1
<1>3. (n * p.num) * b = (n * a) * p.den
  <2>1. (n * p.num) * b = n * (p.num * b)
    BY <1>1 DEF Positives
  <2>2. n * (a * p.den) = (n * a) * p.den
    BY <1>1 DEF Positives
  <2> QED
    BY <1>1, <2>1, <2>2
<1> QED
  BY <1>1, <1>2, <1>3, SameRational DEF Scaled, p

LEMMA PowerType ==
    /\ \A n \in Int, k \in 1 .. 4 : Power(n, k) \in Int
    /\ \A n \in Positives, k \in 1 .. 4 : Power(n, k) \in Positives
    /\ \A n : Power(n, 1) = n /\ Power(n, 2) = n * n /\ Power(n, 3) = n * n * n
              /\ Power(n, 4) = n * n * n * n
<1>1. \A n : Power(n, 1) = n /\ Power(n, 2) = n * n /\ Power(n, 3) = n * n * n
              /\ Power(n, 4) = n * n * n * n
  BY DEF Power
<1>2. \A k \in 1 .. 4 : k = 1 \/ k = 2 \/ k = 3 \/ k = 4
  OBVIOUS
<1>3. ASSUME NEW n \in Int
      PROVE  n * n \in Int /\ n * n * n \in Int /\ n * n * n * n \in Int
  OBVIOUS
<1>4. ASSUME NEW n \in Positives
      PROVE  n * n \in Positives /\ n * n * n \in Positives /\ n * n * n * n \in Positives
  <2>1. \A x, y \in Positives : x * y \in Positives
    BY DEF Positives
  <2> QED
    BY <2>1
<1>5. \A n \in Int, k \in 1 .. 4 : Power(n, k) \in Int
  BY <1>1, <1>2, <1>3
<1>6. \A n \in Positives, k \in 1 .. 4 : Power(n, k) \in Positives
  BY <1>1, <1>2, <1>4
<1> QED
  BY <1>1, <1>5, <1>6

LEMMA PowerOfProduct ==
    ASSUME NEW x \in Int, NEW y \in Int, NEW k \in 1 .. 4
    PROVE  Power(x * y, k) = Power(x, k) * Power(y, k)
<1>1. k = 1 \/ k = 2 \/ k = 3 \/ k = 4
  OBVIOUS
<1>2. /\ (x * y) * (x * y) = (x * x) * (y * y)
      /\ (x * y) * (x * y) * (x * y) = (x * x * x) * (y * y * y)
      /\ (x * y) * (x * y) * (x * y) * (x * y) = (x * x * x * x) * (y * y * y * y)
  OBVIOUS
<1>3. \A n : Power(n, 1) = n /\ Power(n, 2) = n * n /\ Power(n, 3) = n * n * n
             /\ Power(n, 4) = n * n * n * n
  BY PowerType
<1>4. CASE k = 1
  BY <1>3, <1>4
<1>5. CASE k = 2
  BY <1>2, <1>3, <1>5
<1>6. CASE k = 3
  BY <1>2, <1>3, <1>6
<1>7. CASE k = 4
  BY <1>2, <1>3, <1>7
<1> QED
  BY <1>1, <1>4, <1>5, <1>6, <1>7

LEMMA PowIs ==
    ASSUME NEW a \in Int, NEW b \in Positives, NEW k \in 1 .. 4
    PROVE  pow(Rational(a, b), k) = Rational(Power(a, k), Power(b, k))
<1> DEFINE p == Rational(a, b)
<1>1. p.num \in Int /\ p.den \in Positives /\ p.num * b = a * p.den /\ p.den \in Int /\ b \in Int
  BY RationalType DEF Positives
<1> HIDE DEF p
<1>2. /\ Power(p.num, k) \in Int /\ Power(p.den, k) \in Positives
      /\ Power(a, k) \in Int /\ Power(b, k) \in Positives
  BY <1>1, PowerType
<1>3. Power(p.num, k) * Power(b, k) = Power(a, k) * Power(p.den, k)
  <2>1. Power(p.num * b, k) = Power(p.num, k) * Power(b, k)
    BY <1>1, PowerOfProduct
  <2>2. Power(a * p.den, k) = Power(a, k) * Power(p.den, k)
    BY <1>1, PowerOfProduct
  <2> QED
    BY <1>1, <2>1, <2>2
<1> QED
  BY <1>2, <1>3, SameRational DEF pow, p

LEMMA OrderTimes ==
    ASSUME NEW a \in Int, NEW b \in Int, NEW c \in Positives
    PROVE  a < b <=> a * c < b * c
<1>1. ASSUME NEW x \in Int, NEW y \in Int, x < y PROVE x * c < y * c
  <2>1. (y - x) * c >= 1
    BY <1>1 DEF Positives
  <2>2. (y - x) * c = y * c - x * c
    BY DEF Positives
  <2> QED
    BY <2>1, <2>2 DEF Positives
<1>2. CASE a < b
  BY <1>1, <1>2
<1>3. CASE b < a
  BY <1>1, <1>3 DEF Positives
<1>4. CASE a = b
  BY <1>4 DEF Positives
<1> QED
  BY <1>2, <1>3, <1>4

LEMMA LessIs ==
    ASSUME NEW a \in Int, NEW b \in Positives, NEW c \in Int, NEW d \in Positives
    PROVE  Less(Rational(a, b), Rational(c, d)) <=> a * d < c * b
<1> DEFINE p == Rational(a, b)
           q == Rational(c, d)
           x == p.num
           y == p.den
           z == q.num
           w == q.den
<1>1. /\ x \in Int /\ y \in Positives /\ x * b = a * y
      /\ z \in Int /\ w \in Positives /\ z * d = c * w
  BY RationalType
<1>2. Less(p, q) <=> x * w < z * y
  BY DEF Less
<1> HIDE DEF p, q, x, y, z, w
<1>3. /\ y \in Int /\ w \in Int /\ b \in Int /\ d \in Int
      /\ x * w \in Int /\ z * y \in Int /\ a * d \in Int /\ c * b \in Int
      /\ b * d \in Positives /\ y * w \in Positives
  BY <1>1 DEF Positives
<1>4. x * w < z * y <=> (x * w) * (b * d) < (z * y) * (b * d)
  BY <1>3, OrderTimes
<1>5. (x * w) * (b * d) = (a * d) * (y * w)
  <2>1. (x * w) * (b * d) = (x * b) * (w * d)
    BY <1>1, <1>3
  <2>2. (a * y) * (w * d) = (a * d) * (y * w)
    BY <1>1, <1>3
  <2> QED
    BY <1>1, <2>1, <2>2
<1>6. (z * y) * (b * d) = (c * b) * (y * w)
  <2>1. (z * y) * (b * d) = (z * d) * (y * b)
    BY <1>1, <1>3
  <2>2. (c * w) * (y * b) = (c * b) * (y * w)
    BY <1>1, <1>3
  <2> QED
    BY <1>1, <2>1, <2>2
<1>7. a * d < c * b <=> (a * d) * (y * w) < (c * b) * (y * w)
  BY <1>3, OrderTimes
<1> QED
  BY <1>2, <1>4, <1>5, <1>6, <1>7 DEF p, q

\* The same denominator.
LEMMA PlusSame ==
    ASSUME NEW a \in Int, NEW b \in Positives, NEW c \in Int
    PROVE  /\ Plus(Rational(a, b), Rational(c, b)) = Rational(a + c, b)
           /\ Minus(Rational(a, b), Rational(c, b)) = Rational(a - c, b)
<1>1. /\ a * b + c * b = (a + c) * b /\ a * b - c * b = (a - c) * b
      /\ a + c \in Int /\ a - c \in Int
  BY DEF Positives
<1>2. Plus(Rational(a, b), Rational(c, b)) = Rational((a + c) * b, b * b)
  BY <1>1, PlusIs
<1>3. Minus(Rational(a, b), Rational(c, b)) = Rational((a - c) * b, b * b)
  BY <1>1, MinusIs
<1> QED
  BY <1>1, <1>2, <1>3, Expanded

\* One more number in a mean.
LEMMA MeanStep ==
    ASSUME NEW c \in Nat, NEW p \in Int, NEW v \in Int, c = 0 => p = 0,
           NEW m, m = IF c = 0 THEN Zero ELSE Rational(p, c)
    PROVE  Plus(m, Over(Minus(Rational(v, 1), m), Double(c + 1))) = Rational(p + v, c + 1)
<1> DEFINE d == IF c = 0 THEN 1 ELSE c
           n == c + 1
<1>1. 1 \in Positives /\ d \in Positives /\ n \in Positives /\ d * n \in Positives
  BY DEF Positives
<1>2. m = Rational(p, d)
  <2>1. Zero = Rational(0, 1)
    BY DoubleIsRational DEF Zero
  <2> QED
    BY <2>1
<1> HIDE DEF d, n
<1>3. Minus(Rational(v, 1), m) = Rational(v * d - p * 1, 1 * d)
  BY <1>1, <1>2, MinusIs
<1>4. v * d - p * 1 = v * d - p /\ v * d - p \in Int /\ 1 * d = d
  BY <1>1 DEF Positives
<1>5. Over(Rational(v * d - p, d), Double(n)) = Rational(v * d - p, d * n)
  BY <1>1, <1>4, OverIs
<1>6. Plus(Rational(p, d), Rational(v * d - p, d * n))
         = Plus(Rational(p * n, d * n), Rational(v * d - p, d * n))
  BY <1>1, Expanded
<1>7. p * n \in Int
  BY <1>1 DEF Positives
<1>8. Plus(Rational(p * n, d * n), Rational(v * d - p, d * n))
         = Rational(p * n + (v * d - p), d * n)
  BY <1>1, <1>4, <1>7, PlusSame
<1>9. p * n + (v * d - p) = (p + v) * d
  <2>1. p * n + (v * d - p) = p * c + v * d
    BY <1>1 DEF n, Positives
  <2>2. p * c = p * d
    BY DEF d
  <2>3. (p + v) * d = p * d + v * d
    BY <1>1 DEF Positives
  <2> QED
    BY <2>1, <2>2, <2>3
<1>10. d * n = n * d /\ p + v \in Int
  BY <1>1 DEF Positives
<1>11. Rational((p + v) * d, n * d) = Rational(p + v, n)
  BY <1>1, <1>10, Expanded
<1> QED
  BY <1>2, <1>3, <1>4, <1>5, <1>6, <1>8, <1>9, <1>10, <1>11 DEF n

\* One more number x in a variance v: q is the sum of the squares of c numbers, p
\* their sum, and d how far x is from the new mean.
OneMore(c, p, q, v, x, n, d) ==
    /\ c \in Positives /\ p \in Int /\ q \in Int /\ x \in Int
    /\ c = 1 => q = p * p
    /\ v = IF c = 1 THEN Zero ELSE Rational(c * q - p * p, c * (c - 1))
    /\ n = c + 1
    /\ d = Minus(Double(x), Rational(p + x, n))

LEMMA VarianceStep ==
    ASSUME NEW c, NEW p, NEW q, NEW v, NEW x, NEW n, NEW d, OneMore(c, p, q, v, x, n, d)
    PROVE  Over(Plus(Scaled(n - 2, v), Times(Times(d, d), Rational(n, n - 1))), Double(n - 1))
              = Rational(n * (q + x * x) - (p + x) * (p + x), n * (n - 1))
<1> DEFINE e == x * c - p
           r == c * q - p * p
           s == n * (q + x * x) - (p + x) * (p + x)
<1>0. /\ c \in Positives /\ p \in Int /\ q \in Int /\ x \in Int
      /\ c = 1 => q = p * p
      /\ v = IF c = 1 THEN Zero ELSE Rational(c * q - p * p, c * (c - 1))
      /\ n = c + 1
      /\ d = Minus(Double(x), Rational(p + x, n))
  BY DEF OneMore
<1>1. /\ 1 \in Positives /\ n \in Positives /\ n - 1 = c /\ n * n \in Positives
      /\ n * c \in Positives /\ c \in Int /\ n \in Int
      /\ e \in Int /\ r \in Int /\ s \in Int /\ e * e \in Int /\ p + x \in Int
  BY <1>0 DEF Positives
<1>2. d = Rational(e, n)
  <2>1. Double(x) = Rational(x, 1)
    BY <1>0, DoubleIsRational
  <2>2. d = Rational(x * n - (p + x) * 1, 1 * n)
    BY <1>0, <1>1, <2>1, MinusIs
  <2>3. x * n - (p + x) * 1 = e /\ 1 * n = n
    BY <1>0, <1>1
  <2> QED
    BY <2>2, <2>3
<1>3. Scaled(n - 2, v) = Rational(r, c)
  <2>1. CASE c = 1
    <3>1. v = Rational(0, 1) /\ n - 2 = 0 /\ r = 0
      BY <1>0, <1>1, <2>1, DoubleIsRational DEF Zero
    <3>2. Scaled(0, Rational(0, 1)) = Rational(0 * 0, 1)
      BY <1>0, <1>1, ScaledIs
    <3> QED
      BY <2>1, <3>1, <3>2
  <2>2. CASE c # 1
    <3>1. c - 1 \in Positives /\ c * (c - 1) \in Positives /\ n - 2 = c - 1
      BY <1>0, <2>2 DEF Positives
    <3> HIDE DEF r
    <3>2. Scaled(n - 2, v) = Rational((c - 1) * r, c * (c - 1))
      <4>1. v = Rational(r, c * (c - 1))
        BY <1>0, <2>2 DEF r
      <4>2. c - 1 \in Int
        BY <1>0, <1>1
      <4>3. Scaled(c - 1, Rational(r, c * (c - 1))) = Rational((c - 1) * r, c * (c - 1))
        BY <1>0, <1>1, <3>1, <4>2, ScaledIs
      <4> QED
        BY <3>1, <4>1, <4>3
    <3>3. (c - 1) * r = r * (c - 1)
      BY <1>0, <1>1
    <3>4. Rational(r * (c - 1), c * (c - 1)) = Rational(r, c)
      BY <1>0, <1>1, <3>1, Expanded
    <3> QED
      BY <3>2, <3>3, <3>4
  <2> QED
    BY <2>1, <2>2
<1> HIDE DEF e, r, s
<1>4. Times(Times(d, d), Rational(n, n - 1)) = Rational(e * e, n * c)
  <2>1. Times(d, d) = Rational(e * e, n * n)
    BY <1>0, <1>1, <1>2, TimesIs
  <2>2. Times(Rational(e * e, n * n), Rational(n, c)) = Rational((e * e) * n, (n * n) * c)
    BY <1>0, <1>1, TimesIs
  <2>3. (n * n) * c = (n * c) * n
    BY <1>0, <1>1
  <2>4. Rational((e * e) * n, (n * c) * n) = Rational(e * e, n * c)
    BY <1>0, <1>1, Expanded
  <2> QED
    BY <1>0, <1>1, <2>1, <2>2, <2>3, <2>4
<1>5. Plus(Rational(r, c), Rational(e * e, n * c)) = Rational(s, n)
  <2>1. Rational(r, c) = Rational(r * n, n * c)
    <3>1. Rational(r * n, c * n) = Rational(r, c) /\ c * n = n * c
      BY <1>0, <1>1, Expanded
    <3> QED
      BY <3>1
  <2>2. r * n \in Int
    BY <1>0, <1>1
  <2>3. Plus(Rational(r * n, n * c), Rational(e * e, n * c)) = Rational(r * n + e * e, n * c)
    BY <1>0, <1>1, <2>2, PlusSame
  <2>4. r * n + e * e = s * c
    <3>1. (c * q - p * p) * (c + 1) + (x * c - p) * (x * c - p)
             = ((c + 1) * (q + x * x) - (p + x) * (p + x)) * c
      BY <1>0, <1>1
    <3> QED
      BY <1>0, <3>1 DEF e, r, s
  <2>5. Rational(s * c, n * c) = Rational(s, n)
    BY <1>0, <1>1, Expanded
  <2> QED
    BY <2>1, <2>3, <2>4, <2>5
<1>6. Over(Rational(s, n), Double(n - 1)) = Rational(s, n * (n - 1))
  BY <1>0, <1>1, OverIs
<1> QED
  BY <1>3, <1>4, <1>5, <1>6 DEF s
==============================================================================
