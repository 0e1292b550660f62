------------------------- MODULE IterativeStatistics -------------------------
(***************************************************************************)
(* The statistics the server updates with every message (src/server/stats): *)
(* one operator per function of the C code, on one cell of the field (all   *)
(* of them treat the cells of a vector alike, in a loop).                   *)
(*                                                                         *)
(* Simplifications: exact arithmetic (module Rationals); a vector that is   *)
(* not allocated is outside of the domain of its function; the indices of   *)
(* Sobol' and the skewness hold a square root, and are kept as signed       *)
(* squares; of a quantile only the number of updates and the exponent of    *)
(* its gain are kept (its moves are powers with real exponents).            *)
(***************************************************************************)
EXTENDS Integers, Rationals

-----------------------------------------------------------------------------
(* mean.c, variance.c                                                        *)

init_mean == [mean |-> Zero, increment |-> 0]

increment_mean(m, x) ==
    LET n == m.increment + 1 IN
    [mean |-> Plus(m.mean, Over(Minus(x, m.mean), Double(n))), increment |-> n]

init_variance == [variance |-> Zero, mean_structure |-> init_mean]

\* v <- (v * (n - 2) + (x - mean)^2 * n / (n - 1)) / (n - 1), from the second on
increment_variance(v, x) ==
    LET m == increment_mean(v.mean_structure, x)
        n == m.increment
        d == Minus(x, m.mean)
    IN [mean_structure |-> m,
        variance |-> IF n <= 1 THEN v.variance
            ELSE Over(Plus(Scaled(n - 2, v.variance),
                           Times(Times(d, d), Rational(n, n - 1))), Double(n - 1))]

-----------------------------------------------------------------------------
(* general_moments.c: m[k] is the mean of the k-th powers, theta[k] the k-th  *)
(* central moment computed from them.                                        *)

init_moments(max_order) ==
    [max_order |-> max_order,
     m         |-> [k \in 1 .. max_order |-> Zero],
     theta     |-> [k \in 2 .. max_order |-> Zero],
     increment |-> 0]

increment_moments_mean(mean, x, n, power) ==
    Plus(mean, Over(Minus(pow(x, power), mean), Double(n)))

\* (mutant: of the third, the last term has the factor of the one before)
Theta_thrice(m, k) ==
    CASE k = 2 -> Minus(m[2], pow(m[1], 2))
      [] k = 3 -> Plus(Minus(m[3], Scaled(3, Times(m[1], m[2]))), Scaled(3, pow(m[1], 3)))
      [] k = 4 -> Minus(Plus(Minus(m[4], Scaled(4, Times(m[1], m[3]))),
                             Scaled(6, Times(pow(m[1], 2), m[2]))),
                        Scaled(3, pow(m[1], 4)))
Theta(m, k) ==
    CASE k = 2 -> Minus(m[2], pow(m[1], 2))
      [] k = 3 -> Plus(Minus(m[3], Scaled(3, Times(m[1], m[2]))), Scaled(2, pow(m[1], 3)))
      [] k = 4 -> Minus(Plus(Minus(m[4], Scaled(4, Times(m[1], m[3]))),
                             Scaled(6, Times(pow(m[1], 2), m[2]))),
                        Scaled(3, pow(m[1], 4)))

increment_moments(mo, x) ==
    LET n == mo.increment + 1
        m == [k \in DOMAIN mo.m |-> increment_moments_mean(mo.m[k], x, n, k)]
    IN [mo EXCEPT !.increment = n,
                  !.m = m,
                  !.theta = [k \in DOMAIN @ |-> IF n > 1 THEN Theta(m, k) ELSE @[k]]]

compute_skewness(mo) ==   \* theta3 / theta2^1.5, its signed square
    SignedSquare(mo.theta[3], pow(mo.theta[2], 3))
compute_kurtosis(mo) == Over(mo.theta[4], pow(mo.theta[3], 2))

-----------------------------------------------------------------------------
(* min_max.c, threshold.c, quantile.c                                        *)

init_min_max == [min |-> Zero, max |-> Zero, min_id |-> 0, max_id |-> 0,
                 is_init |-> FALSE]

Less(p, q) == p.num * q.den < q.num * p.den

\* the first call leaves the ids alone
\* (mutant: is_init is not set)
min_and_max_first(mm, x, simu_id) == [mm EXCEPT !.min = x, !.max = x]
min_and_max(mm, x, simu_id) ==
    IF ~mm.is_init THEN [mm EXCEPT !.min = x, !.max = x, !.is_init = TRUE]
    ELSE [mm EXCEPT !.min    = IF Less(x, @) THEN x ELSE @,
                    !.min_id = IF Less(x, mm.min) THEN simu_id ELSE @,
                    !.max    = IF Less(@, x) THEN x ELSE @,
                    !.max_id = IF Less(mm.max, x) THEN simu_id ELSE @]

init_threshold(value) == [value |-> value, threshold_exceedance |-> 0]

\* (mutant: values equal to the threshold are counted)
update_threshold_equal(th, x) ==
    IF Less(x, th.value) THEN th ELSE [th EXCEPT !.threshold_exceedance = @ + 1]
update_threshold_exceedance(th, x) ==
    IF Less(th.value, x) THEN [th EXCEPT !.threshold_exceedance = @ + 1] ELSE th

init_quantile(alpha) == [alpha |-> alpha, increment |-> 0, gamma |-> Zero]

\* the n-th update moves the estimate by a multiple of 1/n^gamma
increment_quantile(q, nmax) ==
    LET n == q.increment + 1 IN
    [q EXCEPT !.increment = n,
              !.gamma = IF n > 1 THEN Plus(Rational(9 * (n - 1), 10 * (nmax - 1)),
                                           Rational(1, 10))
                        ELSE @]

-----------------------------------------------------------------------------
(* sobol.c, with the formula of Martinez: the outputs of the runs A and B, and *)
(* of one run per parameter.                                                 *)

init_sobol_martinez(nb_parameters) ==
    [variance_a |-> init_variance, variance_b |-> init_variance, iteration |-> 0,
     sobol_martinez |-> [i \in 1 .. nb_parameters |->
         [first_order_covariance |-> Zero, total_order_covariance |-> Zero,
          variance_k |-> init_variance,
          first_order_values |-> Zero, total_order_values |-> Zero]]]

increment_sobol_covariance(c, x1, x2, mean1, mean2, n) ==
    IF n <= 1 THEN c
    ELSE Over(Plus(Scaled(n - 2, c),
                   Times(Times(Minus(x1, mean1), Minus(x2, mean2)), Rational(n, n - 1))),
              Double(n - 1))

\* covariance / (sqrt(v1) * sqrt(v2)), its signed square; or a value for when
\* there is no variance
Correlation(c, v1, v2, default) ==
    IF Positive(v1) /\ Positive(v2) THEN SignedSquare(c, Times(v1, v2)) ELSE default

\* total_order_values is what 1.0 is reduced by, so 1 stands for the index 0.
\* The covariances get the number of iterations of before, the variances count
\* the vector of this one.
increment_sobol_martinez(so, x) ==
    LET va == increment_variance(so.variance_a, x[1])
        vb == increment_variance(so.variance_b, x[2])
        Increment(k, y) ==
            LET vk    == increment_variance(k.variance_k, y)
                first == increment_sobol_covariance(k.first_order_covariance, x[2], y,
                             vb.mean_structure.mean, vk.mean_structure.mean, so.iteration)
                total == increment_sobol_covariance(k.total_order_covariance, x[1], y,
                             va.mean_structure.mean, vk.mean_structure.mean, so.iteration)
            IN [variance_k |-> vk,
                first_order_covariance |-> first,
                total_order_covariance |-> total,
                first_order_values |-> Correlation(first, vb.variance, vk.variance, Zero),
                total_order_values |-> Correlation(total, va.variance, vk.variance, One)]
    IN [variance_a |-> va, variance_b |-> vb, iteration |-> so.iteration + 1,
        sobol_martinez |-> [i \in DOMAIN so.sobol_martinez |->
            Increment(so.sobol_martinez[i], x[i + 2])]]
=============================================================================
