--------------------------- MODULE StatisticsMerge ---------------------------
(***************************************************************************)
(* The statistics of src/server/stats that the server itself does not call: *)
(* partial results put together (of two structures, or of all the ranks on  *)
(* rank 0), the covariance of two outputs, and the Sobol' indices with the  *)
(* formula of Jansen. One cell of the field, as in IterativeStatistics.     *)
(*                                                                         *)
(* Simplification: an overflow of the products of counts is left out.       *)
(***************************************************************************)
EXTENDS IterativeStatistics, SequencesExt

-----------------------------------------------------------------------------
(* mean.c, variance.c                                                        *)

update_mean(mean1, mean2) ==
    LET n == mean2.increment + mean1.increment IN
    [mean |-> Plus(mean1.mean,
                   Over(Scaled(mean2.increment, Minus(mean2.mean, mean1.mean)), Double(n))),
     increment |-> n]

\* ("Classic": the variances are added as if they were sums of squares)
update_variance(variance1, variance2) ==
    LET m1 == variance1.mean_structure
        m2 == variance2.mean_structure
        m  == update_mean(m1, m2)
        delta == Minus(m1.mean, m2.mean)
    IN [mean_structure |-> m,
        variance |-> Plus(Plus(variance1.variance, variance2.variance),
            Over(Scaled(m1.increment * m2.increment, Times(delta, delta)),
                 Double(m.increment)))]

\* Rank 0 receives the structure of each other rank, in order, into its own, and
\* keeps what it has so far in global_mean; its own counter is the total so far.
update_global_mean(partial) ==
    LET Received(so_far, next) ==
            LET n     == so_far.increment + next.increment
                delta == Minus(so_far.mean, next.mean)
            IN [mean |-> Plus(next.mean, Over(Scaled(so_far.increment, delta), Double(n))),
                increment |-> n]
    IN FoldLeft(Received, Head(partial), Tail(partial))

update_global_mean_and_variance(partial) ==
    LET Received(so_far, next) ==
            LET before == so_far.mean_structure
                n      == before.increment + next.mean_structure.increment
                delta  == Minus(before.mean, next.mean_structure.mean)
            IN [mean_structure |->
                   [mean |-> Plus(next.mean_structure.mean,
                                  Over(Scaled(before.increment, delta), Double(n))),
                    increment |-> n],
                variance |-> Plus(so_far.variance, Plus(next.variance,
                    Over(Scaled(before.increment * next.mean_structure.increment,
                                Times(delta, delta)), Double(n))))]
    IN FoldLeft(Received, Head(partial), Tail(partial))

update_global_variance(partial) == update_global_mean_and_variance(partial)

-----------------------------------------------------------------------------
(* covariance.c                                                              *)

init_covariance ==
    [covariance |-> Zero, mean1 |-> init_mean, mean2 |-> init_mean, increment |-> 0]

\* the first mean counts the new value already, the second one does not yet
increment_covariance(c, x1, x2) ==
    LET n  == c.increment + 1
        m1 == increment_mean(c.mean1, x1)
    IN [covariance |-> IF n <= 1 THEN c.covariance
            ELSE Over(Plus(Scaled(n - 2, c.covariance),
                           Times(Minus(x1, m1.mean), Minus(x2, c.mean2.mean))),
                      Double(n - 1)),
        mean1 |-> m1, mean2 |-> increment_mean(c.mean2, x2), increment |-> n]

\* the quotient of the counters is one of integers
update_covariance(covariance1, covariance2) ==
    LET n1 == covariance1.increment
        n2 == covariance2.increment
        n  == n1 + n2
        delta1 == Minus(covariance2.mean1.mean, covariance1.mean1.mean)
        delta2 == Minus(covariance2.mean2.mean, covariance1.mean2.mean)
    IN [covariance |-> Over(Plus(Plus(Scaled(n1 - 1, covariance1.covariance),
                                      Scaled(n2 - 1, covariance2.covariance)),
                                 Scaled((n1 * n2) \div n, Times(delta1, delta2))),
                            Double(n - 1)),
        mean1 |-> update_mean(covariance1.mean1, covariance2.mean1),
        mean2 |-> update_mean(covariance1.mean2, covariance2.mean2),
        increment |-> n]

-----------------------------------------------------------------------------
(* general_moments.c                                                         *)

\* updated_moments has been initialised with its own max_order
update_moments(moments1, moments2, updated_moments) ==
    LET n == moments1.increment + moments2.increment
        Mean(k) == Plus(moments1.m[k],
                        Over(Scaled(moments2.increment, Minus(moments2.m[k], moments1.m[k])),
                             Double(n)))
        m == [k \in 1 .. updated_moments.max_order |-> Mean(k)]
    IN [updated_moments EXCEPT !.increment = n, !.m = m,
                               !.theta = [k \in DOMAIN @ |-> Theta(m, k)]]

compute_mean(mo) == mo.m[1]
compute_variance(mo) == Over(Scaled(mo.increment, mo.theta[2]), Double(mo.increment - 1))

-----------------------------------------------------------------------------
(* sobol.c, with the formula of Jansen                                       *)

init_sobol_jansen(nb_parameters) ==
    [variance_a |-> init_variance, iteration |-> 0,
     sobol_jansen |-> [i \in 1 .. nb_parameters |->
         [summ_a |-> Zero, summ_b |-> Zero,
          first_order_values |-> Zero, total_order_values |-> Zero]]]

\* the sums are of squares of sums, not of differences
increment_sobol_jansen(so, x) ==
    LET va == increment_variance(so.variance_a, x[1])
        n  == so.iteration + 1
        Share(summ) == Over(Over(summ, Double(2 * n - 1)), va.variance)
        Increment(k, y) ==
            LET a == Plus(k.summ_a, Times(Plus(x[1], y), Plus(x[1], y)))
                b == Plus(k.summ_b, Times(Plus(x[2], y), Plus(x[2], y)))
            IN [summ_a |-> a, summ_b |-> b,
                first_order_values |->
                    IF Positive(va.variance) THEN Minus(One, Share(b)) ELSE Zero,
                total_order_values |->
                    IF Positive(va.variance) THEN Share(a) ELSE Zero]
    IN [variance_a |-> va, iteration |-> n,
        sobol_jansen |-> [i \in DOMAIN so.sobol_jansen |->
            Increment(so.sobol_jansen[i], x[i + 2])]]
=============================================================================
