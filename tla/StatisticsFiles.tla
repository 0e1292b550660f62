--------------------------- MODULE StatisticsFiles ---------------------------
(***************************************************************************)
(* What each statistic writes into a checkpoint, and how it is read again:  *)
(* the save_ and read_ functions of src/server/stats. A structure becomes   *)
(* the sequence of what is written of it, in that order; a function that    *)
(* calls another has the sequence of that one in the place of the call.     *)
(*                                                                         *)
(* Simplifications: one structure (the functions treat the time steps, the  *)
(* thresholds and the quantiles alike, in loops); gamma stands for the      *)
(* estimate of a quantile; the confidence interval of the indices is left   *)
(* out: nothing but its initial value is ever in it (server.cxx 683-686).   *)
(***************************************************************************)
EXTENDS IterativeStatistics, Sequences

save_mean(m) == <<m.mean, m.increment>>
read_mean(w) == [mean |-> w[1], increment |-> w[2]]

save_variance(v) == <<v.variance, save_mean(v.mean_structure)>>
read_variance(w) == [variance |-> w[1], mean_structure |-> read_mean(w[2])]

save_covariance(c) ==
    <<c.covariance, save_mean(c.mean1), save_mean(c.mean2), c.increment>>
read_covariance(w) ==
    [covariance |-> w[1], mean1 |-> read_mean(w[2]), mean2 |-> read_mean(w[3]),
     increment |-> w[4]]

\* the moments up to max_order; the thetas are not written, and keep what they
\* are when the moments are read
\* (mutant: the number of updates is not read)
save_moments(mo) == <<mo.max_order, mo.m, mo.increment>>
read_moments_only(mo, w) ==
    [max_order |-> w[1], m |-> w[2], theta |-> mo.theta, increment |-> mo.increment]
read_moments(mo, w) ==
    [max_order |-> w[1], m |-> w[2], theta |-> mo.theta, increment |-> w[3]]

save_min_max(mm) == <<mm.min, mm.max, mm.min_id, mm.max_id, mm.is_init>>
read_min_max(w) ==
    [min |-> w[1], max |-> w[2], min_id |-> w[3], max_id |-> w[4], is_init |-> w[5]]

save_threshold(th) == <<th.value, th.threshold_exceedance>>
read_threshold(w) == [value |-> w[1], threshold_exceedance |-> w[2]]

save_quantile(q) == <<q.gamma, q.increment, q.alpha>>
read_quantile(w) == [gamma |-> w[1], increment |-> w[2], alpha |-> w[3]]

save_sobol_martinez(so) ==
    <<[i \in DOMAIN so.sobol_martinez |-> LET k == so.sobol_martinez[i] IN
          <<k.first_order_covariance, k.total_order_covariance, save_variance(k.variance_k),
            k.first_order_values, k.total_order_values>>],
      save_variance(so.variance_a), save_variance(so.variance_b), so.iteration>>
read_sobol_martinez(w) ==
    [sobol_martinez |-> [i \in DOMAIN w[1] |->
         [first_order_covariance |-> w[1][i][1], total_order_covariance |-> w[1][i][2],
          variance_k |-> read_variance(w[1][i][3]),
          first_order_values |-> w[1][i][4], total_order_values |-> w[1][i][5]]],
     variance_a |-> read_variance(w[2]), variance_b |-> read_variance(w[3]),
     iteration |-> w[4]]

save_sobol_jansen(so) ==
    <<[i \in DOMAIN so.sobol_jansen |-> LET k == so.sobol_jansen[i] IN
          <<k.summ_a, k.summ_b, k.first_order_values, k.total_order_values>>],
      save_variance(so.variance_a), so.iteration>>
read_sobol_jansen(w) ==
    [sobol_jansen |-> [i \in DOMAIN w[1] |->
         [summ_a |-> w[1][i][1], summ_b |-> w[1][i][2],
          first_order_values |-> w[1][i][3], total_order_values |-> w[1][i][4]]],
     variance_a |-> read_variance(w[2]), iteration |-> w[3]]
=============================================================================
