---------------------------- MODULE MCStatistics ----------------------------
(* Small instances of Statistics, and the operators of StatisticsMerge over     *)
(* small samples.                                                               *)
EXTENDS Statistics, StatisticsMerge, TLC

Line(words, size, steps) ==
    [operations |-> words, nb_thresholds |-> 1, nb_quantiles |-> 1,
     sampling_size |-> size, nb_parameters |-> 2, nb_time_steps |-> steps]

MCCommandLines == {
    Line({}, 3, 2),                                    \* the default operations
    Line({"mean", "var", "skewness", "kurtosis", "min"}, 4, 1),
    Line({"variances", "maximum", "thresholds", "quantile"}, 3, 2),
    Line({"sobol", "means", "max", "quantiles"}, 3, 2),
    Line({"sobol_indices", "kurtosis", "threshold"}, 4, 1),
    Line({"mean", "median"}, 3, 1),                    \* refused
    Line({"mean"}, 1, 1) }

SobolCommandLines == {Line({"sobol"}, 4, 1)}
VarianceCommandLines == {Line({"mean", "variance"}, 4, 1)}

MCThresholds == <<1>>

\* the outputs of four simulations, or groups, at two time steps: with ties, and
\* extremes that come first or last
TwoSteps(first, second) == 0 :> first @@ 1 :> second
MCValue == 0 :> TwoSteps(<<2, 0, 1, 2>>, <<0, 1, 1, 0>>)
        @@ 1 :> TwoSteps(<<0, 3, 3, 0>>, <<2, 1, 3, 0>>)
        @@ 2 :> TwoSteps(<<3, 1, 0, 3>>, <<1, 0, 0, 2>>)
        @@ 3 :> TwoSteps(<<1, 1, 2, 0>>, <<1, 3, 1, 1>>)

\* The powers of the moments are powers.
ASSUME PowersArePowers == \A n \in -9 .. 9, k \in 1 .. 4 : Power(n, k) = n ^ k

-----------------------------------------------------------------------------
(* Partial results of samples, put together.                                  *)

Samples == UNION {[1 .. n -> {Double(0), Double(1), Double(4)}] : n \in 1 .. 3}
\* runs A, B and one per parameter
Groups == UNION {[1 .. n -> {[j \in 1 .. 3 |-> Double((j * k) % 5)] : k \in 0 .. 3}] :
                    n \in 1 .. 3}

MeanOf(xs) == FoldLeft(increment_mean, init_mean, xs)
VarianceOf(xs) == FoldLeft(increment_variance, init_variance, xs)
MomentsOf(xs) == FoldLeft(increment_moments, init_moments(4), xs)
CovarianceOf(xs, ys) ==
    FoldLeftDomain(LAMBDA c, k : increment_covariance(c, xs[k], ys[k]), init_covariance, xs)
MartinezOf(gs) == FoldLeft(increment_sobol_martinez, init_sobol_martinez(1), gs)
JansenOf(gs) == FoldLeft(increment_sobol_jansen, init_sobol_jansen(1), gs)
SumOf(f(_), gs) == FoldLeft(LAMBDA s, g : Plus(s, f(g)), Zero, gs)

\* The means and the moments of two samples are those of both together, however
\* the ranks share the samples (mean.c 125-214, general_moments.c 213-278).
ASSUME MeansMerge ==
    \A xs, ys \in Samples :
        /\ update_mean(MeanOf(xs), MeanOf(ys)) = MeanOf(xs \o ys)
        /\ update_moments(MomentsOf(xs), MomentsOf(ys), init_moments(4)) = MomentsOf(xs \o ys)
        /\ \A zs \in Samples :
              update_global_mean(<<MeanOf(xs), MeanOf(ys), MeanOf(zs)>>) = MeanOf(xs \o ys \o zs)

\* The variance the moments give is the iterative one, from the second value on
\* (general_moments.c 436-446, variance.c 104-119).
ASSUME VarianceOfMoments ==
    \A xs \in Samples :
        /\ compute_mean(MomentsOf(xs)) = MeanOf(xs).mean
        /\ Len(xs) > 1 => compute_variance(MomentsOf(xs)) = VarianceOf(xs).variance

\* update_variance puts sums of squares together, which is not what
\* increment_variance computes (variance.c 104-119 and 186-199).
SumOfSquares(v) ==
    [v EXCEPT !.variance = Scaled(v.mean_structure.increment - 1, @)]
ASSUME SumsOfSquaresMerge ==
    /\ \A xs, ys \in Samples :
          /\ update_variance(SumOfSquares(VarianceOf(xs)), SumOfSquares(VarianceOf(ys)))
                = SumOfSquares(VarianceOf(xs \o ys))
          /\ update_global_variance(<<VarianceOf(xs), VarianceOf(ys)>>)
                = update_variance(VarianceOf(xs), VarianceOf(ys))
    /\ \E xs, ys \in Samples :
          update_variance(VarianceOf(xs), VarianceOf(ys)) # VarianceOf(xs \o ys)

\* The covariances of two samples are that of both when the quotient of their
\* counters has no remainder (covariance.c 168-178).
ASSUME CovariancesMerge ==
    \A n \in {<<1, 1>>, <<2, 2>>, <<1, 2>>} :
        LET Merges == \A xs, us \in {s \in Samples : Len(s) = n[1]},
                         ys, vs \in {s \in Samples : Len(s) = n[2]} :
                update_covariance(CovarianceOf(xs, us), CovarianceOf(ys, vs)).covariance
                    = CovarianceOf(xs \o ys, us \o vs).covariance
        IN Merges <=> (n[1] * n[2]) % (n[1] + n[2]) = 0

\* What increment_sobol_jansen keeps of the groups it has got (sobol.c 169-225).
ASSUME JansenSums ==
    \A gs \in Groups :
        LET k == JansenOf(gs).sobol_jansen[1] IN
        /\ k.summ_a = SumOf(LAMBDA g : pow(Plus(g[1], g[3]), 2), gs)
        /\ k.summ_b = SumOf(LAMBDA g : pow(Plus(g[2], g[3]), 2), gs)

\* Every structure is read as it was saved.
ASSUME FilesKeepStructures ==
    /\ \A xs \in Samples :
          /\ read_mean(save_mean(MeanOf(xs))) = MeanOf(xs)
          /\ read_covariance(save_covariance(CovarianceOf(xs, xs))) = CovarianceOf(xs, xs)
    /\ \A gs \in Groups :
          /\ read_sobol_martinez(save_sobol_martinez(MartinezOf(gs))) = MartinezOf(gs)
          /\ read_sobol_jansen(save_sobol_jansen(JansenOf(gs))) = JansenOf(gs)
=============================================================================
