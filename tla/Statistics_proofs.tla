-------------------------- MODULE Statistics_proofs --------------------------
(***************************************************************************)
(* The counters and the extremes of the statistics agree with the step bits, *)
(* through updates, checkpoints and restarts, for every command line and     *)
(* every output; what is written into a checkpoint is what a restart reads,  *)
(* but for the thetas.                                                       *)
(*                                                                         *)
(* The argument: one statistic after the other is updated, saved and read,  *)
(* so that what agrees with the bits in the memory agrees with those that a  *)
(* restart would read (CountsAgree and ExtremesAgree are of both), and a     *)
(* structure is what its allocation made it (DataShape).                     *)
(***************************************************************************)
EXTENDS Statistics, FiniteSetTheorems, TLAPS

Count(d, t) == Cardinality(Received(d, t))

\* the outputs received that exceed a threshold
Above(d, t, j) == {i \in Received(d, t) \X (1 .. Width) : Outcome(t, i) > Thresholds[j]}

SobolCounts(so, n) ==
    /\ so.iteration = n
    /\ so.variance_a.mean_structure.increment = n
    /\ so.variance_b.mean_structure.increment = n
    /\ \A i \in 1 .. options.nb_parameters :
          so.sobol_martinez[i].variance_k.mean_structure.increment = n

CountsAgree(d) ==
    \A t \in Steps :
        /\ d.moments[t].increment = Width * Count(d, t)
        /\ Op("quantile") => \A j \in 1 .. options.nb_quantiles :
               d.quantiles[t][j].increment = Width * Count(d, t)
        /\ Op("sobol") => SobolCounts(d.sobol_indices[t], Count(d, t))
        /\ Op("threshold") => \A j \in 1 .. options.nb_thresholds :
               d.thresholds[t][j].threshold_exceedance = Cardinality(Above(d, t, j))

\* the minimum (or the maximum) of the outputs in S, and a simulation it is of
IsExtreme(low, x, id, S, t) ==
    /\ \E i \in S : x = Double(Outcome(t, i))
    /\ \A i \in S : IF low THEN x.num <= Outcome(t, i) ELSE x.num >= Outcome(t, i)
    /\ id # 0 => \E i \in S : i[1] = id /\ x = Double(Outcome(t, i))

ExtremesOf(mm, S, t) ==
    /\ S = {} => mm.is_init = FALSE /\ mm.min_id = 0 /\ mm.max_id = 0
    /\ S # {} => /\ mm.is_init = TRUE
                 /\ IsExtreme(TRUE, mm.min, mm.min_id, S, t)
                 /\ IsExtreme(FALSE, mm.max, mm.max_id, S, t)

ExtremesAgree(d) ==
    Op("min_and_max") => \A t \in Steps :
        ExtremesOf(d.min_max[t], Received(d, t) \X (1 .. Width), t)

\* The structures are functions and records, as they were allocated.
FunctionOn(S, f) == f = [x \in S |-> f[x]]

IsMoments(mo) ==
    mo = [max_order |-> mo.max_order, m |-> mo.m, theta |-> mo.theta,
          increment |-> mo.increment]
IsMinMax(mm) ==
    mm = [min |-> mm.min, max |-> mm.max, min_id |-> mm.min_id, max_id |-> mm.max_id,
          is_init |-> mm.is_init]
IsQuantile(q) == q = [gamma |-> q.gamma, increment |-> q.increment, alpha |-> q.alpha]
IsVariance(v) ==
    v = [variance |-> v.variance,
         mean_structure |-> [mean |-> v.mean_structure.mean,
                             increment |-> v.mean_structure.increment]]
IsMartinez(k) ==
    /\ k = [first_order_covariance |-> k.first_order_covariance,
            total_order_covariance |-> k.total_order_covariance,
            variance_k |-> k.variance_k,
            first_order_values |-> k.first_order_values,
            total_order_values |-> k.total_order_values]
    /\ IsVariance(k.variance_k)
IsSobol(so) ==
    /\ so = [sobol_martinez |-> so.sobol_martinez, variance_a |-> so.variance_a,
             variance_b |-> so.variance_b, iteration |-> so.iteration]
    /\ IsVariance(so.variance_a) /\ IsVariance(so.variance_b)
    /\ FunctionOn(1 .. options.nb_parameters, so.sobol_martinez)
    /\ \A i \in 1 .. options.nb_parameters : IsMartinez(so.sobol_martinez[i])

StepsOf(op) == IF Op(op) THEN Steps ELSE {}

ThresholdShape(d) ==
    /\ FunctionOn(StepsOf("threshold"), d.thresholds)
    /\ \A t \in StepsOf("threshold") :
          /\ FunctionOn(1 .. options.nb_thresholds, d.thresholds[t])
          /\ \A j \in 1 .. options.nb_thresholds :
                d.thresholds[t][j] \in [value : {Double(Thresholds[j])},
                                        threshold_exceedance : Nat]
QuantileShape(d) ==
    /\ FunctionOn(StepsOf("quantile"), d.quantiles)
    /\ \A t \in StepsOf("quantile") :
          /\ FunctionOn(1 .. options.nb_quantiles, d.quantiles[t])
          /\ \A j \in 1 .. options.nb_quantiles : IsQuantile(d.quantiles[t][j])
SobolShape(d) ==
    /\ FunctionOn(StepsOf("sobol"), d.sobol_indices)
    /\ \A t \in StepsOf("sobol") : IsSobol(d.sobol_indices[t])
MinMaxShape(d) ==
    /\ FunctionOn(StepsOf("min_and_max"), d.min_max)
    /\ \A t \in StepsOf("min_and_max") : IsMinMax(d.min_max[t])
MomentsShape(d) ==
    /\ FunctionOn(Steps, d.moments)
    /\ \A t \in Steps : IsMoments(d.moments[t])

Fields == {"stats_init", "step_simu", "moments", "min_max", "thresholds", "quantiles",
           "sobol_indices"}

DataShape(d) ==
    /\ FunctionOn(Fields, d) /\ d.stats_init = TRUE
    /\ d.step_simu \in [Simulations -> SUBSET Steps]
    /\ MomentsShape(d) /\ MinMaxShape(d) /\ ThresholdShape(d) /\ QuantileShape(d)
    /\ SobolShape(d)

Agrees(d) == DataShape(d) /\ CountsAgree(d) /\ ExtremesAgree(d)

\* what a restart would read
Kept == read_saved_stats(melissa_alloc_data, file)

SInv ==
    /\ options \in Options
    /\ data = NotInitialized \/ Agrees(data)
    /\ file = NoFile \/ (file.exists /\ Agrees(Kept))

-----------------------------------------------------------------------------

LEMMA OptionTypes ==
    ASSUME options \in Options
    PROVE  /\ options.nb_thresholds \in Nat /\ options.nb_quantiles \in Nat
           /\ options.nb_parameters \in Nat
           /\ options.sampling_size \in Nat /\ options.nb_time_steps \in Nat
           /\ \A s \in Simulations, t \in Steps :
                 Value[s][t] \in Seq(Int) /\ Len(Value[s][t]) >= 2 + options.nb_parameters
           /\ \A j \in 1 .. options.nb_thresholds : Thresholds[j] \in Int
<1>1. PICK cl \in CommandLines : options = melissa_get_options(cl)
  BY DEF Options
<1>2. /\ options.nb_thresholds = cl.nb_thresholds /\ options.nb_quantiles = cl.nb_quantiles
      /\ options.nb_parameters = cl.nb_parameters
      /\ options.sampling_size = cl.sampling_size /\ options.nb_time_steps = cl.nb_time_steps
  BY <1>1 DEF melissa_get_options
<1> QED
  BY <1>2, StatisticsAssumption DEF Simulations, Steps

LEMMA ReceivedIsFinite ==
    ASSUME options \in Options, NEW d, d.step_simu \in [Simulations -> SUBSET Steps], NEW t
    PROVE  /\ Received(d, t) \subseteq Simulations /\ IsFiniteSet(Received(d, t))
           /\ Count(d, t) \in Nat
<1>1. IsFiniteSet(Simulations)
  BY OptionTypes, FS_Interval DEF Simulations
<1>2. Received(d, t) \subseteq Simulations
  BY DEF Received
<1> QED
  BY <1>1, <1>2, FS_Subset, FS_CardinalityType DEF Count

LEMMA WidthIs == Width \in {1, 2} /\ (Op("sobol") <=> Width = 2)
  BY DEF Width

\* An allocated structure has received nothing and counts nothing.
LEMMA AllocIsEmpty ==
    ASSUME options \in Options
    PROVE  Agrees(melissa_alloc_data)
<1> DEFINE d == melissa_alloc_data
<1>0. FunctionOn(Fields, d) /\ d.stats_init = TRUE
  BY DEF melissa_alloc_data, FunctionOn, Fields
<1>1. /\ d.step_simu = [s \in Simulations |-> {}]
      /\ d.moments = [t \in Steps |-> init_moments(max_order)]
      /\ d.min_max = [t \in StepsOf("min_and_max") |-> init_min_max]
      /\ d.thresholds = [t \in StepsOf("threshold") |->
             [j \in 1 .. options.nb_thresholds |-> init_threshold(Double(Thresholds[j]))]]
      /\ d.quantiles = [t \in StepsOf("quantile") |->
             [j \in 1 .. options.nb_quantiles |-> init_quantile(j)]]
      /\ d.sobol_indices = [t \in StepsOf("sobol") |->
             init_sobol_martinez(options.nb_parameters)]
  BY DEF melissa_alloc_data, Allocated, StepsOf
<1> HIDE DEF d
<1>2. \A t \in Steps : Received(d, t) = {} /\ Count(d, t) = 0
  BY <1>1, FS_EmptySet DEF Received, Count
<1>3. \A t \in Steps : \A j : Cardinality(Above(d, t, j)) = 0
  <2>1. \A t \in Steps : \A j : Above(d, t, j) = {}
    BY <1>2 DEF Above
  <2> QED
    BY <2>1, FS_EmptySet
<1>4. MomentsShape(d) /\ \A t \in Steps : d.moments[t].increment = 0
  <2>1. \A mo : mo = init_moments(max_order) => IsMoments(mo) /\ mo.increment = 0
    BY DEF init_moments, IsMoments
  <2>2. \A t \in Steps : d.moments[t] = init_moments(max_order)
    BY <1>1
  <2>3. FunctionOn(Steps, d.moments)
    BY <1>1 DEF FunctionOn
  <2> QED
    BY <2>1, <2>2, <2>3 DEF MomentsShape
<1>5. /\ ThresholdShape(d)
      /\ Op("threshold") => \A t \in Steps : \A j \in 1 .. options.nb_thresholds :
            d.thresholds[t][j].threshold_exceedance = 0
  <2>1. \A th, v : th = init_threshold(v) =>
           th \in [value : {v}, threshold_exceedance : Nat] /\ th.threshold_exceedance = 0
    BY DEF init_threshold
  <2>2. \A t \in StepsOf("threshold") : d.thresholds[t] =
           [j \in 1 .. options.nb_thresholds |-> init_threshold(Double(Thresholds[j]))]
    BY <1>1
  <2>3. \A t \in StepsOf("threshold") :
           /\ FunctionOn(1 .. options.nb_thresholds, d.thresholds[t])
           /\ \A j \in 1 .. options.nb_thresholds :
                 d.thresholds[t][j] = init_threshold(Double(Thresholds[j]))
    BY <2>2 DEF FunctionOn
  <2>4. FunctionOn(StepsOf("threshold"), d.thresholds)
    BY <1>1 DEF FunctionOn
  <2> QED
    BY <2>1, <2>3, <2>4 DEF ThresholdShape, StepsOf
<1>6. /\ QuantileShape(d)
      /\ Op("quantile") => \A t \in Steps : \A j \in 1 .. options.nb_quantiles :
            d.quantiles[t][j].increment = 0
  <2>1. \A q, j : q = init_quantile(j) => IsQuantile(q) /\ q.increment = 0
    BY DEF init_quantile, IsQuantile
  <2>2. \A t \in StepsOf("quantile") :
           d.quantiles[t] = [j \in 1 .. options.nb_quantiles |-> init_quantile(j)]
    BY <1>1
  <2>3. \A t \in StepsOf("quantile") :
           /\ FunctionOn(1 .. options.nb_quantiles, d.quantiles[t])
           /\ \A j \in 1 .. options.nb_quantiles : d.quantiles[t][j] = init_quantile(j)
    BY <2>2 DEF FunctionOn
  <2>4. FunctionOn(StepsOf("quantile"), d.quantiles)
    BY <1>1 DEF FunctionOn
  <2> QED
    BY <2>1, <2>3, <2>4 DEF QuantileShape, StepsOf
<1>7. /\ SobolShape(d)
      /\ Op("sobol") => \A t \in Steps : SobolCounts(d.sobol_indices[t], 0)
  <2>1. ASSUME NEW so, so = init_sobol_martinez(options.nb_parameters)
        PROVE  IsSobol(so) /\ SobolCounts(so, 0)
    <3>1. \A v : v = init_variance => IsVariance(v) /\ v.mean_structure.increment = 0
      BY DEF init_variance, init_mean, IsVariance
    <3>2. /\ so = [sobol_martinez |-> so.sobol_martinez, variance_a |-> init_variance,
                   variance_b |-> init_variance, iteration |-> 0]
          /\ so.sobol_martinez = [i \in 1 .. options.nb_parameters |->
                [first_order_covariance |-> Zero, total_order_covariance |-> Zero,
                 variance_k |-> init_variance,
                 first_order_values |-> Zero, total_order_values |-> Zero]]
      BY <2>1 DEF init_sobol_martinez
    <3>3. /\ so.variance_a = init_variance /\ so.variance_b = init_variance
          /\ so.iteration = 0
          /\ so = [sobol_martinez |-> so.sobol_martinez, variance_a |-> so.variance_a,
                   variance_b |-> so.variance_b, iteration |-> so.iteration]
      BY <3>2
    <3>4. /\ FunctionOn(1 .. options.nb_parameters, so.sobol_martinez)
          /\ \A i \in 1 .. options.nb_parameters : so.sobol_martinez[i] =
                [first_order_covariance |-> Zero, total_order_covariance |-> Zero,
                 variance_k |-> init_variance,
                 first_order_values |-> Zero, total_order_values |-> Zero]
      BY <3>2 DEF FunctionOn
    <3>5. \A k : k = [first_order_covariance |-> Zero, total_order_covariance |-> Zero,
                      variance_k |-> init_variance,
                      first_order_values |-> Zero, total_order_values |-> Zero]
             => IsMartinez(k) /\ k.variance_k = init_variance
      BY <3>1 DEF IsMartinez
    <3> QED
      BY <3>1, <3>3, <3>4, <3>5 DEF IsSobol, SobolCounts
  <2>2. \A t \in StepsOf("sobol") :
           d.sobol_indices[t] = init_sobol_martinez(options.nb_parameters)
    BY <1>1
  <2>3. FunctionOn(StepsOf("sobol"), d.sobol_indices)
    BY <1>1 DEF FunctionOn
  <2> QED
    BY <2>1, <2>2, <2>3 DEF SobolShape, StepsOf
<1>8. MinMaxShape(d) /\ ExtremesAgree(d)
  <2>1. \A mm : mm = init_min_max => IsMinMax(mm) /\ mm.is_init = FALSE
                                               /\ mm.min_id = 0 /\ mm.max_id = 0
    BY DEF init_min_max, IsMinMax
  <2>2. \A t \in StepsOf("min_and_max") : d.min_max[t] = init_min_max
    BY <1>1
  <2>3. FunctionOn(StepsOf("min_and_max"), d.min_max)
    BY <1>1 DEF FunctionOn
  <2>4. \A t \in Steps : Received(d, t) \X (1 .. Width) = {}
    BY <1>2
  <2>5. MinMaxShape(d)
    BY <2>1, <2>2, <2>3 DEF MinMaxShape
  <2> QED
    BY <2>1, <2>2, <2>4, <2>5 DEF ExtremesAgree, ExtremesOf, StepsOf
<1>9. d.step_simu \in [Simulations -> SUBSET Steps]
  BY <1>1
<1>10. DataShape(d)
  BY <1>0, <1>4, <1>5, <1>6, <1>7, <1>8, <1>9 DEF DataShape
<1>11. CountsAgree(d)
  BY <1>2, <1>3, <1>4, <1>5, <1>6, <1>7, WidthIs DEF CountsAgree
<1> QED
  BY <1>8, <1>10, <1>11 DEF d, Agrees

-----------------------------------------------------------------------------
(* Checkpoints. What is read of a structure is what was written of it.       *)

LEMMA ThresholdsAreKept ==
    ASSUME NEW d, ThresholdShape(d)
    PROVE  EachOf(read_threshold, EachOf(save_threshold, d.thresholds)) = d.thresholds
<1>1. \A th, v : th \in [value : {v}, threshold_exceedance : Nat] =>
         read_threshold(save_threshold(th)) = th
  BY DEF read_threshold, save_threshold
<1>2. EachOf(read_threshold, EachOf(save_threshold, d.thresholds)) =
         [t \in DOMAIN d.thresholds |-> [j \in DOMAIN d.thresholds[t] |->
             read_threshold(save_threshold(d.thresholds[t][j]))]]
  BY DEF EachOf
<1>3. /\ DOMAIN d.thresholds = StepsOf("threshold")
      /\ \A t \in DOMAIN d.thresholds : DOMAIN d.thresholds[t] = 1 .. options.nb_thresholds
  BY DEF ThresholdShape, FunctionOn
<1>4. \A t \in DOMAIN d.thresholds :
         [j \in DOMAIN d.thresholds[t] |-> read_threshold(save_threshold(d.thresholds[t][j]))]
            = d.thresholds[t]
  <2>1. ASSUME NEW t \in DOMAIN d.thresholds, NEW j \in 1 .. options.nb_thresholds
        PROVE  read_threshold(save_threshold(d.thresholds[t][j])) = d.thresholds[t][j]
    BY <1>1, <1>3 DEF ThresholdShape
  <2> QED
    BY <1>3, <2>1 DEF ThresholdShape, FunctionOn
<1> QED
  BY <1>2, <1>3, <1>4 DEF ThresholdShape, FunctionOn

LEMMA QuantilesAreKept ==
    ASSUME NEW d, QuantileShape(d)
    PROVE  EachOf(read_quantile, EachOf(save_quantile, d.quantiles)) = d.quantiles
<1>1. \A q : IsQuantile(q) => read_quantile(save_quantile(q)) = q
  BY DEF read_quantile, save_quantile, IsQuantile
<1>2. EachOf(read_quantile, EachOf(save_quantile, d.quantiles)) =
         [t \in DOMAIN d.quantiles |-> [j \in DOMAIN d.quantiles[t] |->
             read_quantile(save_quantile(d.quantiles[t][j]))]]
  BY DEF EachOf
<1>3. /\ DOMAIN d.quantiles = StepsOf("quantile")
      /\ \A t \in DOMAIN d.quantiles : DOMAIN d.quantiles[t] = 1 .. options.nb_quantiles
  BY DEF QuantileShape, FunctionOn
<1>4. \A t \in DOMAIN d.quantiles :
         [j \in DOMAIN d.quantiles[t] |-> read_quantile(save_quantile(d.quantiles[t][j]))]
            = d.quantiles[t]
  BY <1>1, <1>3 DEF QuantileShape, FunctionOn
<1> QED
  BY <1>2, <1>3, <1>4 DEF QuantileShape, FunctionOn

LEMMA ExtremesAreKept ==
    ASSUME NEW d, MinMaxShape(d)
    PROVE  EachStep(read_min_max, EachStep(save_min_max, d.min_max)) = d.min_max
<1>1. \A mm : IsMinMax(mm) => read_min_max(save_min_max(mm)) = mm
  BY DEF read_min_max, save_min_max, IsMinMax
<1>2. EachStep(read_min_max, EachStep(save_min_max, d.min_max)) =
         [t \in DOMAIN d.min_max |-> read_min_max(save_min_max(d.min_max[t]))]
  BY DEF EachStep
<1> QED
  BY <1>1, <1>2 DEF MinMaxShape, FunctionOn

LEMMA IndicesAreKept ==
    ASSUME NEW d, SobolShape(d)
    PROVE  EachStep(read_sobol_martinez, EachStep(save_sobol_martinez, d.sobol_indices))
              = d.sobol_indices
<1>1. \A v : IsVariance(v) => read_variance(save_variance(v)) = v
  BY DEF read_variance, save_variance, read_mean, save_mean, IsVariance
<1>2. ASSUME NEW so, IsSobol(so)
      PROVE  read_sobol_martinez(save_sobol_martinez(so)) = so
  <2> DEFINE w == save_sobol_martinez(so)
             r == read_sobol_martinez(w)
             ks == so.sobol_martinez
  <2>1. /\ DOMAIN ks = 1 .. options.nb_parameters
        /\ \A i \in DOMAIN ks : IsMartinez(ks[i])
    BY <1>2 DEF IsSobol, FunctionOn
  <2>2. w[1] = [i \in DOMAIN ks |->
              <<ks[i].first_order_covariance, ks[i].total_order_covariance,
                save_variance(ks[i].variance_k), ks[i].first_order_values,
                ks[i].total_order_values>>]
    BY DEF save_sobol_martinez
  <2>3. w[2] = save_variance(so.variance_a) /\ w[3] = save_variance(so.variance_b)
        /\ w[4] = so.iteration
    BY DEF save_sobol_martinez
  <2>4. r.variance_a = so.variance_a /\ r.variance_b = so.variance_b
        /\ r.iteration = so.iteration
    BY <1>1, <1>2, <2>3 DEF read_sobol_martinez, IsSobol
  <2>5. ASSUME NEW i \in DOMAIN ks
        PROVE  /\ i \in DOMAIN w[1]
               /\ [first_order_covariance |-> w[1][i][1], total_order_covariance |-> w[1][i][2],
                   variance_k |-> read_variance(w[1][i][3]),
                   first_order_values |-> w[1][i][4], total_order_values |-> w[1][i][5]]
                  = ks[i]
    <3> DEFINE k == ks[i]
    <3>1. IsMartinez(k)
      BY <2>1
    <3>2. w[1][i] = <<k.first_order_covariance, k.total_order_covariance,
                      save_variance(k.variance_k), k.first_order_values, k.total_order_values>>
      BY <2>2
    <3>3. i \in DOMAIN w[1]
      BY <2>2
    <3> HIDE DEF k, w
    <3>4. read_variance(w[1][i][3]) = k.variance_k
      BY <1>1, <3>1, <3>2 DEF IsMartinez
    <3>5. [first_order_covariance |-> w[1][i][1], total_order_covariance |-> w[1][i][2],
           variance_k |-> read_variance(w[1][i][3]),
           first_order_values |-> w[1][i][4], total_order_values |-> w[1][i][5]] = k
      BY <3>1, <3>2, <3>4 DEF IsMartinez
    <3> QED
      BY <3>3, <3>5 DEF k
  <2>6. r.sobol_martinez = ks
    <3>1. r.sobol_martinez = [i \in DOMAIN w[1] |->
              [first_order_covariance |-> w[1][i][1], total_order_covariance |-> w[1][i][2],
               variance_k |-> read_variance(w[1][i][3]),
               first_order_values |-> w[1][i][4], total_order_values |-> w[1][i][5]]]
      BY DEF read_sobol_martinez
    <3>2. DOMAIN w[1] = DOMAIN ks
      BY <2>2
    <3>3. ks = [i \in DOMAIN ks |-> ks[i]]
      BY <1>2, <2>1 DEF IsSobol, FunctionOn
    <3> HIDE DEF w, r, ks
    <3> QED
      BY <2>5, <3>1, <3>2, <3>3
  <2>7. r = [sobol_martinez |-> r.sobol_martinez, variance_a |-> r.variance_a,
             variance_b |-> r.variance_b, iteration |-> r.iteration]
    BY DEF read_sobol_martinez
  <2> HIDE DEF r
  <2>8. r = so
    BY <1>2, <2>4, <2>6, <2>7 DEF IsSobol
  <2> QED
    BY <2>8 DEF r
<1>3. EachStep(read_sobol_martinez, EachStep(save_sobol_martinez, d.sobol_indices)) =
         [t \in DOMAIN d.sobol_indices |->
             read_sobol_martinez(save_sobol_martinez(d.sobol_indices[t]))]
  BY DEF EachStep
<1> QED
  BY <1>2, <1>3 DEF SobolShape, FunctionOn

\* the data without what is only computed from the moments
WithoutThetas(d) ==
    [d EXCEPT !.moments = [t \in Steps |->
        [d.moments[t] EXCEPT !.theta = [k \in 2 .. max_order |-> Zero]]]]

\* What a restart reads is what was saved, but for the thetas.
LEMMA SavedIsRead ==
    ASSUME NEW d, DataShape(d)
    PROVE  read_saved_stats(melissa_alloc_data, save_stats(d)) = WithoutThetas(d)
<1> DEFINE f == save_stats(d)
           w == f.written
           a == melissa_alloc_data
           e == read_saved_stats(a, f)
           z == [k \in 2 .. max_order |-> Zero]
<1>1. f.exists /\ w = <<EachStep(save_moments, d.moments), EachStep(save_min_max, d.min_max),
                   EachOf(save_threshold, d.thresholds), EachOf(save_quantile, d.quantiles),
                   EachStep(save_sobol_martinez, d.sobol_indices), d.step_simu>>
  BY DEF save_stats
<1>2. /\ a.stats_init = TRUE
      /\ a.moments = [t \in Steps |-> init_moments(max_order)]
  BY DEF melissa_alloc_data
<1>3. e = [stats_init |-> TRUE, step_simu |-> w[6],
           moments    |-> [t \in Steps |-> read_moments(a.moments[t], w[1][t])],
           min_max    |-> EachStep(read_min_max, w[2]),
           thresholds |-> EachOf(read_threshold, w[3]),
           quantiles  |-> EachOf(read_quantile, w[4]),
           sobol_indices |-> EachStep(read_sobol_martinez, w[5])]
  BY <1>1, <1>2 DEF read_saved_stats
<1>4. ASSUME NEW t \in Steps
      PROVE  read_moments(a.moments[t], w[1][t]) = [d.moments[t] EXCEPT !.theta = z]
  <2> DEFINE mo == d.moments[t]
  <2>1. w[1][t] = save_moments(mo)
    BY <1>1 DEF EachStep, DataShape, MomentsShape, FunctionOn
  <2>2. a.moments[t] = init_moments(max_order)
    BY <1>2
  <2>3. IsMoments(mo)
    BY DEF DataShape, MomentsShape
  <2> HIDE DEF mo
  <2>4. read_moments(init_moments(max_order), save_moments(mo)) = [mo EXCEPT !.theta = z]
    <3> DEFINE g == [mo EXCEPT !.theta = z]
    <3>1. g = [mo EXCEPT !.theta = z]
      OBVIOUS
    <3> HIDE DEF g, z
    <3>2. g = [max_order |-> mo.max_order, m |-> mo.m, theta |-> z, increment |-> mo.increment]
      BY <2>3, <3>1 DEF IsMoments
    <3> QED
      BY <3>2 DEF g, z, read_moments, init_moments, save_moments
  <2> QED
    BY <2>1, <2>2, <2>4 DEF mo
<1>5. /\ EachStep(read_min_max, w[2]) = d.min_max
      /\ EachOf(read_threshold, w[3]) = d.thresholds
      /\ EachOf(read_quantile, w[4]) = d.quantiles
      /\ EachStep(read_sobol_martinez, w[5]) = d.sobol_indices
      /\ w[6] = d.step_simu
  BY <1>1, ThresholdsAreKept, QuantilesAreKept, ExtremesAreKept, IndicesAreKept DEF DataShape
<1>6. [t \in Steps |-> read_moments(a.moments[t], w[1][t])] =
         [t \in Steps |-> [d.moments[t] EXCEPT !.theta = z]]
  BY <1>4
<1> HIDE DEF w, a, e, z
<1>7. e = [d EXCEPT !.moments = [t \in Steps |-> [d.moments[t] EXCEPT !.theta = z]]]
  <2> DEFINE ms == [t \in Steps |-> [d.moments[t] EXCEPT !.theta = z]]
             g == [d EXCEPT !.moments = ms]
  <2>1. g = [d EXCEPT !.moments = ms]
    OBVIOUS
  <2>2. FunctionOn(Fields, d) /\ d.stats_init = TRUE
    BY DEF DataShape
  <2>3. FunctionOn(Fields, e)
    BY <1>3 DEF FunctionOn, Fields
  <2>4. e.moments = ms
    BY <1>3, <1>6
  <2> HIDE DEF ms, g
  <2>5. /\ FunctionOn(Fields, g) /\ g.moments = ms
        /\ \A x \in Fields \ {"moments"} : g[x] = d[x]
    BY <2>1, <2>2 DEF FunctionOn, Fields
  <2>6. /\ e.stats_init = TRUE /\ e.step_simu = d.step_simu /\ e.min_max = d.min_max
        /\ e.thresholds = d.thresholds /\ e.quantiles = d.quantiles
        /\ e.sobol_indices = d.sobol_indices
    BY <1>3, <1>5
  <2>7. \A x \in Fields : e[x] = g[x]
    BY <2>2, <2>4, <2>5, <2>6 DEF Fields
  <2> QED
    BY <2>3, <2>5, <2>7 DEF FunctionOn, ms, g
<1> QED
  BY <1>7 DEF WithoutThetas, e, a, z

\* What is saved agrees with the bits that are saved.
LEMMA SaveAgrees ==
    ASSUME NEW d, Agrees(d)
    PROVE  Agrees(read_saved_stats(melissa_alloc_data, save_stats(d)))
<1> DEFINE e == WithoutThetas(d)
           z == [k \in 2 .. max_order |-> Zero]
<1>0. DataShape(d)
  BY DEF Agrees
<1>1. /\ FunctionOn(Fields, e)
      /\ \A x \in Fields \ {"moments"} : e[x] = d[x]
      /\ e.moments = [t \in Steps |-> [d.moments[t] EXCEPT !.theta = z]]
  <2> DEFINE ms == [t \in Steps |-> [d.moments[t] EXCEPT !.theta = z]]
  <2>1. e = [d EXCEPT !.moments = ms]
    BY DEF WithoutThetas
  <2>2. FunctionOn(Fields, d)
    BY <1>0 DEF DataShape
  <2> HIDE DEF e, ms
  <2> QED
    BY <2>1, <2>2 DEF FunctionOn, Fields, ms
<1> HIDE DEF e, z
<1>2. /\ e.stats_init = TRUE /\ e.step_simu = d.step_simu /\ e.min_max = d.min_max
      /\ e.thresholds = d.thresholds /\ e.quantiles = d.quantiles
      /\ e.sobol_indices = d.sobol_indices
  BY <1>0, <1>1 DEF Fields, DataShape
<1>3. ASSUME NEW t \in Steps
      PROVE  /\ e.moments[t].increment = d.moments[t].increment
             /\ IsMoments(e.moments[t])
  <2> DEFINE mo == d.moments[t]
  <2>1. e.moments[t] = [mo EXCEPT !.theta = z]
    BY <1>1
  <2>2. IsMoments(mo)
    BY <1>0 DEF DataShape, MomentsShape
  <2> HIDE DEF mo
  <2>3. /\ [mo EXCEPT !.theta = z].increment = mo.increment
        /\ IsMoments([mo EXCEPT !.theta = z])
    BY <2>2 DEF IsMoments
  <2> QED
    BY <2>1, <2>3 DEF mo
<1>4. DataShape(e)
  <2>1. MomentsShape(e)
    BY <1>1, <1>3 DEF MomentsShape, FunctionOn
  <2> QED
    BY <1>0, <1>1, <1>2, <2>1 DEF DataShape, MinMaxShape, ThresholdShape, QuantileShape, SobolShape
<1>5. \A t : Received(e, t) = Received(d, t)
  BY <1>2 DEF Received
<1>6. CountsAgree(e) /\ ExtremesAgree(e)
  BY <1>2, <1>3, <1>5 DEF Agrees, CountsAgree, ExtremesAgree, Count, Above
<1>7. Agrees(e)
  BY <1>4, <1>6 DEF Agrees
<1> QED
  BY <1>0, <1>7, SavedIsRead DEF e

LEMMA PreparedAgrees ==
    ASSUME SInv, restart => file.exists
    PROVE  Agrees(Prepared)
<1>1. CASE data = NotInitialized
  <2>1. Prepared = melissa_init_data
    BY <1>1 DEF Prepared, NotInitialized
  <2>2. CASE restart
    BY <2>1, <2>2 DEF SInv, NoFile, melissa_init_data, Kept
  <2>3. CASE ~restart
    BY <2>1, <2>3, AllocIsEmpty DEF melissa_init_data, SInv
  <2> QED
    BY <2>2, <2>3
<1>2. CASE Agrees(data)
  BY <1>2 DEF Prepared, Agrees, DataShape
<1> QED
  BY <1>1, <1>2 DEF SInv

-----------------------------------------------------------------------------
(* One message.                                                              *)

\* The values that are above a threshold are counted.
LEMMA ThresholdCounts ==
    ASSUME NEW v \in Int, NEW x \in Int,
           NEW th \in [value : {Double(v)}, threshold_exceedance : Nat]
    PROVE  /\ update_threshold_exceedance(th, Double(x)) \in
                 [value : {Double(v)}, threshold_exceedance : Nat]
           /\ update_threshold_exceedance(th, Double(x)).threshold_exceedance =
                 th.threshold_exceedance + (IF x > v THEN 1 ELSE 0)
<1>1. Less(th.value, Double(x)) <=> x > v
  BY DEF Less, Double
<1> QED
  BY <1>1 DEF update_threshold_exceedance

UpdatedThresholds(d, t, y) ==
    [u \in DOMAIN d.thresholds |->
        IF u = t THEN [j \in DOMAIN d.thresholds[u] |->
                          update_threshold_exceedance(d.thresholds[u][j], y)]
        ELSE d.thresholds[u]]

LEMMA ThresholdsUpdated ==
    ASSUME options \in Options, NEW d, ThresholdShape(d), NEW t, NEW x \in Int,
           NEW e, e.thresholds = UpdatedThresholds(d, t, Double(x))
    PROVE  /\ ThresholdShape(e)
           /\ Op("threshold") => \A u \in Steps : \A j \in 1 .. options.nb_thresholds :
                  e.thresholds[u][j].threshold_exceedance =
                     d.thresholds[u][j].threshold_exceedance
                        + (IF u = t /\ x > Thresholds[j] THEN 1 ELSE 0)
<1>1. /\ DOMAIN d.thresholds = StepsOf("threshold")
      /\ FunctionOn(StepsOf("threshold"), e.thresholds)
  BY DEF ThresholdShape, FunctionOn, UpdatedThresholds
<1>2. ASSUME NEW u \in StepsOf("threshold")
      PROVE  /\ FunctionOn(1 .. options.nb_thresholds, e.thresholds[u])
             /\ \A j \in 1 .. options.nb_thresholds :
                   /\ e.thresholds[u][j] \in [value : {Double(Thresholds[j])},
                                              threshold_exceedance : Nat]
                   /\ e.thresholds[u][j].threshold_exceedance =
                         d.thresholds[u][j].threshold_exceedance
                            + (IF u = t /\ x > Thresholds[j] THEN 1 ELSE 0)
  <2>1. /\ FunctionOn(1 .. options.nb_thresholds, d.thresholds[u])
        /\ \A j \in 1 .. options.nb_thresholds :
              d.thresholds[u][j] \in [value : {Double(Thresholds[j])},
                                      threshold_exceedance : Nat]
    BY DEF ThresholdShape
  <2>2. CASE u = t
    <3>1. e.thresholds[u] = [j \in 1 .. options.nb_thresholds |->
                                update_threshold_exceedance(d.thresholds[u][j], Double(x))]
      BY <1>1, <2>1, <2>2 DEF FunctionOn, UpdatedThresholds
    <3>2. \A j \in 1 .. options.nb_thresholds : Thresholds[j] \in Int
      BY OptionTypes
    <3> QED
      <4>1. FunctionOn(1 .. options.nb_thresholds, e.thresholds[u])
        BY <3>1 DEF FunctionOn
      <4>2. ASSUME NEW j \in 1 .. options.nb_thresholds
            PROVE  /\ e.thresholds[u][j] \in [value : {Double(Thresholds[j])},
                                              threshold_exceedance : Nat]
                   /\ e.thresholds[u][j].threshold_exceedance =
                         d.thresholds[u][j].threshold_exceedance
                            + (IF x > Thresholds[j] THEN 1 ELSE 0)
        <5>1. e.thresholds[u][j] = update_threshold_exceedance(d.thresholds[u][j], Double(x))
          BY <3>1
        <5> QED
          BY <2>1, <3>2, <5>1, ThresholdCounts
      <4> QED
        BY <2>2, <4>1, <4>2
  <2>3. CASE u # t
    <3>1. e.thresholds[u] = d.thresholds[u]
      BY <1>1, <2>3 DEF UpdatedThresholds
    <3>2. \A j \in 1 .. options.nb_thresholds :
             d.thresholds[u][j].threshold_exceedance \in Nat
      BY <2>1
    <3> QED
      BY <2>1, <2>3, <3>1, <3>2
  <2> QED
    BY <2>2, <2>3
<1> QED
  BY <1>1, <1>2 DEF ThresholdShape, StepsOf

UpdatedQuantiles(d, t, n) ==
    [u \in DOMAIN d.quantiles |->
        IF u = t THEN [j \in DOMAIN d.quantiles[u] |->
                          increment_quantile(d.quantiles[u][j], n)]
        ELSE d.quantiles[u]]

LEMMA QuantilesUpdated ==
    ASSUME NEW d, QuantileShape(d), NEW t, NEW n,
           NEW e, e.quantiles = UpdatedQuantiles(d, t, n)
    PROVE  /\ QuantileShape(e)
           /\ Op("quantile") => \A u \in Steps : \A j \in 1 .. options.nb_quantiles :
                  d.quantiles[u][j].increment \in Int => e.quantiles[u][j].increment =
                     d.quantiles[u][j].increment + (IF u = t THEN 1 ELSE 0)
<1>1. /\ DOMAIN d.quantiles = StepsOf("quantile")
      /\ FunctionOn(StepsOf("quantile"), e.quantiles)
  BY DEF QuantileShape, FunctionOn, UpdatedQuantiles
<1>2. ASSUME NEW q, IsQuantile(q)
      PROVE  /\ increment_quantile(q, n).increment = q.increment + 1
             /\ IsQuantile(increment_quantile(q, n))
  <2> DEFINE i == q.increment + 1
             g == IF i > 1 THEN Plus(Rational(9 * (i - 1), 10 * (n - 1)), Rational(1, 10))
                  ELSE q.gamma
             new == increment_quantile(q, n)
  <2>1. new = [q EXCEPT !.increment = i, !.gamma = g]
    BY <1>2 DEF increment_quantile, IsQuantile
  <2> HIDE DEF g, i, new
  <2>2. new = [gamma |-> g, increment |-> i, alpha |-> q.alpha]
    BY <1>2, <2>1 DEF IsQuantile
  <2> QED
    BY <2>2 DEF IsQuantile, new, i
<1>3. ASSUME NEW u \in StepsOf("quantile")
      PROVE  /\ FunctionOn(1 .. options.nb_quantiles, e.quantiles[u])
             /\ \A j \in 1 .. options.nb_quantiles :
                   /\ IsQuantile(e.quantiles[u][j])
                   /\ d.quantiles[u][j].increment \in Int => e.quantiles[u][j].increment =
                         d.quantiles[u][j].increment + (IF u = t THEN 1 ELSE 0)
  <2>1. /\ FunctionOn(1 .. options.nb_quantiles, d.quantiles[u])
        /\ \A j \in 1 .. options.nb_quantiles : IsQuantile(d.quantiles[u][j])
    BY DEF QuantileShape
  <2>2. CASE u = t
    <3>1. e.quantiles[u] = [j \in 1 .. options.nb_quantiles |->
                               increment_quantile(d.quantiles[u][j], n)]
      BY <1>1, <2>1, <2>2 DEF FunctionOn, UpdatedQuantiles
    <3> QED
      <4>1. FunctionOn(1 .. options.nb_quantiles, e.quantiles[u])
        BY <3>1 DEF FunctionOn
      <4>2. \A j \in 1 .. options.nb_quantiles :
               e.quantiles[u][j] = increment_quantile(d.quantiles[u][j], n)
        BY <3>1
      <4> QED
        BY <1>2, <2>1, <2>2, <4>1, <4>2
  <2>3. CASE u # t
    BY <1>1, <2>1, <2>3 DEF UpdatedQuantiles
  <2> QED
    BY <2>2, <2>3
<1> QED
  BY <1>1, <1>3 DEF QuantileShape, StepsOf

UpdatedExtremes(d, t, y, s) ==
    [u \in DOMAIN d.min_max |->
        IF u = t THEN min_and_max(d.min_max[u], y, s) ELSE d.min_max[u]]

LEMMA ExtremesUpdated ==
    ASSUME NEW d, MinMaxShape(d), NEW t, NEW y, NEW s,
           NEW e, e.min_max = UpdatedExtremes(d, t, y, s)
    PROVE  /\ MinMaxShape(e)
           /\ Op("min_and_max") => \A u \in Steps : e.min_max[u] =
                  IF u = t THEN min_and_max(d.min_max[u], y, s) ELSE d.min_max[u]
<1>1. /\ DOMAIN d.min_max = StepsOf("min_and_max")
      /\ FunctionOn(StepsOf("min_and_max"), e.min_max)
  BY DEF MinMaxShape, FunctionOn, UpdatedExtremes
<1>2. \A mm : IsMinMax(mm) => IsMinMax(min_and_max(mm, y, s))
  BY DEF IsMinMax, min_and_max
<1> QED
  BY <1>1, <1>2 DEF MinMaxShape, StepsOf, UpdatedExtremes

UpdatedMoments(d, t, y) == [d.moments EXCEPT ![t] = increment_moments(@, y)]

LEMMA MomentsUpdated ==
    ASSUME NEW d, MomentsShape(d), NEW t, NEW y,
           NEW e, e.moments = UpdatedMoments(d, t, y)
    PROVE  /\ MomentsShape(e)
           /\ \A u \in Steps : \A c \in Int : d.moments[u].increment = c =>
                  e.moments[u].increment = IF u = t THEN c + 1 ELSE c
<1>1. DOMAIN d.moments = Steps /\ FunctionOn(Steps, e.moments)
  BY DEF MomentsShape, FunctionOn, UpdatedMoments
<1>2. ASSUME NEW mo, IsMoments(mo)
      PROVE  /\ increment_moments(mo, y).increment = mo.increment + 1
             /\ IsMoments(increment_moments(mo, y))
  <2> DEFINE n == mo.increment + 1
             m == [k \in DOMAIN mo.m |-> increment_moments_mean(mo.m[k], y, n, k)]
             th == [k \in DOMAIN mo.theta |-> IF n > 1 THEN Theta(m, k) ELSE mo.theta[k]]
  <2>1. increment_moments(mo, y) = [mo EXCEPT !.increment = n, !.m = m, !.theta = th]
    BY <1>2 DEF increment_moments, IsMoments
  <2> HIDE DEF m, th
  <2> QED
    BY <1>2, <2>1 DEF IsMoments
<1> QED
  BY <1>1, <1>2 DEF MomentsShape, UpdatedMoments

\* The parts of the data after a vector.
LEMMA UpdateParts ==
    ASSUME NEW d, FunctionOn(Fields, d), d.stats_init = TRUE,
           NEW t, NEW s, NEW y, NEW e, e = Update(d, t, s, y)
    PROVE  /\ FunctionOn(Fields, e) /\ e.stats_init = TRUE
           /\ e.step_simu = d.step_simu /\ e.sobol_indices = d.sobol_indices
           /\ e.moments = UpdatedMoments(d, t, y)
           /\ e.min_max = UpdatedExtremes(d, t, y, s)
           /\ e.thresholds = UpdatedThresholds(d, t, y)
           /\ e.quantiles = UpdatedQuantiles(d, t, options.sampling_size)
<1>1. e = [d EXCEPT !.moments = UpdatedMoments(d, t, y),
                    !.min_max = UpdatedExtremes(d, t, y, s),
                    !.thresholds = UpdatedThresholds(d, t, y),
                    !.quantiles = UpdatedQuantiles(d, t, options.sampling_size)]
  BY DEF Update, FunctionOn, Fields, UpdatedMoments, UpdatedExtremes,
         UpdatedThresholds, UpdatedQuantiles
<1> QED
  BY <1>1 DEF FunctionOn, Fields

\* A vector counts once in every statistic of its time step, and in no other.
LEMMA UpdateCounts ==
    ASSUME options \in Options, NEW d, DataShape(d), NEW t \in Steps, NEW s,
           NEW x \in Int, NEW e, e = Update(d, t, s, Double(x))
    PROVE  /\ DataShape(e)
           /\ e.step_simu = d.step_simu /\ e.sobol_indices = d.sobol_indices
           /\ Op("min_and_max") => \A u \in Steps : e.min_max[u] =
                  IF u = t THEN min_and_max(d.min_max[u], Double(x), s) ELSE d.min_max[u]
           /\ \A u \in Steps :
                 /\ d.moments[u].increment \in Int => e.moments[u].increment =
                       d.moments[u].increment + (IF u = t THEN 1 ELSE 0)
                 /\ Op("quantile") => \A j \in 1 .. options.nb_quantiles :
                       d.quantiles[u][j].increment \in Int => e.quantiles[u][j].increment =
                       d.quantiles[u][j].increment + (IF u = t THEN 1 ELSE 0)
                 /\ Op("threshold") => \A j \in 1 .. options.nb_thresholds :
                       e.thresholds[u][j].threshold_exceedance =
                       d.thresholds[u][j].threshold_exceedance
                          + (IF u = t /\ x > Thresholds[j] THEN 1 ELSE 0)
<1> DEFINE y == Double(x)
           n == options.sampling_size
<1>0. e = Update(d, t, s, y)
  OBVIOUS
<1> HIDE DEF y
<1>2. /\ FunctionOn(Fields, e) /\ e.stats_init = TRUE
      /\ e.step_simu = d.step_simu /\ e.sobol_indices = d.sobol_indices
      /\ e.moments = UpdatedMoments(d, t, y)
      /\ e.min_max = UpdatedExtremes(d, t, y, s)
      /\ e.thresholds = UpdatedThresholds(d, t, y)
      /\ e.quantiles = UpdatedQuantiles(d, t, n)
  BY <1>0, UpdateParts DEF DataShape
<1>3. e.step_simu = d.step_simu /\ e.sobol_indices = d.sobol_indices
  BY <1>2
<1>4. MomentsShape(d) /\ MinMaxShape(d) /\ ThresholdShape(d) /\ QuantileShape(d) /\ SobolShape(d)
  BY DEF DataShape
<1>5. /\ MomentsShape(e)
      /\ \A u \in Steps : d.moments[u].increment \in Int => e.moments[u].increment =
            d.moments[u].increment + (IF u = t THEN 1 ELSE 0)
  <2>1. MomentsShape(d) /\ e.moments = UpdatedMoments(d, t, y)
    BY <1>2, <1>4
  <2>2. MomentsShape(e)
    BY <2>1, MomentsUpdated
  <2>3. ASSUME NEW u \in Steps, d.moments[u].increment \in Int
        PROVE  e.moments[u].increment = d.moments[u].increment + (IF u = t THEN 1 ELSE 0)
    <3> DEFINE c == d.moments[u].increment
    <3>1. e.moments[u].increment = IF u = t THEN c + 1 ELSE c
      BY <2>1, <2>3, MomentsUpdated
    <3> HIDE DEF c
    <3>2. c \in Int
      BY <2>3 DEF c
    <3>3. (IF u = t THEN c + 1 ELSE c) = c + (IF u = t THEN 1 ELSE 0)
      BY <3>2
    <3> QED
      BY <3>1, <3>3 DEF c
  <2> QED
    BY <2>2, <2>3
<1>6. /\ MinMaxShape(e)
      /\ Op("min_and_max") => \A u \in Steps : e.min_max[u] =
            IF u = t THEN min_and_max(d.min_max[u], y, s) ELSE d.min_max[u]
  BY <1>2, <1>4, ExtremesUpdated
<1>7. /\ ThresholdShape(e)
      /\ Op("threshold") => \A u \in Steps : \A j \in 1 .. options.nb_thresholds :
            e.thresholds[u][j].threshold_exceedance =
               d.thresholds[u][j].threshold_exceedance
                  + (IF u = t /\ x > Thresholds[j] THEN 1 ELSE 0)
  <2>1. ThresholdShape(d) /\ e.thresholds = UpdatedThresholds(d, t, Double(x))
    BY <1>2, <1>4 DEF y
  <2>2. ThresholdShape(e)
    BY <2>1, ThresholdsUpdated
  <2>3. ASSUME Op("threshold"), NEW u \in Steps, NEW j \in 1 .. options.nb_thresholds
        PROVE  e.thresholds[u][j].threshold_exceedance =
                  d.thresholds[u][j].threshold_exceedance
                     + (IF u = t /\ x > Thresholds[j] THEN 1 ELSE 0)
    BY <2>1, <2>3, ThresholdsUpdated
  <2> QED
    BY <2>2, <2>3
<1>8. /\ QuantileShape(e)
      /\ Op("quantile") => \A u \in Steps : \A j \in 1 .. options.nb_quantiles :
            d.quantiles[u][j].increment \in Int => e.quantiles[u][j].increment =
               d.quantiles[u][j].increment + (IF u = t THEN 1 ELSE 0)
  BY <1>2, <1>4, QuantilesUpdated
<1>9. SobolShape(e)
  BY <1>3, <1>4 DEF SobolShape
<1>10. DataShape(e)
  BY <1>2, <1>3, <1>5, <1>6, <1>7, <1>8, <1>9 DEF DataShape
<1> QED
  BY <1>3, <1>5, <1>6, <1>7, <1>8, <1>10 DEF y

\* A vector of each run counts once in each part of the Sobol' indices.
LEMMA SobolStep ==
    ASSUME NEW so, NEW k \in Nat, NEW x, SobolCounts(so, k), IsSobol(so),
           NEW new, new = increment_sobol_martinez(so, x)
    PROVE  SobolCounts(new, k + 1) /\ IsSobol(new)
<1>1. ASSUME NEW v, NEW y
      PROVE  /\ increment_variance(v, y).mean_structure.increment =
                   v.mean_structure.increment + 1
             /\ IsVariance(increment_variance(v, y))
  BY DEF increment_variance, increment_mean, IsVariance
<1>2. /\ new.variance_a = increment_variance(so.variance_a, x[1])
      /\ new.variance_b = increment_variance(so.variance_b, x[2])
      /\ new.iteration = so.iteration + 1
      /\ DOMAIN new.sobol_martinez = DOMAIN so.sobol_martinez
      /\ new.sobol_martinez = [i \in DOMAIN so.sobol_martinez |-> new.sobol_martinez[i]]
      /\ \A i \in DOMAIN so.sobol_martinez :
            /\ new.sobol_martinez[i].variance_k =
                  increment_variance(so.sobol_martinez[i].variance_k, x[i + 2])
            /\ new.sobol_martinez[i] =
                  [first_order_covariance |-> new.sobol_martinez[i].first_order_covariance,
                   total_order_covariance |-> new.sobol_martinez[i].total_order_covariance,
                   variance_k |-> new.sobol_martinez[i].variance_k,
                   first_order_values |-> new.sobol_martinez[i].first_order_values,
                   total_order_values |-> new.sobol_martinez[i].total_order_values]
      /\ new = [sobol_martinez |-> new.sobol_martinez, variance_a |-> new.variance_a,
                variance_b |-> new.variance_b, iteration |-> new.iteration]
  BY DEF increment_sobol_martinez
<1>3. DOMAIN so.sobol_martinez = 1 .. options.nb_parameters
  BY DEF IsSobol, FunctionOn
<1>4. /\ new.variance_a.mean_structure.increment = k + 1
      /\ new.variance_b.mean_structure.increment = k + 1
      /\ IsVariance(new.variance_a) /\ IsVariance(new.variance_b)
  BY <1>1, <1>2 DEF SobolCounts
<1>5. ASSUME NEW i \in 1 .. options.nb_parameters
      PROVE  /\ new.sobol_martinez[i].variance_k.mean_structure.increment = k + 1
             /\ IsMartinez(new.sobol_martinez[i])
  BY <1>1, <1>2, <1>3 DEF SobolCounts, IsMartinez
<1>6. SobolCounts(new, k + 1)
  BY <1>2, <1>4, <1>5 DEF SobolCounts
<1>7. IsSobol(new)
  BY <1>2, <1>3, <1>4, <1>5 DEF IsSobol, FunctionOn
<1> QED
  BY <1>6, <1>7

\* how much a message adds to the exceedances of threshold j
Exceeds(s, t, k, j) == IF Value[s][t][k] > Thresholds[j] THEN 1 ELSE 0
Adds(s, t, j) == Exceeds(s, t, 1, j) + (IF Op("sobol") THEN Exceeds(s, t, 2, j) ELSE 0)

LEMMA AboveGrows ==
    ASSUME options \in Options, NEW d, NEW n, NEW s, NEW t, NEW j,
           IsFiniteSet(Received(d, t)), s \notin Received(d, t),
           Received(n, t) = Received(d, t) \cup {s}
    PROVE  Cardinality(Above(n, t, j)) = Cardinality(Above(d, t, j)) + Adds(s, t, j)
<1> DEFINE A == Above(d, t, j)
           B == IF Exceeds(s, t, 1, j) = 1 THEN A \cup {<<s, 1>>} ELSE A
           C == IF Op("sobol") /\ Exceeds(s, t, 2, j) = 1 THEN B \cup {<<s, 2>>} ELSE B
<1>1. IsFiniteSet(A)
  <2>1. IsFiniteSet(1 .. Width)
    BY WidthIs, FS_Interval
  <2>2. IsFiniteSet(Received(d, t) \X (1 .. Width))
    BY <2>1, FS_Product
  <2> QED
    BY <2>2, FS_Subset DEF Above
<1>2. <<s, 1>> \notin A /\ <<s, 2>> \notin A
  BY DEF Above
<1>3. C = Above(n, t, j)
  <2>1. \A k \in {1, 2} : Outcome(t, <<s, k>>) = Value[s][t][k]
    BY DEF Outcome
  <2>2. ASSUME NEW i
        PROVE  i \in Above(n, t, j) <=> i \in C
    <3>1. CASE i \in A
      BY <3>1 DEF Above
    <3>2. CASE i \notin A
      <4>1. i \in Above(n, t, j) <=> \E k \in 1 .. Width : i = <<s, k>> /\ Outcome(t, i) > Thresholds[j]
        BY <3>2 DEF Above
      <4>2. \A k : k \in 1 .. Width <=> k = 1 \/ (k = 2 /\ Op("sobol"))
        <5>1. CASE Width = 1
          BY <5>1, WidthIs
        <5>2. CASE Width = 2
          BY <5>2, WidthIs
        <5> QED
          BY <5>1, <5>2, WidthIs
      <4>3. i \in C <=> \/ i = <<s, 1>> /\ Exceeds(s, t, 1, j) = 1
                        \/ i = <<s, 2>> /\ Op("sobol") /\ Exceeds(s, t, 2, j) = 1
        BY <3>2
      <4>4. i \in Above(n, t, j) <=>
               \/ i = <<s, 1>> /\ Outcome(t, i) > Thresholds[j]
               \/ i = <<s, 2>> /\ Op("sobol") /\ Outcome(t, i) > Thresholds[j]
        BY <4>1, <4>2, Zenon
      <4>5. \A k \in {1, 2} : Exceeds(s, t, k, j) = 1 <=> Outcome(t, <<s, k>>) > Thresholds[j]
        BY <2>1 DEF Exceeds
      <4> QED
        BY <4>3, <4>4, <4>5
    <3> QED
      BY <3>1, <3>2
  <2> QED
    BY <2>2
<1> HIDE DEF A
<1>4. /\ IsFiniteSet(B) /\ Cardinality(A) \in Nat /\ <<s, 2>> \notin B
      /\ Cardinality(B) = Cardinality(A) + Exceeds(s, t, 1, j)
  BY <1>1, <1>2, FS_AddElement, FS_CardinalityType DEF Exceeds
<1> HIDE DEF B
<1>5. Cardinality(C) = Cardinality(B) + (IF Op("sobol") THEN Exceeds(s, t, 2, j) ELSE 0)
  <2>1. Cardinality(B) \in Nat
    BY <1>4, FS_CardinalityType
  <2>2. Exceeds(s, t, 2, j) \in {0, 1}
    BY DEF Exceeds
  <2>3. CASE Op("sobol") /\ Exceeds(s, t, 2, j) = 1
    <3>1. C = B \cup {<<s, 2>>}
      BY <2>3
    <3>2. Cardinality(C) = Cardinality(B) + 1
      BY <1>4, <3>1, FS_AddElement
    <3> QED
      BY <2>3, <3>2
  <2>4. CASE ~(Op("sobol") /\ Exceeds(s, t, 2, j) = 1)
    <3>1. C = B
      BY <2>4
    <3>2. (IF Op("sobol") THEN Exceeds(s, t, 2, j) ELSE 0) = 0
      BY <2>2, <2>4
    <3> QED
      BY <2>1, <3>1, <3>2
  <2> QED
    BY <2>3, <2>4
<1>6. Cardinality(C) = Cardinality(A) + Adds(s, t, j)
  BY <1>4, <1>5 DEF Adds, Exceeds
<1> QED
  BY <1>3, <1>6 DEF A

\* What the vectors of a message add to the counters of its time step.
WithOutputs(mm, s, t) ==
    LET one == min_and_max(mm, Double(Value[s][t][1]), s) IN
    IF Op("sobol") THEN min_and_max(one, Double(Value[s][t][2]), s) ELSE one

LEMMA ComputeCounts ==
    ASSUME options \in Options, NEW d, DataShape(d), CountsAgree(d),
           NEW s \in Simulations, NEW t \in Steps,
           NEW m, m = compute_stats(d, t, s, Output(s, t))
    PROVE  /\ DataShape(m)
           /\ m.step_simu = d.step_simu
           /\ Op("min_and_max") => \A u \in Steps : m.min_max[u] =
                  IF u = t THEN WithOutputs(d.min_max[u], s, t) ELSE d.min_max[u]
           /\ \A u \in Steps :
                 /\ m.moments[u].increment =
                       d.moments[u].increment + (IF u = t THEN Width ELSE 0)
                 /\ Op("quantile") => \A j \in 1 .. options.nb_quantiles :
                       m.quantiles[u][j].increment =
                       d.quantiles[u][j].increment + (IF u = t THEN Width ELSE 0)
                 /\ Op("threshold") => \A j \in 1 .. options.nb_thresholds :
                       m.thresholds[u][j].threshold_exceedance =
                       d.thresholds[u][j].threshold_exceedance
                          + (IF u = t THEN Adds(s, t, j) ELSE 0)
                 /\ Op("sobol") => SobolCounts(m.sobol_indices[u],
                                       Count(d, u) + (IF u = t THEN 1 ELSE 0))
<1> DEFINE v(k) == Value[s][t][k]
           x == Output(s, t)
           da == Update(d, t, s, x[1])
           ds == [da EXCEPT !.sobol_indices[t] = increment_sobol_martinez(@, x)]
<1>1. /\ v(1) \in Int /\ v(2) \in Int
      /\ x[1] = Double(v(1)) /\ x[2] = Double(v(2))
  <2>1. Value[s][t] \in Seq(Int) /\ Len(Value[s][t]) \in Nat /\ Len(Value[s][t]) >= 2
    <3>1. /\ Value[s][t] \in Seq(Int) /\ Len(Value[s][t]) >= 2 + options.nb_parameters
          /\ options.nb_parameters \in Nat
      BY OptionTypes
    <3>2. Len(Value[s][t]) \in Nat
      BY <3>1
    <3> QED
      BY <3>1, <3>2
  <2>2. 1 \in DOMAIN Value[s][t] /\ 2 \in DOMAIN Value[s][t]
    BY <2>1
  <2> QED
    BY <2>1, <2>2 DEF Output
<1>2. m = IF Op("sobol") THEN Update(ds, t, s, x[2]) ELSE da
  BY DEF compute_stats
<1> HIDE DEF x
<1>3. \A u \in Steps : Count(d, u) \in Nat
  BY ReceivedIsFinite DEF DataShape
<1>4. ASSUME NEW u \in Steps
      PROVE  /\ d.moments[u].increment \in Int
             /\ Op("quantile") => \A j \in 1 .. options.nb_quantiles :
                    d.quantiles[u][j].increment \in Int
             /\ Op("threshold") => \A j \in 1 .. options.nb_thresholds :
                    d.thresholds[u][j].threshold_exceedance \in Nat
  <2>1. Width * Count(d, u) \in Int
    BY <1>3, WidthIs
  <2>2. Op("threshold") => \A j \in 1 .. options.nb_thresholds :
           d.thresholds[u][j].threshold_exceedance \in Nat
    BY DEF DataShape, ThresholdShape, StepsOf
  <2> QED
    BY <2>1, <2>2 DEF CountsAgree
<1>5. da = Update(d, t, s, Double(v(1)))
  BY <1>1
<1> HIDE DEF da
<1>6. /\ DataShape(da)
      /\ da.step_simu = d.step_simu /\ da.sobol_indices = d.sobol_indices
      /\ Op("min_and_max") => \A u \in Steps : da.min_max[u] =
            IF u = t THEN min_and_max(d.min_max[u], Double(v(1)), s) ELSE d.min_max[u]
      /\ \A u \in Steps :
            /\ d.moments[u].increment \in Int => da.moments[u].increment =
                  d.moments[u].increment + (IF u = t THEN 1 ELSE 0)
            /\ Op("quantile") => \A j \in 1 .. options.nb_quantiles :
                  d.quantiles[u][j].increment \in Int => da.quantiles[u][j].increment =
                  d.quantiles[u][j].increment + (IF u = t THEN 1 ELSE 0)
            /\ Op("threshold") => \A j \in 1 .. options.nb_thresholds :
                  da.thresholds[u][j].threshold_exceedance =
                  d.thresholds[u][j].threshold_exceedance
                     + (IF u = t /\ v(1) > Thresholds[j] THEN 1 ELSE 0)
  BY <1>1, <1>5, UpdateCounts
<1> HIDE DEF v
<1>7. CASE ~Op("sobol")
  <2>1. m = da /\ Width = 1
    BY <1>2, <1>7 DEF Width
  <2>2. ASSUME NEW j \in 1 .. options.nb_thresholds
        PROVE  Adds(s, t, j) = IF v(1) > Thresholds[j] THEN 1 ELSE 0
    BY <1>7 DEF Adds, Exceeds, v
  <2>3. Op("min_and_max") => \A u \in Steps : m.min_max[u] =
           IF u = t THEN WithOutputs(d.min_max[u], s, t) ELSE d.min_max[u]
    BY <1>6, <1>7, <2>1 DEF WithOutputs, v
  <2> QED
    BY <1>4, <1>6, <1>7, <2>1, <2>2, <2>3
<1>8. CASE Op("sobol")
  <2>1. m = Update(ds, t, s, Double(v(2))) /\ Width = 2
    BY <1>1, <1>2, <1>8 DEF Width
  <2>2. /\ FunctionOn(Steps, da.sobol_indices)
        /\ \A u \in Steps : IsSobol(da.sobol_indices[u])
    BY <1>6, <1>8 DEF DataShape, SobolShape, StepsOf
  <2>30. FunctionOn(Fields, da) /\ da.stats_init = TRUE
    BY <1>6 DEF DataShape
  <2>3. /\ FunctionOn(Fields, ds) /\ ds.stats_init = TRUE
        /\ ds.sobol_indices = [da.sobol_indices EXCEPT ![t] = increment_sobol_martinez(@, x)]
    BY <2>30 DEF FunctionOn, Fields
  <2>31. /\ ds.step_simu = da.step_simu /\ ds.moments = da.moments /\ ds.min_max = da.min_max
         /\ ds.thresholds = da.thresholds /\ ds.quantiles = da.quantiles
    BY <2>30 DEF FunctionOn, Fields
  <2> HIDE DEF ds
  <2>4. ASSUME NEW u \in Steps
        PROVE  /\ SobolCounts(ds.sobol_indices[u], Count(d, u) + (IF u = t THEN 1 ELSE 0))
               /\ IsSobol(ds.sobol_indices[u])
    <3> DEFINE so == da.sobol_indices[u]
    <3>1. SobolCounts(so, Count(d, u))
      BY <1>6, <1>8 DEF CountsAgree
    <3>2. IsSobol(so)
      BY <2>2
    <3>3. CASE u = t
      <4>1. ds.sobol_indices[u] = increment_sobol_martinez(so, x)
        BY <2>2, <2>3, <3>3 DEF FunctionOn
      <4> HIDE DEF so
      <4>2. SobolCounts(ds.sobol_indices[u], Count(d, u) + 1)
        BY <1>3, <3>1, <3>2, <4>1, SobolStep
      <4>3. IsSobol(ds.sobol_indices[u])
        BY <1>3, <3>1, <3>2, <4>1, SobolStep
      <4> QED
        BY <3>3, <4>2, <4>3
    <3>4. CASE u # t
      <4>1. ds.sobol_indices[u] = so
        BY <2>2, <2>3, <3>4 DEF FunctionOn
      <4>2. Count(d, u) + (IF u = t THEN 1 ELSE 0) = Count(d, u)
        BY <1>3, <3>4
      <4> HIDE DEF so
      <4> QED
        BY <3>1, <3>2, <4>1, <4>2
    <3> QED
      BY <3>3, <3>4
  <2>5. DataShape(ds)
    <3>1. FunctionOn(Steps, ds.sobol_indices)
      BY <2>2, <2>3 DEF FunctionOn
    <3>2. SobolShape(ds)
      BY <1>8, <2>4, <3>1 DEF SobolShape, StepsOf
    <3> QED
      BY <1>6, <2>3, <2>31, <3>2 DEF DataShape, MomentsShape, MinMaxShape, ThresholdShape,
                                     QuantileShape
  <2>6. /\ DataShape(m)
        /\ m.step_simu = ds.step_simu /\ m.sobol_indices = ds.sobol_indices
        /\ Op("min_and_max") => \A u \in Steps : m.min_max[u] =
              IF u = t THEN min_and_max(ds.min_max[u], Double(v(2)), s) ELSE ds.min_max[u]
        /\ \A u \in Steps :
              /\ ds.moments[u].increment \in Int => m.moments[u].increment =
                    ds.moments[u].increment + (IF u = t THEN 1 ELSE 0)
              /\ Op("quantile") => \A j \in 1 .. options.nb_quantiles :
                    ds.quantiles[u][j].increment \in Int => m.quantiles[u][j].increment =
                    ds.quantiles[u][j].increment + (IF u = t THEN 1 ELSE 0)
              /\ Op("threshold") => \A j \in 1 .. options.nb_thresholds :
                    m.thresholds[u][j].threshold_exceedance =
                    ds.thresholds[u][j].threshold_exceedance
                       + (IF u = t /\ v(2) > Thresholds[j] THEN 1 ELSE 0)
    BY <1>1, <2>1, <2>5, UpdateCounts
  <2>7. ASSUME NEW j
        PROVE  Adds(s, t, j) = (IF v(1) > Thresholds[j] THEN 1 ELSE 0)
                               + (IF v(2) > Thresholds[j] THEN 1 ELSE 0)
    BY <1>8 DEF Adds, Exceeds, v
  <2>8. ASSUME NEW u \in Steps
        PROVE  m.moments[u].increment = d.moments[u].increment + (IF u = t THEN Width ELSE 0)
    BY <1>4, <1>6, <2>1, <2>31, <2>6
  <2>9. ASSUME NEW u \in Steps, Op("quantile"), NEW j \in 1 .. options.nb_quantiles
        PROVE  m.quantiles[u][j].increment =
                  d.quantiles[u][j].increment + (IF u = t THEN Width ELSE 0)
    BY <1>4, <1>6, <2>1, <2>31, <2>6, <2>9
  <2>10. ASSUME NEW u \in Steps, Op("threshold"), NEW j \in 1 .. options.nb_thresholds
         PROVE  m.thresholds[u][j].threshold_exceedance =
                  d.thresholds[u][j].threshold_exceedance
                     + (IF u = t THEN Adds(s, t, j) ELSE 0)
    BY <1>4, <1>6, <2>31, <2>6, <2>7, <2>10
  <2>11. m.step_simu = d.step_simu
    BY <1>6, <2>31, <2>6
  <2>12. ASSUME NEW u \in Steps
         PROVE  SobolCounts(m.sobol_indices[u], Count(d, u) + (IF u = t THEN 1 ELSE 0))
    BY <2>4, <2>6
  <2>13. Op("min_and_max") => \A u \in Steps : m.min_max[u] =
            IF u = t THEN WithOutputs(d.min_max[u], s, t) ELSE d.min_max[u]
    BY <1>6, <1>8, <2>31, <2>6 DEF WithOutputs, v
  <2> QED
    BY <2>6, <2>8, <2>9, <2>10, <2>11, <2>12, <2>13
<1> QED
  BY <1>7, <1>8

\* A value that is compared with the extremes of others leaves those of all.
LEMMA ExtremesStep ==
    ASSUME NEW mm, IsMinMax(mm), NEW S, NEW t, ExtremesOf(mm, S, t),
           NEW i, Outcome(t, i) \in Int, \A j \in S : Outcome(t, j) \in Int,
           NEW n, n = min_and_max(mm, Double(Outcome(t, i)), i[1])
    PROVE  ExtremesOf(n, S \cup {i}, t)
<1> DEFINE x == Outcome(t, i)
<1>1. Double(x).num = x
  BY DEF Double
<1>2. CASE S = {}
  <2>1. n = [min |-> Double(x), max |-> Double(x), min_id |-> mm.min_id, max_id |-> mm.max_id,
             is_init |-> TRUE]
    BY <1>2 DEF min_and_max, IsMinMax, ExtremesOf
  <2>2. /\ n.min = Double(x) /\ n.max = Double(x) /\ n.is_init = TRUE
        /\ n.min_id = mm.min_id /\ n.max_id = mm.max_id
    BY <2>1
  <2>3. S \cup {i} = {i} /\ x \in Int
    BY <1>2
  <2>4. \A low \in BOOLEAN : IsExtreme(low, Double(x), 0, {i}, t)
    BY <1>1, <2>3 DEF IsExtreme
  <2> QED
    BY <1>2, <2>2, <2>3, <2>4 DEF ExtremesOf
<1>3. CASE S # {}
  <2>1. /\ mm.is_init = TRUE
        /\ IsExtreme(TRUE, mm.min, mm.min_id, S, t)
        /\ IsExtreme(FALSE, mm.max, mm.max_id, S, t)
    BY <1>3 DEF ExtremesOf
  <2>2. n = [min    |-> IF Less(Double(x), mm.min) THEN Double(x) ELSE mm.min,
             max    |-> IF Less(mm.max, Double(x)) THEN Double(x) ELSE mm.max,
             min_id |-> IF Less(Double(x), mm.min) THEN i[1] ELSE mm.min_id,
             max_id |-> IF Less(mm.max, Double(x)) THEN i[1] ELSE mm.max_id,
             is_init |-> TRUE]
    BY <2>1 DEF min_and_max, IsMinMax
  <2>3. PICK a \in S : mm.min = Double(Outcome(t, a))
    BY <2>1 DEF IsExtreme
  <2>4. PICK b \in S : mm.max = Double(Outcome(t, b))
    BY <2>1 DEF IsExtreme
  <2>5. /\ Less(Double(x), mm.min) <=> x < Outcome(t, a)
        /\ Less(mm.max, Double(x)) <=> Outcome(t, b) < x
        /\ mm.min.num = Outcome(t, a) /\ mm.max.num = Outcome(t, b)
        /\ Outcome(t, a) \in Int /\ Outcome(t, b) \in Int
    BY <2>3, <2>4 DEF Less, Double
  <2>6. IsExtreme(TRUE, n.min, n.min_id, S \cup {i}, t)
    <3>1. CASE x < Outcome(t, a)
      BY <1>1, <2>1, <2>2, <2>5, <3>1 DEF IsExtreme
    <3>2. CASE ~(x < Outcome(t, a))
      <4>1. n.min = mm.min /\ n.min_id = mm.min_id
        BY <2>2, <2>5, <3>2
      <4>2. mm.min.num <= Outcome(t, i)
        BY <2>5, <3>2
      <4> QED
        BY <2>1, <4>1, <4>2 DEF IsExtreme
    <3> QED
      BY <3>1, <3>2
  <2>7. IsExtreme(FALSE, n.max, n.max_id, S \cup {i}, t)
    <3>1. CASE Outcome(t, b) < x
      BY <1>1, <2>1, <2>2, <2>5, <3>1 DEF IsExtreme
    <3>2. CASE ~(Outcome(t, b) < x)
      <4>1. n.max = mm.max /\ n.max_id = mm.max_id
        BY <2>2, <2>5, <3>2
      <4>2. mm.max.num >= Outcome(t, i)
        BY <2>5, <3>2
      <4> QED
        BY <2>1, <4>1, <4>2 DEF IsExtreme
    <3> QED
      BY <3>1, <3>2
  <2>8. n.is_init = TRUE
    BY <2>2
  <2> QED
    BY <2>6, <2>7, <2>8 DEF ExtremesOf
<1> QED
  BY <1>2, <1>3

LEMMA OutcomesAreIntegers ==
    ASSUME options \in Options
    PROVE  \A t \in Steps : \A i \in Simulations \X {1, 2} : Outcome(t, i) \in Int
<1>1. ASSUME NEW t \in Steps, NEW s \in Simulations, NEW k \in {1, 2}
      PROVE  Value[s][t][k] \in Int
  <2>1. Value[s][t] \in Seq(Int) /\ Len(Value[s][t]) >= 2 + options.nb_parameters
        /\ options.nb_parameters \in Nat
    BY OptionTypes
  <2>2. k \in 1 .. Len(Value[s][t])
    BY <2>1
  <2> QED
    BY <2>1, <2>2
<1> QED
  BY <1>1 DEF Outcome

\* What the outputs of a message leave of the extremes of its time step.
LEMMA MessageExtremes ==
    ASSUME options \in Options, NEW mm, IsMinMax(mm), NEW s \in Simulations, NEW t \in Steps,
           NEW R \in SUBSET Simulations, ExtremesOf(mm, R \X (1 .. Width), t)
    PROVE  ExtremesOf(WithOutputs(mm, s, t), (R \cup {s}) \X (1 .. Width), t)
<1> DEFINE S == R \X (1 .. Width)
           one == min_and_max(mm, Double(Value[s][t][1]), s)
<1>1. \A k : Outcome(t, <<s, k>>) = Value[s][t][k] /\ <<s, k>>[1] = s
  BY DEF Outcome
<1>2. \A j \in Simulations \X {1, 2} : Outcome(t, j) \in Int
  BY OutcomesAreIntegers
<1>3. 1 .. Width = IF Op("sobol") THEN {1, 2} ELSE {1}
  <2>1. 1 .. 1 = {1} /\ 1 .. 2 = {1, 2}
    OBVIOUS
  <2> QED
    BY <2>1 DEF Width
<1>4. \A j \in S : Outcome(t, j) \in Int
  BY <1>2, <1>3
<1>5. ExtremesOf(one, S \cup {<<s, 1>>}, t)
  <2>1. Outcome(t, <<s, 1>>) \in Int
    BY <1>2
  <2>2. one = min_and_max(mm, Double(Outcome(t, <<s, 1>>)), <<s, 1>>[1])
    BY <1>1
  <2> HIDE DEF one, S
  <2> QED
    BY <1>4, <2>1, <2>2, ExtremesStep DEF S
<1>6. IsMinMax(one)
  BY DEF min_and_max, IsMinMax
<1>7. CASE ~Op("sobol")
  <2>1. (R \cup {s}) \X (1 .. Width) = S \cup {<<s, 1>>}
    BY <1>3, <1>7
  <2> QED
    BY <1>5, <1>7, <2>1 DEF WithOutputs
<1>8. CASE Op("sobol")
  <2>1. (R \cup {s}) \X (1 .. Width) = (S \cup {<<s, 1>>}) \cup {<<s, 2>>}
    BY <1>3, <1>8
  <2>2. \A j \in S \cup {<<s, 1>>} : Outcome(t, j) \in Int
    BY <1>2, <1>4
  <2>3. Outcome(t, <<s, 2>>) \in Int
    BY <1>2
  <2>4. WithOutputs(mm, s, t) = min_and_max(one, Double(Outcome(t, <<s, 2>>)), <<s, 2>>[1])
    BY <1>1, <1>8 DEF WithOutputs
  <2> HIDE DEF one, S
  <2>5. ExtremesOf(WithOutputs(mm, s, t), (S \cup {<<s, 1>>}) \cup {<<s, 2>>}, t)
    BY <1>5, <1>6, <2>2, <2>3, <2>4, ExtremesStep
  <2> QED
    BY <2>1, <2>5
<1> QED
  BY <1>7, <1>8

\* A message keeps the counters and the extremes in step with the bits.
LEMMA MessageCounts ==
    ASSUME options \in Options, NEW d, Agrees(d),
           NEW s \in Simulations, NEW t \in Steps, t \notin d.step_simu[s],
           NEW n, n = [compute_stats(d, t, s, Output(s, t)) EXCEPT
                          !.step_simu[s] = @ \cup {t}]
    PROVE  Agrees(n)
<1> DEFINE m == compute_stats(d, t, s, Output(s, t))
<1>1. /\ DataShape(m)
      /\ m.step_simu = d.step_simu
      /\ Op("min_and_max") => \A u \in Steps : m.min_max[u] =
            IF u = t THEN WithOutputs(d.min_max[u], s, t) ELSE d.min_max[u]
      /\ \A u \in Steps :
            /\ m.moments[u].increment =
                  d.moments[u].increment + (IF u = t THEN Width ELSE 0)
            /\ Op("quantile") => \A j \in 1 .. options.nb_quantiles :
                  m.quantiles[u][j].increment =
                  d.quantiles[u][j].increment + (IF u = t THEN Width ELSE 0)
            /\ Op("threshold") => \A j \in 1 .. options.nb_thresholds :
                  m.thresholds[u][j].threshold_exceedance =
                  d.thresholds[u][j].threshold_exceedance
                     + (IF u = t THEN Adds(s, t, j) ELSE 0)
            /\ Op("sobol") => SobolCounts(m.sobol_indices[u],
                                  Count(d, u) + (IF u = t THEN 1 ELSE 0))
  BY ComputeCounts DEF Agrees
<1>2. n = [m EXCEPT !.step_simu[s] = @ \cup {t}]
  OBVIOUS
<1> HIDE DEF m
<1>3. m.step_simu \in [Simulations -> SUBSET Steps]
  BY <1>1 DEF DataShape
<1>4. /\ FunctionOn(Fields, n) /\ n.stats_init = TRUE
      /\ n.step_simu = [d.step_simu EXCEPT ![s] = @ \cup {t}]
      /\ n.moments = m.moments /\ n.min_max = m.min_max /\ n.thresholds = m.thresholds
      /\ n.quantiles = m.quantiles /\ n.sobol_indices = m.sobol_indices
  <2>1. FunctionOn(Fields, m) /\ m.stats_init = TRUE
    BY <1>1 DEF DataShape
  <2> QED
    BY <1>1, <1>2, <2>1 DEF FunctionOn, Fields
<1>5. d.step_simu \in [Simulations -> SUBSET Steps]
  BY <1>1, <1>3
<1>6. n.step_simu \in [Simulations -> SUBSET Steps]
  <2> DEFINE b == d.step_simu
  <2>1. b[s] \cup {t} \in SUBSET Steps
    BY <1>5
  <2>2. n.step_simu = [b EXCEPT ![s] = b[s] \cup {t}]
    BY <1>4
  <2>3. b \in [Simulations -> SUBSET Steps]
    BY <1>5
  <2> HIDE DEF b
  <2> QED
    BY <2>1, <2>2, <2>3
<1>8. DataShape(n)
  BY <1>1, <1>4, <1>6 DEF DataShape, MomentsShape, MinMaxShape, ThresholdShape,
                                 QuantileShape, SobolShape
<1>9. /\ Received(n, t) = Received(d, t) \cup {s} /\ s \notin Received(d, t)
      /\ \A u : u # t => Received(n, u) = Received(d, u)
  BY <1>4, <1>5 DEF Received
<1>10. \A u : IsFiniteSet(Received(d, u)) /\ Count(d, u) \in Nat
  BY <1>5, ReceivedIsFinite
<1>11. Count(n, t) = Count(d, t) + 1
  BY <1>9, <1>10, FS_AddElement DEF Count
<1>12. \A u : u # t => Count(n, u) = Count(d, u) /\ \A j : Above(n, u, j) = Above(d, u, j)
  BY <1>9 DEF Count, Above
<1>13. \A j : Cardinality(Above(n, t, j)) = Cardinality(Above(d, t, j)) + Adds(s, t, j)
  <2>1. ASSUME NEW j
        PROVE  Cardinality(Above(n, t, j)) = Cardinality(Above(d, t, j)) + Adds(s, t, j)
    <3>1. IsFiniteSet(Received(d, t)) /\ s \notin Received(d, t)
      BY <1>9, <1>10
    <3>2. Received(n, t) = Received(d, t) \cup {s}
      BY <1>9
    <3> QED
      BY <3>1, <3>2, AboveGrows
  <2> QED
    BY <2>1
<1>14. ASSUME NEW u \in Steps
       PROVE  /\ n.moments[u].increment = Width * Count(n, u)
              /\ Op("quantile") => \A j \in 1 .. options.nb_quantiles :
                    n.quantiles[u][j].increment = Width * Count(n, u)
  <2>1. Width * Count(n, u) = Width * Count(d, u) + (IF u = t THEN Width ELSE 0)
    <3>1. CASE u = t
      <4>1. \A c \in Nat : Width * (c + 1) = Width * c + Width
        BY WidthIs
      <4> QED
        BY <1>10, <1>11, <3>1, <4>1
    <3>2. CASE u # t
      <4>1. \A c \in Nat : Width * c + 0 = Width * c
        BY WidthIs
      <4> QED
        BY <1>10, <1>12, <3>2, <4>1
    <3> QED
      BY <3>1, <3>2
  <2>2. /\ d.moments[u].increment = Width * Count(d, u)
        /\ Op("quantile") => \A j \in 1 .. options.nb_quantiles :
              d.quantiles[u][j].increment = Width * Count(d, u)
    BY DEF Agrees, CountsAgree
  <2>3. /\ n.moments[u].increment = d.moments[u].increment + (IF u = t THEN Width ELSE 0)
        /\ Op("quantile") => \A j \in 1 .. options.nb_quantiles :
              n.quantiles[u][j].increment =
              d.quantiles[u][j].increment + (IF u = t THEN Width ELSE 0)
    BY <1>1, <1>4
  <2> QED
    BY <2>1, <2>2, <2>3
<1>15. ASSUME NEW u \in Steps, Op("sobol")
       PROVE  SobolCounts(n.sobol_indices[u], Count(n, u))
  <2>1. Count(n, u) = Count(d, u) + (IF u = t THEN 1 ELSE 0)
    <3>1. u = t => Count(n, u) = Count(d, u) + 1
      BY <1>11
    <3>2. u # t => Count(n, u) = Count(d, u)
      BY <1>12
    <3>3. Count(d, u) \in Nat
      BY <1>10
    <3> QED
      BY <3>1, <3>2, <3>3
  <2> QED
    BY <1>1, <1>4, <1>15, <2>1
<1>16. ASSUME NEW u \in Steps, Op("threshold"), NEW j \in 1 .. options.nb_thresholds
       PROVE  n.thresholds[u][j].threshold_exceedance = Cardinality(Above(n, u, j))
  <2>1. /\ d.thresholds[u][j].threshold_exceedance \in Nat
        /\ d.thresholds[u][j].threshold_exceedance = Cardinality(Above(d, u, j))
    BY <1>16 DEF Agrees, DataShape, ThresholdShape, StepsOf, CountsAgree
  <2>2. n.thresholds[u][j].threshold_exceedance =
           d.thresholds[u][j].threshold_exceedance + (IF u = t THEN Adds(s, t, j) ELSE 0)
    BY <1>1, <1>4, <1>16
  <2>3. CASE u = t
    BY <1>13, <2>1, <2>2, <2>3
  <2>4. CASE u # t
    <3>1. Above(n, u, j) = Above(d, u, j)
      BY <1>12, <2>4
    <3>2. n.thresholds[u][j].threshold_exceedance = d.thresholds[u][j].threshold_exceedance
      BY <2>1, <2>2, <2>4
    <3> QED
      BY <2>1, <3>1, <3>2
  <2> QED
    BY <2>3, <2>4
<1>17. CountsAgree(n)
  BY <1>14, <1>15, <1>16 DEF CountsAgree
<1>18. ASSUME Op("min_and_max"), NEW u \in Steps
       PROVE  ExtremesOf(n.min_max[u], Received(n, u) \X (1 .. Width), u)
  <2>1. /\ ExtremesOf(d.min_max[u], Received(d, u) \X (1 .. Width), u)
        /\ IsMinMax(d.min_max[u])
    BY <1>18 DEF Agrees, ExtremesAgree, DataShape, MinMaxShape, StepsOf
  <2>2. n.min_max[u] = IF u = t THEN WithOutputs(d.min_max[u], s, t) ELSE d.min_max[u]
    BY <1>1, <1>18, <1>4
  <2>3. CASE u = t
    <3>1. Received(d, t) \in SUBSET Simulations
      BY <1>5 DEF Received
    <3>2. ExtremesOf(WithOutputs(d.min_max[t], s, t), (Received(d, t) \cup {s}) \X (1 .. Width), t)
      BY <2>1, <2>3, <3>1, MessageExtremes
    <3> QED
      BY <1>9, <2>2, <2>3, <3>2
  <2>4. CASE u # t
    <3>1. Received(n, u) = Received(d, u) /\ n.min_max[u] = d.min_max[u]
      BY <1>9, <2>2, <2>4
    <3> QED
      BY <2>1, <3>1
  <2> QED
    BY <2>3, <2>4
<1> QED
  BY <1>8, <1>17, <1>18 DEF Agrees, ExtremesAgree

-----------------------------------------------------------------------------

LEMMA SInvInit == Init => SInv /\ (restart => file.exists)
  BY DEF Init, SInv

\* The options of a server do not change, nor what the definitions say of its data.
LEMMA SameOptions ==
    ASSUME options' = options
    PROVE  /\ Simulations' = Simulations /\ Steps' = Steps /\ Width' = Width
           /\ \A o : (Op(o)' <=> Op(o)) /\ StepsOf(o)' = StepsOf(o)
  BY DEF Simulations, Steps, Width, Op, StepsOf

LEMMA SameShape ==
    ASSUME options' = options, NEW d
    PROVE  DataShape(d) <=> DataShape(d)'
<1>1. /\ Simulations' = Simulations /\ Steps' = Steps
      /\ \A o : StepsOf(o)' = StepsOf(o)
  BY SameOptions
<1>2. \A so : IsSobol(so)' <=> IsSobol(so)
  BY DEF IsSobol
<1>3. MomentsShape(d)' <=> MomentsShape(d)
  BY <1>1 DEF MomentsShape
<1>4. MinMaxShape(d)' <=> MinMaxShape(d)
  BY <1>1 DEF MinMaxShape
<1>5. ThresholdShape(d)' <=> ThresholdShape(d)
  BY <1>1 DEF ThresholdShape
<1>6. QuantileShape(d)' <=> QuantileShape(d)
  BY <1>1 DEF QuantileShape
<1>7. SobolShape(d)' <=> SobolShape(d)
  BY <1>1, <1>2 DEF SobolShape
<1> QED
  BY <1>1, <1>3, <1>4, <1>5, <1>6, <1>7 DEF DataShape

LEMMA SameAgreement ==
    ASSUME options' = options, NEW d
    PROVE  Agrees(d) <=> Agrees(d)'
<1>1. /\ Steps' = Steps /\ Width' = Width
      /\ \A o : Op(o)' <=> Op(o)
  BY SameOptions
<1>2. \A t : Received(d, t)' = Received(d, t) /\ Count(d, t)' = Count(d, t)
  BY DEF Received, Count
<1>3. \A t, j : Above(d, t, j)' = Above(d, t, j)
  BY <1>1, <1>2 DEF Above, Outcome
<1>4. \A so, n : SobolCounts(so, n)' <=> SobolCounts(so, n)
  BY DEF SobolCounts
<1>5. CountsAgree(d) <=> CountsAgree(d)'
  BY <1>1, <1>2, <1>3, <1>4 DEF CountsAgree
<1>6. \A mm, S, t : ExtremesOf(mm, S, t)' <=> ExtremesOf(mm, S, t)
  BY DEF ExtremesOf, IsExtreme, Outcome
<1>7. ExtremesAgree(d) <=> ExtremesAgree(d)'
  BY <1>1, <1>2, <1>6 DEF ExtremesAgree
<1> QED
  BY <1>5, <1>7, SameShape DEF Agrees

\* what a restart reads does not depend on the step it is read in
LEMMA SameReading ==
    ASSUME options' = options, NEW f
    PROVE  read_saved_stats(melissa_alloc_data, f)' = read_saved_stats(melissa_alloc_data, f)
<1>1. /\ Simulations' = Simulations /\ Steps' = Steps
      /\ \A o : Op(o)' <=> Op(o)
  BY SameOptions
<1>2. melissa_alloc_data' = melissa_alloc_data
  BY <1>1 DEF melissa_alloc_data, Allocated, max_order
<1> QED
  BY <1>1, <1>2 DEF read_saved_stats

\* The data and the file may be what they were.
LEMMA DataStays ==
    ASSUME SInv, options' = options, data' = data
    PROVE  data' = NotInitialized' \/ Agrees(data)'
<1>1. CASE data = NotInitialized
  BY <1>1, SameOptions DEF NotInitialized
<1>2. CASE Agrees(data)
  BY <1>2, SameAgreement
<1> QED
  BY <1>1, <1>2 DEF SInv

LEMMA FileStays ==
    ASSUME SInv, options' = options, file' = file
    PROVE  file' = NoFile \/ (file.exists' /\ Agrees(Kept)')
<1>1. CASE file = NoFile
  BY <1>1
<1>2. CASE file.exists /\ Agrees(Kept)
  <2>1. Kept' = Kept
    BY SameReading DEF Kept
  <2> QED
    BY <1>2, <2>1, SameAgreement
<1> QED
  BY <1>1, <1>2 DEF SInv

LEMMA FileIsSaved ==
    ASSUME SInv, data.stats_init, options' = options, file' = save_stats(data)
    PROVE  file.exists' /\ Agrees(Kept)'
<1>1. Agrees(data)
  BY DEF SInv, NotInitialized
<1>2. Agrees(read_saved_stats(melissa_alloc_data, file'))
  BY <1>1, SaveAgrees
<1>3. Kept' = read_saved_stats(melissa_alloc_data, file')
  BY SameReading DEF Kept
<1>4. file.exists'
  BY DEF save_stats
<1> QED
  BY <1>2, <1>3, <1>4, SameAgreement

LEMMA SInvNext ==
    ASSUME SInv, restart => file.exists, [Next]_vars
    PROVE  SInv' /\ (restart => file.exists)'
<1>1. ASSUME NEW s \in Simulations, NEW t \in Steps, Receive(s, t)
      PROVE  SInv' /\ (restart => file.exists)'
  <2>1. /\ options' = options /\ file' = file /\ restart' = restart
    BY <1>1 DEF Receive
  <2>2. Agrees(Prepared)
    BY PreparedAgrees
  <2>3. Agrees(data')
    <3>1. CASE t \in Prepared.step_simu[s]
      BY <1>1, <2>2, <3>1 DEF Receive
    <3>2. CASE t \notin Prepared.step_simu[s]
      <4>1. data' = [compute_stats(Prepared, t, s, Output(s, t)) EXCEPT
                           !.step_simu[s] = @ \cup {t}]
        BY <1>1, <3>2 DEF Receive
      <4> QED
        BY <2>2, <3>2, <4>1, MessageCounts DEF SInv
    <3> QED
      BY <3>1, <3>2
  <2>4. Agrees(data)'
    BY <2>1, <2>3, SameAgreement
  <2> QED
    BY <2>1, <2>4, FileStays DEF SInv
<1>2. CASE Checkpoint
  <2>1. /\ data.stats_init /\ file' = save_stats(data) /\ options' = options
        /\ data' = data /\ restart' = restart
    BY <1>2 DEF Checkpoint
  <2> QED
    BY <2>1, DataStays, FileIsSaved DEF SInv
<1>3. CASE CrashAndRestart
  <2>1. /\ file' = file /\ file.exists /\ options' = options /\ data' = NotInitialized
    BY <1>3 DEF CrashAndRestart
  <2>2. data' = NotInitialized'
    BY <2>1, SameOptions DEF NotInitialized
  <2> QED
    BY <2>1, <2>2, FileStays DEF SInv
<1>4. CASE Finalize
  <2>1. /\ data.stats_init /\ file' = save_stats(data) /\ options' = options
        /\ data' = data /\ restart' = restart
    BY <1>4 DEF Finalize
  <2> QED
    BY <2>1, DataStays, FileIsSaved DEF SInv
<1>5. CASE UNCHANGED vars
  <2>1. /\ options' = options /\ data' = data /\ file' = file /\ restart' = restart
    BY <1>5 DEF vars
  <2> QED
    BY <2>1, DataStays, FileStays DEF SInv
<1> QED
  BY <1>1, <1>2, <1>3, <1>4, <1>5 DEF Next

LEMMA SInvHolds == Spec => [](SInv /\ (restart => file.exists))
<1>1. Init => SInv /\ (restart => file.exists)
  BY SInvInit
<1>2. (SInv /\ (restart => file.exists)) /\ [Next]_vars => (SInv /\ (restart => file.exists))'
  BY SInvNext
<1> QED
  BY <1>1, <1>2, PTL DEF Spec

\* Every counter of a time step agrees with the step bits of the stream, whatever
\* arrived again or was lost in a crash (compute_stats.c 56-144, melissa_io.c
\* 142-289).
THEOREM StatisticsCountTheSamples == Spec => []SamplesCounted
<1>1. SInv => SamplesCounted
  <2>1. SInv /\ data.stats_init => CountsAgree(data)
    BY DEF SInv, Agrees, NotInitialized
  <2> QED
    BY <2>1 DEF SamplesCounted, CountsAgree, SobolCounts, Count
<1> QED
  BY <1>1, SInvHolds, PTL

\* The exceedances of a threshold are the values above it among all that was
\* received (threshold.c 82-96).
THEOREM ThresholdsCountTheSamples == Spec => []ExceedancesCounted
<1>1. SInv => ExceedancesCounted
  <2>1. SInv /\ data.stats_init => CountsAgree(data)
    BY DEF SInv, Agrees, NotInitialized
  <2>2. \A t, j : Above(data, t, j) = {i \in Sample(t) : Outcome(t, i) > Thresholds[j]}
    BY DEF Above, Sample
  <2> QED
    BY <2>1, <2>2 DEF ExceedancesCounted, CountsAgree
<1> QED
  BY <1>1, SInvHolds, PTL

\* The minimum and the maximum of a time step are those of all that was received,
\* in any order, more than once or before a restart, and a simulation that is
\* named as the origin of one did compute it (min_max.c 83-112, 137-190).
THEOREM ExtremesAreOfTheSamples == Spec => []ExtremesAreReached
<1>1. ASSUME SInv
      PROVE  ExtremesAreReached
  <2>1. SUFFICES ASSUME data.stats_init, Op("min_and_max"), NEW t \in Steps,
                        {Outcome(t, i) : i \in Sample(t)} # {}
                 PROVE  LET all == {Outcome(t, i) : i \in Sample(t)}
                            mm == data.min_max[t]
                            Computed(id, x) ==
                               \E i \in Sample(t) : i[1] = id /\ Double(Outcome(t, i)) = x
                        IN /\ mm.min = Double(Min(all)) /\ mm.max = Double(Max(all))
                           /\ mm.min_id # 0 => Computed(mm.min_id, mm.min)
                           /\ mm.max_id # 0 => Computed(mm.max_id, mm.max)
    BY DEF ExtremesAreReached
  <2> DEFINE S == Sample(t)
             all == {Outcome(t, i) : i \in S}
             mm == data.min_max[t]
  <2>2. Agrees(data)
    BY <1>1, <2>1 DEF SInv, NotInitialized
  <2>3. /\ S # {}
        /\ IsExtreme(TRUE, mm.min, mm.min_id, S, t)
        /\ IsExtreme(FALSE, mm.max, mm.max_id, S, t)
    BY <2>1, <2>2 DEF Agrees, ExtremesAgree, ExtremesOf, Sample
  <2>4. \A i \in S : Outcome(t, i) \in Int
    <3>1. Received(data, t) \subseteq Simulations
      BY <2>2, <1>1, ReceivedIsFinite DEF SInv, Agrees, DataShape
    <3>2. 1 .. Width \subseteq {1, 2}
      BY WidthIs
    <3>3. S \subseteq Simulations \X {1, 2}
      BY <3>1, <3>2 DEF Sample
    <3> QED
      BY <1>1, <3>3, OutcomesAreIntegers DEF SInv
  <2>41. all \subseteq Int
    BY <2>4
  <2> HIDE DEF S, mm, all
  <2>5. mm.min = Double(Min(all))
    <3>1. PICK a \in S : mm.min = Double(Outcome(t, a))
      BY <2>3 DEF IsExtreme
    <3>2. mm.min.num = Outcome(t, a)
      BY <3>1 DEF Double
    <3>3. Outcome(t, a) \in all /\ \A y \in all : Outcome(t, a) =< y
      BY <2>3, <3>2 DEF IsExtreme, all
    <3>4. /\ Min(all) \in all /\ \A y \in all : Min(all) =< y
      BY <3>3 DEF Min
    <3>5. Min(all) = Outcome(t, a)
      <4>1. Outcome(t, a) =< Min(all) /\ Min(all) =< Outcome(t, a)
        BY <3>3, <3>4
      <4>2. Outcome(t, a) \in Int /\ Min(all) \in Int
        BY <2>41, <3>3, <3>4
      <4> QED
        BY <4>1, <4>2
    <3> QED
      BY <3>1, <3>5
  <2>6. mm.max = Double(Max(all))
    <3>1. PICK a \in S : mm.max = Double(Outcome(t, a))
      BY <2>3 DEF IsExtreme
    <3>2. mm.max.num = Outcome(t, a)
      BY <3>1 DEF Double
    <3>3. Outcome(t, a) \in all /\ \A y \in all : Outcome(t, a) >= y
      BY <2>3, <3>2 DEF IsExtreme, all
    <3>4. /\ Max(all) \in all /\ \A y \in all : Max(all) >= y
      BY <3>3 DEF Max
    <3>5. Max(all) = Outcome(t, a)
      <4>1. Outcome(t, a) >= Max(all) /\ Max(all) >= Outcome(t, a)
        BY <3>3, <3>4
      <4>2. Outcome(t, a) \in Int /\ Max(all) \in Int
        BY <2>41, <3>3, <3>4
      <4> QED
        BY <4>1, <4>2
    <3> QED
      BY <3>1, <3>5
  <2>7. /\ mm.min_id # 0 => \E i \in S : i[1] = mm.min_id /\ Double(Outcome(t, i)) = mm.min
        /\ mm.max_id # 0 => \E i \in S : i[1] = mm.max_id /\ Double(Outcome(t, i)) = mm.max
    BY <2>3 DEF IsExtreme
  <2> QED
    BY <2>5, <2>6, <2>7 DEF S, mm, all
<1> QED
  BY <1>1, SInvHolds, PTL

\* What a checkpoint writes is what a restart reads: nothing is lost but the thetas,
\* which are only computed from the moments (melissa_io.c 142-289, the save_ and
\* read_ functions of src/server/stats).
THEOREM RestartsLoseOnlyThetas ==
    Spec => [][Checkpoint \/ Finalize => Kept' = WithoutThetas(data)]_vars
<1>1. ASSUME SInv, [Next]_vars, Checkpoint \/ Finalize
      PROVE  Kept' = WithoutThetas(data)
  <2>1. data.stats_init /\ file' = save_stats(data) /\ options' = options
    BY <1>1 DEF Checkpoint, Finalize
  <2>2. DataShape(data)
    BY <1>1, <2>1 DEF SInv, Agrees, NotInitialized
  <2>3. Kept' = read_saved_stats(melissa_alloc_data, file')
    BY <2>1, SameReading DEF Kept
  <2> QED
    BY <2>1, <2>2, <2>3, SavedIsRead
<1>2. SInv /\ [Next]_vars => [Checkpoint \/ Finalize => Kept' = WithoutThetas(data)]_vars
  BY <1>1
<1> QED
  BY <1>2, SInvHolds, PTL DEF Spec

\* What is in the memory of a server has the shape of its allocation, and a server
\* that was restarted has a file to read (melissa_data.c 40-120, server.cxx 378-420).
THEOREM StatisticsTypeOK == Spec => []TypeOK
<1> DEFINE Rest == /\ restart \in BOOLEAN /\ fresh \in SUBSET Steps
                   /\ crashes \in 0 .. MaxCrashes
<1>0. MaxCrashes \in Nat
  BY StatisticsAssumption
<1>1. Init => Rest
  <2>1. 0 \in 0 .. MaxCrashes
    BY <1>0
  <2>2. {} \in SUBSET Steps /\ FALSE \in BOOLEAN
    OBVIOUS
  <2> QED
    BY <2>1, <2>2, Zenon DEF Init
<1>2. Rest /\ SInv /\ [Next]_vars => Rest'
  <2> SUFFICES ASSUME Rest, SInv, [Next]_vars PROVE Rest'
    OBVIOUS
  <2>1. ASSUME NEW s \in Simulations, NEW t \in Steps, Receive(s, t)
        PROVE  Rest'
    BY <2>1, SameOptions DEF Receive
  <2>2. CASE Checkpoint
    BY <2>2, SameOptions DEF Checkpoint
  <2>3. CASE CrashAndRestart
    BY <1>0, <2>3, SameOptions DEF CrashAndRestart
  <2>4. CASE Finalize
    BY <2>4, SameOptions DEF Finalize
  <2>5. CASE UNCHANGED vars
    BY <2>5, SameOptions DEF vars
  <2> QED
    BY <2>1, <2>2, <2>3, <2>4, <2>5 DEF Next
<1>3. SInv /\ (restart => file.exists) /\ Rest => TypeOK
  <2> SUFFICES ASSUME SInv, restart => file.exists, Rest PROVE TypeOK
    OBVIOUS
  <2>1. CASE data = NotInitialized
    <3>1. /\ data.step_simu \in [Simulations -> SUBSET Steps]
          /\ data.stats_init = FALSE
      BY <2>1 DEF NotInitialized
    <3> QED
      BY <2>1, <3>1 DEF TypeOK, SInv
  <2>2. CASE DataShape(data)
    <3>1. /\ data.step_simu \in [Simulations -> SUBSET Steps]
          /\ data.stats_init = TRUE /\ DOMAIN data.moments = Steps
      BY <2>2 DEF DataShape, MomentsShape, FunctionOn
    <3> QED
      BY <3>1 DEF TypeOK, SInv
  <2> QED
    BY <2>1, <2>2 DEF SInv, Agrees
<1> QED
  BY <1>1, <1>2, <1>3, SInvHolds, PTL DEF Spec
=============================================================================
