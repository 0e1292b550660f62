----------------------------- MODULE Statistics -----------------------------
(***************************************************************************)
(* The statistics of one stream (one field, one rank of the simulations,    *)
(* one rank of the server) from the command line that asks for them         *)
(* (melissa_options.c) to the files of results (output/melissa_output.c):   *)
(* allocation (melissa_data.c), one update per message (compute_stats.c),   *)
(* checkpoints, restarts (melissa_io.c).                                    *)
(*                                                                         *)
(* MelissaServer models when messages are accepted, saved and lost, with    *)
(* the statistics reduced to counters. Here the counters get their          *)
(* contents, and the loop of the server is reduced to what reaches one      *)
(* stream: messages in any order and more than once, a checkpoint, a death. *)
(*                                                                         *)
(* Simplifications: one cell of the field; no change of options between a   *)
(* run and its restart; the learning mode is off.                           *)
(***************************************************************************)
EXTENDS StatisticsFiles, FiniteSets, FiniteSetsExt, Functions

CONSTANTS
    CommandLines,  \* what the launcher may ask for
    Value,         \* Value[s][t]: outputs of simulation s at step t (of run A,
                   \* then B, C1, C2, .. of a group with Sobol' indices)
    Thresholds,    \* the value of each threshold, in order
    MaxCrashes     \* bound on the number of deaths

VARIABLES options, data, file, restart, fresh, results, crashes

vars == <<options, data, file, restart, fresh, results, crashes>>

-----------------------------------------------------------------------------
(* melissa_options.c                                                         *)

\* the operations each word of the option -o stands for
OperationsOf == [
    mean |-> "mean", means |-> "mean",
    variance |-> "variance", variances |-> "variance", var |-> "variance",
    skewness |-> "skewness", kurtosis |-> "kurtosis",
    min |-> "min_and_max", max |-> "min_and_max",
    minimum |-> "min_and_max", maximum |-> "min_and_max",
    threshold |-> "threshold", threshold_exceedance |-> "threshold",
    thresholds |-> "threshold", threshold_exceedances |-> "threshold",
    quantile |-> "quantile", quantiles |-> "quantile",
    sobol |-> "sobol", sobol_indices |-> "sobol"]

KnownWords(cl) == cl.operations \subseteq DOMAIN OperationsOf
get_operations(cl) == {OperationsOf[w] : w \in cl.operations}

\* melissa_check_options: the default operations, and when it does not exit
WithDefaults(ops) == IF ops = {} THEN {"mean", "variance"} ELSE ops

Valid(o) ==
    /\ "threshold" \in o.operations => o.nb_thresholds >= 1
    /\ "quantile" \in o.operations => o.nb_quantiles >= 1
    /\ IF "sobol" \in o.operations
       THEN o.sampling_size >= 1 /\ o.nb_parameters >= 2
       ELSE o.sampling_size >= 2 /\ o.nb_parameters >= 1
    /\ o.nb_time_steps >= 1

melissa_get_options(cl) ==
    [operations    |-> WithDefaults(get_operations(cl)),
     nb_thresholds |-> cl.nb_thresholds, nb_quantiles |-> cl.nb_quantiles,
     sampling_size |-> cl.sampling_size, nb_parameters |-> cl.nb_parameters,
     nb_time_steps |-> cl.nb_time_steps]

\* the options the server starts with
Options == {o \in {melissa_get_options(cl) : cl \in {c \in CommandLines : KnownWords(c)}} :
                Valid(o)}

\* counts are naturals, and every simulation has the outputs of its runs
ASSUME StatisticsAssumption ==
    /\ MaxCrashes \in Nat
    /\ \A cl \in CommandLines :
          /\ cl.nb_thresholds \in Nat /\ cl.nb_quantiles \in Nat
          /\ cl.sampling_size \in Nat /\ cl.nb_parameters \in Nat
          /\ cl.nb_time_steps \in Nat
    /\ \A o \in Options :
          /\ \A s \in 0 .. o.sampling_size - 1, t \in 0 .. o.nb_time_steps - 1 :
                /\ Value[s][t] \in Seq(Int)
                /\ Len(Value[s][t]) >= 2 + o.nb_parameters
          /\ \A j \in 1 .. o.nb_thresholds : Thresholds[j] \in Int

Op(o) == o \in options.operations
Simulations == 0 .. options.sampling_size - 1
Steps == 0 .. options.nb_time_steps - 1

-----------------------------------------------------------------------------
(* melissa_data.c                                                            *)

\* the highest moment that a requested operation needs
max_order ==
    IF Op("kurtosis") THEN 4 ELSE IF Op("skewness") THEN 3
    ELSE IF Op("variance") THEN 2 ELSE IF Op("mean") THEN 1 ELSE 0

\* a structure for every time step when the operation is asked for
Allocated(op, init) == [t \in IF Op(op) THEN Steps ELSE {} |-> init]

NotInitialized == [stats_init |-> FALSE, step_simu |-> [s \in Simulations |-> {}]]

melissa_alloc_data ==
    [stats_init |-> TRUE,
     step_simu  |-> [s \in Simulations |-> {}],
     moments    |-> [t \in Steps |-> init_moments(max_order)],
     min_max    |-> Allocated("min_and_max", init_min_max),
     thresholds |-> Allocated("threshold",
                        [j \in 1 .. options.nb_thresholds |-> init_threshold(Double(Thresholds[j]))]),
     quantiles  |-> Allocated("quantile",
                        [j \in 1 .. options.nb_quantiles |-> init_quantile(j)]),
     sobol_indices |-> Allocated("sobol", init_sobol_martinez(options.nb_parameters))]

-----------------------------------------------------------------------------
(* compute_stats.c                                                           *)

\* what one vector changes of the time step t
Update(d, t, simu_id, x) ==
    [d EXCEPT
        !.moments[t] = increment_moments(@, x),
        !.min_max = [u \in DOMAIN @ |->
            IF u = t THEN min_and_max(@[u], x, simu_id) ELSE @[u]],
        !.thresholds = [u \in DOMAIN @ |->
            IF u = t THEN [j \in DOMAIN @[u] |-> update_threshold_exceedance(@[u][j], x)]
            ELSE @[u]],
        !.quantiles = [u \in DOMAIN @ |->
            IF u = t THEN [j \in DOMAIN @[u] |->
                               increment_quantile(@[u][j], options.sampling_size)]
            ELSE @[u]]]

\* the outputs of run A, and in a study with Sobol' indices those of run B too
\* (mutants: run B is left out; the indices get it as run A)
compute_stats_a(d, t, simu_id, x) ==
    LET da == Update(d, t, simu_id, x[1]) IN
    IF ~Op("sobol") THEN da
    ELSE [da EXCEPT !.sobol_indices[t] = increment_sobol_martinez(@, x)]
compute_stats_swapped(d, t, simu_id, x) ==
    LET da == Update(d, t, simu_id, x[1])
        ds == [da EXCEPT !.sobol_indices[t] =
                  increment_sobol_martinez(@, <<x[2], x[1]>> \o SubSeq(x, 3, Len(x)))]
    IN IF Op("sobol") THEN Update(ds, t, simu_id, x[2]) ELSE da
compute_stats(d, t, simu_id, x) ==
    LET da == Update(d, t, simu_id, x[1])
        ds == [da EXCEPT !.sobol_indices[t] = increment_sobol_martinez(@, x)]
    IN IF Op("sobol") THEN Update(ds, t, simu_id, x[2]) ELSE da

-----------------------------------------------------------------------------
(* melissa_io.c, and the save_ and read_ functions of each statistic          *)

NoFile == [exists |-> FALSE]

\* a structure for every time step, or one for each of several
EachStep(f(_), of) == [t \in DOMAIN of |-> f(of[t])]
EachOf(f(_), of) == [t \in DOMAIN of |-> [j \in DOMAIN of[t] |-> f(of[t][j])]]

save_stats(d) ==
    [exists  |-> TRUE,
     written |-> <<EachStep(save_moments, d.moments), EachStep(save_min_max, d.min_max),
                   EachOf(save_threshold, d.thresholds), EachOf(save_quantile, d.quantiles),
                   EachStep(save_sobol_martinez, d.sobol_indices), d.step_simu>>]

\* the statistics first, the steps last
\* (mutant: the statistics without the steps)
read_saved_stats_alone(d, f) ==
    IF ~f.exists THEN d
    ELSE LET w == f.written IN
         [stats_init |-> d.stats_init, step_simu |-> d.step_simu,
          moments    |-> [t \in Steps |-> read_moments(d.moments[t], w[1][t])],
          min_max    |-> EachStep(read_min_max, w[2]),
          thresholds |-> EachOf(read_threshold, w[3]),
          quantiles  |-> EachOf(read_quantile, w[4]),
          sobol_indices |-> EachStep(read_sobol_martinez, w[5])]
read_saved_stats(d, f) ==
    IF ~f.exists THEN d
    ELSE LET w == f.written IN
         [stats_init |-> d.stats_init, step_simu |-> w[6],
          moments    |-> [t \in Steps |-> read_moments(d.moments[t], w[1][t])],
          min_max    |-> EachStep(read_min_max, w[2]),
          thresholds |-> EachOf(read_threshold, w[3]),
          quantiles  |-> EachOf(read_quantile, w[4]),
          sobol_indices |-> EachStep(read_sobol_martinez, w[5])]

-----------------------------------------------------------------------------
(* The server, as far as one stream can tell (server.cxx).                    *)

Running == results = {}

\* structures as the first message of the stream finds them
\* (mutant: they are not marked as allocated)
melissa_init_data_unmarked ==
    IF restart THEN read_saved_stats(melissa_alloc_data, file)
    ELSE [melissa_alloc_data EXCEPT !.stats_init = FALSE]
melissa_init_data ==
    IF restart THEN read_saved_stats(melissa_alloc_data, file) ELSE melissa_alloc_data

Prepared == IF data.stats_init THEN data ELSE melissa_init_data

Output(s, t) == [k \in DOMAIN Value[s][t] |-> Double(Value[s][t][k])]

\* a message, whether it comes for the first time or again after a rerun
Receive(s, t) ==
    /\ Running
    /\ IF t \in Prepared.step_simu[s]
       THEN /\ data' = Prepared
            /\ UNCHANGED fresh
       ELSE /\ data' = [compute_stats(Prepared, t, s, Output(s, t)) EXCEPT
                           !.step_simu[s] = @ \cup {t}]
            /\ fresh' = fresh \cup {t}
    /\ UNCHANGED <<options, file, restart, results, crashes>>

Checkpoint ==
    /\ Running
    /\ data.stats_init
    /\ file' = save_stats(data)
    /\ UNCHANGED <<options, data, restart, fresh, results, crashes>>

\* the server dies and is started again with -r
CrashAndRestart ==
    /\ Running
    /\ crashes < MaxCrashes
    /\ file.exists
    /\ crashes' = crashes + 1
    /\ data' = NotInitialized
    /\ restart' = TRUE
    /\ fresh' = {}
    /\ UNCHANGED <<options, file, results>>

-----------------------------------------------------------------------------
(* output/melissa_output.c: a file of results is named after the statistic,   *)
(* the threshold, quantile or parameter it is of, and the time step.          *)

Results(op, name, rank, value(_, _)) ==
    IF ~Op(op) THEN {}
    ELSE {[name |-> name, of |-> k, step |-> t, value |-> value(k, t)] :
             k \in rank, t \in Steps}

write_mean(d) == Results("mean", "mean", {0}, LAMBDA k, t : d.moments[t].m[1])
write_variance(d) == Results("variance", "variance", {0}, LAMBDA k, t : d.moments[t].theta[2])
write_skewness(d) ==
    Results("skewness", "skewness", {0}, LAMBDA k, t : compute_skewness(d.moments[t]))
write_kurtosis(d) ==
    Results("kurtosis", "kurtosis", {0}, LAMBDA k, t : compute_kurtosis(d.moments[t]))
write_min(d) == Results("min_and_max", "min", {0}, LAMBDA k, t : d.min_max[t].min)
write_min_id(d) == Results("min_and_max", "min_id", {0}, LAMBDA k, t : d.min_max[t].min_id)
write_max(d) == Results("min_and_max", "max", {0}, LAMBDA k, t : d.min_max[t].max)
write_max_id(d) == Results("min_and_max", "max_id", {0}, LAMBDA k, t : d.min_max[t].max_id)
write_threshold(d) ==
    Results("threshold", "threshold", 1 .. options.nb_thresholds,
            LAMBDA k, t : d.thresholds[t][k].threshold_exceedance)
write_quantile(d) ==
    Results("quantile", "quantile", 1 .. options.nb_quantiles,
            LAMBDA k, t : d.quantiles[t][k].gamma)
write_sobol(d) ==
    Results("sobol", "sobol", 1 .. options.nb_parameters,
            LAMBDA k, t : d.sobol_indices[t].sobol_martinez[k].first_order_values)
write_sobol_tot(d) ==
    Results("sobol", "sobol_tot", 1 .. options.nb_parameters,
            LAMBDA k, t : d.sobol_indices[t].sobol_martinez[k].total_order_values)

melissa_write_stats(d) ==
    UNION {write_mean(d), write_variance(d), write_skewness(d), write_kurtosis(d),
           write_min(d), write_min_id(d), write_max(d), write_max_id(d),
           write_threshold(d), write_quantile(d), write_sobol(d), write_sobol_tot(d)}

\* the study ends when every simulation has sent all its steps: a last
\* checkpoint, then the results
Finished == \A s \in Simulations : data.step_simu[s] = Steps
Finalize ==
    /\ Running
    /\ data.stats_init
    /\ Finished
    /\ file' = save_stats(data)
    /\ results' = melissa_write_stats(data)
    /\ UNCHANGED <<options, data, restart, fresh, crashes>>

Init ==
    /\ options \in Options
    /\ data = NotInitialized
    /\ file = NoFile
    /\ restart = FALSE
    /\ fresh = {}
    /\ results = {}
    /\ crashes = 0

Next ==
    \/ \E s \in Simulations, t \in Steps : Receive(s, t)
    \/ Checkpoint \/ CrashAndRestart \/ Finalize

Spec == Init /\ [][Next]_vars

-----------------------------------------------------------------------------
(* Properties. The statistics of a time step are compared with definitions    *)
(* over the set of outputs the step bits say were received: one output of     *)
(* each simulation, two (runs A and B) of each group with Sobol' indices.     *)

Width == IF Op("sobol") THEN 2 ELSE 1
Received(d, t) == {s \in DOMAIN d.step_simu : t \in d.step_simu[s]}
Sample(t) == Received(data, t) \X (1 .. Width)
Outcome(t, i) == Value[i[1]][t][i[2]]

Outcomes(t) == [i \in Sample(t) |-> Outcome(t, i)]

\* moments of the numbers that a function x takes
N(x) == Cardinality(DOMAIN x)
PowerSum(x, k) == SumFunction([i \in DOMAIN x |-> Power(x[i], k)])
BatchMoment(x, k) == Rational(PowerSum(x, k), N(x))
\* sum of (x - mean)^k / n, with n * x to stay in the integers
BatchCentral(x, k) ==
    Rational(SumFunction([i \in DOMAIN x |-> Power(N(x) * x[i] - PowerSum(x, 1), k)]),
             Power(N(x), k) * N(x))
BatchCovariance(x, y) ==
    Rational(SumFunction([i \in DOMAIN x |-> (N(x) * x[i] - SumFunction(x))
                                             * (N(x) * y[i] - SumFunction(y))]),
             N(x) * N(x) * (N(x) - 1))

TypeOK ==
    /\ options \in Options
    /\ data.step_simu \in [Simulations -> SUBSET Steps]
    /\ data.stats_init => DOMAIN data.moments = Steps
    /\ ~data.stats_init => data = NotInitialized
    /\ restart \in BOOLEAN
    /\ restart => file.exists
    /\ fresh \in SUBSET Steps
    /\ crashes \in 0 .. MaxCrashes

\* Every counter of a time step agrees with the step bits, whatever arrived
\* again or was lost in a crash: no statistic has missed a message that another
\* one has, or counts one twice (compute_stats.c 56-144, melissa_io.c 142-289).
SamplesCounted ==
    data.stats_init => \A t \in Steps :
        LET n == Cardinality(Received(data, t)) IN
        /\ data.moments[t].increment = Width * n
        /\ Op("quantile") => \A j \in 1 .. options.nb_quantiles :
               data.quantiles[t][j].increment = Width * n
        /\ Op("sobol") =>
               /\ data.sobol_indices[t].iteration = n
               /\ data.sobol_indices[t].variance_a.mean_structure.increment = n
               /\ data.sobol_indices[t].variance_b.mean_structure.increment = n
               /\ \A i \in 1 .. options.nb_parameters :
                      data.sobol_indices[t].sobol_martinez[i].
                          variance_k.mean_structure.increment = n

\* The moments do not depend on the order of the messages: they are the means of
\* the powers of all that was received (general_moments.c 41-56 and 142-166).
MomentsAreBatch ==
    data.stats_init => \A t \in Steps : Received(data, t) # {} =>
        \A k \in 1 .. max_order : data.moments[t].m[k] = BatchMoment(Outcomes(t), k)

\* What the variance, the skewness and the kurtosis are computed from belongs to
\* the moments at all times, except between a restart and the first message of
\* the time step after it (general_moments.c 169-187, 355-382).
ThetasFollow ==
    data.stats_init => \A t \in fresh, k \in 2 .. max_order :
        data.moments[t].theta[k] = BatchCentral(Outcomes(t), k)

\* The minimum and the maximum are those of all that was received, and a
\* simulation named as the origin of one did compute it; the first simulation
\* is never named (min_max.c 83-112).
ExtremesAreReached ==
    data.stats_init /\ Op("min_and_max") => \A t \in Steps :
        LET all == {Outcome(t, i) : i \in Sample(t)}
            mm  == data.min_max[t]
            Computed(id, x) == \E i \in Sample(t) : i[1] = id /\ Double(Outcome(t, i)) = x
        IN all # {} =>
            /\ mm.min = Double(Min(all)) /\ mm.max = Double(Max(all))
            /\ mm.min_id # 0 => Computed(mm.min_id, mm.min)
            /\ mm.max_id # 0 => Computed(mm.max_id, mm.max)

\* The exceedances of a threshold are the values above it among all that was
\* received (threshold.c 82-96).
ExceedancesCounted ==
    data.stats_init /\ Op("threshold") =>
        \A t \in Steps, j \in 1 .. options.nb_thresholds :
            data.thresholds[t][j].threshold_exceedance =
                Cardinality({i \in Sample(t) : Outcome(t, i) > Thresholds[j]})

\* The gain 1/n^gamma of a quantile keeps gamma between 0.1 and 1 in a study
\* without Sobol' indices: no simulation is counted twice, so the updates stay
\* within "nmax maximum number of iterations" (quantile.c 78-79 and 104).
QuantileGain ==
    data.stats_init /\ Op("quantile") /\ ~Op("sobol") =>
        \A t \in Steps, j \in 1 .. options.nb_quantiles :
            LET q == data.quantiles[t][j] IN
            q.increment > 1 => ~Less(q.gamma, Rational(1, 10)) /\ ~Less(One, q.gamma)

\* one column of the outputs of the groups received
Column(t, a) == [s \in Received(data, t) |-> Value[s][t][a]]

\* The variances the indices are divided by are those of the outputs of A, of B
\* and of each C (variance.c 104-119, sobol.c 258-263).
SobolVariances ==
    data.stats_init /\ Op("sobol") => \A t \in Steps :
        Cardinality(Received(data, t)) > 1 =>
            LET so == data.sobol_indices[t] IN
            /\ so.variance_a.variance = BatchCovariance(Column(t, 1), Column(t, 1))
            /\ so.variance_b.variance = BatchCovariance(Column(t, 2), Column(t, 2))
            /\ \A i \in 1 .. options.nb_parameters :
                  so.sobol_martinez[i].variance_k.variance =
                      BatchCovariance(Column(t, i + 2), Column(t, i + 2))

\* "This function computes Sobol indices using Martinez formula" (sobol.c:232):
\* correlations, whose covariance is that of the outputs of B (or A) and of C.
SobolIsMartinez ==
    data.stats_init /\ Op("sobol") => \A t \in Steps, i \in 1 .. options.nb_parameters :
        Cardinality(Received(data, t)) > 1 =>
            LET k == data.sobol_indices[t].sobol_martinez[i] IN
            /\ k.first_order_covariance = BatchCovariance(Column(t, 2), Column(t, i + 2))
            /\ k.total_order_covariance = BatchCovariance(Column(t, 1), Column(t, i + 2))

\* The statistics that were asked for are written, for every time step, and are
\* those of all the simulations: the mean, the extremes, and the variance if the
\* step got a message since the last restart (melissa_output.c 130-279).
Written(name, t) == {r \in results : r.name = name /\ r.step = t}
Expected(name, t) ==
    CASE name = "mean" -> {BatchMoment(Outcomes(t), 1)}
      [] name = "variance" -> {BatchCentral(Outcomes(t), 2)}
      [] name = "min" -> {Double(Min({Outcome(t, i) : i \in Sample(t)}))}
      [] name = "max" -> {Double(Max({Outcome(t, i) : i \in Sample(t)}))}
Asked(name, t) ==
    CASE name = "variance" -> Op("variance") /\ t \in fresh
      [] name \in {"min", "max"} -> Op("min_and_max")
      [] OTHER -> Op(name)
ResultsOfAll ==
    results # {} => \A t \in Steps :
        /\ Received(data, t) = Simulations
        /\ \A name \in {"mean", "variance", "min", "max"} :
              Asked(name, t) => {r.value : r \in Written(name, t)} = Expected(name, t)

\* "This function writes the computed statistics on files" (melissa_output.c:112):
\* the variance that is written is that of the simulations.
VarianceIsWritten ==
    results # {} => \A t \in Steps : \A r \in Written("variance", t) :
        r.value = BatchCentral(Outcomes(t), 2)
=============================================================================
