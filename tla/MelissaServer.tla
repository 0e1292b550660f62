---------------------------- MODULE MelissaServer ----------------------------
(***************************************************************************)
(* The parallel server: its main loop (src/server/server.cxx), the state   *)
(* it keeps of every simulation (fault_tolerance.c, server_helper.c), the   *)
(* statistics it accumulates (melissa_data.c, compute_stats.c) and the      *)
(* checkpoint files it writes and reads back (melissa_io.c).                *)
(*                                                                         *)
(* Simplifications.                                                        *)
(*  - A stream is a (field, client rank, server rank) triple along which    *)
(*    the redistribution of the client API sends data; the triples that     *)
(*    never carry a message keep steps_init = 0 and play no role.           *)
(*  - Statistics are abstracted to how often each message was folded in.    *)
(*  - Time is abstracted: a timeout may be found, a checkpoint may be due,  *)
(*    whenever the code's other conditions hold.                            *)
(*  - A message of a submitted simulation may arrive at any time, in any    *)
(*    order and any number of times: a simulation is rerun after a fault    *)
(*    and sends everything again.                                          *)
(*  - The simulation ids are all below the size of the simulations vector,  *)
(*    the learning mode is off and CHECK_SIMU_DECONNECTION is not defined.  *)
(***************************************************************************)
EXTENDS Integers, FiniteSets, Sequences

CONSTANTS
    Simulations,    \* ids 0 .. sampling_size-1 (groups, in a Sobol' study)
    Ranks,          \* MPI ranks of the server
    Root,           \* rank 0
    Streams,        \* (field, client rank) pairs, each sending to one rank
    RankOf,         \* the server rank a stream sends to
    EmptyStreams,   \* streams whose part of the field is empty
    NbTimeSteps,    \* melissa_options.nb_time_steps
    Faults,         \* what the environment may do: see FaultKinds
    MaxCrashes,     \* bound on the number of server crashes
    MaxLaunches     \* bound on the submissions of one simulation

FaultKinds == {
    "crash",          \* the server dies between two checkpoints
    "early_crash",    \* ... also before its first checkpoint
    "crash_in_save",  \* ... also between two file writes of a checkpoint
    "torn_file",      \* ... also in the middle of a file write
    "late_crash",     \* ... also while the final results are written
    "drop",           \* the launcher gives up a simulation (DROP)
    "drop_finished",  \* ... also one that a rank has already finished
    "late_data",      \* ... and data of it may still arrive
    "lost_text",      \* a text message may miss some ranks (PUB/SUB)
    "launcher_death", \* the launcher dies
    "signal" }        \* SIGUSR1 or SIGUSR2 reaches the server

ASSUME RootAssumption == Root \in Ranks
ASSUME StreamsAssumption ==
    /\ RankOf \in [Streams -> Ranks]
    /\ EmptyStreams \subseteq Streams
ASSUME FiniteAssumption == IsFiniteSet(Simulations)
ASSUME StepsAssumption == NbTimeSteps \in Nat \ {0}
ASSUME FaultsAssumption ==
    /\ Faults \subseteq FaultKinds
    /\ MaxCrashes \in Nat
    /\ MaxLaunches \in Nat

VARIABLES
    \* memory of each rank, lost in a crash
    pc,                       \* where the rank is in the loop of melissa_server_run
    connected,                \* first_init = 0: client_comm_size is known
    restart,                  \* melissa_options.restart
    status,                   \* simulations[s].status, per rank
    job_status,               \* simulations[s].job_status, per rank
    nb_finished_simulations,
    sampling_size,            \* melissa_options.sampling_size
    checkpoint_on,            \* last_checkpoint_time > 0.1
    end_signal,
    text_puller,              \* text messages waiting at each rank
    stats_data,               \* fields[f].stats_data[c], per stream
    \* files
    stats_file,               \* <field><rank>_<client>.data, per stream
    simu_file,                \* simu_<rank>.data
    \* the environment: launcher and simulations
    launches,                 \* how often each simulation was submitted
    dropped,                  \* simulations the launcher gave up
    told,                     \* last status rank 0 sent to the launcher
    launcher_up,
    crashes

simuVars == <<status, job_status, nb_finished_simulations, sampling_size>>
loopVars == <<pc, connected, restart, checkpoint_on, end_signal>>
diskVars == <<stats_file, simu_file>>
envVars  == <<launches, dropped, launcher_up, crashes>>
vars == <<simuVars, loopVars, text_puller, stats_data, diskVars, told, envVars>>

Steps == 0 .. NbTimeSteps - 1
StreamsOf(r) == {st \in Streams : RankOf[st] = r}
NbSimulations == Cardinality(Simulations)

-----------------------------------------------------------------------------
(* The structures.                                                          *)

NoContribution == [s \in Simulations |-> [t \in Steps |-> 0]]
NoStep == [s \in Simulations |-> {}]

StatsData == [stats_init: BOOLEAN, steps_init: BOOLEAN,
              vect_size: {0, 1},      \* 1 stands for any positive size
              contributions: [Simulations -> [Steps -> Nat]],
              step_simu: [Simulations -> SUBSET Steps]]

StatsFile == [exists: BOOLEAN, vect_size: {0, 1},
              contributions: [Simulations -> [Steps -> Nat]],
              step_simu: [Simulations -> SUBSET Steps]]

Status == 0 .. 3   \* not started, running, finished, dropped
SimuFile == [kind: {"absent", "truncated", "complete"},
             status: [Simulations -> Status]]

TextMessage == {"JOB", "DROP"} \X Simulations

\* add_fields: nothing allocated yet
add_fields == [st \in Streams |->
    [stats_init |-> FALSE, steps_init |-> FALSE, vect_size |-> 0,
     contributions |-> NoContribution, step_simu |-> NoStep]]

TypeOK ==
    /\ pc \in [Ranks -> {"top", "poll", "data", "test", "ended",
                         "finalized", "down", "broken"}]
    /\ connected \in BOOLEAN
    /\ restart \in BOOLEAN
    /\ status \in [Ranks -> [Simulations -> Status]]
    /\ job_status \in [Ranks -> [Simulations -> {-1, 0, 1}]]
    /\ nb_finished_simulations \in [Ranks -> Nat]
    /\ sampling_size \in [Ranks -> Int]
    /\ checkpoint_on \in [Ranks -> BOOLEAN]
    /\ end_signal \in [Ranks -> BOOLEAN]
    /\ text_puller \in [Ranks -> Seq(TextMessage)]
    /\ stats_data \in [Streams -> StatsData]
    /\ stats_file \in [Streams -> StatsFile]
    /\ simu_file \in [Ranks -> SimuFile]
    /\ launches \in [Simulations -> Nat]
    /\ dropped \in SUBSET Simulations
    /\ told \in [Simulations -> Status]
    /\ launcher_up \in BOOLEAN
    /\ crashes \in Nat

-----------------------------------------------------------------------------
(* What a checkpoint writes and what a restarted server reads.              *)

save_stats(st) ==
    [exists |-> TRUE,
     vect_size |-> stats_data[st].vect_size,
     contributions |-> IF stats_data[st].vect_size = 0 THEN NoContribution
                       ELSE stats_data[st].contributions,
     step_simu |-> IF stats_data[st].vect_size = 0 THEN NoStep
                   ELSE stats_data[st].step_simu]

save_simu_states(r) == [kind |-> "complete", status |-> status[r]]

\* both, for every stream of rank r: the two calls of every checkpoint
SaveRank(r) ==
    /\ stats_file' = [st \in Streams |-> IF RankOf[st] = r THEN save_stats(st)
                                         ELSE stats_file[st]]
    /\ simu_file' = [simu_file EXCEPT ![r] = save_simu_states(r)]

\* (mutants: nothing is read; the steps are not read)
read_nothing(d, f) == d
read_without_steps(d, f) ==
    IF ~f.exists \/ f.vect_size = 0 THEN d
    ELSE [d EXCEPT !.vect_size = f.vect_size, !.contributions = f.contributions]
\* a file without statistics still overwrites vect_size
read_saved_stats(d, f) ==
    IF ~f.exists THEN d
    ELSE IF f.vect_size = 0 THEN [d EXCEPT !.vect_size = 0]
    ELSE [d EXCEPT !.vect_size = f.vect_size,
                   !.contributions = f.contributions,
                   !.step_simu = f.step_simu]

\* (mutant: MPI_MAX)
read_simu_states_max(s) ==
    CHOOSE x \in Status :
        /\ \E r \in Ranks : simu_file[r].status[s] = x
        /\ \A r \in Ranks : x >= simu_file[r].status[s]
\* the status all ranks agree on: MPI_Allreduce(MPI_MIN)
read_simu_states(s) ==
    CHOOSE x \in Status :
        /\ \E r \in Ranks : simu_file[r].status[s] = x
        /\ \A r \in Ranks : x <= simu_file[r].status[s]

-----------------------------------------------------------------------------
(* One data message.                                                        *)

melissa_init_data(d, size) ==
    [d EXCEPT !.vect_size = size,
              !.contributions = NoContribution,
              !.steps_init = TRUE,
              !.stats_init = (size > 0) \/ @]

MessageSize(st) == IF st \in EmptyStreams THEN 0 ELSE 1

\* the allocation and the lazy restart, before the message is looked at
NeedsStats(st) == ~stats_data[st].stats_init /\ MessageSize(st) > 0
NeedsSteps(st) == ~stats_data[st].steps_init

InitStream(st) ==
    LET d == melissa_init_data(stats_data[st], MessageSize(st)) IN
    IF NeedsStats(st)
    THEN IF restart THEN read_saved_stats(d, stats_file[st]) ELSE d
    ELSE IF NeedsSteps(st) THEN d ELSE stats_data[st]

\* every statistic is updated once for each of the vect_size cells
compute_stats(d, s, t) ==
    IF d.vect_size = 0 THEN d
    ELSE [d EXCEPT !.contributions[s][t] = @ + 1]

\* (mutant: steps counted from 1)
set_bit_next(d, s, t) == [d EXCEPT !.step_simu[s] = @ \cup {t + 1}]
set_bit(d, s, t) == [d EXCEPT !.step_simu[s] = @ \cup {t}]

\* (mutant: test_bit forgotten)
AccumulateAgain(d, s, t) == set_bit(compute_stats(d, s, t), s, t)
Accumulate(d, s, t) ==
    IF t \in d.step_simu[s] THEN d    \* already computed, message ignored
    ELSE set_bit(compute_stats(d, s, t), s, t)

\* (mutant: the last step is not looked at)
check_simu_state_early(sd, r, s) ==
    IF \E st \in StreamsOf(r) :
            sd[st].steps_init /\ ~(Steps \ {NbTimeSteps - 1} \subseteq sd[st].step_simu[s])
    THEN 1 ELSE 2
\* a stream that has received nothing yet is not looked at
check_simu_state(sd, r, s) ==
    IF \E st \in StreamsOf(r) : sd[st].steps_init /\ sd[st].step_simu[s] # Steps
    THEN 1 ELSE 2

\* (mutant: finished again with every message after the last)
NewlyFinishedAgain(r, s, new) == new = 2
NewlyFinished(r, s, new) == new = 2 /\ status[r][s] # 2

CanRun(r) == r = Root \/ connected   \* other ranks wait in MPI_Bcast

RecvData(st, s, t) ==
    LET r   == RankOf[st]
        sd  == [stats_data EXCEPT ![st] = Accumulate(InitStream(st), s, t)]
        new == check_simu_state(sd, r, s)
    IN
    /\ connected
    /\ pc[r] \in {"top", "poll", "data"}
    /\ launches[s] > 0
    /\ s \in dropped => "late_data" \in Faults
    /\ stats_data' = sd
    /\ checkpoint_on' = [checkpoint_on EXCEPT
                            ![r] = @ \/ NeedsStats(st) \/ NeedsSteps(st)]
    /\ status' = [status EXCEPT ![r][s] = new]
    /\ job_status' = [job_status EXCEPT ![r][s] = 1]
    /\ nb_finished_simulations' =
          IF NewlyFinished(r, s, new)
          THEN [nb_finished_simulations EXCEPT ![r] = @ + 1]
          ELSE nb_finished_simulations
    /\ told' = IF r = Root /\ new # status[r][s]
               THEN [told EXCEPT ![s] = new] ELSE told
    /\ pc' = [pc EXCEPT ![r] = "test"]
    /\ UNCHANGED <<sampling_size, connected, restart, end_signal, text_puller,
                   diskVars, envVars>>

\* Bad time stamp or unknown field: "continue" skips the rest of the loop.
RecvIgnored(r) ==
    /\ connected
    /\ pc[r] \in {"poll", "data"}
    /\ pc' = [pc EXCEPT ![r] = "top"]
    /\ UNCHANGED <<simuVars, connected, restart, checkpoint_on, end_signal,
                   text_puller, stats_data, diskVars, told, envVars>>

-----------------------------------------------------------------------------
(* Text messages, connexions, timeouts.                                     *)

process_launcher_message(r, kind, s) ==
    \/ /\ kind = "JOB"
       /\ job_status' = [job_status EXCEPT ![r][s] = 0]
       /\ UNCHANGED <<status, nb_finished_simulations>>
    \/ /\ kind = "DROP"
       /\ job_status' = [job_status EXCEPT ![r][s] = 1]
       /\ status' = [status EXCEPT ![r][s] = IF r = Root THEN 3 ELSE 2]
       /\ nb_finished_simulations' = [nb_finished_simulations EXCEPT ![r] = @ + 1]

\* (a rank reads one even before it waits for the first connexion)
RecvText(r) ==
    /\ pc[r] \in {"top", "poll"}
    /\ text_puller[r] # <<>>
    /\ process_launcher_message(r, Head(text_puller[r])[1], Head(text_puller[r])[2])
    /\ sampling_size' = [sampling_size EXCEPT ![r] = NbSimulations]
    /\ text_puller' = [text_puller EXCEPT ![r] = Tail(@)]
    /\ pc' = [pc EXCEPT ![r] = "data"]
    /\ UNCHANGED <<connected, restart, checkpoint_on, end_signal, stats_data,
                   diskVars, told, envVars>>

\* The first connexion of a simulation: rank 0 answers, then all the ranks
\* meet in MPI_Bcast and know the size of the clients.
RecvConnexion ==
    /\ ~connected
    /\ pc[Root] \in {"top", "poll", "data"}
    /\ \E s \in Simulations : launches[s] > 0
    /\ connected' = TRUE
    /\ pc' = [pc EXCEPT ![Root] = "data"]
    /\ UNCHANGED <<simuVars, restart, checkpoint_on, end_signal, text_puller,
                   stats_data, diskVars, told, envVars>>

\* simulations whose last message check_timeouts looks at
\* (mutant: also finished ones)
WatchedFinished == {s \in Simulations : job_status[Root][s] > 0}
Watched == {s \in Simulations : status[Root][s] = 1 /\ job_status[Root][s] > 0}

\* check_timeouts then send_timeouts: rank 0 finds some simulations late
CheckTimeouts ==
    /\ pc[Root] = "top"
    /\ \E late \in SUBSET Watched :
          /\ late # {}
          /\ status' = [status EXCEPT ![Root] =
                [s \in Simulations |-> IF s \in late THEN 0 ELSE @[s]]]
          /\ told' = [s \in Simulations |-> IF s \in late THEN 0 ELSE told[s]]
    /\ UNCHANGED <<job_status, nb_finished_simulations, sampling_size, loopVars,
                   text_puller, stats_data, diskVars, envVars>>

count_job_status(r, js) == Cardinality({s \in Simulations : job_status[r][s] = js})

\* No message from the launcher for timeout_launcher seconds. The subtraction
\* is repeated by every iteration; below 0 it can change no later test, which
\* bounds it.
LauncherTimeout(r) ==
    /\ ~launcher_up
    /\ text_puller[r] = <<>>
    /\ CanRun(r)
    /\ pc[r] = "top"
    /\ sampling_size[r] >= 0
    /\ sampling_size' = [sampling_size EXCEPT ![r] = @ - count_job_status(r, -1)]
    /\ pc' = [pc EXCEPT ![r] = "poll"]
    /\ UNCHANGED <<status, job_status, nb_finished_simulations, connected, restart,
                   checkpoint_on, end_signal, text_puller, stats_data, diskVars,
                   told, envVars>>

Checkpoint(r) ==
    /\ CanRun(r)
    /\ pc[r] \in {"top", "poll"}
    /\ checkpoint_on[r]
    /\ SaveRank(r)
    /\ pc' = [pc EXCEPT ![r] = "poll"]
    /\ UNCHANGED <<simuVars, connected, restart, checkpoint_on, end_signal,
                   text_puller, stats_data, told, envVars>>

-----------------------------------------------------------------------------
(* The end of an iteration and of the study.                                *)

\* (mutants: one simulation is not waited for; one too many is)
AllButOneFinished(r) ==
    /\ nb_finished_simulations[r] >= sampling_size[r] - 1
    /\ nb_finished_simulations[r] > 0
MoreThanAllFinished(r) == nb_finished_simulations[r] > sampling_size[r]
AllFinished(r) ==
    /\ nb_finished_simulations[r] >= sampling_size[r]
    /\ nb_finished_simulations[r] > 0

\* Rank r saves and goes to next. Before the first connexion client_comm_size
\* and stats_data are read uninitialized: the rank saves no statistics, or dies.
SaveAndGo(r, next) ==
    \/ /\ connected
       /\ SaveRank(r)
       /\ pc' = [pc EXCEPT ![r] = next]
    \/ /\ ~connected
       /\ simu_file' = [simu_file EXCEPT ![r] = save_simu_states(r)]
       /\ UNCHANGED stats_file
       /\ \E end \in {next, "broken"} : pc' = [pc EXCEPT ![r] = end]

\* A signal stays set: every later iteration saves and leaves the loop before
\* the end test, and main() enters it again.
SignalSave(r) ==
    /\ CanRun(r)
    /\ end_signal[r]
    /\ pc[r] \in {"top", "poll", "data", "test"}
    /\ SaveAndGo(r, "top")
    /\ UNCHANGED <<simuVars, connected, restart, checkpoint_on, end_signal,
                   text_puller, stats_data, told, envVars>>

\* the end test of an iteration, and the start of melissa_server_finalize
EndTest(r) ==
    /\ CanRun(r)
    /\ ~end_signal[r]
    /\ pc[r] \in {"top", "poll", "data", "test"}
    /\ \/ /\ AllFinished(r)
          /\ SaveAndGo(r, "ended")
       \/ /\ ~AllFinished(r)
          /\ pc[r] # "top"
          /\ pc' = [pc EXCEPT ![r] = "top"]
          /\ UNCHANGED diskVars
    /\ UNCHANGED <<simuVars, connected, restart, checkpoint_on, end_signal,
                   text_puller, stats_data, told, envVars>>

\* The results are written in collective operations; then rank 0 sends STOP.
Finalize ==
    /\ \A r \in Ranks : pc[r] = "ended"
    /\ pc' = [r \in Ranks |-> "finalized"]
    /\ UNCHANGED <<simuVars, connected, restart, checkpoint_on, end_signal,
                   text_puller, stats_data, diskVars, told, envVars>>

Stopped == \A r \in Ranks : pc[r] = "finalized"

-----------------------------------------------------------------------------
(* Start, crash and restart of the server.                                  *)

\* memory as melissa_server_init leaves it, from the saved statuses st
StartFrom(st, finished) ==
    /\ status' = [r \in Ranks |-> st]
    /\ job_status' = [r \in Ranks |-> [s \in Simulations |-> -1]]
    /\ nb_finished_simulations' = [r \in Ranks |-> finished]
    /\ sampling_size' = [r \in Ranks |-> NbSimulations]
    /\ text_puller' = [r \in Ranks |-> <<>>]
    /\ stats_data' = add_fields
    /\ checkpoint_on' = [r \in Ranks |-> FALSE]
    /\ end_signal' = [r \in Ranks |-> FALSE]
    /\ connected' = FALSE

HasCheckpoint == \A r \in Ranks : simu_file[r].kind # "absent"

\* memory is gone; it is reset here so that equal situations are equal states
Die ==
    /\ "crash" \in Faults
    /\ crashes < MaxCrashes
    /\ ~Stopped
    /\ \A r \in Ranks : pc[r] # "down"
    /\ HasCheckpoint \/ "early_crash" \in Faults
    /\ (\A r \in Ranks : pc[r] = "ended") => "late_crash" \in Faults
    /\ crashes' = crashes + 1
    /\ pc' = [r \in Ranks |-> "down"]
    /\ StartFrom([s \in Simulations |-> 0], 0)
    /\ UNCHANGED <<restart, told, launches, dropped, launcher_up>>

Crash == Die /\ UNCHANGED diskVars

Saving(r) ==
    /\ connected
    /\ \/ pc[r] \in {"top", "poll"} /\ checkpoint_on[r]
       \/ pc[r] \in {"top", "poll", "data", "test"} /\ AllFinished(r)

\* a file cut before the steps, its last part, or before the statistics too
Torn(f, kept) == [f EXCEPT !.contributions = IF kept THEN @ ELSE NoContribution,
                           !.step_simu = NoStep]

\* A checkpoint cut by the crash, on the ranks in saving: the streams in done
\* were written, those in torn in part; simu_<rank>.data is written last.
CutSave(saving, done, torn, kept, cut) ==
    /\ saving # {}
    /\ \A st \in done \cup torn : RankOf[st] \in saving
    /\ torn \cap done = {}
    /\ torn \cup cut # {} => "torn_file" \in Faults
    /\ \A a, b \in torn : RankOf[a] = RankOf[b] => a = b
    /\ \A r \in cut : StreamsOf(r) \subseteq done
    /\ stats_file' = [st \in Streams |->
          IF st \in done THEN save_stats(st)
          ELSE IF st \in torn THEN Torn(save_stats(st), kept)
          ELSE stats_file[st]]
    /\ simu_file' = [r \in Ranks |->
          IF r \in cut THEN [simu_file[r] EXCEPT !.kind = "truncated"]
          ELSE simu_file[r]]

CrashInSave ==
    /\ "crash_in_save" \in Faults
    /\ \E saving \in SUBSET {r \in Ranks : Saving(r)} :
       \E done, torn \in SUBSET Streams :
       \E kept \in BOOLEAN :
       \E cut \in SUBSET saving : CutSave(saving, done, torn, kept, cut)
    /\ Die

SavedStatus == [s \in Simulations |->
    IF read_simu_states(s) = 1 THEN 0 ELSE read_simu_states(s)]

Readable == \A r \in Ranks : simu_file[r].kind = "complete"

\* The launcher starts the server again, with -r. A status file that is
\* missing or empty leaves the simulations vector or its size uninitialized.
Restart ==
    /\ launcher_up
    /\ pc[Root] = "down"
    /\ restart' = TRUE
    /\ \/ /\ ~Readable
          /\ pc' = [r \in Ranks |-> "broken"]
          /\ UNCHANGED <<simuVars, text_puller, stats_data, checkpoint_on,
                         end_signal, connected, told>>
       \/ /\ Readable
          /\ pc' = [r \in Ranks |-> "top"]
          /\ StartFrom(SavedStatus,
                       Cardinality({s \in Simulations : SavedStatus[s] = 2}))
          /\ told' = SavedStatus
    /\ UNCHANGED <<diskVars, envVars>>

-----------------------------------------------------------------------------
(* The launcher and the simulations, as the server sees them.               *)

Up == pc[Root] \notin {"down", "broken", "finalized"}

\* PUB/SUB: a message goes to every rank that is subscribed at that time
Publish(m) ==
    \E to \in SUBSET Ranks :
        /\ to = Ranks \/ "lost_text" \in Faults
        /\ text_puller' = [r \in Ranks |-> IF r \in to THEN Append(text_puller[r], m)
                                           ELSE text_puller[r]]

\* submission of a simulation, or of its rerun after a fault: send_job
Submit(s) ==
    /\ launcher_up /\ Up
    /\ launches[s] < MaxLaunches
    /\ s \notin dropped
    /\ launches[s] > 0 => told[s] \in {0, 1}
    /\ launches' = [launches EXCEPT ![s] = @ + 1]
    /\ Publish(<<"JOB", s>>)
    /\ UNCHANGED <<simuVars, loopVars, stats_data, diskVars, told, dropped,
                   launcher_up, crashes>>

\* too many restarts: send_drop
GiveUp(s) ==
    /\ launcher_up /\ Up
    /\ "drop" \in Faults
    /\ launches[s] > 0
    /\ s \notin dropped
    /\ (\E r \in Ranks : status[r][s] = 2) => "drop_finished" \in Faults
    /\ dropped' = dropped \cup {s}
    /\ Publish(<<"DROP", s>>)
    /\ UNCHANGED <<simuVars, loopVars, stats_data, diskVars, told, launches,
                   launcher_up, crashes>>

LauncherDies ==
    /\ "launcher_death" \in Faults
    /\ launcher_up
    /\ launcher_up' = FALSE
    /\ UNCHANGED <<simuVars, loopVars, text_puller, stats_data, diskVars, told,
                   launches, dropped, crashes>>

Signal(r) ==
    /\ "signal" \in Faults
    /\ pc[r] \in {"top", "poll", "data", "test"}
    /\ ~end_signal[r]
    /\ end_signal' = [end_signal EXCEPT ![r] = TRUE]
    /\ UNCHANGED <<simuVars, pc, connected, restart, checkpoint_on, text_puller,
                   stats_data, diskVars, told, envVars>>

-----------------------------------------------------------------------------

Init ==
    /\ pc = [r \in Ranks |-> "top"]
    /\ connected = FALSE
    /\ restart = FALSE
    /\ status = [r \in Ranks |-> [s \in Simulations |-> 0]]
    /\ job_status = [r \in Ranks |-> [s \in Simulations |-> -1]]
    /\ nb_finished_simulations = [r \in Ranks |-> 0]
    /\ sampling_size = [r \in Ranks |-> NbSimulations]
    /\ checkpoint_on = [r \in Ranks |-> FALSE]
    /\ end_signal = [r \in Ranks |-> FALSE]
    /\ text_puller = [r \in Ranks |-> <<>>]
    /\ stats_data = add_fields
    /\ stats_file = [st \in Streams |->
            [exists |-> FALSE, vect_size |-> 0,
             contributions |-> NoContribution, step_simu |-> NoStep]]
    /\ simu_file = [r \in Ranks |->
            [kind |-> "absent", status |-> [s \in Simulations |-> 0]]]
    /\ launches = [s \in Simulations |-> 0]
    /\ dropped = {}
    /\ told = [s \in Simulations |-> 0]
    /\ launcher_up = TRUE
    /\ crashes = 0

RankNext(r) ==
    \/ RecvIgnored(r) \/ RecvText(r) \/ LauncherTimeout(r) \/ Checkpoint(r)
    \/ SignalSave(r) \/ EndTest(r) \/ Signal(r)

Next ==
    \/ \E st \in Streams, s \in Simulations, t \in Steps : RecvData(st, s, t)
    \/ \E r \in Ranks : RankNext(r)
    \/ RecvConnexion \/ CheckTimeouts \/ Finalize
    \/ Crash \/ CrashInSave \/ Restart
    \/ \E s \in Simulations : Submit(s) \/ GiveUp(s)
    \/ LauncherDies

Spec == Init /\ [][Next]_vars

-----------------------------------------------------------------------------
(* Properties.                                                              *)

\* A message is folded into the statistics at most once, however often it
\* arrives and whatever crashes and restarts happen in between.
\* (server.cxx 649-709: the step bits; melissa_io.c: saved with the statistics)
AtMostOnce ==
    \A st \in Streams, s \in Simulations, t \in Steps :
        stats_data[st].contributions[s][t] <= 1

\* The step bits and the statistics never disagree, in memory and on disk: a
\* step marked as received is in the statistics of every non-empty part of the
\* field, a step that is not marked is not.
Agree(d) == \A s \in Simulations, t \in Steps :
    d.contributions[s][t] = IF t \in d.step_simu[s] THEN 1 ELSE 0

BitsAreContributions ==
    \A st \in Streams : /\ stats_data[st].vect_size > 0 => Agree(stats_data[st])
                        /\ stats_file[st].vect_size > 0 => Agree(stats_file[st])

\* Everything simulation s sends on stream st is in the statistics of this
\* server, or will be once the stream reads its checkpoint.
Complete(d, s) == \A t \in Steps : d.contributions[s][t] = 1
Collected(st, s) ==
    \/ st \in EmptyStreams
    \/ stats_data[st].stats_init /\ Complete(stats_data[st], s)
    \/ ~stats_data[st].stats_init /\ restart /\ Complete(stats_file[st], s)

\* A simulation the launcher was told is finished needs no rerun: rank 0 has, or
\* can still read back, every one of its messages (server.cxx 735-770).
ToldMeansCollected ==
    \A s \in Simulations, st \in StreamsOf(Root) :
        Up /\ told[s] = 2 => Collected(st, s)

\* The server stops only when every simulation has sent all its messages, or
\* was given up (server.cxx 881-885; server/README.md:67).
StopMeansComplete ==
    Stopped => \A s \in Simulations \ dropped, st \in Streams \ EmptyStreams :
                   Complete(stats_data[st], s)

\* nb_finished_simulations counts each finished or dropped simulation once
\* (server.cxx 266-285 and 750-760, server_helper.c 196-206).
FinishedCount ==
    \A r \in Ranks : pc[r] \notin {"down", "broken"} =>
        nb_finished_simulations[r] =
            Cardinality({s \in Simulations : status[r][s] \in {2, 3}})

\* "remove unsubmited simulations from the sample" (server.cxx:376): what is
\* left of the sample is at least the simulations that were submitted.
SampleKeepsSubmitted ==
    \A r \in Ranks : Up =>
        sampling_size[r] >= NbSimulations - count_job_status(r, -1)

\* Once stored in a checkpoint, a contribution is in every later one.
CheckpointsKeepStatistics ==
    [][\A st \in Streams, s \in Simulations, t \in Steps :
          stats_file[st].contributions[s][t] > 0
              => stats_file'[st].contributions[s][t] > 0]_stats_file

\* Without a crash, a rank never goes back on a finished simulation: it is
\* neither counted twice nor reported as running again (server.cxx 735-775).
FinishedIsFinal ==
    [][\A r \in Ranks, s \in Simulations :
          pc'[r] # "down" /\ status[r][s] \in {2, 3} => status'[r][s] \in {2, 3}]_status

-----------------------------------------------------------------------------
(* Fairness: the loop of every rank goes on; ZeroMQ serves every connected    *)
(* peer in turn and loses nothing, so a simulation that runs to its end gets  *)
(* its messages through in spite of duplicates; the launcher submits every    *)
(* simulation and restarts a dead server.                                     *)

Awaited(r) ==
    \E st \in StreamsOf(r), s \in Simulations, t \in Steps :
        /\ status[r][s] \notin {2, 3}
        /\ t \notin InitStream(st).step_simu[s] \/ status[r][s] = 0
        /\ RecvData(st, s, t)

Fairness ==
    /\ \A r \in Ranks : /\ SF_vars(Awaited(r))
                        /\ SF_vars(RecvText(r))
                        /\ WF_vars(EndTest(r))
    /\ WF_vars(RecvConnexion)
    /\ WF_vars(Finalize)
    /\ WF_vars(Restart)
    /\ \A s \in Simulations : WF_vars(launches[s] = 0 /\ Submit(s))

FairSpec == Spec /\ Fairness

\* "It [...] stops after the end of the last simulation" (server/README.md:9).
Termination == <>[]Stopped

=============================================================================
