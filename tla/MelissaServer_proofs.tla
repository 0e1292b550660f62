------------------------- MODULE MelissaServer_proofs -------------------------
(***************************************************************************)
(* Theorems about MelissaServer, for every set of simulations, ranks and    *)
(* streams and every number of time steps and crashes:                      *)
(*   - what it counts, whatever goes wrong but a file cut in its middle;    *)
(*   - that a study which ends has all its data, as long as each rank is    *)
(*     fed by one stream (the runs ServerPremature and ServerWipe show that *)
(*     it is not so with two streams on a rank);                            *)
(*   - that the server then keeps its promise (ServerPromise): each step of *)
(*     it is a step of the promise or changes nothing it speaks of.         *)
(***************************************************************************)
EXTENDS ServerRefines, FiniteSetTheorems, TLAPS

-----------------------------------------------------------------------------
(* The structures and the functions on them have the right types.           *)

LEMMA EmptyTypes ==
    /\ NoContribution \in [Simulations -> [Steps -> Nat]]
    /\ NoStep \in [Simulations -> SUBSET Steps]
    /\ add_fields \in [Streams -> StatsData]
  BY DEF NoContribution, NoStep, add_fields, StatsData

LEMMA MessageSizeType == \A st : MessageSize(st) \in {0, 1}
  BY DEF MessageSize

LEMMA InitDataType ==
    ASSUME NEW d \in StatsData, NEW size \in {0, 1}
    PROVE  melissa_init_data(d, size) \in StatsData
  BY EmptyTypes DEF melissa_init_data, StatsData

LEMMA ReadStatsType ==
    ASSUME NEW d \in StatsData, NEW f \in StatsFile
    PROVE  read_saved_stats(d, f) \in StatsData
  BY DEF read_saved_stats, StatsData, StatsFile

LEMMA InitStreamType ==
    ASSUME stats_data \in [Streams -> StatsData],
           stats_file \in [Streams -> StatsFile],
           NEW st \in Streams
    PROVE  InitStream(st) \in StatsData
  <1>1. melissa_init_data(stats_data[st], MessageSize(st)) \in StatsData
    BY InitDataType, MessageSizeType
  <1> QED BY <1>1, ReadStatsType DEF InitStream

LEMMA AccumulateType ==
    ASSUME NEW d \in StatsData, NEW s \in Simulations, NEW t \in Steps
    PROVE  Accumulate(d, s, t) \in StatsData
  <1>1. compute_stats(d, s, t) \in StatsData
    <2> DEFINE c == d.contributions
               more == [c EXCEPT ![s] = [c[s] EXCEPT ![t] = c[s][t] + 1]]
    <2>1. c \in [Simulations -> [Steps -> Nat]]
      BY DEF StatsData
    <2>2. more \in [Simulations -> [Steps -> Nat]]
      BY <2>1
    <2>3. [d EXCEPT !.contributions = more] \in StatsData
      BY <2>2 DEF StatsData
    <2> QED BY <2>3 DEF compute_stats
  <1>2. ASSUME NEW e \in StatsData PROVE set_bit(e, s, t) \in StatsData
    BY DEF set_bit, StatsData
  <1> QED BY <1>1, <1>2 DEF Accumulate

LEMMA SaveStatsType ==
    ASSUME stats_data \in [Streams -> StatsData], NEW st \in Streams
    PROVE  save_stats(st) \in StatsFile
  BY EmptyTypes DEF save_stats, StatsData, StatsFile

LEMMA SaveRankType ==
    ASSUME TypeOK, NEW r \in Ranks, SaveRank(r)
    PROVE  /\ stats_file' \in [Streams -> StatsFile]
           /\ simu_file' \in [Ranks -> SimuFile]
  <1>1. stats_file' \in [Streams -> StatsFile]
    BY SaveStatsType DEF SaveRank, TypeOK
  <1>2. save_simu_states(r) \in SimuFile
    BY DEF TypeOK, save_simu_states, SimuFile
  <1>3. simu_file' \in [Ranks -> SimuFile]
    BY <1>2 DEF SaveRank, TypeOK
  <1> QED BY <1>1, <1>3

\* The minimum over the ranks exists.
LEMMA SavedStatusType ==
    ASSUME simu_file \in [Ranks -> SimuFile]
    PROVE  SavedStatus \in [Simulations -> Status]
  <1> SUFFICES ASSUME NEW s \in Simulations
               PROVE  read_simu_states(s) \in Status
    BY DEF SavedStatus, Status
  <1> DEFINE saved(r) == simu_file[r].status[s]
             isMin(x) == /\ \E r \in Ranks : saved(r) = x
                         /\ \A r \in Ranks : x <= saved(r)
  <1>1. \A r \in Ranks : saved(r) \in 0 .. 3
    BY DEF SimuFile, Status
  <1> HIDE DEF saved
  <1>2. \E x \in Status : isMin(x)
    <2>1. CASE \E r \in Ranks : saved(r) = 0
      BY <1>1, <2>1 DEF Status
    <2>2. CASE (\A r \in Ranks : saved(r) # 0) /\ \E r \in Ranks : saved(r) = 1
      BY <1>1, <2>2 DEF Status
    <2>3. CASE (\A r \in Ranks : saved(r) \notin {0, 1}) /\ \E r \in Ranks : saved(r) = 2
      BY <1>1, <2>3 DEF Status
    <2>4. CASE \A r \in Ranks : saved(r) \notin {0, 1, 2}
      BY <1>1, <2>4, RootAssumption DEF Status
    <2> QED BY <2>1, <2>2, <2>3, <2>4
  <1> QED BY <1>2 DEF read_simu_states, saved

LEMMA CountType ==
    ASSUME NEW S \in SUBSET Simulations
    PROVE  Cardinality(S) \in Nat
  BY FiniteAssumption, FS_Subset, FS_CardinalityType

-----------------------------------------------------------------------------
(* Type correctness.                                                        *)

\* What every action that only moves rank r along its loop leaves well typed.
LoopType == pc' \in [Ranks -> {"top", "poll", "data", "test", "ended",
                              "finalized", "down", "broken"}]

LEMMA StartType ==
    ASSUME NEW st \in [Simulations -> Status], NEW n \in Nat, StartFrom(st, n)
    PROVE  /\ status' \in [Ranks -> [Simulations -> Status]]
           /\ job_status' \in [Ranks -> [Simulations -> {-1, 0, 1}]]
           /\ nb_finished_simulations' \in [Ranks -> Nat]
           /\ sampling_size' \in [Ranks -> Int]
           /\ text_puller' \in [Ranks -> Seq(TextMessage)]
           /\ stats_data' \in [Streams -> StatsData]
           /\ checkpoint_on' \in [Ranks -> BOOLEAN]
           /\ end_signal' \in [Ranks -> BOOLEAN]
           /\ connected' \in BOOLEAN
  <1>1. NbSimulations \in Int
    BY CountType DEF NbSimulations
  <1>2. /\ status' \in [Ranks -> [Simulations -> Status]]
        /\ nb_finished_simulations' \in [Ranks -> Nat]
        /\ sampling_size' \in [Ranks -> Int]
    BY <1>1 DEF StartFrom
  <1>3. job_status' \in [Ranks -> [Simulations -> {-1, 0, 1}]]
    BY DEF StartFrom
  <1>4. text_puller' \in [Ranks -> Seq(TextMessage)]
    BY DEF StartFrom
  <1>5. stats_data' \in [Streams -> StatsData]
    BY EmptyTypes DEF StartFrom
  <1>6. /\ checkpoint_on' \in [Ranks -> BOOLEAN]
        /\ end_signal' \in [Ranks -> BOOLEAN]
        /\ connected' \in BOOLEAN
    BY DEF StartFrom
  <1> QED BY <1>2, <1>3, <1>4, <1>5, <1>6

LEMMA InitTypeOK == Init => TypeOK
  <1>1. NbSimulations \in Int
    BY CountType DEF NbSimulations
  <1> SUFFICES ASSUME Init PROVE TypeOK
    OBVIOUS
  <1>2. /\ stats_data \in [Streams -> StatsData]
        /\ stats_file \in [Streams -> StatsFile]
    BY EmptyTypes DEF Init, StatsFile
  <1>3. simu_file \in [Ranks -> SimuFile]
    BY DEF Init, SimuFile, Status
  <1>4. /\ status \in [Ranks -> [Simulations -> Status]]
        /\ told \in [Simulations -> Status]
    BY DEF Init, Status
  <1>5. job_status \in [Ranks -> [Simulations -> {-1, 0, 1}]]
    BY DEF Init
  <1>6. text_puller \in [Ranks -> Seq(TextMessage)]
    BY DEF Init
  <1>7. /\ pc \in [Ranks -> {"top", "poll", "data", "test", "ended",
                             "finalized", "down", "broken"}]
        /\ nb_finished_simulations \in [Ranks -> Nat]
        /\ sampling_size \in [Ranks -> Int]
        /\ launches \in [Simulations -> Nat]
    BY <1>1 DEF Init
  <1>8. /\ checkpoint_on \in [Ranks -> BOOLEAN]
        /\ end_signal \in [Ranks -> BOOLEAN]
        /\ connected \in BOOLEAN
        /\ restart \in BOOLEAN
        /\ launcher_up \in BOOLEAN
        /\ dropped \in SUBSET Simulations
        /\ crashes \in Nat
    BY DEF Init
  <1> QED BY <1>2, <1>3, <1>4, <1>5, <1>6, <1>7, <1>8 DEF TypeOK

LEMMA RecvDataTypeOK ==
    ASSUME TypeOK, NEW st \in Streams, NEW s \in Simulations, NEW t \in Steps,
           RecvData(st, s, t)
    PROVE  TypeOK'
  <1> DEFINE r == RankOf[st]
             sd == [stats_data EXCEPT ![st] = Accumulate(InitStream(st), s, t)]
             new == check_simu_state(sd, r, s)
  <1>1. r \in Ranks
    BY StreamsAssumption
  <1>2. sd \in [Streams -> StatsData]
    BY InitStreamType, AccumulateType DEF TypeOK
  <1>3. new \in Status
    BY DEF check_simu_state, Status
  <1> HIDE DEF new, sd
  <1>4. stats_data' = sd
    BY DEF RecvData, sd
  <1>5. /\ status' = [status EXCEPT ![r][s] = new]
        /\ job_status' = [job_status EXCEPT ![r][s] = 1]
        /\ nb_finished_simulations' \in {nb_finished_simulations,
              [nb_finished_simulations EXCEPT ![r] = @ + 1]}
        /\ told' \in {told, [told EXCEPT ![s] = new]}
    BY DEF RecvData, new, sd
  <1>6. status' \in [Ranks -> [Simulations -> Status]]
    <2>1. [status[r] EXCEPT ![s] = new] \in [Simulations -> Status]
      BY <1>1, <1>3 DEF TypeOK
    <2> QED BY <1>1, <1>5, <2>1 DEF TypeOK
  <1>7. job_status' \in [Ranks -> [Simulations -> {-1, 0, 1}]]
    <2>1. [job_status[r] EXCEPT ![s] = 1] \in [Simulations -> {-1, 0, 1}]
      BY <1>1 DEF TypeOK
    <2> QED BY <1>1, <1>5, <2>1 DEF TypeOK
  <1>8. /\ nb_finished_simulations' \in [Ranks -> Nat]
        /\ told' \in [Simulations -> Status]
    <2>1. /\ nb_finished_simulations \in [Ranks -> Nat]
          /\ told \in [Simulations -> Status]
      BY DEF TypeOK
    <2>2. [nb_finished_simulations EXCEPT ![r] = @ + 1] \in [Ranks -> Nat]
      BY <1>1, <2>1
    <2>3. [told EXCEPT ![s] = new] \in [Simulations -> Status]
      BY <1>3, <2>1
    <2> QED BY <1>5, <2>1, <2>2, <2>3
  <1>9. /\ checkpoint_on' \in [Ranks -> BOOLEAN]
        /\ LoopType
    BY <1>1 DEF RecvData, TypeOK, LoopType, NeedsStats, NeedsSteps, StatsData
  <1> QED BY <1>2, <1>4, <1>6, <1>7, <1>8, <1>9
          DEF RecvData, TypeOK, LoopType, diskVars, envVars

LEMMA RecvTextTypeOK ==
    ASSUME TypeOK, NEW r \in Ranks, RecvText(r)
    PROVE  TypeOK'
  <1> DEFINE kind == Head(text_puller[r])[1]
             s == Head(text_puller[r])[2]
  <1>1. NbSimulations \in Int
    BY CountType DEF NbSimulations
  <1>2. /\ text_puller[r] \in Seq(TextMessage)
        /\ text_puller[r] # <<>>
    BY DEF TypeOK, RecvText
  <1>3. /\ s \in Simulations
        /\ Tail(text_puller[r]) \in Seq(TextMessage)
    <2>1. Head(text_puller[r]) \in TextMessage
      BY <1>2
    <2> QED BY <1>2, <2>1 DEF TextMessage
  <1>4. text_puller' \in [Ranks -> Seq(TextMessage)]
    BY <1>3 DEF RecvText, TypeOK
  <1>5. process_launcher_message(r, kind, s)
    BY DEF RecvText
  <1> HIDE DEF kind, s
  <1>6. /\ status' \in [Ranks -> [Simulations -> Status]]
        /\ job_status' \in [Ranks -> [Simulations -> {-1, 0, 1}]]
        /\ nb_finished_simulations' \in [Ranks -> Nat]
    <2> DEFINE st == IF r = Root THEN 3 ELSE 2
    <2>1. /\ st \in Status
          /\ [status[r] EXCEPT ![s] = st] \in [Simulations -> Status]
      BY <1>3 DEF TypeOK, Status
    <2>2. \A js \in {0, 1} : [job_status[r] EXCEPT ![s] = js]
                                \in [Simulations -> {-1, 0, 1}]
      BY <1>3 DEF TypeOK
    <2>3. CASE kind = "JOB"
      BY <1>5, <2>2, <2>3 DEF process_launcher_message, TypeOK
    <2>4. CASE kind # "JOB"
      <3>1. /\ status' = [status EXCEPT ![r][s] = st]
            /\ job_status' = [job_status EXCEPT ![r][s] = 1]
            /\ nb_finished_simulations' =
                  [nb_finished_simulations EXCEPT ![r] = @ + 1]
        BY <1>5, <2>4 DEF process_launcher_message
      <3> HIDE DEF st
      <3> QED BY <2>1, <2>2, <3>1 DEF TypeOK
    <2> QED BY <2>3, <2>4
  <1>7. /\ sampling_size' \in [Ranks -> Int]
        /\ LoopType
    BY <1>1 DEF RecvText, TypeOK, LoopType
  <1> QED BY <1>4, <1>6, <1>7 DEF RecvText, TypeOK, LoopType, diskVars, envVars

\* A checkpoint, a signal, the end test: the files and the place in the loop.
LEMMA LoopTypeOK ==
    ASSUME TypeOK, NEW r \in Ranks,
           RecvIgnored(r) \/ Checkpoint(r) \/ SignalSave(r) \/ EndTest(r)
    PROVE  TypeOK'
  <1>1. LoopType
    BY DEF RecvIgnored, Checkpoint, SignalSave, EndTest, SaveAndGo, LoopType, TypeOK
  <1>2. /\ stats_file' \in [Streams -> StatsFile]
        /\ simu_file' \in [Ranks -> SimuFile]
    <2>1. CASE SaveRank(r)
      BY <2>1, SaveRankType
    <2>2. CASE UNCHANGED diskVars
      BY <2>2 DEF diskVars, TypeOK
    <2>3. CASE /\ simu_file' = [simu_file EXCEPT ![r] = save_simu_states(r)]
               /\ UNCHANGED stats_file
      <3>1. save_simu_states(r) \in SimuFile
        BY DEF TypeOK, save_simu_states, SimuFile
      <3> QED BY <2>3, <3>1 DEF TypeOK
    <2> QED BY <2>1, <2>2, <2>3
            DEF RecvIgnored, Checkpoint, SignalSave, EndTest, SaveAndGo
  <1>3. UNCHANGED <<simuVars, connected, restart, checkpoint_on, end_signal,
                    text_puller, stats_data, told, envVars>>
    BY DEF RecvIgnored, Checkpoint, SignalSave, EndTest
  <1> QED BY <1>1, <1>2, <1>3 DEF TypeOK, LoopType, simuVars, envVars

LEMMA LauncherTimeoutTypeOK ==
    ASSUME TypeOK, NEW r \in Ranks, LauncherTimeout(r)
    PROVE  TypeOK'
  <1>1. count_job_status(r, -1) \in Nat
    BY CountType DEF count_job_status
  <1>2. /\ sampling_size' \in [Ranks -> Int]
        /\ LoopType
    BY <1>1 DEF LauncherTimeout, LoopType, TypeOK
  <1> QED BY <1>2 DEF LauncherTimeout, TypeOK, LoopType, diskVars, envVars

LEMMA SignalTypeOK ==
    ASSUME TypeOK, NEW r \in Ranks, Signal(r)
    PROVE  TypeOK'
  <1>1. end_signal' \in [Ranks -> BOOLEAN]
    BY DEF Signal, TypeOK
  <1> QED BY <1>1 DEF Signal, TypeOK, simuVars, diskVars, envVars

LEMMA CheckTimeoutsTypeOK == ASSUME TypeOK, CheckTimeouts PROVE TypeOK'
  <1>1. PICK late \in SUBSET Simulations :
            /\ status' = [status EXCEPT ![Root] =
                  [s \in Simulations |-> IF s \in late THEN 0 ELSE @[s]]]
            /\ told' = [s \in Simulations |-> IF s \in late THEN 0 ELSE told[s]]
    BY DEF CheckTimeouts, Watched
  <1>2. told' \in [Simulations -> Status]
    BY <1>1 DEF TypeOK, Status
  <1>3. status' \in [Ranks -> [Simulations -> Status]]
    <2>1. [s \in Simulations |-> IF s \in late THEN 0 ELSE status[Root][s]]
              \in [Simulations -> Status]
      BY RootAssumption DEF TypeOK, Status
    <2> QED BY <1>1, <2>1, RootAssumption DEF TypeOK
  <1> QED BY <1>2, <1>3 DEF CheckTimeouts, TypeOK, loopVars, diskVars, envVars

LEMMA GlobalLoopTypeOK ==
    ASSUME TypeOK, RecvConnexion \/ Finalize
    PROVE  TypeOK'
  <1>1. LoopType /\ connected' \in BOOLEAN
    BY RootAssumption DEF RecvConnexion, Finalize, LoopType, TypeOK
  <1> QED BY <1>1 DEF RecvConnexion, Finalize, TypeOK, LoopType, simuVars,
                      diskVars, envVars

LEMMA DieType ==
    ASSUME TypeOK, Die, stats_file' \in [Streams -> StatsFile],
           simu_file' \in [Ranks -> SimuFile]
    PROVE  TypeOK'
  <1>1. [s \in Simulations |-> 0] \in [Simulations -> Status]
    BY DEF Status
  <1>2. StartFrom([s \in Simulations |-> 0], 0)
    BY DEF Die
  <1>3. LoopType /\ crashes' \in Nat
    BY DEF Die, LoopType, TypeOK
  <1>4. UNCHANGED <<restart, told, launches, dropped, launcher_up>>
    BY DEF Die
  <1> HIDE DEF Die
  <1> QED BY <1>1, <1>2, <1>3, <1>4, StartType DEF TypeOK, LoopType

LEMMA CrashTypeOK == ASSUME TypeOK, Crash PROVE TypeOK'
  BY DieType DEF Crash, TypeOK, diskVars

LEMMA CrashInSaveTypeOK == ASSUME TypeOK, CrashInSave PROVE TypeOK'
  <1>1. Die
    BY DEF CrashInSave
  <1>2. PICK saving \in SUBSET Ranks, done \in SUBSET Streams,
             torn \in SUBSET Streams, kept \in BOOLEAN, cut \in SUBSET Ranks :
             CutSave(saving, done, torn, kept, cut)
    BY DEF CrashInSave
  <1>3. simu_file' \in [Ranks -> SimuFile]
    BY <1>2 DEF TypeOK, SimuFile, CutSave
  <1>4. ASSUME NEW f \in StatsFile PROVE Torn(f, kept) \in StatsFile
    BY EmptyTypes DEF StatsFile, Torn
  <1>5. stats_file' \in [Streams -> StatsFile]
    BY <1>2, <1>4, SaveStatsType DEF TypeOK, CutSave
  <1> QED BY <1>1, <1>3, <1>5, DieType

LEMMA RestartTypeOK == ASSUME TypeOK, Restart PROVE TypeOK'
  <1>1. LoopType /\ restart' \in BOOLEAN
    BY DEF Restart, LoopType
  <1>2. CASE ~Readable
    BY <1>1, <1>2 DEF Restart, LoopType, TypeOK, simuVars, diskVars, envVars
  <1>3. CASE Readable
    <2> DEFINE n == Cardinality({s \in Simulations : SavedStatus[s] = 2})
    <2>1. n \in Nat
      BY CountType
    <2>2. SavedStatus \in [Simulations -> Status]
      BY SavedStatusType DEF TypeOK
    <2>3. StartFrom(SavedStatus, n) /\ told' = SavedStatus
      BY <1>3 DEF Restart
    <2>4. UNCHANGED <<diskVars, envVars>>
      BY DEF Restart
    <2> HIDE DEF n
    <2> QED BY <1>1, <2>1, <2>2, <2>3, <2>4, StartType
            DEF TypeOK, LoopType, diskVars, envVars
  <1> QED BY <1>2, <1>3

LEMMA PublishType ==
    ASSUME TypeOK, NEW m \in TextMessage, Publish(m)
    PROVE  text_puller' \in [Ranks -> Seq(TextMessage)]
  <1>1. \A r \in Ranks : Append(text_puller[r], m) \in Seq(TextMessage)
    BY DEF TypeOK
  <1> QED BY <1>1 DEF Publish, TypeOK

LEMMA SubmitTypeOK ==
    ASSUME TypeOK, NEW s \in Simulations, Submit(s) PROVE TypeOK'
  <1>1. text_puller' \in [Ranks -> Seq(TextMessage)]
    BY PublishType DEF Submit, TextMessage
  <1>2. launches' \in [Simulations -> Nat]
    BY DEF Submit, TypeOK
  <1>3. UNCHANGED <<simuVars, loopVars, stats_data, diskVars, told, dropped,
                    launcher_up, crashes>>
    BY DEF Submit
  <1> QED BY <1>1, <1>2, <1>3 DEF TypeOK, simuVars, loopVars, diskVars

LEMMA GiveUpTypeOK ==
    ASSUME TypeOK, NEW s \in Simulations, GiveUp(s) PROVE TypeOK'
  <1>1. text_puller' \in [Ranks -> Seq(TextMessage)]
    BY PublishType DEF GiveUp, TextMessage
  <1>2. dropped' \in SUBSET Simulations
    BY DEF GiveUp, TypeOK
  <1>3. UNCHANGED <<simuVars, loopVars, stats_data, diskVars, told, launches,
                    launcher_up, crashes>>
    BY DEF GiveUp
  <1> QED BY <1>1, <1>2, <1>3 DEF TypeOK, simuVars, loopVars, diskVars

LEMMA NextTypeOK == ASSUME TypeOK, [Next]_vars PROVE TypeOK'
  <1>1. CASE \E st \in Streams, s \in Simulations, t \in Steps : RecvData(st, s, t)
    BY <1>1, RecvDataTypeOK
  <1>2. ASSUME NEW r \in Ranks, RankNext(r) PROVE TypeOK'
    BY <1>2, RecvTextTypeOK, LoopTypeOK, LauncherTimeoutTypeOK, SignalTypeOK
       DEF RankNext
  <1>3. CASE RecvConnexion \/ CheckTimeouts \/ Finalize
    BY <1>3, GlobalLoopTypeOK, CheckTimeoutsTypeOK
  <1>4. CASE Crash \/ CrashInSave \/ Restart
    BY <1>4, CrashTypeOK, CrashInSaveTypeOK, RestartTypeOK
  <1>5. CASE \E s \in Simulations : Submit(s) \/ GiveUp(s)
    BY <1>5, SubmitTypeOK, GiveUpTypeOK
  <1>6. CASE LauncherDies
    BY <1>6 DEF LauncherDies, TypeOK, simuVars, loopVars, diskVars
  <1>7. CASE UNCHANGED vars
    BY <1>7 DEF vars, TypeOK, simuVars, loopVars, diskVars, envVars
  <1> QED BY <1>1, <1>2, <1>3, <1>4, <1>5, <1>6, <1>7 DEF Next

\* The variables keep the types their C declarations give them: the statuses
\* stay in 0..3, the counters of finished simulations never go below zero.
THEOREM TypeCorrect == Spec => []TypeOK
  <1>1. Init => TypeOK
    BY InitTypeOK
  <1>2. TypeOK /\ [Next]_vars => TypeOK'
    BY NextTypeOK
  <1> QED BY <1>1, <1>2, PTL DEF Spec

-----------------------------------------------------------------------------
(* Every message counts at most once, as long as a file is written whole or *)
(* not at all.                                                              *)

\* What AtMostOnce needs to be inductive. The allocation of a stream resets the
\* statistics and not the steps, so it must find no step; a stream that read an
\* empty file never accumulates again, whatever its steps say.
StreamOK(d, st) ==
    /\ d.vect_size > 0 => Agree(d)
    /\ d.vect_size = 0 => d.contributions = NoContribution
    /\ d.stats_init => d.steps_init
    /\ ~d.stats_init /\ st \notin EmptyStreams => d.step_simu = NoStep

FileOK(f) == f.vect_size > 0 => Agree(f)

MemoryOK == \A st \in Streams : StreamOK(stats_data[st], st)
FilesOK == \A st \in Streams : FileOK(stats_file[st])
StatisticsInv == TypeOK /\ MemoryOK /\ FilesOK

LEMMA EmptyStreamOK ==
    ASSUME NEW st \in Streams
    PROVE  StreamOK(add_fields[st], st)
  BY DEF StreamOK, add_fields

LEMMA EmptyAgree ==
    ASSUME NEW d \in StatsData, d.contributions = NoContribution, d.step_simu = NoStep
    PROVE  Agree(d)
  BY DEF Agree, NoContribution, NoStep

\* Reading the checkpoint of a freshly allocated stream.
LEMMA ReadOK ==
    ASSUME NEW d \in StatsData, NEW f \in StatsFile, NEW st \in Streams,
           StreamOK(d, st), d.stats_init, d.contributions = NoContribution,
           FileOK(f)
    PROVE  StreamOK(read_saved_stats(d, f), st)
  <1> DEFINE e == read_saved_stats(d, f)
  <1>1. CASE ~f.exists
    BY <1>1 DEF read_saved_stats
  <1>2. CASE f.exists /\ f.vect_size = 0
    <2>1. e = [d EXCEPT !.vect_size = 0]
      BY <1>2 DEF read_saved_stats
    <2> QED BY <2>1 DEF StreamOK, StatsData
  <1>3. CASE f.exists /\ f.vect_size # 0
    <2>1. e = [d EXCEPT !.vect_size = f.vect_size,
                        !.contributions = f.contributions,
                        !.step_simu = f.step_simu]
      BY <1>3 DEF read_saved_stats
    <2>2. e.vect_size = 1 /\ e.stats_init /\ e.steps_init
      BY <1>3, <2>1 DEF StatsData, StatsFile, StreamOK
    <2>3. Agree(e)
      BY <1>3, <2>1 DEF StatsData, StatsFile, FileOK, Agree
    <2> QED BY <2>2, <2>3 DEF StreamOK
  <1> QED BY <1>1, <1>2, <1>3

LEMMA AllocatedWhenSized ==
    ASSUME NEW d \in StatsData
    PROVE  melissa_init_data(d, 1).stats_init = TRUE
  <1>1. ((1 > 0) \/ d.stats_init) = TRUE
    OBVIOUS
  <1> QED BY <1>1 DEF melissa_init_data, StatsData

LEMMA InitStreamOK ==
    ASSUME StatisticsInv, NEW st \in Streams
    PROVE  StreamOK(InitStream(st), st)
  <1> DEFINE d == stats_data[st]
             f == stats_file[st]
             e == melissa_init_data(d, MessageSize(st))
  <1>1. /\ d \in StatsData /\ StreamOK(d, st)
        /\ f \in StatsFile /\ FileOK(f)
    BY DEF StatisticsInv, MemoryOK, FilesOK, TypeOK
  <1>2. e \in StatsData
    BY <1>1, InitDataType, MessageSizeType
  <1> HIDE DEF d, f
  <1>3. /\ e.vect_size = MessageSize(st)
        /\ e.contributions = NoContribution
        /\ e.steps_init
        /\ e.step_simu = d.step_simu
    BY <1>1 DEF melissa_init_data, StatsData
  <1>4. CASE NeedsStats(st)
    <2>1. d.step_simu = NoStep /\ MessageSize(st) = 1
      BY <1>1, <1>4 DEF NeedsStats, StreamOK, d, MessageSize
    <2>2. e.stats_init
      BY <1>1, <2>1, AllocatedWhenSized
    <2>3. StreamOK(e, st)
      BY <1>2, <1>3, <2>1, <2>2, EmptyAgree DEF StreamOK
    <2> HIDE DEF e
    <2>4. StreamOK(read_saved_stats(e, f), st)
      BY <1>1, <1>2, <1>3, <2>2, <2>3, ReadOK
    <2> QED BY <1>4, <2>3, <2>4 DEF InitStream, e, d, f
  <1>5. CASE ~NeedsStats(st) /\ NeedsSteps(st)
    <2>1. MessageSize(st) = 0
      BY <1>1, <1>5, MessageSizeType DEF NeedsStats, NeedsSteps, StreamOK, d
    <2>2. st \in EmptyStreams
      BY <2>1 DEF MessageSize
    <2>3. StreamOK(e, st)
      BY <1>3, <2>1, <2>2 DEF StreamOK
    <2> QED BY <1>5, <2>3 DEF InitStream, d
  <1>6. CASE ~NeedsStats(st) /\ ~NeedsSteps(st)
    BY <1>1, <1>6 DEF InitStream, d
  <1> QED BY <1>4, <1>5, <1>6

\* After the allocation the stream is allocated, so its steps may grow.
LEMMA InitStreamReady ==
    ASSUME StatisticsInv, NEW st \in Streams
    PROVE  st \in EmptyStreams \/ InitStream(st).stats_init
  <1>1. stats_data[st] \in StatsData
    BY DEF StatisticsInv, TypeOK
  <1>2. melissa_init_data(stats_data[st], MessageSize(st)) \in StatsData
    BY <1>1, InitDataType, MessageSizeType
  <1>3. ASSUME NEW d \in StatsData, NEW f
        PROVE  read_saved_stats(d, f).stats_init = d.stats_init
    BY DEF read_saved_stats, StatsData
  <1>4. st \notin EmptyStreams =>
            melissa_init_data(stats_data[st], MessageSize(st)).stats_init
    BY <1>1, AllocatedWhenSized DEF MessageSize
  <1> QED BY <1>1, <1>2, <1>3, <1>4 DEF InitStream, NeedsStats, MessageSize

LEMMA AccumulateOK ==
    ASSUME NEW d \in StatsData, NEW st \in Streams, StreamOK(d, st),
           st \in EmptyStreams \/ d.stats_init,
           NEW s \in Simulations, NEW t \in Steps
    PROVE  StreamOK(Accumulate(d, s, t), st)
  <1> DEFINE e == compute_stats(d, s, t)
             g == set_bit(e, s, t)
  <1>1. CASE t \in d.step_simu[s]
    BY <1>1 DEF Accumulate
  <1>2. CASE t \notin d.step_simu[s]
    <2>1. /\ e.stats_init = d.stats_init /\ e.steps_init = d.steps_init
          /\ e.vect_size = d.vect_size /\ e.step_simu = d.step_simu
          /\ DOMAIN e = DOMAIN d
      BY DEF compute_stats, StatsData
    <2>2. /\ g.stats_init = d.stats_init /\ g.steps_init = d.steps_init
          /\ g.vect_size = d.vect_size /\ g.contributions = e.contributions
          /\ g.step_simu = [d.step_simu EXCEPT ![s] = @ \cup {t}]
      BY <2>1 DEF set_bit, StatsData
    <2>3. CASE d.vect_size = 0
      BY <1>2, <2>2, <2>3 DEF StreamOK, Accumulate, compute_stats
    <2>4. CASE d.vect_size # 0
      <3>1. d.vect_size > 0 /\ Agree(d)
        BY <2>4 DEF StreamOK, StatsData
      <3>2. e.contributions = [d.contributions EXCEPT ![s][t] = @ + 1]
        BY <2>4 DEF compute_stats, StatsData
      <3>3. /\ d.contributions \in [Simulations -> [Steps -> Nat]]
            /\ d.step_simu \in [Simulations -> SUBSET Steps]
        BY DEF StatsData
      <3>4. ASSUME NEW s1 \in Simulations, NEW t1 \in Steps
            PROVE  g.contributions[s1][t1] = IF t1 \in g.step_simu[s1] THEN 1 ELSE 0
        <4>1. d.contributions[s1][t1] = IF t1 \in d.step_simu[s1] THEN 1 ELSE 0
          BY <3>1 DEF Agree
        <4>2. CASE s1 = s /\ t1 = t
          BY <1>2, <2>2, <3>2, <3>3, <4>1, <4>2
        <4>3. CASE ~(s1 = s /\ t1 = t)
          BY <2>2, <3>2, <3>3, <4>1, <4>3
        <4> QED BY <4>2, <4>3
      <3>5. Agree(g)
        BY <3>4 DEF Agree
      <3> HIDE DEF g
      <3> QED BY <1>2, <2>2, <2>4, <3>5 DEF StreamOK, Accumulate, g
    <2> QED BY <2>3, <2>4
  <1> QED BY <1>1, <1>2

LEMMA SaveOK ==
    ASSUME StatisticsInv, NEW st \in Streams
    PROVE  FileOK(save_stats(st))
  BY DEF StatisticsInv, MemoryOK, StreamOK, FileOK, save_stats, Agree, TypeOK, StatsData

LEMMA RecvDataOK ==
    ASSUME StatisticsInv, NEW st \in Streams, NEW s \in Simulations, NEW t \in Steps,
           RecvData(st, s, t)
    PROVE  MemoryOK' /\ FilesOK'
  <1> DEFINE new == Accumulate(InitStream(st), s, t)
  <1>1. StreamOK(new, st)
    BY InitStreamOK, InitStreamReady, InitStreamType, AccumulateOK
       DEF StatisticsInv, TypeOK
  <1> HIDE DEF new
  <1>2. /\ stats_data' = [stats_data EXCEPT ![st] = new]
        /\ stats_file' = stats_file
    BY DEF RecvData, new, diskVars
  <1>3. MemoryOK'
    BY <1>1, <1>2 DEF StatisticsInv, MemoryOK, TypeOK
  <1> QED BY <1>2, <1>3 DEF StatisticsInv, FilesOK

LEMMA SaveRankOK ==
    ASSUME StatisticsInv, NEW r \in Ranks, SaveRank(r)
    PROVE  FilesOK'
  BY SaveOK DEF SaveRank, StatisticsInv, FilesOK

LEMMA DieOK == ASSUME Die PROVE MemoryOK'
  BY EmptyStreamOK DEF Die, StartFrom, MemoryOK

LEMMA CrashInSaveOK ==
    ASSUME StatisticsInv, CrashInSave, "torn_file" \notin Faults
    PROVE  FilesOK'
  <1>1. PICK saving \in SUBSET Ranks, done \in SUBSET Streams,
             torn \in SUBSET Streams, kept \in BOOLEAN, cut \in SUBSET Ranks :
             CutSave(saving, done, torn, kept, cut)
    BY DEF CrashInSave
  <1>2. torn = {}
    BY <1>1 DEF CutSave
  <1>3. stats_file' = [st \in Streams |->
            IF st \in done THEN save_stats(st) ELSE stats_file[st]]
    BY <1>1, <1>2 DEF CutSave
  <1> QED BY <1>3, SaveOK DEF StatisticsInv, FilesOK

LEMMA StatisticsInvInit == Init => StatisticsInv
  <1> SUFFICES ASSUME Init PROVE StatisticsInv
    OBVIOUS
  <1>1. MemoryOK
    BY EmptyStreamOK DEF Init, MemoryOK
  <1>2. FilesOK
    BY DEF Init, FilesOK, FileOK
  <1> QED BY <1>1, <1>2, InitTypeOK DEF StatisticsInv

LEMMA StatisticsInvNext ==
    ASSUME StatisticsInv, [Next]_vars, "torn_file" \notin Faults
    PROVE  StatisticsInv'
  <1> SUFFICES MemoryOK' /\ FilesOK'
    BY NextTypeOK DEF StatisticsInv
  <1>1. CASE UNCHANGED <<stats_data, stats_file>>
    BY <1>1 DEF StatisticsInv, MemoryOK, FilesOK
  <1>2. CASE \E st \in Streams, s \in Simulations, t \in Steps : RecvData(st, s, t)
    BY <1>2, RecvDataOK
  <1>3. ASSUME NEW r \in Ranks, RankNext(r) PROVE MemoryOK' /\ FilesOK'
    <2>1. CASE RecvIgnored(r) \/ RecvText(r) \/ LauncherTimeout(r) \/ Signal(r)
      BY <1>1, <2>1 DEF RecvIgnored, RecvText, LauncherTimeout, Signal, diskVars
    <2>2. CASE Checkpoint(r) \/ SignalSave(r) \/ EndTest(r)
      <3>1. stats_data' = stats_data
        BY <2>2 DEF Checkpoint, SignalSave, EndTest
      <3>2. SaveRank(r) \/ stats_file' = stats_file
        BY <2>2 DEF Checkpoint, SignalSave, EndTest, SaveAndGo, diskVars
      <3> QED BY <3>1, <3>2, SaveRankOK DEF StatisticsInv, MemoryOK, FilesOK
    <2> QED BY <1>3, <2>1, <2>2 DEF RankNext
  <1>4. CASE RecvConnexion \/ CheckTimeouts \/ Finalize
    BY <1>1, <1>4 DEF RecvConnexion, CheckTimeouts, Finalize, diskVars
  <1>5. CASE Crash
    BY <1>5, DieOK DEF Crash, diskVars, StatisticsInv, FilesOK
  <1>6. CASE CrashInSave
    BY <1>6, DieOK, CrashInSaveOK DEF CrashInSave
  <1>7. CASE Restart
    <2>1. stats_file' = stats_file
      BY <1>7 DEF Restart, diskVars
    <2>2. stats_data' = stats_data \/ stats_data' = add_fields
      BY <1>7 DEF Restart, StartFrom
    <2> QED BY <2>1, <2>2, EmptyStreamOK DEF StatisticsInv, MemoryOK, FilesOK
  <1>8. CASE \E s \in Simulations : Submit(s) \/ GiveUp(s)
    BY <1>1, <1>8 DEF Submit, GiveUp, diskVars
  <1>9. CASE LauncherDies \/ UNCHANGED vars
    BY <1>1, <1>9 DEF LauncherDies, vars, diskVars
  <1> QED BY <1>2, <1>3, <1>4, <1>5, <1>6, <1>7, <1>8, <1>9 DEF Next

\* The inductive invariant holds while no file is cut in its middle.
LEMMA StatisticsInvariant ==
    ASSUME "torn_file" \notin Faults
    PROVE  Spec => []StatisticsInv
  <1>1. StatisticsInv /\ [Next]_vars => StatisticsInv'
    BY StatisticsInvNext
  <1> QED BY <1>1, StatisticsInvInit, PTL DEF Spec

LEMMA AgreeAtMostOnce ==
    ASSUME StatisticsInv
    PROVE  AtMostOnce
  <1> SUFFICES ASSUME NEW st \in Streams, NEW s \in Simulations, NEW t \in Steps
               PROVE  stats_data[st].contributions[s][t] <= 1
    BY DEF AtMostOnce
  <1>1. stats_data[st] \in StatsData /\ StreamOK(stats_data[st], st)
    BY DEF StatisticsInv, TypeOK, MemoryOK
  <1>2. CASE stats_data[st].vect_size = 0
    BY <1>1, <1>2 DEF StreamOK, NoContribution
  <1>3. CASE stats_data[st].vect_size # 0
    <2>1. Agree(stats_data[st])
      BY <1>1, <1>3 DEF StreamOK, StatsData
    <2>2. stats_data[st].contributions[s][t] \in {0, 1}
      BY <2>1 DEF Agree
    <2> QED BY <2>2
  <1> QED BY <1>2, <1>3

\* Whatever is lost, repeated or reordered, and whenever the server dies, even
\* between two files of a checkpoint, no message is counted twice in the
\* statistics (server.cxx 649-709, melissa_io.c).
THEOREM MessagesCountAtMostOnce ==
    ASSUME "torn_file" \notin Faults
    PROVE  Spec => []AtMostOnce
  BY StatisticsInvariant, AgreeAtMostOnce, PTL

\* The step bits tell exactly what the statistics contain, in memory and in
\* every checkpoint file (compute_stats.c, melissa_io.c 142-289).
THEOREM BitsTellContributions ==
    ASSUME "torn_file" \notin Faults
    PROVE  Spec => []BitsAreContributions
  <1>1. StatisticsInv => BitsAreContributions
    BY DEF StatisticsInv, MemoryOK, FilesOK, StreamOK, FileOK, BitsAreContributions
  <1> QED BY <1>1, StatisticsInvariant, PTL

-----------------------------------------------------------------------------
(* The end of the study.                                                     *)

\* What the theorems are proved for. With several ranks one crash is all they
\* stand: each rank saves when it ends, and if the server dies before the last
\* one has, the others keep a file that calls every simulation finished. A second
\* crash then finds such a file on all ranks, and the study ends without data.
OneStreamPerRank == \A st, su \in Streams : RankOf[st] = RankOf[su] => st = su

Undisturbed ==
    /\ OneStreamPerRank /\ EmptyStreams = {}
    /\ Faults \cap {"torn_file", "late_crash", "drop", "launcher_death", "signal"} = {}
    /\ MaxCrashes <= 1 \/ Ranks = {Root}

-----------------------------------------------------------------------------
(* The inductive invariant.                                                  *)

Alive(r) == pc[r] \notin {"down", "broken"}
Ended(r) == pc[r] \in {"ended", "finalized"}

\* no message of the launcher but JOB, and the sample is never made smaller
OnlyJobs ==
    /\ dropped = {} /\ launcher_up = TRUE
    /\ \A r \in Ranks : /\ end_signal[r] = FALSE
                        /\ sampling_size[r] = NbSimulations
                        /\ \A i \in DOMAIN text_puller[r] : text_puller[r][i][1] = "JOB"

\* a stream is allocated at once, and before its rank saves anything
Allocated(st) ==
    /\ stats_data[st].stats_init = stats_data[st].steps_init
    /\ stats_data[st].steps_init => stats_data[st].vect_size = 1
    /\ checkpoint_on[RankOf[st]] \/ pc[RankOf[st]] = "test" \/ Ended(RankOf[st])
          => stats_data[st].steps_init

\* all of simulation s is in the memory of the stream, or in the file it will read
Has(st, s) ==
    IF stats_data[st].steps_init THEN stats_data[st].step_simu[s] = Steps
    ELSE restart /\ stats_file[st].exists /\ stats_file[st].step_simu[s] = Steps

\* a file has steps as soon as there is one, and the memory has those of the file
Stored(st) ==
    /\ stats_file[st].vect_size = IF stats_file[st].exists THEN 1 ELSE 0
    /\ stats_file[st].exists =>
          restart \/ pc[RankOf[st]] = "down" \/ stats_data[st].steps_init
    /\ stats_file[st].exists /\ stats_data[st].steps_init =>
          \A s \in Simulations : stats_file[st].step_simu[s] \subseteq stats_data[st].step_simu[s]

\* a simulation is finished for a rank, or in its file, with the data of it
FinishedHas(st) ==
    \A s \in Simulations :
        /\ simu_file[RankOf[st]].status[s] = 2 =>
              stats_file[st].exists /\ stats_file[st].step_simu[s] = Steps
        /\ Alive(RankOf[st]) /\ status[RankOf[st]][s] = 2 => Has(st, s)

FinishedOn(r) == {s \in Simulations : status[r][s] = 2}
AllSaved(r) == Simulations # {} /\ \A s \in Simulations : simu_file[r].status[s] = 2

RankInv(r) ==
    /\ \A s \in Simulations : status[r][s] \in 0 .. 2 /\ simu_file[r].status[s] \in 0 .. 2
    /\ Alive(r) => nb_finished_simulations[r] = Cardinality(FinishedOn(r))
    /\ pc[r] \in {"top", "poll", "data"} => ~AllFinished(r)
    /\ pc[r] = "test" => connected
    /\ Ended(r) => AllFinished(r)
    /\ crashes < MaxCrashes /\ AllSaved(r) => Ended(r)

\* the ranks die and end together, and what rank 0 has said is what it thinks
Together ==
    /\ (\E r \in Ranks : pc[r] = "finalized") => Stopped
    /\ pc[Root] = "down" => /\ \A r \in Ranks : pc[r] = "down"
                            /\ \E r \in Ranks : ~AllSaved(r)
    /\ \A s \in Simulations : Alive(Root) /\ told[s] = 2 => status[Root][s] = 2

StreamInv(st) == Allocated(st) /\ Stored(st) /\ FinishedHas(st)

StudyInv ==
    /\ OnlyJobs
    /\ \A st \in Streams : StreamInv(st)
    /\ \A r \in Ranks : RankInv(r)
    /\ Together

Inv == StatisticsInv /\ StudyInv

-----------------------------------------------------------------------------
(* Facts about a state.                                                      *)

LEMMA SimulationsCount ==
    /\ IsFiniteSet(Simulations) /\ NbSimulations \in Nat
    /\ \A r \in Ranks : /\ IsFiniteSet(FinishedOn(r))
                        /\ Cardinality(FinishedOn(r)) \in 0 .. NbSimulations
                        /\ Cardinality(FinishedOn(r)) = NbSimulations =>
                              FinishedOn(r) = Simulations
  <1>1. IsFiniteSet(Simulations) /\ NbSimulations \in Nat
    BY FiniteAssumption, FS_CardinalityType DEF NbSimulations
  <1>2. ASSUME NEW r \in Ranks
        PROVE  /\ IsFiniteSet(FinishedOn(r))
               /\ Cardinality(FinishedOn(r)) \in 0 .. NbSimulations
               /\ Cardinality(FinishedOn(r)) = NbSimulations => FinishedOn(r) = Simulations
    <2>1. FinishedOn(r) \subseteq Simulations
      BY DEF FinishedOn
    <2> QED BY <1>1, <2>1, FS_Subset, FS_CardinalityType DEF NbSimulations
  <1> QED BY <1>1, <1>2

\* A rank that is done has finished every simulation, and there is one.
LEMMA DoneMeansAll ==
    ASSUME Inv, NEW r \in Ranks, Alive(r), AllFinished(r)
    PROVE  Simulations # {} /\ \A s \in Simulations : status[r][s] = 2
  <1>1. /\ nb_finished_simulations[r] = Cardinality(FinishedOn(r))
        /\ sampling_size[r] = NbSimulations
    BY DEF Inv, StudyInv, RankInv, OnlyJobs
  <1>2. Cardinality(FinishedOn(r)) = NbSimulations /\ Cardinality(FinishedOn(r)) > 0
    BY <1>1, SimulationsCount DEF AllFinished
  <1>3. FinishedOn(r) = Simulations
    BY <1>2, SimulationsCount
  <1>4. Simulations # {}
    BY <1>2, <1>3, FS_EmptySet
  <1> QED BY <1>3, <1>4 DEF FinishedOn

\* The stream as its next message finds it.
LEMMA InitStreamHas ==
    ASSUME Inv, Undisturbed, NEW st \in Streams
    PROVE  /\ InitStream(st) \in StatsData
           /\ InitStream(st).stats_init /\ InitStream(st).steps_init
           /\ Alive(RankOf[st]) => InitStream(st).vect_size = 1
           /\ \A s \in Simulations : Has(st, s) => InitStream(st).step_simu[s] = Steps
           /\ Alive(RankOf[st]) /\ stats_file[st].exists =>
                 \A s \in Simulations :
                    stats_file[st].step_simu[s] \subseteq InitStream(st).step_simu[s]
           /\ stats_data[st].steps_init => InitStream(st) = stats_data[st]
  <1> DEFINE d == stats_data[st]
             f == stats_file[st]
             e == melissa_init_data(d, 1)
  <1>1. /\ d \in StatsData /\ f \in StatsFile
        /\ d.stats_init = d.steps_init
        /\ d.steps_init => d.vect_size = 1
        /\ f.vect_size = IF f.exists THEN 1 ELSE 0
        /\ f.exists => restart \/ pc[RankOf[st]] = "down" \/ d.steps_init
        /\ f.exists /\ d.steps_init =>
              \A s \in Simulations : f.step_simu[s] \subseteq d.step_simu[s]
    BY DEF Inv, StudyInv, StreamInv, Allocated, Stored, StatisticsInv, TypeOK, StatsData
  <1>2. MessageSize(st) = 1
    BY DEF MessageSize, Undisturbed
  <1>3. InitStream(st) \in StatsData
    BY InitStreamType DEF Inv, StatisticsInv, TypeOK
  <1>4. CASE d.steps_init
    <2>1. InitStream(st) = d
      BY <1>1, <1>4 DEF InitStream, NeedsStats, NeedsSteps
    <2> QED BY <1>1, <1>3, <1>4, <2>1 DEF Has
  <1>5. CASE ~d.steps_init
    <2>1. NeedsStats(st)
      BY <1>1, <1>2, <1>5 DEF NeedsStats
    <2>2. e.stats_init /\ e.steps_init /\ e.vect_size = 1 /\ e \in StatsData
      BY <1>1, AllocatedWhenSized, InitDataType DEF melissa_init_data, StatsData
    <2> HIDE DEF e
    <2>3. InitStream(st) = IF restart THEN read_saved_stats(e, f) ELSE e
      BY <1>2, <2>1 DEF InitStream, e
    <2>4. CASE restart /\ f.exists
      <3>1. InitStream(st) = [e EXCEPT !.vect_size = f.vect_size,
                                       !.contributions = f.contributions,
                                       !.step_simu = f.step_simu]
        BY <1>1, <2>3, <2>4 DEF read_saved_stats
      <3> QED BY <1>1, <1>3, <1>5, <2>2, <2>4, <3>1 DEF Has, StatsData
    <2>5. CASE ~(restart /\ f.exists)
      <3>1. InitStream(st) = e
        BY <2>3, <2>5 DEF read_saved_stats
      <3> QED BY <1>1, <1>3, <1>5, <2>2, <2>5, <3>1 DEF Has, Alive
    <2> QED BY <2>4, <2>5
  <1> QED BY <1>4, <1>5

LEMMA AccumulateHas ==
    ASSUME NEW d \in StatsData, NEW s \in Simulations, NEW t \in Steps
    PROVE  LET a == Accumulate(d, s, t) IN
           /\ a.stats_init = d.stats_init /\ a.steps_init = d.steps_init
           /\ a.vect_size = d.vect_size
           /\ a.step_simu = [d.step_simu EXCEPT ![s] = @ \cup {t}]
  <1>1. d.step_simu \in [Simulations -> SUBSET Steps]
    BY DEF StatsData
  <1>2. CASE t \in d.step_simu[s]
    <2>1. d.step_simu[s] \cup {t} = d.step_simu[s]
      BY <1>2
    <2>2. [d.step_simu EXCEPT ![s] = @ \cup {t}] = d.step_simu
      BY <1>1, <2>1
    <2> QED BY <1>2, <2>2 DEF Accumulate
  <1>3. CASE t \notin d.step_simu[s]
    BY <1>3 DEF Accumulate, set_bit, compute_stats, StatsData
  <1> QED BY <1>2, <1>3

LEMMA AllMeansDone ==
    ASSUME Inv, NEW r \in Ranks, Alive(r),
           Simulations # {}, \A s \in Simulations : status[r][s] = 2
    PROVE  AllFinished(r)
  <1>1. FinishedOn(r) = Simulations
    BY DEF FinishedOn
  <1>2. NbSimulations > 0
    BY SimulationsCount, FS_EmptySet DEF NbSimulations
  <1>3. nb_finished_simulations[r] = NbSimulations /\ sampling_size[r] = NbSimulations
    BY <1>1 DEF Inv, StudyInv, RankInv, OnlyJobs, NbSimulations
  <1> QED BY <1>2, <1>3, SimulationsCount DEF AllFinished

-----------------------------------------------------------------------------
(* The steps.                                                                *)

LEMMA OnlyJobsStep ==
    ASSUME Inv, Undisturbed, [Next]_vars
    PROVE  OnlyJobs'
  <1>0. /\ OnlyJobs
        /\ text_puller \in [Ranks -> Seq(TextMessage)]
        /\ "drop" \notin Faults /\ "launcher_death" \notin Faults /\ "signal" \notin Faults
    BY DEF Inv, StudyInv, StatisticsInv, TypeOK, Undisturbed
  <1>1. CASE UNCHANGED <<dropped, launcher_up, end_signal, sampling_size, text_puller>>
    BY <1>0, <1>1 DEF OnlyJobs, NbSimulations
  <1>2. ASSUME NEW r \in Ranks, RecvText(r) PROVE OnlyJobs'
    <2>1. /\ text_puller' = [text_puller EXCEPT ![r] = Tail(text_puller[r])]
          /\ text_puller[r] \in Seq(TextMessage) /\ text_puller[r] # <<>>
          /\ UNCHANGED <<dropped, launcher_up, end_signal>>
          /\ sampling_size' = [sampling_size EXCEPT ![r] = NbSimulations]
      BY <1>0, <1>2 DEF RecvText, envVars
    <2>2. \A i \in DOMAIN Tail(text_puller[r]) :
              i + 1 \in DOMAIN text_puller[r] /\ Tail(text_puller[r])[i] = text_puller[r][i + 1]
      BY <2>1
    <2>3. \A q \in Ranks : \A i \in DOMAIN text_puller'[q] : text_puller'[q][i][1] = "JOB"
      <3> TAKE q \in Ranks
      <3>1. CASE q = r
        BY <1>0, <2>1, <2>2, <3>1 DEF OnlyJobs
      <3>2. CASE q # r
        BY <1>0, <2>1, <3>2 DEF OnlyJobs
      <3> QED BY <3>1, <3>2
    <2>4. \A q \in Ranks : sampling_size'[q] = NbSimulations
      BY <1>0, <2>1 DEF OnlyJobs, Inv, StatisticsInv, TypeOK
    <2> QED BY <1>0, <2>1, <2>3, <2>4 DEF OnlyJobs, NbSimulations
  <1>3. ASSUME NEW s \in Simulations, Submit(s) PROVE OnlyJobs'
    <2>1. PICK to \in SUBSET Ranks :
              text_puller' = [r \in Ranks |-> IF r \in to THEN Append(text_puller[r], <<"JOB", s>>)
                                              ELSE text_puller[r]]
      BY <1>3 DEF Submit, Publish
    <2>2. \A r \in Ranks : \A i \in DOMAIN text_puller'[r] : text_puller'[r][i][1] = "JOB"
      <3> TAKE r \in Ranks
      <3>1. text_puller[r] \in Seq(TextMessage)
        BY <1>0
      <3>2. CASE r \in to
        <4>1. text_puller'[r] = Append(text_puller[r], <<"JOB", s>>)
          BY <2>1, <3>2
        <4>2. \A i \in DOMAIN text_puller'[r] :
                  \/ i \in DOMAIN text_puller[r] /\ text_puller'[r][i] = text_puller[r][i]
                  \/ text_puller'[r][i] = <<"JOB", s>>
          BY <3>1, <4>1
        <4> QED BY <1>0, <4>2 DEF OnlyJobs
      <3>3. CASE r \notin to
        BY <1>0, <2>1, <3>3 DEF OnlyJobs
      <3> QED BY <3>2, <3>3
    <2> QED BY <1>0, <1>3, <2>2 DEF Submit, OnlyJobs, simuVars, loopVars, NbSimulations
  <1>4. ASSUME NEW st, NEW n, StartFrom(st, n), UNCHANGED <<dropped, launcher_up>>
        PROVE  OnlyJobs'
    <2>1. DOMAIN <<>> = {}
      OBVIOUS
    <2> QED BY <1>0, <1>4, <2>1 DEF StartFrom, OnlyJobs, NbSimulations
  <1>5. CASE \E st \in Streams, s \in Simulations, t \in Steps : RecvData(st, s, t)
    BY <1>1, <1>5 DEF RecvData, envVars
  <1>6. ASSUME NEW r \in Ranks,
               RecvIgnored(r) \/ Checkpoint(r) \/ EndTest(r) \/ SignalSave(r) \/ Signal(r)
                   \/ LauncherTimeout(r)
        PROVE  OnlyJobs'
    BY <1>0, <1>1, <1>6 DEF RecvIgnored, Checkpoint, EndTest, SignalSave, Signal, LauncherTimeout,
                            OnlyJobs, simuVars, envVars
  <1>7. CASE RecvConnexion \/ CheckTimeouts \/ Finalize
    BY <1>1, <1>7 DEF RecvConnexion, CheckTimeouts, Finalize, simuVars, loopVars, envVars
  <1>8. CASE Crash \/ CrashInSave
    BY <1>4, <1>8 DEF Crash, CrashInSave, Die
  <1>9. CASE Restart
    <2>1. \/ UNCHANGED <<simuVars, text_puller, end_signal>>
          \/ StartFrom(SavedStatus, Cardinality({s \in Simulations : SavedStatus[s] = 2}))
      BY <1>9 DEF Restart
    <2> QED BY <1>1, <1>4, <1>9, <2>1 DEF Restart, simuVars, envVars
  <1>10. CASE (\E s \in Simulations : GiveUp(s)) \/ LauncherDies
    BY <1>0, <1>10 DEF GiveUp, LauncherDies
  <1>11. CASE UNCHANGED vars
    BY <1>1, <1>11 DEF vars, simuVars, loopVars, envVars
  <1> QED BY <1>2, <1>3, <1>5, <1>6, <1>7, <1>8, <1>9, <1>10, <1>11 DEF Next, RankNext

\* The ranks go on in their loops, and nothing else changes that matters.
LEMMA MoveStep ==
    ASSUME Inv, Undisturbed,
           UNCHANGED <<status, nb_finished_simulations, restart, checkpoint_on, stats_data,
                       diskVars, told, crashes>>,
           \A r \in Ranks : sampling_size'[r] = sampling_size[r],
           connected => connected',
           \A r \in Ranks :
              \/ pc'[r] = pc[r]
              \/ /\ pc[r] \in {"top", "poll", "data", "test"}
                 /\ pc'[r] \in {"top", "poll", "data"}
                 /\ ~AllFinished(r)
              \/ pc[r] = "ended" /\ pc'[r] = "finalized",
           (\E r \in Ranks : pc'[r] = "finalized") => \A r \in Ranks : pc'[r] = "finalized"
    PROVE  /\ \A st \in Streams : StreamInv(st)'
           /\ \A r \in Ranks : RankInv(r)'
           /\ Together'
  <1>1. ASSUME NEW r \in Ranks
        PROVE  /\ Alive(r)' <=> Alive(r)
               /\ Ended(r)' <=> Ended(r)
               /\ pc'[r] = "down" <=> pc[r] = "down"
               /\ pc'[r] = "test" => pc[r] = "test"
    BY DEF Alive, Ended
  <1>2. ASSUME NEW st \in Streams PROVE StreamInv(st)'
    <2>1. RankOf[st] \in Ranks
      BY StreamsAssumption
    <2>2. StreamInv(st)
      BY DEF Inv, StudyInv
    <2>3. \A s \in Simulations : Has(st, s)' <=> Has(st, s)
      BY DEF Has, diskVars
    <2>4. Allocated(st)'
      BY <1>1, <2>1, <2>2 DEF StreamInv, Allocated
    <2>5. Stored(st)'
      BY <1>1, <2>1, <2>2 DEF StreamInv, Stored, diskVars
    <2>6. FinishedHas(st)'
      BY <1>1, <2>1, <2>2, <2>3 DEF StreamInv, FinishedHas, diskVars
    <2> QED BY <2>4, <2>5, <2>6 DEF StreamInv
  <1>3. ASSUME NEW r \in Ranks PROVE RankInv(r)'
    <2>1. RankInv(r)
      BY DEF Inv, StudyInv
    <2>2. /\ AllFinished(r)' <=> AllFinished(r)
          /\ AllSaved(r)' <=> AllSaved(r)
          /\ FinishedOn(r)' = FinishedOn(r)
      BY DEF AllFinished, AllSaved, FinishedOn, diskVars
    <2>3. pc'[r] \in {"top", "poll", "data"} => ~AllFinished(r)
      BY <2>1 DEF RankInv
    <2> QED BY <1>1, <2>1, <2>2, <2>3 DEF RankInv, diskVars
  <1>4. Together'
    <2>1. Together
      BY DEF Inv, StudyInv
    <2>2. \A r \in Ranks : AllSaved(r)' <=> AllSaved(r)
      BY DEF AllSaved, diskVars
    <2> QED BY <1>1, <2>1, <2>2, RootAssumption DEF Together, Stopped
  <1> QED BY <1>2, <1>3, <1>4

\* A checkpoint, in the loop or at its end.
LEMMA SaveStep ==
    ASSUME Inv, Undisturbed, NEW r \in Ranks, NEW next \in {"poll", "ended"}, SaveRank(r),
           UNCHANGED <<simuVars, connected, restart, checkpoint_on, stats_data, told, crashes>>,
           pc[r] \in {"top", "poll", "data", "test"}, pc' = [pc EXCEPT ![r] = next],
           AllFinished(r) <=> next = "ended",
           \A st \in StreamsOf(r) : stats_data[st].steps_init
    PROVE  /\ \A st \in Streams : StreamInv(st)'
           /\ \A q \in Ranks : RankInv(q)'
           /\ Together'
  <1>1. /\ pc \in [Ranks -> {"top", "poll", "data", "test", "ended", "finalized", "down", "broken"}]
        /\ stats_data \in [Streams -> StatsData] /\ simu_file \in [Ranks -> SimuFile]
    BY DEF Inv, StatisticsInv, TypeOK
  <1>2. /\ pc'[r] = next
        /\ \A q \in Ranks : q # r => pc'[q] = pc[q]
        /\ \A q \in Ranks : /\ Alive(q)' <=> Alive(q)
                            /\ pc'[q] = "down" <=> pc[q] = "down"
    BY <1>1 DEF Alive
  <1>3. /\ simu_file'[r].status = status[r]
        /\ \A q \in Ranks : q # r => simu_file'[q] = simu_file[q]
    BY <1>1 DEF SaveRank, save_simu_states
  <1>4. ASSUME NEW st \in Streams PROVE StreamInv(st)'
    <2>1. RankOf[st] \in Ranks
      BY StreamsAssumption
    <2>2. StreamInv(st)
      BY DEF Inv, StudyInv
    <2>3. CASE RankOf[st] = r
      <3>1. /\ stats_data[st].steps_init /\ stats_data[st].vect_size = 1
            /\ stats_data[st].stats_init = stats_data[st].steps_init
        BY <2>2, <2>3 DEF StreamsOf, StreamInv, Allocated
      <3>2. /\ stats_file'[st].exists /\ stats_file'[st].vect_size = 1
            /\ stats_file'[st].step_simu = stats_data[st].step_simu
        BY <2>3, <3>1 DEF SaveRank, save_stats
      <3>3. Allocated(st)' /\ Stored(st)'
        BY <3>1, <3>2 DEF Allocated, Stored
      <3>4. \A s \in Simulations : status[r][s] = 2 => stats_data[st].step_simu[s] = Steps
        BY <2>2, <2>3, <3>1 DEF StreamInv, FinishedHas, Has, Alive
      <3>5. FinishedHas(st)'
        BY <1>3, <2>3, <3>1, <3>2, <3>4 DEF FinishedHas, Has, simuVars
      <3> QED BY <3>3, <3>5 DEF StreamInv
    <2>4. CASE RankOf[st] # r
      <3>1. /\ stats_file'[st] = stats_file[st] /\ simu_file'[RankOf[st]] = simu_file[RankOf[st]]
            /\ pc'[RankOf[st]] = pc[RankOf[st]]
        BY <1>2, <1>3, <2>1, <2>4 DEF SaveRank
      <3> QED BY <2>2, <3>1 DEF StreamInv, Allocated, Stored, FinishedHas, Has, Alive, Ended, simuVars
    <2> QED BY <2>3, <2>4
  <1>5. AllSaved(r)' => next = "ended"
    <2>1. Alive(r)
      BY DEF Alive
    <2> QED BY <1>3, <2>1, AllMeansDone DEF AllSaved
  <1>6. ASSUME NEW q \in Ranks PROVE RankInv(q)'
    <2>1. RankInv(q)
      BY DEF Inv, StudyInv
    <2>2. AllFinished(q)' <=> AllFinished(q)
      BY DEF AllFinished, simuVars
    <2>3. FinishedOn(q)' = FinishedOn(q)
      BY DEF FinishedOn, simuVars
    <2>4. CASE q = r
      BY <1>2, <1>3, <1>5, <2>1, <2>2, <2>3, <2>4 DEF RankInv, Ended, Alive, simuVars
    <2>5. CASE q # r
      <3>1. AllSaved(q)' <=> AllSaved(q)
        BY <1>3, <2>5 DEF AllSaved
      <3> QED BY <1>2, <1>3, <2>1, <2>2, <2>3, <2>5, <3>1 DEF RankInv, Ended, Alive, simuVars
    <2> QED BY <2>4, <2>5
  <1>7. Together'
    <2>1. Together
      BY DEF Inv, StudyInv
    <2>2. ~(\E q \in Ranks : pc'[q] = "finalized")
      <3>1. ~(\E q \in Ranks : pc[q] = "finalized")
        BY <2>1 DEF Together, Stopped
      <3> QED BY <1>2, <3>1
    <2>3. pc[Root] # "down" /\ pc'[Root] # "down"
      BY <1>2, <2>1, RootAssumption DEF Together
    <2> QED BY <1>2, <2>1, <2>2, <2>3, RootAssumption DEF Together, simuVars
  <1> QED BY <1>4, <1>6, <1>7

\* What a message changes, when its rank has no other stream.
LEMMA RecvDataEffect ==
    ASSUME Inv, Undisturbed, NEW st \in Streams, NEW s \in Simulations, NEW t \in Steps,
           RecvData(st, s, t)
    PROVE  LET r   == RankOf[st]
               all == InitStream(st).step_simu[s] \cup {t} = Steps
               new == IF all THEN 2 ELSE 1
           IN
           /\ r \in Ranks /\ pc[r] \in {"top", "poll", "data"} /\ connected
           /\ stats_data'[st].stats_init /\ stats_data'[st].steps_init
           /\ stats_data'[st].vect_size = 1
           /\ stats_data'[st].step_simu = [InitStream(st).step_simu EXCEPT ![s] = @ \cup {t}]
           /\ \A su \in Streams : su # st => stats_data'[su] = stats_data[su] /\ RankOf[su] # r
           /\ status' = [status EXCEPT ![r] = [status[r] EXCEPT ![s] = new]]
           /\ nb_finished_simulations' = IF new = 2 /\ status[r][s] # 2
                 THEN [nb_finished_simulations EXCEPT ![r] = @ + 1] ELSE nb_finished_simulations
           /\ told' = IF r = Root /\ new # status[r][s] THEN [told EXCEPT ![s] = new] ELSE told
           /\ pc' = [pc EXCEPT ![r] = "test"]
           /\ \A q \in Ranks : q # r => checkpoint_on'[q] = checkpoint_on[q]
           /\ UNCHANGED <<sampling_size, connected, restart, diskVars, crashes>>
  <1> DEFINE r   == RankOf[st]
             e   == InitStream(st)
             a   == Accumulate(e, s, t)
             sd  == [stats_data EXCEPT ![st] = a]
             all == e.step_simu[s] \cup {t} = Steps
             new == IF all THEN 2 ELSE 1
  <1>1. /\ r \in Ranks /\ pc[r] \in {"top", "poll", "data"} /\ connected
        /\ \A su \in Streams : su # st => RankOf[su] # r
    BY StreamsAssumption DEF RecvData, Undisturbed, OneStreamPerRank
  <1>2. Alive(r)
    BY <1>1 DEF Alive
  <1>3. /\ e \in StatsData /\ e.stats_init /\ e.steps_init /\ e.vect_size = 1
        /\ e.step_simu \in [Simulations -> SUBSET Steps]
    BY <1>2, InitStreamHas DEF StatsData
  <1> HIDE DEF e
  <1>4. /\ a.stats_init /\ a.steps_init /\ a.vect_size = 1
        /\ a.step_simu = [e.step_simu EXCEPT ![s] = @ \cup {t}]
        /\ a.step_simu[s] = e.step_simu[s] \cup {t}
    BY <1>3, AccumulateHas
  <1> HIDE DEF a
  <1>5. stats_data \in [Streams -> StatsData] /\ checkpoint_on \in [Ranks -> BOOLEAN]
    BY DEF Inv, StatisticsInv, TypeOK
  <1>6. sd[st] = a /\ \A su \in Streams : su # st => sd[su] = stats_data[su]
    BY <1>5
  <1>7. check_simu_state(sd, r, s) = new
    <2>1. StreamsOf(r) = {st}
      BY <1>1 DEF StreamsOf
    <2> HIDE DEF sd, r
    <2> QED BY <1>4, <1>6, <2>1 DEF check_simu_state
  <1>8. /\ stats_data' = sd
        /\ status' = [status EXCEPT ![r] = [status[r] EXCEPT ![s] = check_simu_state(sd, r, s)]]
        /\ nb_finished_simulations' =
              IF NewlyFinished(r, s, check_simu_state(sd, r, s))
              THEN [nb_finished_simulations EXCEPT ![r] = @ + 1] ELSE nb_finished_simulations
        /\ told' = IF r = Root /\ check_simu_state(sd, r, s) # status[r][s]
                   THEN [told EXCEPT ![s] = check_simu_state(sd, r, s)] ELSE told
        /\ pc' = [pc EXCEPT ![r] = "test"]
        /\ checkpoint_on' = [checkpoint_on EXCEPT ![r] = @ \/ NeedsStats(st) \/ NeedsSteps(st)]
        /\ UNCHANGED <<sampling_size, connected, restart, diskVars, crashes>>
    BY DEF RecvData, r, sd, a, e, envVars
  <1>9. \A q \in Ranks : q # r => checkpoint_on'[q] = checkpoint_on[q]
    BY <1>5, <1>8
  <1> HIDE DEF sd, new
  <1>10. /\ nb_finished_simulations' = IF new = 2 /\ status[r][s] # 2
               THEN [nb_finished_simulations EXCEPT ![r] = @ + 1] ELSE nb_finished_simulations
         /\ status' = [status EXCEPT ![r] = [status[r] EXCEPT ![s] = new]]
         /\ told' = IF r = Root /\ new # status[r][s] THEN [told EXCEPT ![s] = new] ELSE told
    BY <1>7, <1>8 DEF NewlyFinished
  <1> QED BY <1>1, <1>4, <1>6, <1>8, <1>9, <1>10 DEF e, new

LEMMA RecvDataStep ==
    ASSUME Inv, Undisturbed, NEW st \in Streams, NEW s \in Simulations, NEW t \in Steps,
           RecvData(st, s, t)
    PROVE  /\ \A su \in Streams : StreamInv(su)'
           /\ \A q \in Ranks : RankInv(q)'
           /\ Together'
  <1> DEFINE r   == RankOf[st]
             e   == InitStream(st)
             new == IF e.step_simu[s] \cup {t} = Steps THEN 2 ELSE 1
  <1>1. /\ r \in Ranks /\ pc[r] \in {"top", "poll", "data"} /\ connected
        /\ stats_data'[st].stats_init /\ stats_data'[st].steps_init
        /\ stats_data'[st].vect_size = 1
        /\ stats_data'[st].step_simu = [e.step_simu EXCEPT ![s] = @ \cup {t}]
        /\ \A su \in Streams : su # st => stats_data'[su] = stats_data[su] /\ RankOf[su] # r
        /\ status' = [status EXCEPT ![r] = [status[r] EXCEPT ![s] = new]]
        /\ nb_finished_simulations' = IF new = 2 /\ status[r][s] # 2
              THEN [nb_finished_simulations EXCEPT ![r] = @ + 1] ELSE nb_finished_simulations
        /\ told' = IF r = Root /\ new # status[r][s] THEN [told EXCEPT ![s] = new] ELSE told
        /\ pc' = [pc EXCEPT ![r] = "test"]
        /\ \A q \in Ranks : q # r => checkpoint_on'[q] = checkpoint_on[q]
        /\ UNCHANGED <<sampling_size, connected, restart, diskVars, crashes>>
    BY RecvDataEffect
  <1>2. Alive(r)
    BY <1>1 DEF Alive
  <1>3. /\ e.step_simu \in [Simulations -> SUBSET Steps]
        /\ \A x \in Simulations : Has(st, x) => e.step_simu[x] = Steps
        /\ stats_file[st].exists =>
              \A x \in Simulations : stats_file[st].step_simu[x] \subseteq e.step_simu[x]
    BY <1>2, InitStreamHas DEF StatsData
  <1> HIDE DEF e
  <1>4. \A x \in Simulations : /\ x # s => stats_data'[st].step_simu[x] = e.step_simu[x]
                               /\ x = s => stats_data'[st].step_simu[x] = e.step_simu[x] \cup {t}
    BY <1>1, <1>3
  <1>5. /\ pc \in [Ranks -> {"top", "poll", "data", "test", "ended", "finalized", "down", "broken"}]
        /\ status \in [Ranks -> [Simulations -> Status]]
        /\ nb_finished_simulations \in [Ranks -> Nat]
        /\ told \in [Simulations -> Status]
    BY DEF Inv, StatisticsInv, TypeOK
  <1>6. /\ pc'[r] = "test" /\ \A q \in Ranks : q # r => pc'[q] = pc[q]
        /\ \A q \in Ranks : /\ Alive(q)' <=> Alive(q)
                            /\ Ended(q)' <=> Ended(q)
                            /\ pc'[q] = "down" <=> pc[q] = "down"
    BY <1>1, <1>5 DEF Alive, Ended
  <1>7. /\ status'[r][s] = new
        /\ \A x \in Simulations : x # s => status'[r][x] = status[r][x]
        /\ \A q \in Ranks : q # r => status'[q] = status[q]
    BY <1>1, <1>5
  \* a simulation that was finished remains so
  <1>8. status[r][s] = 2 => new = 2
    <2>1. status[r][s] = 2 => Has(st, s)
      BY <1>2 DEF Inv, StudyInv, StreamInv, FinishedHas
    <2>2. Has(st, s) => e.step_simu[s] \cup {t} = Steps
      BY <1>3
    <2> QED BY <2>1, <2>2
  <1>9. ASSUME NEW su \in Streams PROVE StreamInv(su)'
    <2>1. StreamInv(su)
      BY DEF Inv, StudyInv
    <2>2. CASE su = st
      <3>1. Allocated(st)'
        BY <1>1 DEF Allocated
      <3>2. Stored(st)'
        <4>1. stats_file' = stats_file
          BY <1>1 DEF diskVars
        <4>2. \A x \in Simulations : e.step_simu[x] \subseteq stats_data'[st].step_simu[x]
          BY <1>4
        <4> QED BY <1>1, <1>3, <2>1, <2>2, <4>1, <4>2 DEF StreamInv, Stored
      <3>3. ASSUME NEW x \in Simulations
            PROVE  /\ simu_file'[r].status[x] = 2 =>
                         stats_file'[st].exists /\ stats_file'[st].step_simu[x] = Steps
                   /\ status'[r][x] = 2 => Has(st, x)'
        <4>1. simu_file' = simu_file /\ stats_file' = stats_file
          BY <1>1 DEF diskVars
        <4>2. CASE x = s
          <5>1. new = 2 => e.step_simu[s] \cup {t} = Steps
            OBVIOUS
          <5> HIDE DEF new
          <5>2. status'[r][s] = 2 => stats_data'[st].step_simu[s] = Steps
            BY <1>4, <1>7, <5>1
          <5> QED BY <1>1, <2>1, <2>2, <4>1, <4>2, <5>2 DEF StreamInv, FinishedHas, Has
        <4>3. CASE x # s
          <5>1. status'[r][x] = 2 => Has(st, x)
            BY <1>2, <1>7, <2>1, <2>2, <4>3 DEF StreamInv, FinishedHas
          <5>2. Has(st, x) => stats_data'[st].step_simu[x] = Steps
            BY <1>3, <1>4, <4>3
          <5> QED BY <1>1, <2>1, <2>2, <4>1, <5>1, <5>2 DEF StreamInv, FinishedHas, Has
        <4> QED BY <4>2, <4>3
      <3>4. FinishedHas(st)'
        BY <3>3 DEF FinishedHas
      <3> QED BY <2>2, <3>1, <3>2, <3>4 DEF StreamInv
    <2>3. CASE su # st
      <3>1. /\ RankOf[su] \in Ranks /\ RankOf[su] # r
            /\ stats_data'[su] = stats_data[su]
        BY <1>1, <2>3, StreamsAssumption
      <3>2. /\ pc'[RankOf[su]] = pc[RankOf[su]] /\ status'[RankOf[su]] = status[RankOf[su]]
            /\ checkpoint_on'[RankOf[su]] = checkpoint_on[RankOf[su]]
        BY <1>1, <1>6, <1>7, <3>1
      <3>3. stats_file' = stats_file /\ simu_file' = simu_file /\ restart' = restart
        BY <1>1 DEF diskVars
      <3> QED BY <2>1, <3>1, <3>2, <3>3
           DEF StreamInv, Allocated, Stored, FinishedHas, Has, Alive, Ended
    <2> QED BY <2>2, <2>3
  <1>10. /\ new \in {1, 2}
         /\ simu_file' = simu_file /\ sampling_size' = sampling_size /\ crashes' = crashes
         /\ connected' = connected
    BY <1>1 DEF diskVars
  <1> HIDE DEF new
  <1>11. nb_finished_simulations'[r] = Cardinality(FinishedOn(r)')
    <2>1. nb_finished_simulations[r] = Cardinality(FinishedOn(r)) /\ IsFiniteSet(FinishedOn(r))
      BY <1>2, <1>1, SimulationsCount DEF Inv, StudyInv, RankInv
    <2>2. CASE new = 2 /\ status[r][s] # 2
      <3>1. FinishedOn(r)' = FinishedOn(r) \cup {s} /\ s \notin FinishedOn(r)
        BY <1>7, <2>2 DEF FinishedOn
      <3>2. Cardinality(FinishedOn(r)') = Cardinality(FinishedOn(r)) + 1
        BY <2>1, <3>1, FS_AddElement
      <3>3. nb_finished_simulations'[r] = nb_finished_simulations[r] + 1
        BY <1>1, <1>5, <2>2
      <3> QED BY <2>1, <3>2, <3>3
    <2>3. CASE ~(new = 2 /\ status[r][s] # 2)
      <3>1. FinishedOn(r)' = FinishedOn(r)
        BY <1>7, <1>8, <2>3 DEF FinishedOn
      <3> QED BY <1>1, <2>1, <2>3, <3>1
    <2> QED BY <2>2, <2>3
  <1>12. ASSUME NEW q \in Ranks PROVE RankInv(q)'
    <2>1. RankInv(q)
      BY DEF Inv, StudyInv
    <2>2. AllSaved(q)' <=> AllSaved(q)
      BY <1>10 DEF AllSaved
    <2>3. CASE q = r
      <3>1. \A x \in Simulations : status'[r][x] \in 0 .. 2
        BY <1>7, <1>10, <2>1, <2>3 DEF RankInv
      <3>2. ~Ended(r) /\ ~Ended(r)'
        BY <1>1, <1>6 DEF Ended
      <3> QED BY <1>1, <1>6, <1>10, <1>11, <2>1, <2>2, <2>3, <3>1, <3>2 DEF RankInv
    <2>4. CASE q # r
      <3>1. /\ status'[q] = status[q] /\ pc'[q] = pc[q]
            /\ nb_finished_simulations'[q] = nb_finished_simulations[q]
        BY <1>1, <1>5, <1>6, <1>7, <2>4
      <3>2. FinishedOn(q)' = FinishedOn(q) /\ (AllFinished(q)' <=> AllFinished(q))
        BY <1>10, <3>1 DEF FinishedOn, AllFinished
      <3> QED BY <1>6, <1>10, <2>1, <2>2, <3>1, <3>2 DEF RankInv
    <2> QED BY <2>3, <2>4
  <1>13. Together'
    <2>1. Together
      BY DEF Inv, StudyInv
    <2>2. \A q \in Ranks : pc'[q] # "finalized"
      <3>1. \A q \in Ranks : pc[q] # "finalized"
        BY <1>1, <2>1 DEF Together, Stopped
      <3> QED BY <1>6, <3>1
    <2>3. pc'[Root] # "down"
      BY <1>1, <1>6, <2>1, RootAssumption DEF Together
    <2>4. ASSUME NEW x \in Simulations, Alive(Root), told'[x] = 2
          PROVE  status'[Root][x] = 2
      <3>1. told[x] = 2 => status[Root][x] = 2
        BY <2>1, <2>4 DEF Together
      <3>2. CASE r # Root
        BY <1>1, <1>7, <2>4, <3>1, <3>2, RootAssumption
      <3>3. CASE r = Root /\ x # s
        BY <1>1, <1>5, <1>7, <2>4, <3>1, <3>3
      <3>4. CASE r = Root /\ x = s /\ new # status[r][s]
        <4>1. told'[s] = new
          BY <1>1, <1>5, <3>4
        <4> QED BY <1>7, <2>4, <3>4, <4>1
      <3>5. CASE r = Root /\ x = s /\ new = status[r][s]
        <4>1. told' = told
          BY <1>1, <3>5
        <4> QED BY <1>7, <2>4, <3>1, <3>5, <4>1
      <3> QED BY <3>2, <3>3, <3>4, <3>5
    <2> QED BY <1>6, <2>2, <2>3, <2>4, RootAssumption DEF Together
  <1> QED BY <1>9, <1>12, <1>13

LEMMA CheckTimeoutsStep ==
    ASSUME Inv, Undisturbed, CheckTimeouts
    PROVE  /\ \A st \in Streams : StreamInv(st)'
           /\ \A r \in Ranks : RankInv(r)'
           /\ Together'
  <1>1. PICK late \in SUBSET Watched :
            /\ status' = [status EXCEPT ![Root] =
                             [s \in Simulations |-> IF s \in late THEN 0 ELSE status[Root][s]]]
            /\ told' = [s \in Simulations |-> IF s \in late THEN 0 ELSE told[s]]
    BY DEF CheckTimeouts
  <1>2. /\ status \in [Ranks -> [Simulations -> Status]] /\ Root \in Ranks
        /\ \A s \in late : s \in Simulations /\ status[Root][s] = 1
        /\ UNCHANGED <<nb_finished_simulations, sampling_size, pc, connected, restart,
                       checkpoint_on, stats_data, stats_file, simu_file, crashes>>
    BY RootAssumption DEF Inv, StatisticsInv, TypeOK, CheckTimeouts, Watched, loopVars, diskVars,
                           envVars
  <1>3. \A r \in Ranks, s \in Simulations :
            /\ status'[r][s] = 2 <=> status[r][s] = 2
            /\ status[r][s] \in 0 .. 2 => status'[r][s] \in 0 .. 2
    <2> TAKE r \in Ranks, s \in Simulations
    <2>1. CASE r = Root
      <3>1. status'[r][s] = IF s \in late THEN 0 ELSE status[r][s]
        BY <1>1, <1>2, <2>1
      <3> QED BY <1>2, <2>1, <3>1
    <2>2. CASE r # Root
      BY <1>1, <1>2, <2>2
    <2> QED BY <2>1, <2>2
  <1>4. ASSUME NEW st \in Streams PROVE StreamInv(st)'
    <2>1. StreamInv(st) /\ RankOf[st] \in Ranks
      BY StreamsAssumption DEF Inv, StudyInv
    <2> QED BY <1>2, <1>3, <2>1
         DEF StreamInv, Allocated, Stored, FinishedHas, Has, Alive, Ended
  <1>5. ASSUME NEW r \in Ranks PROVE RankInv(r)'
    <2>1. RankInv(r)
      BY DEF Inv, StudyInv
    <2>2. FinishedOn(r)' = FinishedOn(r) /\ (AllFinished(r)' <=> AllFinished(r))
          /\ (AllSaved(r)' <=> AllSaved(r))
      BY <1>2, <1>3 DEF FinishedOn, AllFinished, AllSaved
    <2> QED BY <1>2, <1>3, <2>1, <2>2 DEF RankInv, Alive, Ended
  <1>6. Together'
    <2>1. Together
      BY DEF Inv, StudyInv
    <2>2. \A s \in Simulations : told'[s] = 2 => told[s] = 2
      BY <1>1
    <2> QED BY <1>2, <1>3, <2>1, <2>2 DEF Together, Stopped, AllSaved, Alive
  <1> QED BY <1>4, <1>5, <1>6

\* The server dies; the files are as before or newer.
LEMMA DieStep ==
    ASSUME Inv, Undisturbed, Die,
           \A r \in Ranks : simu_file'[r].status = simu_file[r].status,
           \A st \in Streams :
              /\ stats_file'[st].vect_size = IF stats_file'[st].exists THEN 1 ELSE 0
              /\ \A s \in Simulations :
                    stats_file[st].exists /\ stats_file[st].step_simu[s] = Steps
                    => stats_file'[st].exists /\ stats_file'[st].step_simu[s] = Steps
    PROVE  /\ \A st \in Streams : StreamInv(st)'
           /\ \A r \in Ranks : RankInv(r)'
           /\ Together'
  <1>1. /\ \A r \in Ranks : /\ pc'[r] = "down" /\ checkpoint_on'[r] = FALSE
                            /\ \A s \in Simulations : status'[r][s] = 0
        /\ stats_data' = add_fields
        /\ crashes' = crashes + 1 /\ crashes < MaxCrashes /\ crashes \in Nat /\ MaxCrashes \in Nat
    BY FaultsAssumption DEF Die, StartFrom, Inv, StatisticsInv, TypeOK
  <1>2. \A r \in Ranks : AllSaved(r)' <=> AllSaved(r)
    BY DEF AllSaved
  <1>3. PICK q \in Ranks : ~Ended(q)
    <2>1. \E q \in Ranks : pc[q] # "ended"
      BY DEF Die, Undisturbed
    <2>2. Together /\ ~Stopped
      BY DEF Inv, StudyInv, Die
    <2> QED BY <2>1, <2>2 DEF Together, Ended
  <1>4. ~AllSaved(q)
    BY <1>1, <1>3 DEF Inv, StudyInv, RankInv
  <1>5. \A r \in Ranks : ~(crashes' < MaxCrashes /\ AllSaved(r)')
    <2>1. CASE MaxCrashes <= 1
      BY <1>1, <2>1
    <2>2. CASE Ranks = {Root}
      BY <1>2, <1>3, <1>4, <2>2
    <2> QED BY <2>1, <2>2 DEF Undisturbed
  <1>6. ASSUME NEW st \in Streams PROVE StreamInv(st)'
    <2>1. RankOf[st] \in Ranks /\ FinishedHas(st)
      BY StreamsAssumption DEF Inv, StudyInv, StreamInv
    <2>2. ~stats_data'[st].stats_init /\ ~stats_data'[st].steps_init
          /\ stats_data'[st].stats_init = stats_data'[st].steps_init
      BY <1>1 DEF add_fields
    <2>3. Allocated(st)'
      BY <1>1, <2>1, <2>2 DEF Allocated, Ended
    <2>4. Stored(st)'
      BY <1>1, <2>1, <2>2 DEF Stored
    <2>5. FinishedHas(st)'
      BY <1>1, <2>1 DEF FinishedHas, Alive
    <2> QED BY <2>3, <2>4, <2>5 DEF StreamInv
  <1>7. ASSUME NEW r \in Ranks PROVE RankInv(r)'
    <2>1. RankInv(r)
      BY DEF Inv, StudyInv
    <2> QED BY <1>1, <1>5, <2>1 DEF RankInv, Alive, Ended
  <1>8. Together'
    BY <1>1, <1>2, <1>3, <1>4, RootAssumption DEF Together, Alive
  <1> QED BY <1>6, <1>7, <1>8

\* A rank that saves has what is in its stream.
LEMMA SavingAllocated ==
    ASSUME Inv, NEW st \in Streams, Saving(RankOf[st])
    PROVE  stats_data[st].steps_init
  <1>1. RankInv(RankOf[st]) /\ Allocated(st)
    BY StreamsAssumption DEF Inv, StudyInv, StreamInv
  <1> QED BY <1>1 DEF Saving, RankInv, Allocated

LEMMA CrashStep ==
    ASSUME Inv, Undisturbed, Crash \/ CrashInSave
    PROVE  /\ \A st \in Streams : StreamInv(st)'
           /\ \A r \in Ranks : RankInv(r)'
           /\ Together'
  <1>1. CASE Crash
    <2>1. UNCHANGED <<stats_file, simu_file>> /\ Die
      BY <1>1 DEF Crash, diskVars
    <2>2. \A st \in Streams : Stored(st)
      BY DEF Inv, StudyInv, StreamInv
    <2> QED BY <2>1, <2>2, DieStep DEF Stored
  <1>2. CASE CrashInSave
    <2>1. PICK saving \in SUBSET {r \in Ranks : Saving(r)}, done \in SUBSET Streams,
               torn \in SUBSET Streams, kept \in BOOLEAN, cut \in SUBSET Ranks :
               CutSave(saving, done, torn, kept, cut)
      BY <1>2 DEF CrashInSave
    <2>2. torn = {} /\ cut = {}
      BY <2>1 DEF CutSave, Undisturbed
    <2>3. stats_file' = [st \in Streams |-> IF st \in done THEN save_stats(st) ELSE stats_file[st]]
      BY <2>1, <2>2 DEF CutSave
    <2>4. \A r \in Ranks : simu_file'[r].status = simu_file[r].status
      BY <2>1, <2>2 DEF CutSave
    <2>5. ASSUME NEW st \in Streams
          PROVE  /\ stats_file'[st].vect_size = IF stats_file'[st].exists THEN 1 ELSE 0
                 /\ \A s \in Simulations :
                       stats_file[st].exists /\ stats_file[st].step_simu[s] = Steps
                       => stats_file'[st].exists /\ stats_file'[st].step_simu[s] = Steps
      <3>1. StreamInv(st)
        BY DEF Inv, StudyInv
      <3>2. CASE st \in done
        <4>1. Saving(RankOf[st])
          BY <2>1, <3>2 DEF CutSave
        <4>2. stats_data[st].steps_init /\ stats_data[st].vect_size = 1
              /\ stats_data[st] \in StatsData
          BY <3>1, <4>1, SavingAllocated DEF StreamInv, Allocated, Inv, StatisticsInv, TypeOK
        <4>3. stats_file'[st].exists /\ stats_file'[st].vect_size = 1
              /\ stats_file'[st].step_simu = stats_data[st].step_simu
          BY <2>3, <3>2, <4>2 DEF save_stats
        <4>4. \A s \in Simulations : stats_data[st].step_simu[s] \subseteq Steps
          BY <4>2 DEF StatsData
        <4> QED BY <3>1, <4>2, <4>3, <4>4 DEF StreamInv, Stored
      <3>3. CASE st \notin done
        <4>1. stats_file'[st] = stats_file[st]
          BY <2>3, <3>3
        <4> QED BY <3>1, <4>1 DEF StreamInv, Stored
      <3> QED BY <3>2, <3>3
    <2> QED BY <1>2, <2>4, <2>5, DieStep DEF CrashInSave
  <1> QED BY <1>1, <1>2

\* What the ranks agree on: finished only what is finished in every file.
LEMMA SavedStatusMin ==
    ASSUME Inv, NEW s \in Simulations
    PROVE  /\ SavedStatus[s] \in {0, 2}
           /\ SavedStatus[s] = 2 => \A r \in Ranks : simu_file[r].status[s] = 2
  <1> DEFINE saved(r) == simu_file[r].status[s]
             isMin(x) == /\ \E r \in Ranks : saved(r) = x
                         /\ \A r \in Ranks : x <= saved(r)
  <1>1. \A r \in Ranks : saved(r) \in 0 .. 2
    BY DEF Inv, StudyInv, RankInv
  <1> HIDE DEF saved
  <1>2. \E x \in Status : isMin(x)
    <2>1. CASE \E r \in Ranks : saved(r) = 0
      BY <1>1, <2>1 DEF Status
    <2>2. CASE (\A r \in Ranks : saved(r) # 0) /\ \E r \in Ranks : saved(r) = 1
      BY <1>1, <2>2 DEF Status
    <2>3. CASE \A r \in Ranks : saved(r) \notin {0, 1}
      BY <1>1, <2>3, RootAssumption DEF Status
    <2> QED BY <2>1, <2>2, <2>3
  <1>3. isMin(read_simu_states(s))
    BY <1>2 DEF read_simu_states, saved
  <1>4. SavedStatus[s] = IF read_simu_states(s) = 1 THEN 0 ELSE read_simu_states(s)
    BY DEF SavedStatus
  <1>5. read_simu_states(s) \in 0 .. 2 /\ \A r \in Ranks : read_simu_states(s) <= saved(r)
    BY <1>1, <1>3
  <1>6. read_simu_states(s) = 2 => \A r \in Ranks : saved(r) = 2
    BY <1>1, <1>5
  <1> QED BY <1>4, <1>5, <1>6 DEF saved

LEMMA RestartStep ==
    ASSUME Inv, Undisturbed, Restart
    PROVE  /\ \A st \in Streams : StreamInv(st)'
           /\ \A r \in Ranks : RankInv(r)'
           /\ Together'
  <1>1. /\ restart' = TRUE /\ stats_file' = stats_file /\ simu_file' = simu_file
        /\ crashes' = crashes
        /\ \A r \in Ranks : pc[r] = "down"
        /\ \E r \in Ranks : ~AllSaved(r)
        /\ \A r \in Ranks : AllSaved(r)' <=> AllSaved(r)
    BY DEF Restart, diskVars, envVars, Inv, StudyInv, Together, AllSaved
  <1>2. \A r \in Ranks : ~(crashes' < MaxCrashes /\ AllSaved(r)')
    BY <1>1 DEF Inv, StudyInv, RankInv, Ended
  <1>3. CASE ~Readable
    <2>1. /\ \A r \in Ranks : pc'[r] = "broken"
          /\ UNCHANGED <<simuVars, stats_data, checkpoint_on>>
      BY <1>3 DEF Restart
    <2>2. ASSUME NEW st \in Streams PROVE StreamInv(st)'
      <3>1. StreamInv(st) /\ RankOf[st] \in Ranks
        BY StreamsAssumption DEF Inv, StudyInv
      <3> QED BY <1>1, <2>1, <3>1 DEF StreamInv, Allocated, Stored, FinishedHas, Alive, Ended
    <2>3. ASSUME NEW r \in Ranks PROVE RankInv(r)'
      <3>1. RankInv(r)
        BY DEF Inv, StudyInv
      <3> QED BY <1>1, <1>2, <2>1, <3>1 DEF RankInv, Alive, Ended, simuVars
    <2>4. Together'
      BY <2>1, RootAssumption DEF Together, Alive
    <2> QED BY <2>2, <2>3, <2>4
  <1>4. CASE Readable
    <2> DEFINE T == {s \in Simulations : SavedStatus[s] = 2}
    <2>1. /\ \A r \in Ranks : pc'[r] = "top"
          /\ StartFrom(SavedStatus, Cardinality(T)) /\ told' = SavedStatus
      BY <1>4 DEF Restart
    <2>2. \A r \in Ranks : /\ status'[r] = SavedStatus
                           /\ nb_finished_simulations'[r] = Cardinality(T)
                           /\ sampling_size'[r] = NbSimulations
                           /\ checkpoint_on'[r] = FALSE
                           /\ FinishedOn(r)' = T
      BY <2>1 DEF StartFrom, FinishedOn
    <2>3. ASSUME NEW st \in Streams PROVE StreamInv(st)'
      <3>1. StreamInv(st) /\ RankOf[st] \in Ranks
        BY StreamsAssumption DEF Inv, StudyInv
      <3>2. /\ ~stats_data'[st].stats_init /\ ~stats_data'[st].steps_init
            /\ stats_data'[st].stats_init = stats_data'[st].steps_init
        BY <2>1 DEF StartFrom, add_fields
      <3>3. Allocated(st)' /\ Stored(st)'
        BY <1>1, <2>1, <2>2, <3>1, <3>2 DEF StreamInv, Allocated, Stored, Ended
      <3>4. \A s \in Simulations : SavedStatus[s] = 2 => simu_file[RankOf[st]].status[s] = 2
        BY <3>1, SavedStatusMin
      <3>5. ASSUME NEW s \in Simulations
            PROVE  /\ simu_file'[RankOf[st]].status[s] = 2 =>
                         stats_file'[st].exists /\ stats_file'[st].step_simu[s] = Steps
                   /\ status'[RankOf[st]][s] = 2 => Has(st, s)'
        <4>1. simu_file[RankOf[st]].status[s] = 2 =>
                  stats_file[st].exists /\ stats_file[st].step_simu[s] = Steps
          BY <3>1 DEF StreamInv, FinishedHas
        <4>2. status'[RankOf[st]][s] = 2 =>
                  restart' /\ stats_file'[st].exists /\ stats_file'[st].step_simu[s] = Steps
          BY <1>1, <2>2, <3>1, <3>4, <4>1
        <4> QED BY <1>1, <3>2, <4>1, <4>2 DEF Has
      <3>6. FinishedHas(st)'
        BY <3>5 DEF FinishedHas
      <3> QED BY <3>3, <3>6 DEF StreamInv
    <2>4. ASSUME NEW r \in Ranks PROVE ~AllFinished(r)'
      <3>1. SUFFICES ASSUME Cardinality(T) >= NbSimulations, Cardinality(T) > 0
                     PROVE  FALSE
        BY <2>2, SimulationsCount DEF AllFinished, NbSimulations
      <3>2. T \subseteq Simulations
        OBVIOUS
      <3>3. T = Simulations
        BY <3>1, <3>2, SimulationsCount, FS_Subset, FS_CardinalityType DEF NbSimulations
      <3>4. Simulations # {}
        BY <3>1, <3>3, FS_EmptySet
      <3>5. \A s \in Simulations, q \in Ranks : simu_file[q].status[s] = 2
        BY <3>3, SavedStatusMin
      <3> QED BY <1>1, <3>4, <3>5 DEF AllSaved
    <2>5. ASSUME NEW r \in Ranks PROVE RankInv(r)'
      <3>1. RankInv(r)
        BY DEF Inv, StudyInv
      <3>2. \A s \in Simulations : SavedStatus[s] \in 0 .. 2
        BY SavedStatusMin
      <3> HIDE DEF T
      <3> QED BY <1>1, <1>2, <2>1, <2>2, <2>4, <3>1, <3>2 DEF RankInv, Ended
    <2>6. Together'
      BY <2>1, <2>2, RootAssumption DEF Together
    <2> QED BY <2>3, <2>5, <2>6
  <1> QED BY <1>3, <1>4

LEMMA InitInv == Init => Inv
  <1> SUFFICES ASSUME Init PROVE Inv
    OBVIOUS
  <1>1. OnlyJobs
    <2>1. DOMAIN <<>> = {}
      OBVIOUS
    <2> QED BY <2>1 DEF Init, OnlyJobs
  <1>2. ASSUME NEW st \in Streams PROVE StreamInv(st)
    <2>1. RankOf[st] \in Ranks
      BY StreamsAssumption
    <2>2. ~stats_data[st].stats_init /\ ~stats_data[st].steps_init
          /\ stats_data[st].stats_init = stats_data[st].steps_init
      BY DEF Init, add_fields
    <2> QED BY <2>1, <2>2 DEF Init, StreamInv, Allocated, Stored, FinishedHas, Ended
  <1>3. ASSUME NEW r \in Ranks PROVE RankInv(r)
    <2>1. FinishedOn(r) = {}
      BY DEF Init, FinishedOn
    <2> QED BY <2>1, FS_EmptySet DEF Init, RankInv, AllFinished, AllSaved, Ended
  <1>4. Together
    BY RootAssumption DEF Init, Together
  <1> QED BY <1>1, <1>2, <1>3, <1>4, StatisticsInvInit DEF Inv, StudyInv

LEMMA InvStep ==
    ASSUME Inv, Undisturbed, [Next]_vars
    PROVE  Inv'
  <1> DEFINE Rest == /\ \A st \in Streams : StreamInv(st)'
                     /\ \A r \in Ranks : RankInv(r)'
                     /\ Together'
  <1>0. StatisticsInv' /\ OnlyJobs'
    BY StatisticsInvNext, OnlyJobsStep DEF Undisturbed, Inv
  <1> SUFFICES Rest
    BY <1>0 DEF Inv, StudyInv
  <1>1. CASE \E st \in Streams, s \in Simulations, t \in Steps : RecvData(st, s, t)
    BY <1>1, RecvDataStep
  <1>2. ASSUME NEW r \in Ranks, RankNext(r) PROVE Rest
    <2>0. /\ pc \in [Ranks -> {"top", "poll", "data", "test", "ended",
                               "finalized", "down", "broken"}]
          /\ RankInv(r) /\ OnlyJobs /\ Together
          /\ \A st \in StreamsOf(r) : checkpoint_on[r] \/ pc[r] = "test" => stats_data[st].steps_init
          /\ \A q \in Ranks : sampling_size'[q] = sampling_size[q]
      <3>1. \A q \in Ranks : sampling_size'[q] = sampling_size[q]
        BY <1>0 DEF Inv, StudyInv, OnlyJobs, NbSimulations
      <3> QED BY <3>1 DEF Inv, StudyInv, StatisticsInv, TypeOK, StreamsOf, StreamInv, Allocated
    <2>f. pc[r] \in {"top", "poll", "data", "test"} =>
              ~\E q \in Ranks : pc[q] = "finalized"
      BY <2>0 DEF Together, Stopped
    <2>1. CASE RecvIgnored(r)
      <3>1. \A q \in Ranks : pc'[q] # "finalized"
        BY <2>0, <2>1, <2>f DEF RecvIgnored
      <3> QED BY <2>0, <2>1, <3>1, MoveStep DEF RecvIgnored, RankInv, simuVars, envVars
    <2>2. CASE RecvText(r)
      <3>1. \A q \in Ranks : pc'[q] # "finalized"
        BY <2>0, <2>2, <2>f DEF RecvText
      <3>2. UNCHANGED <<status, nb_finished_simulations>>
        <4>1. 1 \in DOMAIN text_puller[r] /\ Head(text_puller[r]) = text_puller[r][1]
          BY <2>2 DEF RecvText, Inv, StatisticsInv, TypeOK
        <4>2. Head(text_puller[r])[1] = "JOB"
          BY <2>0, <4>1 DEF OnlyJobs
        <4> QED BY <2>2, <4>2 DEF RecvText, process_launcher_message
      <3> QED BY <2>0, <2>2, <3>1, <3>2, MoveStep DEF RecvText, RankInv, envVars
    <2>3. CASE LauncherTimeout(r) \/ SignalSave(r) \/ Signal(r)
      BY <2>0, <2>3 DEF LauncherTimeout, SignalSave, Signal, OnlyJobs, Undisturbed
    <2>4. CASE Checkpoint(r)
      BY <2>0, <2>4, SaveStep DEF Checkpoint, RankInv, envVars
    <2>5. CASE EndTest(r) /\ AllFinished(r)
      <3>1. pc[r] = "test" /\ connected
        BY <2>0, <2>5 DEF EndTest, RankInv
      <3>2. SaveRank(r) /\ pc' = [pc EXCEPT ![r] = "ended"]
        BY <2>5, <3>1 DEF EndTest, SaveAndGo
      <3> QED BY <2>0, <2>5, <3>1, <3>2, SaveStep DEF EndTest, envVars
    <2>6. CASE EndTest(r) /\ ~AllFinished(r)
      <3>1. pc' = [pc EXCEPT ![r] = "top"] /\ UNCHANGED diskVars
            /\ pc[r] \in {"top", "poll", "data", "test"}
        BY <2>6 DEF EndTest
      <3>2. \A q \in Ranks : pc'[q] # "finalized"
        BY <2>0, <2>f, <3>1
      <3> QED BY <2>0, <2>6, <3>1, <3>2, MoveStep DEF EndTest, simuVars, envVars
    <2> QED BY <1>2, <2>1, <2>2, <2>3, <2>4, <2>5, <2>6 DEF RankNext
  <1>3. CASE RecvConnexion
    <2>0. /\ pc \in [Ranks -> {"top", "poll", "data", "test", "ended",
                               "finalized", "down", "broken"}]
          /\ RankInv(Root) /\ Together /\ pc[Root] \in {"top", "poll", "data"}
      BY <1>3, RootAssumption DEF RecvConnexion, Inv, StudyInv, StatisticsInv, TypeOK
    <2>1. \A q \in Ranks : pc'[q] # "finalized"
      BY <1>3, <2>0, RootAssumption DEF RecvConnexion, Together, Stopped
    <2> QED BY <1>3, <2>0, <2>1, MoveStep DEF RecvConnexion, RankInv, simuVars, envVars
  <1>4. CASE CheckTimeouts
    BY <1>4, CheckTimeoutsStep
  <1>5. CASE Finalize
    BY <1>5, MoveStep DEF Finalize, simuVars, envVars
  <1>6. CASE Crash \/ CrashInSave
    BY <1>6, CrashStep
  <1>7. CASE Restart
    BY <1>7, RestartStep
  <1>8. ASSUME UNCHANGED <<simuVars, loopVars, stats_data, diskVars, told, crashes>>
        PROVE  Rest
    <2>1. Together
      BY DEF Inv, StudyInv
    <2> QED BY <1>8, <2>1, MoveStep DEF Together, Stopped, simuVars, loopVars
  <1>9. CASE \E s \in Simulations : Submit(s) \/ GiveUp(s)
    BY <1>8, <1>9 DEF Submit, GiveUp
  <1>10. CASE LauncherDies \/ UNCHANGED vars
    BY <1>8, <1>10 DEF LauncherDies, vars, envVars
  <1> QED BY <1>1, <1>2, <1>3, <1>4, <1>5, <1>6, <1>7, <1>9, <1>10 DEF Next

LEMMA InvHolds ==
    ASSUME Undisturbed
    PROVE  Spec => []Inv
  <1>1. Inv /\ [Next]_vars => Inv'
    BY InvStep
  <1> QED BY <1>1, InitInv, PTL DEF Spec

-----------------------------------------------------------------------------
(* The theorems.                                                             *)

\* What is marked on an allocated stream is in its statistics.
LEMMA HasIsCollected ==
    ASSUME Inv, Undisturbed, NEW st \in Streams, NEW s \in Simulations, Has(st, s)
    PROVE  Collected(st, s)
  <1>1. /\ StreamInv(st) /\ StreamOK(stats_data[st], st) /\ FileOK(stats_file[st])
    BY DEF Inv, StudyInv, StatisticsInv, MemoryOK, FilesOK
  <1>2. CASE stats_data[st].steps_init
    <2>1. Agree(stats_data[st]) /\ stats_data[st].step_simu[s] = Steps
          /\ stats_data[st].stats_init
      BY <1>1, <1>2 DEF StreamInv, Allocated, StreamOK, Has
    <2> QED BY <2>1 DEF Collected, Complete, Agree
  <1>3. CASE ~stats_data[st].steps_init
    <2>1. restart /\ Agree(stats_file[st]) /\ stats_file[st].step_simu[s] = Steps
          /\ ~stats_data[st].stats_init
      BY <1>1, <1>3 DEF StreamInv, Allocated, Stored, FileOK, Has
    <2> QED BY <2>1 DEF Collected, Complete, Agree
  <1> QED BY <1>2, <1>3

\* When the server stops, the statistics of every stream have every message of
\* every simulation (server.cxx 881-885; server/README.md:67), whatever order the
\* messages came in, how often, and when the server died.
THEOREM NothingMissingAtTheEnd ==
    ASSUME Undisturbed
    PROVE  Spec => []StopMeansComplete
  <1>1. Inv => StopMeansComplete
    <2> SUFFICES ASSUME Inv, Stopped, NEW s \in Simulations, NEW st \in Streams
                 PROVE  Complete(stats_data[st], s)
      BY DEF StopMeansComplete
    <2>1. /\ RankOf[st] \in Ranks /\ pc[RankOf[st]] = "finalized"
          /\ RankInv(RankOf[st]) /\ StreamInv(st) /\ StreamOK(stats_data[st], st)
      BY StreamsAssumption DEF Stopped, Inv, StudyInv, StatisticsInv, MemoryOK
    <2>2. status[RankOf[st]][s] = 2 /\ stats_data[st].steps_init
      BY <2>1, DoneMeansAll DEF RankInv, Ended, Alive, StreamInv, Allocated
    <2>3. stats_data[st].step_simu[s] = Steps /\ Agree(stats_data[st])
      BY <2>1, <2>2 DEF StreamInv, Allocated, FinishedHas, Has, Alive, StreamOK
    <2> QED BY <2>3 DEF Complete, Agree
  <1> QED BY <1>1, InvHolds, PTL

\* Rank 0 has, or can read back, every message of a simulation the launcher was
\* told is finished: it needs no rerun (server.cxx 735-770).
THEOREM ReportsCanBeTrusted ==
    ASSUME Undisturbed
    PROVE  Spec => []ToldMeansCollected
  <1>1. Inv => ToldMeansCollected
    <2> SUFFICES ASSUME Inv, NEW s \in Simulations, NEW st \in StreamsOf(Root), Up, told[s] = 2
                 PROVE  Collected(st, s)
      BY DEF ToldMeansCollected
    <2>1. st \in Streams /\ RankOf[st] = Root /\ Alive(Root)
      BY DEF StreamsOf, Up, Alive
    <2>2. Has(st, s)
      BY <2>1 DEF Inv, StudyInv, Together, StreamInv, FinishedHas
    <2> QED BY <2>1, <2>2, HasIsCollected
  <1> QED BY <1>1, InvHolds, PTL

\* Every simulation a rank takes for finished is counted once, through reruns,
\* timeouts, crashes and restarts (server.cxx 750-760, server_helper.c 196-206).
THEOREM CountedOnce ==
    ASSUME Undisturbed
    PROVE  Spec => []FinishedCount
  <1>1. Inv => FinishedCount
    <2> SUFFICES ASSUME Inv, NEW r \in Ranks, Alive(r)
                 PROVE  nb_finished_simulations[r] =
                            Cardinality({s \in Simulations : status[r][s] \in {2, 3}})
      BY DEF FinishedCount, Alive
    <2>1. RankInv(r)
      BY DEF Inv, StudyInv
    <2>2. {s \in Simulations : status[r][s] \in {2, 3}} = FinishedOn(r)
      BY <2>1 DEF RankInv, FinishedOn
    <2> QED BY <2>1, <2>2 DEF RankInv
  <1> QED BY <1>1, InvHolds, PTL

-----------------------------------------------------------------------------
(* The promise.                                                              *)

\* What the mapping needs besides the invariant of the study: the ranks are down,
\* and then without memory, or broken together, and a file that does not exist
\* has no data.
DownTogether ==
    /\ \A r \in Ranks : /\ pc[r] = "down" <=> pc[Root] = "down"
                        /\ pc[r] = "broken" <=> pc[Root] = "broken"
    /\ pc[Root] = "down" => /\ stats_data = add_fields
                            /\ \A r \in Ranks, s \in Simulations : status[r][s] = 0
NoFileNoData == \A st \in Streams :
    ~stats_file[st].exists => stats_file[st].contributions = NoContribution
RefinesInv == Inv /\ DownTogether /\ NoFileNoData

LEMMA DownTogetherStep ==
    ASSUME RefinesInv, [Next]_vars
    PROVE  DownTogether'
  <1>0. /\ Root \in Ranks /\ pc \in [Ranks -> {"top", "poll", "data", "test", "ended",
                                               "finalized", "down", "broken"}]
        /\ \A r \in Ranks : /\ pc[r] = "down" <=> pc[Root] = "down"
                            /\ pc[r] = "broken" <=> pc[Root] = "broken"
        /\ pc[Root] = "down" => /\ stats_data = add_fields
                                /\ \A r \in Ranks, s \in Simulations : status[r][s] = 0
    BY RootAssumption DEF RefinesInv, Inv, StatisticsInv, TypeOK, DownTogether
  <1>1. CASE \E st \in Streams, s \in Simulations, t \in Steps : RecvData(st, s, t)
    <2>1. PICK st \in Streams, s \in Simulations, t \in Steps : RecvData(st, s, t)
      BY <1>1
    <2>2. /\ RankOf[st] \in Ranks /\ pc[RankOf[st]] \in {"top", "poll", "data"}
          /\ pc' = [pc EXCEPT ![RankOf[st]] = "test"]
      BY <2>1, StreamsAssumption DEF RecvData
    <2> QED BY <1>0, <2>2 DEF DownTogether
  <1>2. ASSUME NEW r \in Ranks, RankNext(r) PROVE DownTogether'
    <2>1. stats_data' = stats_data
      BY <1>2 DEF RankNext, RecvIgnored, RecvText, LauncherTimeout, Checkpoint, SignalSave,
                  EndTest, Signal
    <2>2. ~end_signal[r] /\ (AllFinished(r) /\ pc[r] \in {"top", "poll", "data", "test"} => connected)
      BY DEF RefinesInv, Inv, StudyInv, RankInv, OnlyJobs
    <2>3. /\ pc[r] \notin {"down", "broken"} /\ pc'[r] \notin {"down", "broken"}
          /\ \A q \in Ranks : q # r => pc'[q] = pc[q]
      BY <1>0, <1>2, <2>2 DEF RankNext, RecvIgnored, RecvText, LauncherTimeout, Checkpoint,
                  SignalSave, EndTest, Signal, SaveAndGo
    <2> QED BY <1>0, <2>1, <2>3 DEF DownTogether
  <1>3. CASE RecvConnexion \/ CheckTimeouts
    BY <1>0, <1>3 DEF RecvConnexion, CheckTimeouts, loopVars, DownTogether
  <1>4. CASE Finalize
    BY <1>0, <1>4 DEF Finalize, DownTogether
  <1>5. CASE Crash \/ CrashInSave
    <2>1. Die
      BY <1>5 DEF Crash, CrashInSave
    <2> QED BY <1>0, <2>1 DEF Die, StartFrom, DownTogether
  <1>6. CASE Restart
    BY <1>0, <1>6 DEF Restart, DownTogether
  <1>7. CASE (\E s \in Simulations : Submit(s) \/ GiveUp(s)) \/ LauncherDies \/ UNCHANGED vars
    <2>1. UNCHANGED <<pc, stats_data, status>>
      BY <1>7 DEF Submit, GiveUp, LauncherDies, loopVars, simuVars, vars
    <2> QED BY <1>0, <2>1 DEF DownTogether
  <1> QED BY <1>1, <1>2, <1>3, <1>4, <1>5, <1>6, <1>7 DEF Next

LEMMA NoFileNoDataStep ==
    ASSUME RefinesInv, [Next]_vars
    PROVE  NoFileNoData'
  <1>0. NoFileNoData
    BY DEF RefinesInv
  <1>1. \A st \in Streams : save_stats(st).exists
    BY DEF save_stats
  <1>2. ASSUME NEW r \in Ranks, SaveRank(r) PROVE NoFileNoData'
    BY <1>0, <1>1, <1>2 DEF SaveRank, NoFileNoData
  <1>3. CASE CrashInSave
    <2>1. PICK saving \in SUBSET {r \in Ranks : Saving(r)}, done \in SUBSET Streams,
               torn \in SUBSET Streams, kept \in BOOLEAN, cut \in SUBSET Ranks :
               CutSave(saving, done, torn, kept, cut)
      BY <1>3 DEF CrashInSave
    <2>2. \A st \in Streams : Torn(save_stats(st), kept).exists
      BY <1>1 DEF Torn, save_stats
    <2> QED BY <1>0, <1>1, <2>1, <2>2 DEF CutSave, NoFileNoData
  <1>4. ASSUME NEW r \in Ranks, RankNext(r) PROVE NoFileNoData'
    <2>1. (\E q \in Ranks : SaveRank(q)) \/ stats_file' = stats_file
      BY <1>4 DEF RankNext, RecvIgnored, RecvText, LauncherTimeout, Checkpoint, SignalSave,
                  EndTest, Signal, SaveAndGo, diskVars
    <2> QED BY <1>0, <1>2, <2>1 DEF NoFileNoData
  <1>5. ASSUME stats_file' = stats_file PROVE NoFileNoData'
    BY <1>0, <1>5 DEF NoFileNoData
  <1>6. CASE \E st \in Streams, s \in Simulations, t \in Steps : RecvData(st, s, t)
    BY <1>5, <1>6 DEF RecvData, diskVars
  <1>7. CASE RecvConnexion \/ CheckTimeouts \/ Finalize \/ Crash \/ Restart
    BY <1>5, <1>7 DEF RecvConnexion, CheckTimeouts, Finalize, Crash, Restart, diskVars
  <1>8. CASE (\E s \in Simulations : Submit(s) \/ GiveUp(s)) \/ LauncherDies \/ UNCHANGED vars
    BY <1>5, <1>8 DEF Submit, GiveUp, LauncherDies, vars, diskVars
  <1> QED BY <1>3, <1>4, <1>6, <1>7, <1>8 DEF Next

LEMMA RefinesInvHolds ==
    ASSUME Undisturbed
    PROVE  Spec => []RefinesInv
  <1>1. Init => RefinesInv
    BY InitInv, RootAssumption DEF Init, RefinesInv, DownTogether, NoFileNoData
  <1>2. RefinesInv /\ [Next]_vars => RefinesInv'
    BY InvStep, DownTogetherStep, NoFileNoDataStep DEF RefinesInv
  <1> QED BY <1>1, <1>2, PTL DEF Spec

-----------------------------------------------------------------------------
(* The mapping, in the words of the steps that are marked as received.       *)

Saved(st) == IF stats_file[st].exists THEN stats_file[st].step_simu ELSE NoStep
Marked(st) == IF stats_data[st].steps_init THEN stats_data[st].step_simu ELSE Saved(st)

SavedItems == {x \in Items : x[3] \in Saved(x[1])[x[2]]}
MarkedItems == {x \in Items : x[3] \in Marked(x[1])[x[2]]}

LEMMA Mapped ==
    ASSUME Undisturbed
    PROVE  RefinesInv => ItemsIn(DataSaved) = SavedItems /\ ItemsIn(Data) = MarkedItems
  <1> SUFFICES ASSUME RefinesInv
               PROVE  ItemsIn(DataSaved) = SavedItems /\ ItemsIn(Data) = MarkedItems
    OBVIOUS
  <1>1. ASSUME NEW d, NEW s \in Simulations, NEW t \in Steps, Agree(d)
        PROVE  d.contributions[s][t] > 0 <=> t \in d.step_simu[s]
    BY <1>1 DEF Agree
  <1>2. ASSUME NEW st \in Streams, NEW s \in Simulations, NEW t \in Steps
        PROVE  /\ stats_file[st].contributions[s][t] > 0 <=> t \in Saved(st)[s]
               /\ Data[st][s][t] > 0 <=> t \in Marked(st)[s]
    <2>1. /\ StreamOK(stats_data[st], st) /\ FileOK(stats_file[st]) /\ StreamInv(st)
          /\ RankOf[st] \in Ranks /\ st \notin EmptyStreams
          /\ stats_data[st] \in StatsData
      BY StreamsAssumption DEF RefinesInv, Inv, StudyInv, StatisticsInv, MemoryOK, FilesOK, TypeOK,
                               Undisturbed
    <2>2. NoContribution[s][t] = 0 /\ NoStep[s] = {}
      BY DEF NoContribution, NoStep
    <2>3. stats_file[st].contributions[s][t] > 0 <=> t \in Saved(st)[s]
      <3>1. CASE stats_file[st].exists
        <4>1. Agree(stats_file[st])
          BY <2>1, <3>1 DEF StreamInv, Stored, FileOK
        <4> QED BY <1>1, <3>1, <4>1 DEF Saved
      <3>2. CASE ~stats_file[st].exists
        BY <2>2, <3>2 DEF Saved, RefinesInv, NoFileNoData
      <3> QED BY <3>1, <3>2
    <2>4. CASE stats_data[st].steps_init
      <3>1. stats_data[st].stats_init /\ stats_data[st].vect_size = 1
        BY <2>1, <2>4 DEF StreamInv, Allocated
      <3>2. Data[st] = stats_data[st].contributions
        BY <3>1 DEF Data
      <3>3. Agree(stats_data[st])
        BY <2>1, <3>1 DEF StreamOK
      <3>4. stats_data[st].contributions[s][t] > 0 <=> t \in stats_data[st].step_simu[s]
        BY <1>1, <3>3
      <3> QED BY <2>3, <2>4, <3>2, <3>4 DEF Marked
    <2>5. CASE ~stats_data[st].steps_init /\ (restart \/ pc[Root] = "down")
      <3>1. Data[st] = stats_file[st].contributions
        BY <2>1, <2>5 DEF Data, StreamInv, Allocated
      <3> QED BY <2>3, <2>5, <3>1 DEF Marked
    <2>6. CASE ~stats_data[st].steps_init /\ ~restart /\ pc[Root] # "down"
      <3>1. ~stats_file[st].exists
        BY <2>1, <2>6 DEF RefinesInv, DownTogether, StreamInv, Stored
      <3>2. Data[st] = stats_data[st].contributions
        BY <2>6 DEF Data
      <3>3. ~(stats_data[st].contributions[s][t] > 0)
        <4>1. CASE stats_data[st].vect_size = 0
          BY <2>1, <2>2, <4>1 DEF StreamOK
        <4>2. CASE stats_data[st].vect_size # 0
          <5>1. Agree(stats_data[st]) /\ stats_data[st].step_simu = NoStep
            BY <2>1, <2>6, <4>2 DEF StreamOK, StatsData, StreamInv, Allocated
          <5> QED BY <1>1, <2>2, <5>1
        <4> QED BY <4>1, <4>2
      <3> QED BY <2>2, <2>3, <2>6, <3>1, <3>2, <3>3 DEF Marked, Saved
    <2> QED BY <2>3, <2>4, <2>5, <2>6
  <1>3. \A x \in Items : x[1] \in Streams /\ x[2] \in Simulations /\ x[3] \in Steps
    BY DEF Items
  <1>4. ItemsIn(DataSaved) = SavedItems
    BY <1>2, <1>3 DEF ItemsIn, DataSaved, SavedItems
  <1>5. ItemsIn(Data) = MarkedItems
    <2> HIDE DEF Data
    <2> QED BY <1>2, <1>3 DEF ItemsIn, MarkedItems
  <1> QED BY <1>4, <1>5

\* What is saved is never more than what is collected.
LEMMA SavedIsMarked ==
    ASSUME RefinesInv
    PROVE  /\ \A st \in Streams, s \in Simulations : Saved(st)[s] \subseteq Marked(st)[s]
           /\ SavedItems \subseteq MarkedItems
  <1>1. ASSUME NEW st \in Streams, NEW s \in Simulations
        PROVE  Saved(st)[s] \subseteq Marked(st)[s]
    <2>1. Stored(st)
      BY DEF RefinesInv, Inv, StudyInv, StreamInv
    <2>2. NoStep[s] = {}
      BY DEF NoStep
    <2> QED BY <2>1, <2>2 DEF Stored, Saved, Marked
  <1>2. \A x \in Items : x[1] \in Streams /\ x[2] \in Simulations
    BY DEF Items
  <1> QED BY <1>1, <1>2 DEF SavedItems, MarkedItems

LEMMA InitStreamMarks ==
    ASSUME RefinesInv, Undisturbed, NEW st \in Streams, Alive(RankOf[st])
    PROVE  InitStream(st).step_simu = Marked(st)
  <1> DEFINE d == stats_data[st]
             f == stats_file[st]
             e == melissa_init_data(d, 1)
  <1>1. /\ d \in StatsData /\ f \in StatsFile
        /\ d.stats_init = d.steps_init
        /\ f.vect_size = IF f.exists THEN 1 ELSE 0
        /\ f.exists => restart \/ d.steps_init
        /\ StreamOK(d, st) /\ st \notin EmptyStreams
    BY DEF RefinesInv, Inv, StudyInv, StreamInv, Allocated, Stored, StatisticsInv, TypeOK,
           StatsData, MemoryOK, Undisturbed, Alive
  <1>2. MessageSize(st) = 1
    BY DEF MessageSize, Undisturbed
  <1>3. CASE d.steps_init
    BY <1>3, InitStreamHas DEF Marked, RefinesInv
  <1>4. CASE ~d.steps_init
    <2>1. NeedsStats(st)
      BY <1>1, <1>2, <1>4 DEF NeedsStats
    <2>2. e \in StatsData /\ e.step_simu = NoStep
      BY <1>1, <1>4, InitDataType DEF melissa_init_data, StatsData, StreamOK
    <2> HIDE DEF e
    <2>3. InitStream(st) = IF restart THEN read_saved_stats(e, f) ELSE e
      BY <1>2, <2>1 DEF InitStream, e
    <2>4. CASE restart /\ f.exists
      <3>1. InitStream(st) = [e EXCEPT !.vect_size = f.vect_size,
                                       !.contributions = f.contributions,
                                       !.step_simu = f.step_simu]
        BY <1>1, <2>3, <2>4 DEF read_saved_stats
      <3> QED BY <1>4, <2>2, <2>4, <3>1 DEF Marked, Saved, StatsData
    <2>5. CASE ~(restart /\ f.exists)
      <3>1. InitStream(st) = e
        BY <2>3, <2>5 DEF read_saved_stats
      <3> QED BY <1>1, <1>4, <2>2, <2>5, <3>1 DEF Marked, Saved
    <2> QED BY <2>4, <2>5
  <1> QED BY <1>3, <1>4

-----------------------------------------------------------------------------
(* The steps.                                                                *)

\* the promise's variables, as they are mapped
promised == <<MarkedItems, SavedItems, Reported, Stopped>>

\* A finished simulation of rank 0 is collected there.
LEMMA FinishedIsMarked ==
    ASSUME RefinesInv, NEW s \in Simulations, NEW x \in Items,
           Alive(Root), status[Root][s] = 2, x[2] = s, RankOf[x[1]] = Root
    PROVE  x \in MarkedItems
  <1>1. x[1] \in Streams /\ x[3] \in Steps
    BY DEF Items
  <1>2. Has(x[1], s)
    BY <1>1 DEF RefinesInv, Inv, StudyInv, StreamInv, FinishedHas
  <1>3. Marked(x[1])[s] = Steps
    BY <1>2 DEF Has, Marked, Saved
  <1> QED BY <1>1, <1>3 DEF MarkedItems

LEMMA QuietStep ==
    ASSUME RefinesInv,
           UNCHANGED <<stats_data, diskVars, told>>,
           Up' <=> Up, Stopped' <=> Stopped
    PROVE  UNCHANGED promised
  <1>1. \A st \in Streams : Marked(st)' = Marked(st) /\ Saved(st)' = Saved(st)
    BY DEF Marked, Saved, diskVars
  <1>2. \A x \in Items : x[1] \in Streams
    BY DEF Items
  <1>3. MarkedItems' = MarkedItems /\ SavedItems' = SavedItems
    BY <1>1, <1>2 DEF MarkedItems, SavedItems, Items, Steps
  <1>4. Stopped' = Stopped
    BY DEF Stopped
  <1> QED BY <1>3, <1>4 DEF promised, Reported

\* A message is collected, and its simulation may be reported.
LEMMA ReceiveStep ==
    ASSUME RefinesInv, RefinesInv', Undisturbed,
           NEW st \in Streams, NEW s \in Simulations, NEW t \in Steps, RecvData(st, s, t)
    PROVE  /\ MarkedItems' = MarkedItems \cup {<<st, s, t>>}
           /\ SavedItems' = SavedItems
           /\ ~Stopped /\ Stopped' = Stopped
           /\ Reported \subseteq Reported'
           /\ \A x \in Simulations : x \in Reported' \ Reported =>
                 \A i \in Items : i[2] = x /\ RankOf[i[1]] = Root => i \in MarkedItems'
  <1> DEFINE r   == RankOf[st]
             e   == InitStream(st)
             new == IF e.step_simu[s] \cup {t} = Steps THEN 2 ELSE 1
  <1>0. Inv /\ Together /\ DownTogether
    BY DEF RefinesInv, Inv, StudyInv
  <1>1. /\ r \in Ranks /\ pc[r] \in {"top", "poll", "data"} /\ connected
        /\ stats_data'[st].stats_init /\ stats_data'[st].steps_init
        /\ stats_data'[st].vect_size = 1
        /\ stats_data'[st].step_simu = [e.step_simu EXCEPT ![s] = @ \cup {t}]
        /\ \A su \in Streams : su # st => stats_data'[su] = stats_data[su] /\ RankOf[su] # r
        /\ status' = [status EXCEPT ![r] = [status[r] EXCEPT ![s] = new]]
        /\ nb_finished_simulations' = IF new = 2 /\ status[r][s] # 2
              THEN [nb_finished_simulations EXCEPT ![r] = @ + 1] ELSE nb_finished_simulations
        /\ told' = IF r = Root /\ new # status[r][s] THEN [told EXCEPT ![s] = new] ELSE told
        /\ pc' = [pc EXCEPT ![r] = "test"]
        /\ \A q \in Ranks : q # r => checkpoint_on'[q] = checkpoint_on[q]
        /\ UNCHANGED <<sampling_size, connected, restart, diskVars, crashes>>
    BY <1>0, RecvDataEffect
  <1>2. Alive(r) /\ e.step_simu = Marked(st)
    BY <1>1, InitStreamMarks DEF Alive
  <1>3. /\ pc \in [Ranks -> {"top", "poll", "data", "test", "ended", "finalized", "down", "broken"}]
        /\ status \in [Ranks -> [Simulations -> Status]]
        /\ told \in [Simulations -> Status]
        /\ Root \in Ranks
        /\ e.step_simu \in [Simulations -> SUBSET Steps]
    BY <1>0, InitStreamHas, RootAssumption DEF Inv, StatisticsInv, TypeOK, StatsData
  <1> HIDE DEF e
  <1>4. \A su \in Streams :
            /\ Saved(su)' = Saved(su)
            /\ su # st => Marked(su)' = Marked(su)
            /\ Marked(st)' = [Marked(st) EXCEPT ![s] = @ \cup {t}]
    BY <1>1, <1>2 DEF Saved, Marked, diskVars
  <1>5. Marked(st) \in [Simulations -> SUBSET Steps]
    BY <1>2, <1>3
  <1>6. /\ \A x \in Items : /\ x[1] \in Streams /\ x[2] \in Simulations /\ x[3] \in Steps
                            /\ x = <<x[1], x[2], x[3]>>
        /\ <<st, s, t>> \in Items
    BY DEF Items, Undisturbed
  <1>7. MarkedItems' = MarkedItems \cup {<<st, s, t>>}
    <2>1. ASSUME NEW x \in Items
          PROVE  x[3] \in Marked(x[1])'[x[2]] <=>
                     x[3] \in Marked(x[1])[x[2]] \/ x = <<st, s, t>>
      <3>1. CASE x[1] = st /\ x[2] = s
        BY <1>4, <1>5, <1>6, <3>1
      <3>2. CASE x[1] = st /\ x[2] # s
        BY <1>4, <1>5, <1>6, <3>2
      <3>3. CASE x[1] # st
        BY <1>4, <1>6, <3>3
      <3> QED BY <3>1, <3>2, <3>3
    <2>2. MarkedItems' = {x \in Items : x[3] \in Marked(x[1])'[x[2]]}
      BY DEF MarkedItems, Items, Steps
    <2> QED BY <1>6, <2>1, <2>2 DEF MarkedItems
  <1>8. SavedItems' = SavedItems
    BY <1>4, <1>6 DEF SavedItems, Items, Steps
  <1>9. ~Stopped /\ ~Stopped' /\ Up /\ Up'
    <2>1. ~Stopped /\ ~Stopped'
      BY <1>1, <1>3 DEF Stopped
    <2>2. pc[Root] # "down" /\ pc[Root] # "finalized"
      BY <1>0, <1>1, <1>3, <2>1 DEF DownTogether, Together
    <2>3. pc[Root] # "broken"
      BY <1>0, <1>1 DEF DownTogether
    <2> QED BY <1>1, <1>3, <2>1, <2>2, <2>3 DEF Up
  <1>10. ASSUME NEW x \in Simulations, told[x] = 2 PROVE told'[x] = 2
    <2>1. Alive(Root)
      BY <1>9 DEF Up, Alive
    <2>2. status[Root][x] = 2
      BY <1>0, <1>10, <2>1 DEF Together
    <2>3. CASE r = Root /\ x = s
      <3>1. Has(st, s)
        BY <1>0, <2>1, <2>2, <2>3 DEF Inv, StudyInv, StreamInv, FinishedHas
      <3>2. Marked(st)[s] = Steps
        BY <3>1 DEF Has, Marked, Saved
      <3>3. new = 2
        BY <1>2, <3>2
      <3> QED BY <1>1, <1>10, <2>2, <2>3, <3>3
    <2>4. CASE ~(r = Root /\ x = s)
      BY <1>1, <1>3, <1>10, <2>4
    <2> QED BY <2>3, <2>4
  <1>11. ASSUME NEW x \in Simulations, told'[x] = 2, NEW i \in Items, i[2] = x,
                RankOf[i[1]] = Root
         PROVE  i \in MarkedItems'
    <2>1. Alive(Root)' /\ Together'
      BY <1>9 DEF Up, Alive, RefinesInv, Inv, StudyInv
    <2>2. status'[Root][x] = 2
      BY <1>11, <2>1 DEF Together
    <2>3. FinishedHas(i[1])'
      BY <1>6 DEF RefinesInv, Inv, StudyInv, StreamInv
    <2>4. Has(i[1], x)'
      BY <1>11, <2>1, <2>2, <2>3 DEF FinishedHas
    <2>5. Marked(i[1])'[x] = Steps
      BY <2>4 DEF Has, Marked, Saved
    <2>6. MarkedItems' = {y \in Items : y[3] \in Marked(y[1])'[y[2]]}
      BY DEF MarkedItems, Items, Steps
    <2> QED BY <1>6, <1>11, <2>5, <2>6
  <1>12. /\ Reported = {x \in Simulations : told[x] = 2}
         /\ Reported' = {x \in Simulations : told'[x] = 2}
    BY <1>9 DEF Reported
  <1>13. Stopped' = Stopped
    <2>1. Stopped \in BOOLEAN /\ Stopped' \in BOOLEAN
      BY DEF Stopped
    <2> QED BY <1>9, <2>1
  <1> HIDE DEF new, r
  <1> QED BY <1>7, <1>8, <1>9, <1>10, <1>11, <1>12, <1>13

\* What a checkpoint, whole or cut, does to the files.
LEMMA SavesStep ==
    ASSUME RefinesInv, NEW done \in SUBSET Streams,
           \A st \in done : stats_data[st].steps_init,
           stats_file' = [st \in Streams |-> IF st \in done THEN save_stats(st)
                                             ELSE stats_file[st]]
    PROVE  /\ \A st \in Streams : Saved(st)' = IF st \in done THEN Marked(st) ELSE Saved(st)
           /\ SavedItems \subseteq SavedItems' /\ SavedItems' \subseteq MarkedItems
  <1>1. ASSUME NEW st \in Streams
        PROVE  Saved(st)' = IF st \in done THEN Marked(st) ELSE Saved(st)
    <2>1. Allocated(st)
      BY DEF RefinesInv, Inv, StudyInv, StreamInv
    <2>2. CASE st \in done
      <3>1. stats_data[st].steps_init /\ stats_data[st].vect_size = 1
        BY <2>1, <2>2 DEF Allocated
      <3>2. save_stats(st).exists /\ save_stats(st).step_simu = stats_data[st].step_simu
        BY <3>1 DEF save_stats
      <3>3. stats_file'[st] = save_stats(st)
        BY <2>2
      <3> QED BY <2>2, <3>1, <3>2, <3>3 DEF Saved, Marked
    <2>3. CASE st \notin done
      BY <2>3 DEF Saved
    <2> QED BY <2>2, <2>3
  <1>2. \A x \in Items : x[1] \in Streams /\ x[2] \in Simulations
    BY DEF Items
  <1>3. SavedItems' = {x \in Items : x[3] \in Saved(x[1])'[x[2]]}
    BY DEF SavedItems, Items, Steps
  <1>4. ASSUME NEW x \in Items
        PROVE  /\ x \in SavedItems => x[3] \in Saved(x[1])'[x[2]]
               /\ x[3] \in Saved(x[1])'[x[2]] => x \in MarkedItems
    BY <1>1, <1>2, SavedIsMarked DEF SavedItems, MarkedItems
  <1> QED BY <1>1, <1>3, <1>4 DEF SavedItems

LEMMA CheckpointStep ==
    ASSUME RefinesInv, NEW r \in Ranks, SaveRank(r),
           \A st \in StreamsOf(r) : stats_data[st].steps_init,
           UNCHANGED <<stats_data, told>>, Up' <=> Up, Stopped' <=> Stopped
    PROVE  /\ SavedItems \subseteq SavedItems' /\ SavedItems' \subseteq MarkedItems
           /\ MarkedItems' = MarkedItems /\ Reported' = Reported /\ Stopped' = Stopped
  <1>1. stats_file' = [st \in Streams |-> IF st \in StreamsOf(r) THEN save_stats(st)
                                          ELSE stats_file[st]]
    BY DEF SaveRank, StreamsOf
  <1>2. /\ \A st \in Streams : Saved(st)' = IF st \in StreamsOf(r) THEN Marked(st) ELSE Saved(st)
        /\ SavedItems \subseteq SavedItems' /\ SavedItems' \subseteq MarkedItems
    <2>1. StreamsOf(r) \in SUBSET Streams
      BY DEF StreamsOf
    <2> QED BY <1>1, <2>1, SavesStep
  <1>3. \A st \in Streams : Marked(st)' = Marked(st)
    BY <1>2 DEF Marked
  <1>4. MarkedItems' = MarkedItems
    <2>1. \A x \in Items : x[1] \in Streams
      BY DEF Items
    <2> QED BY <1>3, <2>1 DEF MarkedItems, Items, Steps
  <1>5. Reported' = Reported /\ Stopped' = Stopped
    BY DEF Reported, Stopped
  <1> QED BY <1>2, <1>4, <1>5

\* The server dies, in a checkpoint or not.
LEMMA CrashedStep ==
    ASSUME RefinesInv, RefinesInv', Undisturbed, Crash \/ CrashInSave
    PROVE  /\ ~Stopped /\ Stopped' = Stopped /\ Reported' = {}
           /\ SavedItems \subseteq SavedItems' /\ SavedItems' \subseteq MarkedItems
           /\ MarkedItems' = SavedItems'
  <1>1. /\ ~Stopped /\ \A r \in Ranks : pc'[r] = "down"
        /\ stats_data' = add_fields
    BY DEF Crash, CrashInSave, Die, StartFrom
  <1>2. ~Stopped' /\ ~Up'
    BY <1>1, RootAssumption DEF Stopped, Up
  <1>3. Reported' = {} /\ Stopped' = Stopped
    <2>1. Stopped \in BOOLEAN /\ Stopped' \in BOOLEAN
      BY DEF Stopped
    <2> QED BY <1>1, <1>2, <2>1 DEF Reported
  <1>4. PICK done \in SUBSET Streams :
            /\ \A st \in done : stats_data[st].steps_init
            /\ stats_file' = [st \in Streams |-> IF st \in done THEN save_stats(st)
                                                 ELSE stats_file[st]]
    <2>1. CASE Crash
      <3>1. stats_file' = stats_file
        BY <2>1 DEF Crash, diskVars
      <3>2. stats_file = [st \in Streams |-> stats_file[st]]
        BY DEF RefinesInv, Inv, StatisticsInv, TypeOK
      <3>3. {} \in SUBSET Streams
        OBVIOUS
      <3> QED BY <3>1, <3>2, <3>3
    <2>2. CASE CrashInSave
      <3>1. PICK saving \in SUBSET {r \in Ranks : Saving(r)}, done \in SUBSET Streams,
                 torn \in SUBSET Streams, kept \in BOOLEAN, cut \in SUBSET Ranks :
                 CutSave(saving, done, torn, kept, cut)
        BY <2>2 DEF CrashInSave
      <3>2. torn = {}
        BY <3>1 DEF CutSave, Undisturbed
      <3>3. stats_file' = [st \in Streams |-> IF st \in done THEN save_stats(st)
                                              ELSE stats_file[st]]
        BY <3>1, <3>2 DEF CutSave
      <3>4. \A st \in done : stats_data[st].steps_init
        BY <3>1, SavingAllocated DEF CutSave, RefinesInv
      <3> QED BY <3>3, <3>4
    <2> QED BY <2>1, <2>2
  <1>5. SavedItems \subseteq SavedItems' /\ SavedItems' \subseteq MarkedItems
    BY <1>4, SavesStep
  <1>6. MarkedItems' = SavedItems'
    <2>1. \A st \in Streams : Marked(st)' = Saved(st)'
      BY <1>1 DEF Marked, add_fields
    <2>2. \A x \in Items : x[1] \in Streams
      BY DEF Items
    <2> QED BY <2>1, <2>2 DEF MarkedItems, SavedItems, Items, Steps
  <1> QED BY <1>1, <1>3, <1>5, <1>6

\* The server starts again; what all the files call finished is reported.
LEMMA RestartedStep ==
    ASSUME RefinesInv, RefinesInv', Undisturbed, Restart
    PROVE  /\ ~Stopped /\ Stopped' = Stopped /\ Reported = {}
           /\ SavedItems' = SavedItems /\ MarkedItems' = MarkedItems
           /\ \A x \in Simulations : x \in Reported' =>
                 \A i \in Items : i[2] = x /\ RankOf[i[1]] = Root => i \in MarkedItems'
  <1>1. /\ pc[Root] = "down" /\ Root \in Ranks /\ stats_data = add_fields
        /\ stats_file' = stats_file
        /\ pc'[Root] \in {"top", "broken"}
    BY RootAssumption DEF Restart, RefinesInv, DownTogether, diskVars
  <1>2. ~Stopped /\ ~Stopped' /\ ~Up
    BY <1>1 DEF Stopped, Up
  <1>3. stats_data' = add_fields
    BY <1>1 DEF Restart, StartFrom
  <1>4. MarkedItems' = MarkedItems /\ SavedItems' = SavedItems
    <2>1. \A st \in Streams : Marked(st)' = Marked(st) /\ Saved(st)' = Saved(st)
      BY <1>1, <1>3 DEF Marked, Saved
    <2>2. \A x \in Items : x[1] \in Streams
      BY DEF Items
    <2> QED BY <2>1, <2>2 DEF MarkedItems, SavedItems, Items, Steps
  <1>5. Reported = {} /\ Stopped' = Stopped
    <2>1. Stopped \in BOOLEAN /\ Stopped' \in BOOLEAN
      BY DEF Stopped
    <2> QED BY <1>2, <2>1 DEF Reported
  <1>6. ASSUME NEW x \in Simulations, x \in Reported', NEW i \in Items, i[2] = x,
               RankOf[i[1]] = Root
        PROVE  i \in MarkedItems'
    <2>1. Up' /\ told'[x] = 2
      BY <1>2, <1>6 DEF Reported
    <2>2. Alive(Root)' /\ Together'
      BY <2>1 DEF Up, Alive, RefinesInv, Inv, StudyInv
    <2>3. status'[Root][x] = 2
      BY <2>1, <2>2 DEF Together
    <2>4. i[1] \in Streams /\ i[3] \in Steps
      BY DEF Items
    <2>5. FinishedHas(i[1])'
      BY <2>4 DEF RefinesInv, Inv, StudyInv, StreamInv
    <2>6. Has(i[1], x)'
      BY <1>6, <2>2, <2>3, <2>5 DEF FinishedHas
    <2>7. Marked(i[1])'[x] = Steps
      BY <2>6 DEF Has, Marked, Saved
    <2>8. MarkedItems' = {y \in Items : y[3] \in Marked(y[1])'[y[2]]}
      BY DEF MarkedItems, Items, Steps
    <2> QED BY <1>6, <2>4, <2>7, <2>8
  <1> QED BY <1>2, <1>4, <1>5, <1>6

\* The end of the study: everything is collected.
LEMMA StopStep ==
    ASSUME RefinesInv, Undisturbed, Finalize
    PROVE  /\ ~Stopped /\ Stopped' = TRUE /\ MarkedItems = Items
           /\ SavedItems' = SavedItems /\ MarkedItems' = MarkedItems /\ Reported' = Reported
  <1>1. /\ \A r \in Ranks : pc[r] = "ended" /\ pc'[r] = "finalized"
        /\ Root \in Ranks /\ UNCHANGED <<stats_data, diskVars, told>>
    BY RootAssumption DEF Finalize
  <1>2. ~Stopped /\ Stopped' = TRUE /\ Up
    BY <1>1 DEF Stopped, Up
  <1>3. Reported' = Reported
    BY <1>1, <1>2 DEF Reported
  <1>4. \A st \in Streams : Marked(st)' = Marked(st) /\ Saved(st)' = Saved(st)
    BY <1>1 DEF Marked, Saved, diskVars
  <1>5. \A x \in Items : x[1] \in Streams /\ x[2] \in Simulations /\ x[3] \in Steps
    BY DEF Items
  <1>6. MarkedItems' = MarkedItems /\ SavedItems' = SavedItems
    BY <1>4, <1>5 DEF MarkedItems, SavedItems, Items, Steps
  <1>7. ASSUME NEW st \in Streams, NEW s \in Simulations PROVE Marked(st)[s] = Steps
    <2>1. /\ RankOf[st] \in Ranks /\ pc[RankOf[st]] = "ended"
          /\ RankInv(RankOf[st]) /\ StreamInv(st)
      BY <1>1, StreamsAssumption DEF RefinesInv, Inv, StudyInv
    <2>2. Alive(RankOf[st]) /\ AllFinished(RankOf[st])
      BY <2>1 DEF RankInv, Ended, Alive
    <2>3. status[RankOf[st]][s] = 2
      BY <2>1, <2>2, DoneMeansAll DEF RefinesInv
    <2>4. Has(st, s)
      BY <2>1, <2>2, <2>3 DEF StreamInv, FinishedHas
    <2> QED BY <2>4 DEF Has, Marked, Saved
  <1>8. MarkedItems = Items
    BY <1>5, <1>7 DEF MarkedItems
  <1> QED BY <1>2, <1>3, <1>6, <1>8

\* The steps that only move the ranks, or talk to the launcher.
LEMMA QuietSteps ==
    ASSUME RefinesInv, Undisturbed,
           \/ RecvConnexion \/ CheckTimeouts \/ LauncherDies \/ UNCHANGED vars
           \/ \E s \in Simulations : Submit(s) \/ GiveUp(s)
           \/ \E r \in Ranks : /\ RankNext(r)
                               /\ ~Checkpoint(r) /\ ~(EndTest(r) /\ AllFinished(r))
    PROVE  UNCHANGED promised
  <1>0. /\ Root \in Ranks /\ pc \in [Ranks -> {"top", "poll", "data", "test", "ended",
                                               "finalized", "down", "broken"}]
        /\ Together /\ DownTogether /\ OnlyJobs
        /\ status \in [Ranks -> [Simulations -> Status]] /\ told \in [Simulations -> Status]
    BY RootAssumption DEF RefinesInv, Inv, StudyInv, StatisticsInv, TypeOK
  <1>1. CASE RecvConnexion
    <2>1. (Up' <=> Up) /\ (Stopped' <=> Stopped)
      BY <1>0, <1>1 DEF RecvConnexion, Up, Stopped
    <2> QED BY <1>1, <2>1, QuietStep DEF RecvConnexion
  <1>2. CASE CheckTimeouts
    <2>1. PICK late \in SUBSET Watched :
              told' = [s \in Simulations |-> IF s \in late THEN 0 ELSE told[s]]
      BY <1>2 DEF CheckTimeouts
    <2>2. UNCHANGED <<pc, restart, stats_data, diskVars>> /\ Alive(Root)
      BY <1>2 DEF CheckTimeouts, loopVars, Alive
    <2>3. \A s \in Simulations : told'[s] = 2 <=> told[s] = 2
      <3>1. \A s \in late : status[Root][s] = 1
        BY DEF Watched
      <3> QED BY <1>0, <2>1, <2>2, <3>1 DEF Together
    <2>4. Reported' = Reported /\ Stopped' = Stopped
      BY <2>2, <2>3 DEF Reported, Up, Stopped
    <2>5. \A st \in Streams : Marked(st)' = Marked(st) /\ Saved(st)' = Saved(st)
      BY <2>2 DEF Marked, Saved, diskVars
    <2>6. \A x \in Items : x[1] \in Streams
      BY DEF Items
    <2>7. MarkedItems' = MarkedItems /\ SavedItems' = SavedItems
      BY <2>5, <2>6 DEF MarkedItems, SavedItems, Items, Steps
    <2> QED BY <2>4, <2>7 DEF promised
  <1>3. CASE \/ LauncherDies \/ UNCHANGED vars
             \/ \E s \in Simulations : Submit(s) \/ GiveUp(s)
    <2>1. UNCHANGED <<pc, stats_data, diskVars, told>>
      BY <1>3 DEF LauncherDies, Submit, GiveUp, loopVars, vars
    <2>2. (Up' <=> Up) /\ (Stopped' <=> Stopped)
      BY <2>1 DEF Up, Stopped
    <2> QED BY <2>1, <2>2, QuietStep
  <1>4. ASSUME NEW r \in Ranks, RankNext(r), ~Checkpoint(r), ~(EndTest(r) /\ AllFinished(r))
        PROVE  UNCHANGED promised
    <2>1. ~LauncherTimeout(r) /\ ~SignalSave(r) /\ ~Signal(r)
      BY <1>0 DEF LauncherTimeout, SignalSave, Signal, OnlyJobs, Undisturbed
    <2>2. /\ UNCHANGED <<stats_data, diskVars, told>>
          /\ pc[r] \in {"top", "poll", "data", "test"}
          /\ pc'[r] \in {"top", "poll", "data", "test"}
          /\ \A q \in Ranks : q # r => pc'[q] = pc[q]
      BY <1>0, <1>4, <2>1 DEF RankNext, RecvIgnored, RecvText, EndTest
    <2>3. (Up' <=> Up) /\ (Stopped' <=> Stopped)
      BY <1>0, <2>2 DEF Up, Stopped
    <2> QED BY <2>2, <2>3, QuietStep
  <1> QED BY <1>1, <1>2, <1>3, <1>4

\* The steps that save: a checkpoint, and the last one of a rank.
LEMMA SavingSteps ==
    ASSUME RefinesInv, Undisturbed, NEW r \in Ranks,
           Checkpoint(r) \/ (EndTest(r) /\ AllFinished(r))
    PROVE  /\ SavedItems \subseteq SavedItems' /\ SavedItems' \subseteq MarkedItems
           /\ MarkedItems' = MarkedItems /\ Reported' = Reported /\ Stopped' = Stopped
  <1>0. /\ Root \in Ranks /\ pc \in [Ranks -> {"top", "poll", "data", "test", "ended",
                                               "finalized", "down", "broken"}]
        /\ Together /\ RankInv(r)
        /\ \A st \in StreamsOf(r) : checkpoint_on[r] \/ pc[r] = "test" => stats_data[st].steps_init
    BY RootAssumption DEF RefinesInv, Inv, StudyInv, StatisticsInv, TypeOK, StreamsOf, StreamInv,
                          Allocated
  <1>1. /\ SaveRank(r) /\ UNCHANGED <<stats_data, told>>
        /\ \A st \in StreamsOf(r) : stats_data[st].steps_init
        /\ pc[r] \in {"top", "poll", "data", "test"}
        /\ \E next \in {"poll", "ended"} : pc' = [pc EXCEPT ![r] = next]
    <2>1. CASE Checkpoint(r)
      BY <1>0, <2>1 DEF Checkpoint
    <2>2. CASE EndTest(r) /\ AllFinished(r)
      <3>1. pc[r] = "test" /\ connected
        BY <1>0, <2>2 DEF EndTest, RankInv
      <3> QED BY <1>0, <2>2, <3>1 DEF EndTest, SaveAndGo
    <2> QED BY <2>1, <2>2
  <1>2. pc'[r] \in {"poll", "ended"} /\ \A q \in Ranks : q # r => pc'[q] = pc[q]
    BY <1>0, <1>1
  <1>3. (Up' <=> Up) /\ (Stopped' <=> Stopped)
    BY <1>0, <1>1, <1>2 DEF Up, Stopped
  <1> QED BY <1>1, <1>3, CheckpointStep

LEMMA InitMaps ==
    ASSUME Undisturbed, Init
    PROVE  Promise!Init
  <1>1. RefinesInv
    BY InitInv, RootAssumption DEF Init, RefinesInv, DownTogether, NoFileNoData
  <1>2. ItemsIn(DataSaved) = SavedItems /\ ItemsIn(Data) = MarkedItems
    BY <1>1, Mapped
  <1>3. \A st \in Streams : Saved(st) = NoStep /\ Marked(st) = NoStep
    BY DEF Init, Saved, Marked, add_fields
  <1>4. SavedItems = {} /\ MarkedItems = {}
    <2>1. \A x \in Items : x[1] \in Streams /\ NoStep[x[2]] = {}
      BY DEF Items, NoStep
    <2> QED BY <1>3, <2>1 DEF SavedItems, MarkedItems
  <1>5. Reported = {} /\ Stopped = FALSE
    BY RootAssumption DEF Init, Reported, Stopped
  <1> QED BY <1>2, <1>4, <1>5 DEF Promise!Init

LEMMA StepMaps ==
    ASSUME Undisturbed, RefinesInv, RefinesInv', [Next]_vars
    PROVE  [Promise!Next]_(Promise!vars)
  <1>1. ItemsIn(DataSaved) = SavedItems /\ ItemsIn(Data) = MarkedItems
    BY Mapped
  <1>2. ItemsIn(DataSaved)' = SavedItems' /\ ItemsIn(Data)' = MarkedItems'
    <2>1. (RefinesInv => ItemsIn(DataSaved) = SavedItems /\ ItemsIn(Data) = MarkedItems)'
      BY Mapped, PTL
    <2> QED BY <2>1
  <1>3. /\ MarkedItems' \subseteq Items /\ SavedItems' \subseteq Items
        /\ Reported' \subseteq Simulations
    BY DEF MarkedItems, SavedItems, Reported, Items, Steps
  <1>4. CASE \E st \in Streams, s \in Simulations, t \in Steps : RecvData(st, s, t)
    <2>1. PICK st \in Streams, s \in Simulations, t \in Steps : RecvData(st, s, t)
      BY <1>4
    <2>2. /\ MarkedItems' = MarkedItems \cup {<<st, s, t>>}
          /\ SavedItems' = SavedItems
          /\ ~Stopped /\ Stopped' = Stopped
          /\ Reported \subseteq Reported'
          /\ \A x \in Simulations : x \in Reported' \ Reported =>
                \A i \in Items : i[2] = x /\ RankOf[i[1]] = Root => i \in MarkedItems'
      BY <2>1, ReceiveStep
    <2>3. Promise!Receive
      BY <1>1, <1>2, <1>3, <2>2 DEF Promise!Receive
    <2> QED BY <2>3 DEF Promise!Next
  <1>5. ASSUME NEW r \in Ranks, Checkpoint(r) \/ (EndTest(r) /\ AllFinished(r))
        PROVE  Promise!Next
    <2>1. Promise!Save
      BY <1>1, <1>2, <1>5, SavingSteps DEF Promise!Save, Promise!Saves
    <2> QED BY <2>1 DEF Promise!Next
  <1>6. CASE Finalize
    <2>1. Promise!Stop
      BY <1>1, <1>2, <1>6, StopStep DEF Promise!Stop
    <2> QED BY <2>1 DEF Promise!Next
  <1>7. CASE Crash \/ CrashInSave
    <2>1. Promise!Crash
      BY <1>1, <1>2, <1>7, CrashedStep DEF Promise!Crash, Promise!Saves
    <2> QED BY <2>1 DEF Promise!Next
  <1>8. CASE Restart
    <2>1. Promise!Receive
      BY <1>1, <1>2, <1>3, <1>8, RestartedStep DEF Promise!Receive
    <2> QED BY <2>1 DEF Promise!Next
  <1>9. ASSUME UNCHANGED promised PROVE UNCHANGED Promise!vars
    BY <1>1, <1>2, <1>9 DEF promised, Promise!vars
  <1> QED BY <1>4, <1>5, <1>6, <1>7, <1>8, <1>9, QuietSteps DEF Next, RankNext

\* The server keeps its promise, whatever the numbers of simulations, of time
\* steps and, with at most one crash, of ranks (server.cxx 388-399, 591-617,
\* 649-775 and 881-885, melissa_io.c 142-406).
THEOREM PromiseIsKept ==
    ASSUME Undisturbed
    PROVE  Spec => KeepsPromise
  <1>1. Init => Promise!Init
    BY InitMaps
  <1>2. RefinesInv /\ RefinesInv' /\ [Next]_vars => [Promise!Next]_(Promise!vars)
    BY StepMaps
  <1> QED BY <1>1, <1>2, RefinesInvHolds, PTL DEF Spec, KeepsPromise, Promise!Spec

-----------------------------------------------------------------------------
(* What a step may never do to the files and to the finished simulations.    *)

\* Every step leaves what is saved, or adds to it.
LEMMA SavedGrows ==
    ASSUME Undisturbed, RefinesInv, RefinesInv', [Next]_vars
    PROVE  SavedItems \subseteq SavedItems'
  <1>1. CASE \E st \in Streams, s \in Simulations, t \in Steps : RecvData(st, s, t)
    BY <1>1, ReceiveStep
  <1>2. ASSUME NEW r \in Ranks, Checkpoint(r) \/ (EndTest(r) /\ AllFinished(r))
        PROVE  SavedItems \subseteq SavedItems'
    BY <1>2, SavingSteps
  <1>3. CASE Finalize
    BY <1>3, StopStep
  <1>4. CASE Crash \/ CrashInSave
    BY <1>4, CrashedStep
  <1>5. CASE Restart
    BY <1>5, RestartedStep
  <1>6. ASSUME UNCHANGED promised PROVE SavedItems \subseteq SavedItems'
    BY <1>6 DEF promised
  <1> QED BY <1>1, <1>2, <1>3, <1>4, <1>5, <1>6, QuietSteps DEF Next, RankNext

\* A contribution that is in a checkpoint is in every later one, also in one that
\* a crash cuts short and in those of the servers started after it
\* (server.cxx 388-399, melissa_io.c 142-315).
THEOREM CheckpointsOnlyGrow ==
    ASSUME Undisturbed
    PROVE  Spec => CheckpointsKeepStatistics
  <1>1. RefinesInv => ItemsIn(DataSaved) = SavedItems
    BY Mapped
  <1>2. (RefinesInv => ItemsIn(DataSaved) = SavedItems)'
    BY <1>1, PTL
  <1>3. RefinesInv /\ RefinesInv' /\ [Next]_vars =>
          [\A st \in Streams, s \in Simulations, t \in Steps :
              stats_file[st].contributions[s][t] > 0
                  => stats_file'[st].contributions[s][t] > 0]_stats_file
    <2> SUFFICES ASSUME RefinesInv, RefinesInv', [Next]_vars,
                        NEW st \in Streams, NEW s \in Simulations, NEW t \in Steps,
                        stats_file[st].contributions[s][t] > 0
                 PROVE  stats_file'[st].contributions[s][t] > 0
      OBVIOUS
    <2>1. <<st, s, t>> \in Items
      BY DEF Items, Undisturbed
    <2>2. <<st, s, t>> \in ItemsIn(DataSaved)
      BY <2>1 DEF ItemsIn, DataSaved
    <2>3. <<st, s, t>> \in ItemsIn(DataSaved)'
      BY <1>1, <1>2, <2>2, SavedGrows
    <2> QED BY <2>3 DEF ItemsIn, DataSaved
  <1> QED BY <1>3, RefinesInvHolds, PTL DEF Spec, CheckpointsKeepStatistics

\* A message of a finished simulation, one that was delayed or is sent again,
\* leaves it finished.
LEMMA ReceiveKeepsFinished ==
    ASSUME Inv, Undisturbed, NEW st \in Streams, NEW s \in Simulations, NEW t \in Steps,
           RecvData(st, s, t), NEW r \in Ranks, NEW x \in Simulations, status[r][x] = 2
    PROVE  status'[r][x] = 2
  <1> DEFINE q   == RankOf[st]
             e   == InitStream(st)
             new == IF e.step_simu[s] \cup {t} = Steps THEN 2 ELSE 1
  <1>1. /\ q \in Ranks /\ pc[q] \in {"top", "poll", "data"} /\ connected
        /\ stats_data'[st].stats_init /\ stats_data'[st].steps_init
        /\ stats_data'[st].vect_size = 1
        /\ stats_data'[st].step_simu = [e.step_simu EXCEPT ![s] = @ \cup {t}]
        /\ \A su \in Streams : su # st => stats_data'[su] = stats_data[su] /\ RankOf[su] # q
        /\ status' = [status EXCEPT ![q] = [status[q] EXCEPT ![s] = new]]
        /\ nb_finished_simulations' = IF new = 2 /\ status[q][s] # 2
              THEN [nb_finished_simulations EXCEPT ![q] = @ + 1] ELSE nb_finished_simulations
        /\ told' = IF q = Root /\ new # status[q][s] THEN [told EXCEPT ![s] = new] ELSE told
        /\ pc' = [pc EXCEPT ![q] = "test"]
        /\ \A p \in Ranks : p # q => checkpoint_on'[p] = checkpoint_on[p]
        /\ UNCHANGED <<sampling_size, connected, restart, diskVars, crashes>>
    BY RecvDataEffect
  <1>2. status \in [Ranks -> [Simulations -> Status]]
    BY DEF Inv, StatisticsInv, TypeOK
  <1>3. CASE r = q /\ x = s
    <2>1. Has(st, s)
      BY <1>1, <1>3 DEF Inv, StudyInv, StreamInv, FinishedHas, Alive
    <2>2. InitStream(st).step_simu[s] = Steps
      BY <2>1, InitStreamHas
    <2>3. new = 2
      BY <2>2
    <2> HIDE DEF new
    <2> QED BY <1>1, <1>2, <1>3, <2>3
  <1>4. CASE ~(r = q /\ x = s)
    <2> HIDE DEF new
    <2> QED BY <1>1, <1>2, <1>4
  <1> QED BY <1>3, <1>4

LEMMA StatusStep ==
    ASSUME RefinesInv, Undisturbed, [Next]_vars,
           NEW r \in Ranks, NEW x \in Simulations, pc'[r] # "down", status[r][x] = 2
    PROVE  status'[r][x] = 2
  <1>0. /\ status \in [Ranks -> [Simulations -> Status]] /\ Inv /\ OnlyJobs
        /\ text_puller \in [Ranks -> Seq(TextMessage)]
    BY DEF RefinesInv, Inv, StatisticsInv, StudyInv, TypeOK
  <1>1. CASE \E st \in Streams, s \in Simulations, t \in Steps : RecvData(st, s, t)
    BY <1>0, <1>1, ReceiveKeepsFinished
  <1>2. CASE \E q \in Ranks : RecvText(q)
    <2>1. PICK q \in Ranks : RecvText(q)
      BY <1>2
    <2>2. Head(text_puller[q])[1] = "JOB"
      <3>1. 1 \in DOMAIN text_puller[q] /\ Head(text_puller[q]) = text_puller[q][1]
        BY <1>0, <2>1 DEF RecvText
      <3> QED BY <1>0, <3>1 DEF OnlyJobs
    <2>3. status' = status
      BY <2>1, <2>2 DEF RecvText, process_launcher_message
    <2> QED BY <2>3
  <1>3. CASE CheckTimeouts
    <2>1. PICK late \in SUBSET Watched :
              status' = [status EXCEPT ![Root] =
                            [s \in Simulations |-> IF s \in late THEN 0 ELSE status[Root][s]]]
      BY <1>3 DEF CheckTimeouts
    <2>2. \A s \in late : status[Root][s] = 1
      BY DEF Watched
    <2>3. CASE r = Root
      <3>1. status'[r][x] = IF x \in late THEN 0 ELSE status[Root][x]
        BY <1>0, <2>1, <2>3
      <3> QED BY <2>2, <2>3, <3>1
    <2>4. CASE r # Root
      BY <1>0, <2>1, <2>4
    <2> QED BY <2>3, <2>4
  <1>4. CASE Crash \/ CrashInSave
    BY <1>4 DEF Crash, CrashInSave, Die
  <1>5. CASE Restart
    BY <1>5 DEF Restart, RefinesInv, DownTogether
  <1>6. ASSUME status' = status PROVE status'[r][x] = 2
    BY <1>6
  <1>7. ASSUME NEW q \in Ranks, RankNext(q), ~RecvText(q) PROVE status'[r][x] = 2
    BY <1>6, <1>7 DEF RankNext, RecvIgnored, LauncherTimeout, Checkpoint, SignalSave, EndTest,
                      Signal, simuVars
  <1>8. CASE \/ RecvConnexion \/ Finalize \/ LauncherDies \/ UNCHANGED vars
             \/ \E s \in Simulations : Submit(s) \/ GiveUp(s)
    BY <1>6, <1>8 DEF RecvConnexion, Finalize, LauncherDies, Submit, GiveUp, simuVars, vars
  <1> QED BY <1>1, <1>2, <1>3, <1>4, <1>5, <1>7, <1>8 DEF Next

\* Without a crash a rank never goes back on a finished simulation, whatever
\* messages of it arrive after the last one (server.cxx 735-775).
THEOREM FinishedStaysFinished ==
    ASSUME Undisturbed
    PROVE  Spec => FinishedIsFinal
  <1>1. RefinesInv /\ [Next]_vars =>
          [\A r \in Ranks, s \in Simulations :
              pc'[r] # "down" /\ status[r][s] \in {2, 3} => status'[r][s] \in {2, 3}]_status
    <2> SUFFICES ASSUME RefinesInv, [Next]_vars, NEW r \in Ranks, NEW s \in Simulations,
                        pc'[r] # "down", status[r][s] \in {2, 3}
                 PROVE  status'[r][s] \in {2, 3}
      OBVIOUS
    <2>1. status[r][s] = 2
      BY DEF RefinesInv, Inv, StudyInv, RankInv
    <2> QED BY <2>1, StatusStep
  <1> QED BY <1>1, RefinesInvHolds, PTL DEF Spec, FinishedIsFinal
===============================================================================
