------------------------------ MODULE Launcher ------------------------------
(***************************************************************************)
(* The launcher: the main thread (Study.run and Study.fault_tolerance in    *)
(* src/launcher/study.py), the messenger and the state checker threads, and *)
(* the groups and the server as jobs (src/launcher/simulation.py).          *)
(*                                                                         *)
(* Every step is what a thread does under one lock, or between two locks.  *)
(*                                                                         *)
(* Simplifications.                                                        *)
(*  - The server is reduced to what the launcher sees of it: the status of  *)
(*    each simulation and the messages it sends (module MelissaServer has   *)
(*    the rest).                                                           *)
(*  - Time is abstracted: a simulation may be found late at any time, and   *)
(*    after a time.sleep that waits for messages those sent before have     *)
(*    been read (unless Faults has "slow_messages").                       *)
(*  - The threads do not die, and disable_fault_tolerance is off.           *)
(*  - The responder thread only reads; it has no state.                     *)
(***************************************************************************)
EXTENDS Integers, FiniteSets, Sequences

CONSTANTS
    NbGroups,            \* sampling_size / batch_size
    BatchSize,           \* simulations of a group, 1 for a Sobol' group
    Sobol,               \* groups are SobolGroups, not MultiSimuGroups
    CancelRaises,        \* what asyncio may do with what cancel() returns: it
                         \* always raises for a function, as in the documentation
    CrashesBeforeRedraw, \* crashs_before_redraw
    Faults,              \* what the environment may do: see FaultKinds
    MaxJobCrashes,       \* bounds on the faults
    MaxTimeouts,
    MaxServerCrashes

FaultKinds == {
    "job_crash",         \* the job of a group dies
    "timeout",           \* the server finds a simulation late
    "late_start",        \* the launcher finds a group late
    "server_crash",      \* the server dies while it waits for simulations
    "late_crash",        \* ... also when it has them all
    "crash_after_drop",  \* ... also when a simulation was given up
    "old_checkpoint",    \* a restarted server forgets finished simulations
    "late_data",         \* data of a simulation that was given up arrives
    "early_report",      \* a job reports before the call that submits it returns
    "slow_messages",     \* a message is read later than after a sleep of main
    "slow_data" }        \* the server is late by more than a sleep of main

ASSUME LauncherAssumption ==
    /\ NbGroups \in Nat \ {0} /\ BatchSize \in Nat \ {0}
    /\ Sobol \in BOOLEAN
    /\ CancelRaises \subseteq BOOLEAN /\ CancelRaises # {}
    /\ Sobol => BatchSize = 1
    /\ CrashesBeforeRedraw \in Nat
    /\ Faults \subseteq FaultKinds
    /\ MaxJobCrashes \in Nat /\ MaxTimeouts \in Nat /\ MaxServerCrashes \in Nat

Groups == 0 .. NbGroups - 1
Members == 0 .. BatchSize - 1
Simus == Groups \X Members
SimuOf(id) == <<id \div BatchSize, id % BatchSize>>
IdOf(s) == s[1] * BatchSize + s[2]     \* simu_id of a simulation
Ids == 0 .. NbGroups * BatchSize - 1

NOT_SUBMITTED == -1
PENDING == 0      \* of a job
WAITING == 0      \* of a group or the server
RUNNING == 1
FINISHED == 2
TIMEOUT == 4

VARIABLES
    \* main thread
    pc,
    next,             \* group of the submission loop
    at,               \* group of the loops of fault_tolerance
    back,             \* where fault_tolerance returns to
    \* server_obj[0]
    server_status,
    server_job_status,
    want_stop,
    \* groups[g]
    group_status,
    job_status,
    nb_restarts,
    simu_status,
    \* messenger
    inbox,            \* messages of the server that wait for the messenger, as
                      \* it will read them
    close_at,         \* next group of the handling of stop; NbGroups: none
    \* the jobs
    job,              \* the last job of each group
    stray,            \* an earlier job of the group still runs
    \* the server
    server,
    simu_state,       \* simulations[s].status of its rank 0
    counted,          \* simulations in nb_finished_simulations
    drops,            \* DROP messages on their way
    faults            \* how many faults of each kind have happened

mainVars == <<pc, next, at, back>>
serverObj == <<server_status, server_job_status, want_stop>>
groupVars == <<group_status, job_status, nb_restarts, simu_status>>
messengerVars == <<inbox, close_at>>
jobVars == <<job, stray>>
serverVars == <<server, simu_state, counted, drops>>
vars == <<mainVars, serverObj, groupVars, messengerVars, jobVars, serverVars, faults>>

\* melissa_messages.c, melissa_comm4py.c
Msg == INSTANCE Messages

GroupStatus == {NOT_SUBMITTED, WAITING, RUNNING, FINISHED, 3, TIMEOUT}
JobStatus == {NOT_SUBMITTED, PENDING, RUNNING, FINISHED}

\* What the messenger makes of a message: its words, and of the id of a simulation
\* the group and the member. An id it finds behind the end of the message has a
\* first byte of zero; one of no simulation ends the thread, which is left out.
Beyond == {id \in Ids : id % 256 = 0}
Read(msg, beyond) ==
    LET words == Msg!wait_message(msg, beyond) IN
    IF words[1] \in {"timeout", "group_state"}
    THEN [words EXCEPT ![2] = SimuOf(@)]
    ELSE words

Report(s, st) == Read(Msg!message_simu_status(IdOf(s), st), 0)
Hello == Read(Msg!message_server_name("node", 0), 0)

Message ==
    {<<"server", 0, "node">>, <<"stop">>}
        \cup ({"timeout"} \X Simus) \cup ({"group_state"} \X Simus \X (0 .. 3))

TypeOK ==
    /\ pc \in {"wait_start", "load", "launched", "loop", "ft", "ft_sleep",
               "ft_look", "ft_lost", "cancel", "reboot", "restarting", "mark",
               "wait_restart", "regroup", "regroup_lock", "group", "slept",
               "timeouts", "stopped", "failed", "crashed"}
    /\ next \in 0 .. NbGroups /\ at \in 0 .. NbGroups
    /\ back \in {"load", "loop"}
    /\ server_status \in {WAITING, RUNNING, FINISHED}
    /\ server_job_status \in JobStatus
    /\ want_stop \in BOOLEAN
    /\ group_status \in [Groups -> GroupStatus]
    /\ job_status \in [Groups -> JobStatus]
    /\ nb_restarts \in [Groups -> Nat]
    /\ simu_status \in [Simus -> 0 .. 3]
    /\ inbox \in Seq(Message)
    /\ close_at \in 0 .. NbGroups
    /\ job \in [Groups -> {"none", "pending", "running", "hung", "sent", "over"}]
    /\ stray \in [Groups -> BOOLEAN]
    /\ server \in {"pending", "again", "up", "dead", "done"}
    /\ simu_state \in [Simus -> 0 .. 3]
    /\ counted \subseteq Simus
    /\ drops \subseteq Simus
    /\ faults \in [{"job_crash", "timeout", "server_crash"} -> Nat]

Active(g) == group_status[g] > NOT_SUBMITTED /\ group_status[g] < FINISHED

\* main has slept long enough for the messenger to read what was sent, and, when
\* it waits for a group, for the server to handle what its job sent
Slept == (inbox = <<>> /\ close_at = NbGroups) \/ "slow_messages" \in Faults
Handled(g) ==
    \/ server # "up" \/ job[g] # "sent"
    \/ \A i \in Members : simu_state[<<g, i>>] \in {2, 3}
    \/ "slow_data" \in Faults

-----------------------------------------------------------------------------
(* Jobs: launch, cancel, restart.                                            *)

\* cancel() returns the user's function instead of calling it: no job ends. Run
\* by asyncio, as MultiSimuGroup.restart does, a plain function is an error.
\* (mutant: SobolGroup.restart does the same)
RestartRaisesAlways(raises) == raises
RestartRaises(raises) == ~Sobol /\ raises

NewJob(g) ==
    /\ stray' = [stray EXCEPT ![g] = @ \/ job[g] \in {"pending", "running"}]
    /\ job' = [job EXCEPT ![g] = "pending"]

TooMany(g) == nb_restarts[g] + 1 > CrashesBeforeRedraw

\* Group.restart, under the lock of the group. A drop is published once, to the
\* server that listens.
RestartGroup(g) ==
    /\ nb_restarts' = [nb_restarts EXCEPT ![g] = @ + 1]
    /\ \/ /\ TooMany(g)
          /\ drops' = IF server = "up" THEN drops \cup ({g} \X Members) ELSE drops
          /\ group_status' = [group_status EXCEPT ![g] = FINISHED]
          /\ job_status' = [job_status EXCEPT ![g] = FINISHED]
          /\ UNCHANGED jobVars
       \/ /\ ~TooMany(g)
          /\ NewJob(g)
          /\ group_status' = [group_status EXCEPT ![g] = WAITING]
          /\ job_status' = [job_status EXCEPT ![g] = PENDING]
          /\ UNCHANGED drops
    /\ UNCHANGED simu_status

\* stop(): Server.cancel marks the job of the server as over, Group.cancel marks
\* nothing, and the threads end.
Stop(end) ==
    /\ pc' = end
    /\ server_job_status' = FINISHED
    /\ UNCHANGED <<groupVars, server_status, want_stop>>

-----------------------------------------------------------------------------
(* The main thread: run().                                                   *)

\* wait_start, at the start of the study and after a restart of the server
WaitStart ==
    /\ server_status >= RUNNING
    /\ \/ pc = "wait_start" /\ pc' = "ft"
       \/ pc = "wait_restart" /\ Slept /\ pc' = "regroup"
    /\ at' = 0
    /\ UNCHANGED <<next, back, serverObj, groupVars, messengerVars, jobVars,
                   serverVars, faults>>

\* check_scheduler_load says no: fault_tolerance again
SchedulerBusy ==
    /\ pc = "load"
    /\ pc' = "ft"
    /\ UNCHANGED <<next, at, back, serverObj, groupVars, messengerVars, jobVars,
                   serverVars, faults>>

\* Group.launch: first the job is submitted, then, without the lock, the group
\* becomes waiting.
LaunchJob ==
    /\ pc = "load"
    /\ IF want_stop
       THEN pc' = "loop" /\ UNCHANGED jobVars
       ELSE pc' = "launched" /\ NewJob(next)
    /\ UNCHANGED <<next, at, back, serverObj, groupVars, messengerVars,
                   serverVars, faults>>

Launched ==
    /\ pc = "launched"
    /\ group_status' = [group_status EXCEPT ![next] = WAITING]
    /\ job_status' = [job_status EXCEPT ![next] = PENDING]
    /\ next' = next + 1
    /\ pc' = IF next' < NbGroups THEN "ft" ELSE "loop"
    /\ UNCHANGED <<at, back, serverObj, nb_restarts, simu_status, messengerVars,
                   jobVars, serverVars, faults>>

\* (mutant: or instead of and)
StudyOverEarly ==
    \/ want_stop
    \/ server_status = FINISHED
    \/ \A g \in Groups : group_status[g] = FINISHED
StudyOver ==
    \/ want_stop
    \/ server_status = FINISHED /\ \A g \in Groups : group_status[g] = FINISHED

Loop ==
    /\ pc = "loop"
    /\ IF StudyOver
       THEN Stop("stopped") /\ UNCHANGED back
       ELSE /\ pc' = "ft" /\ back' = "loop"
            /\ UNCHANGED <<serverObj, groupVars>>
    /\ UNCHANGED <<next, at, messengerVars, jobVars, serverVars, faults>>

-----------------------------------------------------------------------------
(* The main thread: fault_tolerance().                                       *)

\* The first look at the server, under its lock: main sleeps if all is not well.
FirstLook ==
    /\ pc = "ft"
    /\ pc' = IF server_status # RUNNING \/ server_job_status # RUNNING
             THEN "ft_sleep" ELSE "ft_look"
    /\ UNCHANGED <<next, at, back, serverObj, groupVars, messengerVars, jobVars,
                   serverVars, faults>>

SleepForServer ==
    /\ pc = "ft_sleep" /\ Slept
    /\ pc' = "ft_look"
    /\ UNCHANGED <<next, at, back, serverObj, groupVars, messengerVars, jobVars,
                   serverVars, faults>>

\* want_stop is read under the lock ...
ReadWantStop ==
    /\ pc = "ft_look"
    /\ IF want_stop THEN pc' = "group" /\ at' = 0
                    ELSE pc' = "ft_lost" /\ UNCHANGED at
    /\ UNCHANGED <<next, back, serverObj, groupVars, messengerVars, jobVars,
                   serverVars, faults>>

\* (mutants: a running server counts as lost; a dead one does not)
ServerLostRunning ==
    /\ server_status # RUNNING \/ server_job_status >= RUNNING
    /\ server_status # FINISHED
    /\ \E g \in Groups : group_status[g] # FINISHED
ServerLostQuiet ==
    /\ server_status \notin {RUNNING, FINISHED}
    /\ \E g \in Groups : group_status[g] # FINISHED
ServerLost ==
    /\ server_status # RUNNING \/ server_job_status > RUNNING
    /\ server_status # FINISHED
    /\ \E g \in Groups : group_status[g] # FINISHED

\* ... and the server is looked at a second time, without it.
FtServer ==
    /\ pc = "ft_lost"
    /\ pc' = IF ServerLost THEN "cancel" ELSE "group"
    /\ at' = 0
    /\ UNCHANGED <<next, back, serverObj, groupVars, messengerVars, jobVars,
                   serverVars, faults>>

\* The jobs of the groups are cancelled first: run_until_complete on what is
\* not awaitable raises outside every try, and the main thread dies.
CancelGroup ==
    /\ pc = "cancel" /\ at < NbGroups
    /\ \E raises \in CancelRaises :
          IF Active(at) /\ raises THEN pc' = "crashed" /\ UNCHANGED at
                                  ELSE at' = at + 1 /\ UNCHANGED pc
    /\ UNCHANGED <<next, back, serverObj, groupVars, messengerVars, jobVars,
                   serverVars, faults>>

GroupsCancelled ==
    /\ pc = "cancel" /\ at = NbGroups
    /\ pc' = "reboot"
    /\ UNCHANGED <<next, at, back, serverObj, groupVars, messengerVars, jobVars,
                   serverVars, faults>>

\* After a sleep Server.cancel, also run by asyncio but inside a try, then
\* Server.restart: the job is submitted ...
Reboot ==
    /\ pc = "reboot" /\ Slept
    /\ \/ /\ FALSE \in CancelRaises
          /\ server' = "again"
          /\ server_job_status' = PENDING
          /\ pc' = "restarting"
          /\ UNCHANGED <<server_status, want_stop, groupVars>>
       \/ /\ TRUE \in CancelRaises
          /\ Stop("failed")
          /\ UNCHANGED server
    /\ UNCHANGED <<next, at, back, messengerVars, jobVars, simu_state, counted,
                   drops, faults>>

\* ... then want_stop is read, without the lock, and with it the server becomes
\* waiting.
Restarting ==
    /\ pc = "restarting"
    /\ pc' = IF want_stop THEN "wait_restart" ELSE "mark"
    /\ UNCHANGED <<next, at, back, serverObj, groupVars, messengerVars, jobVars,
                   serverVars, faults>>

MarkWaiting ==
    /\ pc = "mark"
    /\ server_status' = WAITING /\ server_job_status' = PENDING
    /\ pc' = "wait_restart"
    /\ UNCHANGED <<next, at, back, want_stop, groupVars, messengerVars, jobVars,
                   serverVars, faults>>

\* Resubmission of the groups, whose status is looked at before their lock is
\* taken.
Regroup ==
    /\ pc = "regroup"
    /\ IF at = NbGroups THEN pc' = "group" /\ at' = 0
       ELSE IF Active(at) THEN pc' = "regroup_lock" /\ UNCHANGED at
       ELSE at' = at + 1 /\ UNCHANGED pc
    /\ UNCHANGED <<next, back, serverObj, groupVars, messengerVars, jobVars,
                   serverVars, faults>>

\* The handler of an error of restart raises in turn ('Error ...' + group_id): the
\* main thread dies.
RegroupLock ==
    /\ pc = "regroup_lock"
    /\ \E raises \in CancelRaises :
          IF RestartRaises(raises)
          THEN pc' = "crashed" /\ UNCHANGED <<at, groupVars, jobVars, drops>>
          ELSE RestartGroup(at) /\ pc' = "regroup" /\ at' = at + 1
    /\ UNCHANGED <<next, back, serverObj, messengerVars, server, simu_state,
                   counted, faults>>

\* (mutant: the status is not looked at again after the sleep)
StillRunningForgotten(g) == TRUE
StillRunning(g) == group_status[g] <= RUNNING

\* The loop over the groups. A group whose job is over is restarted after a
\* long sleep, if it has not finished meanwhile.
CheckCrashed ==
    /\ pc = "group" /\ at < NbGroups
    /\ Active(at) /\ job_status[at] = FINISHED
    /\ pc' = "slept"
    /\ UNCHANGED <<next, at, back, serverObj, groupVars, messengerVars, jobVars,
                   serverVars, faults>>

RestartCrashed ==
    /\ pc = "slept" /\ Slept /\ Handled(at)
    /\ IF ~StillRunning(at)
       THEN pc' = "timeouts" /\ UNCHANGED <<at, serverObj, groupVars, jobVars, drops>>
       ELSE \E raises \in CancelRaises :
            IF RestartRaises(raises)
            THEN Stop("failed") /\ UNCHANGED <<at, jobVars, drops>>
            ELSE RestartGroup(at) /\ pc' = "group" /\ at' = at + 1 /\ UNCHANGED serverObj
    /\ UNCHANGED <<next, back, messengerVars, server, simu_state, counted, faults>>

\* the job has run for simulation_timeout and the server has heard nothing
LateStart(g) ==
    /\ "late_start" \in Faults
    /\ faults["timeout"] < MaxTimeouts
    /\ group_status[g] = WAITING /\ job_status[g] = RUNNING

\* A group is late, for the launcher or for the server. This handler raises too.
CheckTimeouts ==
    /\ \/ pc = "timeouts"
       \/ pc = "group" /\ at < NbGroups /\ ~(Active(at) /\ job_status[at] = FINISHED)
    /\ \/ /\ \/ group_status[at] = TIMEOUT
             \/ LateStart(at)
          /\ \E raises \in CancelRaises :
                IF RestartRaises(raises)
                THEN pc' = "crashed" /\ UNCHANGED <<at, groupVars, jobVars, drops>>
                ELSE RestartGroup(at) /\ pc' = "group" /\ at' = at + 1
          /\ faults' = IF group_status[at] = TIMEOUT THEN faults
                       ELSE [faults EXCEPT !["timeout"] = @ + 1]
       \/ /\ group_status[at] # TIMEOUT
          /\ pc' = "group" /\ at' = at + 1
          /\ UNCHANGED <<groupVars, jobVars, drops, faults>>
    /\ UNCHANGED <<next, back, serverObj, messengerVars, server, simu_state, counted>>

FtReturns ==
    /\ pc = "group" /\ at = NbGroups
    /\ pc' = back
    /\ UNCHANGED <<next, at, back, serverObj, groupVars, messengerVars, jobVars,
                   serverVars, faults>>

-----------------------------------------------------------------------------
(* The messenger and the state checker.                                      *)

Threads == pc \notin {"stopped", "failed"}

\* the status of a group after the report that simulation i of it is in state st
AfterReport(g, i, st) ==
    IF Sobol THEN st
    ELSE IF \A j \in Members : IF j = i THEN st = 2 ELSE simu_status[<<g, j>>] = 2
    THEN 2
    ELSE IF group_status[g] < 2 THEN st ELSE group_status[g]

HandleMessage(m) ==
    \/ /\ m[1] = "server"
       /\ server_status' = RUNNING /\ server_job_status' = RUNNING
       /\ UNCHANGED <<want_stop, groupVars, close_at>>
    \/ /\ m[1] = "stop"
       /\ server_status' = FINISHED /\ want_stop' = TRUE
       /\ close_at' = 0
       /\ UNCHANGED <<server_job_status, groupVars>>
    \/ /\ m[1] = "timeout"
       /\ group_status' = [group_status EXCEPT ![m[2][1]] = TIMEOUT]
       /\ UNCHANGED <<serverObj, job_status, nb_restarts, simu_status, close_at>>
    \/ /\ m[1] = "group_state"
       /\ group_status' = [group_status EXCEPT
                              ![m[2][1]] = AfterReport(m[2][1], m[2][2], m[3])]
       /\ simu_status' = IF Sobol THEN simu_status
                         ELSE [simu_status EXCEPT ![m[2]] = m[3]]
       /\ UNCHANGED <<serverObj, job_status, nb_restarts, close_at>>

Messenger ==
    /\ Threads
    /\ close_at = NbGroups
    /\ inbox # <<>>
    /\ HandleMessage(Head(inbox))
    /\ inbox' = Tail(inbox)
    /\ UNCHANGED <<mainVars, jobVars, serverVars, faults>>

\* the rest of a stop: "do not restart groups!" (Group.cancel marks nothing)
CloseGroup ==
    /\ Threads
    /\ close_at < NbGroups
    /\ group_status' = [group_status EXCEPT ![close_at] = FINISHED]
    /\ close_at' = close_at + 1
    /\ UNCHANGED <<mainVars, serverObj, job_status, nb_restarts, simu_status, inbox,
                   jobVars, serverVars, faults>>

\* (mutant: the scheduler's own code for a job that is over)
JobStateRaw(g) == CASE job[g] = "pending" -> PENDING
                    [] job[g] \in {"running", "hung"} -> RUNNING
                    [] OTHER -> TIMEOUT
\* what the batch scheduler says of the last job of a group, and of the server
JobState(g) == CASE job[g] = "pending" -> PENDING
                 [] job[g] \in {"running", "hung"} -> RUNNING
                 [] OTHER -> FINISHED
ServerState == CASE server \in {"pending", "again"} -> PENDING
                 [] server = "up" -> RUNNING
                 [] OTHER -> FINISHED

StateChecker == Threads /\ pc # "wait_start"

CheckServer ==
    /\ StateChecker
    /\ server_job_status' = ServerState
    /\ UNCHANGED <<mainVars, server_status, want_stop, groupVars, messengerVars,
                   jobVars, serverVars, faults>>

CheckGroup(g) ==
    /\ StateChecker
    /\ job_status[g] \in {PENDING, RUNNING}
    /\ job_status' = [job_status EXCEPT ![g] = JobState(g)]
    /\ UNCHANGED <<mainVars, serverObj, group_status, nb_restarts, simu_status,
                   messengerVars, jobVars, serverVars, faults>>

-----------------------------------------------------------------------------
(* The jobs of the groups.                                                   *)

JobStarts(g) ==
    /\ job[g] = "pending"
    /\ job' = [job EXCEPT ![g] = "running"]
    /\ UNCHANGED <<mainVars, serverObj, groupVars, messengerVars, stray,
                   serverVars, faults>>

\* the end of a job that has talked to a server; its last messages may still be
\* on their way
JobEnds(g) ==
    /\ job[g] = "running"
    /\ server \in {"up", "done"}
    /\ job' = [job EXCEPT ![g] = "sent"]
    /\ UNCHANGED <<mainVars, serverObj, groupVars, messengerVars, stray,
                   serverVars, faults>>

StrayEnds(g) ==
    /\ stray[g]
    /\ stray' = [stray EXCEPT ![g] = FALSE]
    /\ UNCHANGED <<mainVars, serverObj, groupVars, messengerVars, job,
                   serverVars, faults>>

JobCrash(g) ==
    /\ "job_crash" \in Faults
    /\ faults["job_crash"] < MaxJobCrashes
    /\ job[g] \in {"pending", "running"}
    /\ job' = [job EXCEPT ![g] = "over"]
    /\ faults' = [faults EXCEPT !["job_crash"] = @ + 1]
    /\ UNCHANGED <<mainVars, serverObj, groupVars, messengerVars, stray,
                   serverVars>>

-----------------------------------------------------------------------------
(* The server, as the launcher sees it.                                      *)

Sends(g) == job[g] \in {"running", "sent"} \/ stray[g]

\* the first data of a simulation, and the last: a report each
Receive(s) ==
    /\ server = "up"
    /\ Sends(s[1])
    /\ pc = "launched" /\ s[1] = next => "early_report" \in Faults
    /\ \/ simu_state[s] \in {0, 1}
       \/ simu_state[s] = 3 /\ "late_data" \in Faults
    /\ LET new == IF simu_state[s] = 1 THEN 2 ELSE 1 IN
          /\ simu_state' = [simu_state EXCEPT ![s] = new]
          /\ counted' = IF new = 2 THEN counted \cup {s} ELSE counted
          /\ inbox' = Append(inbox, Report(s, new))
    /\ UNCHANGED <<mainVars, serverObj, groupVars, close_at, jobVars, server, drops,
                   faults>>

SendTimeout(s) ==
    /\ "timeout" \in Faults
    /\ faults["timeout"] < MaxTimeouts
    /\ server = "up"
    /\ simu_state[s] = 1
    /\ simu_state' = [simu_state EXCEPT ![s] = 0]
    /\ \E beyond \in Beyond :
          inbox' = Append(inbox, Read(Msg!message_timeout(IdOf(s)), beyond))
    /\ faults' = [faults EXCEPT !["timeout"] = @ + 1]
    /\ UNCHANGED <<mainVars, serverObj, groupVars, close_at, jobVars, server,
                   counted, drops>>

HandleDrop(s) ==
    /\ server = "up"
    /\ s \in drops
    /\ simu_state' = [simu_state EXCEPT ![s] = 3]
    /\ counted' = counted \cup {s}
    /\ drops' = drops \ {s}
    /\ UNCHANGED <<mainVars, serverObj, groupVars, messengerVars, jobVars, server,
                   faults>>

\* the first message of a server
ServerStarts ==
    /\ server = "pending"
    /\ server' = "up"
    /\ inbox' = Append(inbox, Hello)
    /\ UNCHANGED <<mainVars, serverObj, groupVars, close_at, jobVars, simu_state,
                   counted, drops, faults>>

\* A restarted server reads its checkpoint: running simulations start again, and
\* finished ones may be forgotten. It also tells their states.
ServerRestarts ==
    /\ server = "again"
    /\ pc \in {"restarting", "mark"} => "early_report" \in Faults
    /\ server' = "up"
    /\ \E forgotten \in SUBSET {s \in Simus : simu_state[s] = 2} :
          /\ forgotten # {} => "old_checkpoint" \in Faults
          /\ simu_state' = [s \in Simus |->
                IF s \in forgotten \/ simu_state[s] = 1 THEN 0 ELSE simu_state[s]]
    /\ counted' = {s \in Simus : simu_state'[s] = 2}
    /\ inbox' = Append(inbox, Hello) \o
          [k \in 1 .. NbGroups * BatchSize |->
              Report(SimuOf(k - 1), simu_state'[SimuOf(k - 1)])]
    /\ UNCHANGED <<mainVars, serverObj, groupVars, close_at, jobVars, drops, faults>>

SendStop ==
    /\ server = "up"
    /\ counted = Simus
    /\ server' = "done"
    /\ inbox' = Append(inbox, Read(Msg!message_stop, 0))
    /\ UNCHANGED <<mainVars, serverObj, groupVars, close_at, jobVars, simu_state,
                   counted, drops, faults>>

\* The server dies. Data and drops on their way are lost, and the jobs in hung
\* wait for ever for a server that is gone.
ServerCrash ==
    /\ "server_crash" \in Faults
    /\ faults["server_crash"] < MaxServerCrashes
    /\ server = "up"
    /\ counted = Simus => "late_crash" \in Faults
    /\ drops # {} \/ (\E s \in Simus : simu_state[s] = 3)
          => "crash_after_drop" \in Faults
    /\ server' = "dead"
    /\ drops' = {}
    /\ \E hung \in SUBSET {g \in Groups : job[g] = "running"} :
          job' = [g \in Groups |-> IF g \in hung THEN "hung"
                                   ELSE IF job[g] = "sent" THEN "over" ELSE job[g]]
    /\ stray' = [g \in Groups |-> FALSE]
    /\ faults' = [faults EXCEPT !["server_crash"] = @ + 1]
    /\ UNCHANGED <<mainVars, serverObj, groupVars, messengerVars, simu_state, counted>>

-----------------------------------------------------------------------------

Init ==
    /\ pc = "wait_start" /\ next = 0 /\ at = 0 /\ back = "load"
    /\ server_status = WAITING /\ server_job_status = PENDING /\ want_stop = FALSE
    /\ group_status = [g \in Groups |-> NOT_SUBMITTED]
    /\ job_status = [g \in Groups |-> NOT_SUBMITTED]
    /\ nb_restarts = [g \in Groups |-> 0]
    /\ simu_status = [s \in Simus |-> 0]
    /\ inbox = <<>> /\ close_at = NbGroups
    /\ job = [g \in Groups |-> "none"]
    /\ stray = [g \in Groups |-> FALSE]
    /\ server = "pending"
    /\ simu_state = [s \in Simus |-> 0]
    /\ counted = {} /\ drops = {}
    /\ faults = [f \in {"job_crash", "timeout", "server_crash"} |-> 0]

Main ==
    \/ WaitStart \/ SchedulerBusy \/ LaunchJob \/ Launched \/ Loop
    \/ FirstLook \/ SleepForServer \/ ReadWantStop \/ FtServer
    \/ CancelGroup \/ GroupsCancelled \/ Reboot \/ Restarting \/ MarkWaiting
    \/ Regroup \/ RegroupLock
    \/ CheckCrashed \/ RestartCrashed \/ CheckTimeouts \/ FtReturns

Server ==
    \/ ServerStarts \/ ServerRestarts \/ SendStop \/ ServerCrash
    \/ \E s \in Simus : Receive(s) \/ SendTimeout(s) \/ HandleDrop(s)

Next ==
    \/ Main \/ Messenger \/ CloseGroup \/ CheckServer \/ Server
    \/ \E g \in Groups :
          \/ CheckGroup(g)
          \/ JobStarts(g) \/ JobEnds(g) \/ StrayEnds(g) \/ JobCrash(g)

Spec == Init /\ [][Next]_vars

\* The threads go on; the scheduler runs what is submitted and is not busy for
\* ever; the server handles what it is sent, is started when it is submitted, and
\* finds late a simulation it has heard of whose job is over.
Fairness ==
    /\ WF_vars(Main) /\ SF_vars(LaunchJob)
    /\ WF_vars(Messenger) /\ WF_vars(CloseGroup) /\ WF_vars(CheckServer)
    /\ WF_vars(ServerStarts) /\ WF_vars(ServerRestarts) /\ WF_vars(SendStop)
    /\ \A g \in Groups : WF_vars(CheckGroup(g)) /\ WF_vars(JobStarts(g)) /\ WF_vars(JobEnds(g))
    /\ \A s \in Simus : /\ WF_vars(Receive(s)) /\ WF_vars(HandleDrop(s))
                        /\ WF_vars(~Sends(s[1]) /\ SendTimeout(s))

FairSpec == Spec /\ Fairness

-----------------------------------------------------------------------------
(* Properties.                                                              *)

\* Once the messenger has read every report of the server on a group, a group
\* whose simulations are all finished is finished: nothing overwrites the
\* report, so the group is not run again (study.py 131-148 and 888-947).
ReportsAreKept ==
    \A g \in Groups :
        /\ server = "up"
        /\ \A i \in Members : simu_state[<<g, i>>] = 2
        /\ \A k \in 1 .. Len(inbox) : inbox[k][1] \in {"timeout", "group_state"}
                                        => inbox[k][2][1] # g
        => group_status[g] = FINISHED

\* The study stops only when the server has counted every simulation.
StopMeansCounted == pc = "stopped" => counted = Simus

\* A study is given up, or its main thread dies, only when it has lost its server:
\* no crashed job, no late simulation and no drop of a group ends it while the
\* server serves (study.py 853-947).
AbortMeansNoServer == pc \in {"failed", "crashed"} => server \in {"dead", "done"}

\* No second server is started while one runs or waits to be run, whatever was seen
\* at which of the two looks at it (study.py 840-863).
NoSecondServer == [][server' = "again" => server \in {"dead", "done"}]_server

\* The study completes, or is given up because its server is lost: no group and no
\* server is waited for for ever (study.py 567 and 807-949).
CompletesOrLosesServer ==
    <>(pc = "stopped" \/ (pc \in {"failed", "crashed"} /\ server \in {"dead", "done"}))

\* What the second look was added for ("did we get a want stop in the meantime?",
\* study.py 848) but does not give: a server that is done, with its stop message
\* on the way, is not started again.
OnlyDeadServerReboots == [][server' = "again" => server = "dead"]_server
=============================================================================
