--------------------------- MODULE Launcher_proofs ---------------------------
(* Proofs about the launcher, for any number of groups and of faults.        *)
EXTENDS Launcher, TLAPS, SequenceTheorems

LEMMA SimuOfIsASimu ==
    ASSUME NEW id \in 0 .. NbGroups * BatchSize - 1
    PROVE  SimuOf(id) \in Simus
  <1> DEFINE q == id \div BatchSize
             r == id % BatchSize
  <1>1. q \in Int /\ r \in 0 .. BatchSize - 1 /\ id = BatchSize * q + r
    BY LauncherAssumption
  <1>2. q >= 0
    <2>1. SUFFICES ASSUME q <= 0 - 1 PROVE FALSE
      BY <1>1
    <2>2. BatchSize * q <= BatchSize * (0 - 1)
      BY <1>1, <2>1, LauncherAssumption
    <2>3. QED
      BY <1>1, <2>2, LauncherAssumption
  <1>3. q < NbGroups
    <2>1. SUFFICES ASSUME q >= NbGroups PROVE FALSE
      BY <1>1, LauncherAssumption
    <2>2. BatchSize * q >= NbGroups * BatchSize
      BY <1>1, <2>1, LauncherAssumption
    <2>3. QED
      BY <1>1, <2>2, LauncherAssumption
  <1>4. q \in Groups /\ r \in Members
    BY <1>1, <1>2, <1>3, LauncherAssumption DEF Groups, Members
  <1>5. QED
    BY <1>4 DEF SimuOf, Simus

\* The quotient and the remainder of a * n + b are a and b.
LEMMA QuotientAndRemainder ==
    ASSUME NEW n \in Nat \ {0}, NEW a \in Nat, NEW b \in 0 .. n - 1
    PROVE  (a * n + b) \div n = a /\ (a * n + b) % n = b
  <1> DEFINE x == a * n + b
  <1>1. a * n \in Nat /\ x \in Nat
    OBVIOUS
  <1>2. x = n * (x \div n) + (x % n) /\ x % n \in 0 .. n - 1 /\ x \div n \in Int
    BY <1>1
  <1>3. n * (a - (x \div n)) = (x % n) - b /\ (x % n) - b < n /\ (x % n) - b > -n
    BY <1>1, <1>2
  <1>4. a - (x \div n) = 0
    <2>1. CASE a - (x \div n) > 0
      <3>1. n * (a - (x \div n)) >= n
        BY <2>1, <1>2
      <3>2. QED
        BY <3>1, <1>1, <1>2, <1>3
    <2>2. CASE a - (x \div n) < 0
      <3>1. n * (a - (x \div n)) <= -n
        BY <2>2, <1>2
      <3>2. QED
        BY <3>1, <1>1, <1>2, <1>3
    <2>3. QED
      BY <2>1, <2>2, <1>2
  <1>5. QED
    BY <1>1, <1>2, <1>3, <1>4

\* The messenger finds the group and the member of the id that was sent.
LEMMA IdIsOfItsSimu == ASSUME NEW s \in Simus PROVE SimuOf(IdOf(s)) = s
  <1>1. PICK g \in Groups, i \in Members : s = <<g, i>>
    BY DEF Simus
  <1>2. g \in Nat /\ i \in 0 .. BatchSize - 1 /\ BatchSize \in Nat \ {0}
    BY LauncherAssumption DEF Groups, Members
  <1>3. (g * BatchSize + i) \div BatchSize = g /\ (g * BatchSize + i) % BatchSize = i
    BY <1>2, QuotientAndRemainder
  <1>4. QED
    BY <1>1, <1>3 DEF SimuOf, IdOf

\* The words of each message of the server to the launcher.
LEMMA WordsOfMessages ==
    ASSUME NEW id, NEW st, NEW beyond
    PROVE  /\ Msg!wait_message(Msg!message_simu_status(id, st), beyond)
                  = <<"group_state", id, st>>
           /\ Msg!wait_message(Msg!message_server_name("node", 0), beyond)
                  = <<"server", 0, "node">>
           /\ Msg!wait_message(Msg!message_stop, beyond) = <<"stop">>
           /\ Msg!wait_message(Msg!message_timeout(id), beyond) = <<"timeout", beyond>>
  <1> USE DEF Msg!wait_message, Msg!get_message_type, Msg!JOB, Msg!DROP, Msg!STOP,
          Msg!TIMEOUT, Msg!SIMU_STATUS, Msg!SERVER, Msg!ALIVE, Msg!CONFIDENCE_INTERVAL,
          Msg!OPTIONS, Msg!HELLO
  <1> DEFINE a == <<5, id, st>>
             b == <<6, 0, "node", "NUL">>
  <1>a. /\ a # <<>> /\ Head(a) = 5 /\ a[2] = id /\ a[3] = st
        /\ b # <<>> /\ Head(b) = 6 /\ b[2] = 0 /\ b[3] = "node"
    OBVIOUS
  <1> HIDE DEF a, b
  <1>1. Msg!wait_message(a, beyond) = <<"group_state", id, st>>
    BY <1>a
  <1>2. Msg!wait_message(b, beyond) = <<"server", 0, "node">>
    BY <1>a
  <1> DEFINE c == <<3>>
             d == <<4>>
  <1>b. c # <<>> /\ Head(c) = 3 /\ d # <<>> /\ Head(d) = 4 /\ Len(d) = 1
    OBVIOUS
  <1> HIDE DEF c, d
  <1>3. Msg!wait_message(c, beyond) = <<"stop">>
    BY <1>b
  <1>4. Msg!wait_message(d, beyond) = <<"timeout", beyond>>
    BY <1>b
  <1>5. QED
    BY <1>1, <1>2, <1>3, <1>4
    DEF Msg!message_simu_status, Msg!message_server_name, Msg!message_stop,
        Msg!message_timeout, Msg!NUL, a, b, c, d

\* A report arrives as it was sent.
LEMMA ReportArrives ==
    ASSUME NEW s \in Simus, NEW st
    PROVE  Report(s, st) = <<"group_state", s, st>>
  BY WordsOfMessages, IdIsOfItsSimu DEF Report, Read

\* So do the first message of the server and the last.
LEMMA OthersArrive ==
    Hello = <<"server", 0, "node">> /\ Read(Msg!message_stop, 0) = <<"stop">>
  BY WordsOfMessages DEF Hello, Read

\* A timeout does not: the launcher takes it for that of the simulation whose id
\* lies behind the message.
LEMMA TimeoutArrives ==
    ASSUME NEW s \in Simus, NEW id \in Beyond
    PROVE  /\ Read(Msg!message_timeout(IdOf(s)), id) = <<"timeout", SimuOf(id)>>
           /\ SimuOf(id) \in Simus
  <1>1. id \in 0 .. NbGroups * BatchSize - 1
    BY DEF Beyond, Ids
  <1>2. QED
    BY <1>1, WordsOfMessages, SimuOfIsASimu DEF Read

\* What a restarted server sends.
LEMMA RestartMessages ==
    ASSUME ServerRestarts
    PROVE  inbox' = Append(inbox, <<"server", 0, "node">>) \o
                [k \in 1 .. NbGroups * BatchSize |->
                    <<"group_state", SimuOf(k - 1), simu_state'[SimuOf(k - 1)]>>]
  <1>1. ASSUME NEW k \in 1 .. NbGroups * BatchSize
        PROVE  Report(SimuOf(k - 1), simu_state'[SimuOf(k - 1)])
                   = <<"group_state", SimuOf(k - 1), simu_state'[SimuOf(k - 1)]>>
    <2>1. NbGroups * BatchSize \in Nat
      BY LauncherAssumption
    <2>2. SimuOf(k - 1) \in Simus
      BY <2>1, SimuOfIsASimu
    <2>3. QED
      BY <2>2, ReportArrives
  <1>2. QED
    BY <1>1, OthersArrive DEF ServerRestarts

\* What a simulation that is heard of makes the server send.
LEMMA ReceiveMessages ==
    ASSUME NEW s \in Simus, Receive(s)
    PROVE  \E new \in 1 .. 2 :
              /\ simu_state' = [simu_state EXCEPT ![s] = new]
              /\ counted' = IF new = 2 THEN counted \cup {s} ELSE counted
              /\ inbox' = Append(inbox, <<"group_state", s, new>>)
  <1> DEFINE new == IF simu_state[s] = 1 THEN 2 ELSE 1
  <1>1. /\ simu_state' = [simu_state EXCEPT ![s] = new]
        /\ counted' = IF new = 2 THEN counted \cup {s} ELSE counted
        /\ inbox' = Append(inbox, Report(s, new))
    BY DEF Receive
  <1>2. Report(s, new) = <<"group_state", s, new>> /\ new \in 1 .. 2
    BY ReportArrives
  <1> HIDE DEF new
  <1>3. QED
    BY <1>1, <1>2

LEMMA TypesOfInit == Init => TypeOK
  <1> USE LauncherAssumption DEF GroupStatus, JobStatus, NOT_SUBMITTED, PENDING, WAITING,
          RUNNING, FINISHED, TIMEOUT
  <1> SUFFICES ASSUME Init PROVE TypeOK
    OBVIOUS
  <1>1. /\ pc = "wait_start" /\ next \in 0 .. NbGroups /\ at \in 0 .. NbGroups
        /\ back = "load" /\ close_at \in 0 .. NbGroups
        /\ server_status = WAITING /\ server_job_status = PENDING /\ want_stop = FALSE
        /\ server = "pending" /\ counted \subseteq Simus /\ drops \subseteq Simus
        /\ inbox \in Seq(Message)
    BY DEF Init
  <1>2. /\ group_status \in [Groups -> GroupStatus]
        /\ job_status \in [Groups -> JobStatus]
        /\ nb_restarts \in [Groups -> Nat]
        /\ simu_status \in [Simus -> 0 .. 3]
        /\ simu_state \in [Simus -> 0 .. 3]
        /\ faults \in [{"job_crash", "timeout", "server_crash"} -> Nat]
    BY DEF Init
  <1>3. /\ job \in [Groups -> {"none", "pending", "running", "hung", "sent", "over"}]
        /\ stray \in [Groups -> BOOLEAN]
    BY DEF Init
  <1>4. QED
    BY <1>1, <1>2, <1>3 DEF TypeOK

LEMMA TypesOfRestart ==
    ASSUME TypeOK, NEW g \in Groups, RestartGroup(g)
    PROVE  /\ group_status' \in [Groups -> GroupStatus]
           /\ job_status' \in [Groups -> JobStatus]
           /\ nb_restarts' \in [Groups -> Nat]
           /\ simu_status' \in [Simus -> 0 .. 3]
           /\ job' \in [Groups -> {"none", "pending", "running", "hung", "sent", "over"}]
           /\ stray' \in [Groups -> BOOLEAN]
           /\ drops' \subseteq Simus
  <1>1. {g} \X Members \subseteq Simus
    BY DEF Simus
  <1>2. drops' \subseteq Simus
    BY <1>1 DEF RestartGroup, TypeOK
  <1>3. /\ group_status' \in [Groups -> GroupStatus]
        /\ job_status' \in [Groups -> JobStatus]
    <2>1. {WAITING, FINISHED} \subseteq GroupStatus /\ {PENDING, FINISHED} \subseteq JobStatus
      BY DEF GroupStatus, JobStatus
    <2>2. QED
      BY <2>1 DEF RestartGroup, TypeOK
  <1>4. nb_restarts' \in [Groups -> Nat] /\ simu_status' \in [Simus -> 0 .. 3]
    BY DEF RestartGroup, TypeOK
  <1>5. /\ job' \in [Groups -> {"none", "pending", "running", "hung", "sent", "over"}]
        /\ stray' \in [Groups -> BOOLEAN]
    BY DEF RestartGroup, TypeOK, NewJob, jobVars
  <1>6. QED
    BY <1>2, <1>3, <1>4, <1>5

LEMMA TypesOfMessage ==
    ASSUME TypeOK, NEW m \in Message, HandleMessage(m)
    PROVE  /\ server_status' \in {WAITING, RUNNING, FINISHED}
           /\ server_job_status' \in JobStatus
           /\ want_stop' \in BOOLEAN
           /\ group_status' \in [Groups -> GroupStatus]
           /\ job_status' \in [Groups -> JobStatus]
           /\ nb_restarts' \in [Groups -> Nat]
           /\ simu_status' \in [Simus -> 0 .. 3]
           /\ close_at' \in 0 .. NbGroups
  <1> USE LauncherAssumption DEF HandleMessage, TypeOK, Message, serverObj, groupVars,
          GroupStatus, JobStatus, NOT_SUBMITTED, PENDING, WAITING, RUNNING, FINISHED,
          TIMEOUT
  <1>1. CASE m = <<"server", 0, "node">>
    BY <1>1
  <1>2. CASE m = <<"stop">>
    BY <1>2
  <1>3. CASE m \in {"timeout"} \X Simus
    BY <1>3 DEF Simus
  <1>4. CASE m \in {"group_state"} \X Simus \X (0 .. 3)
    <2>1. PICK g \in Groups, i \in Members, st \in 0 .. 3 :
            m = <<"group_state", <<g, i>>, st>>
      BY <1>4 DEF Simus
    <2>2. AfterReport(g, i, st) \in GroupStatus
      BY DEF AfterReport
    <2>3. m[1] = "group_state" /\ m[2] = <<g, i>> /\ m[2][1] = g /\ m[2][2] = i /\ m[3] = st
      BY <2>1
    <2>4. /\ group_status' = [group_status EXCEPT ![g] = AfterReport(g, i, st)]
          /\ simu_status' = IF Sobol THEN simu_status
                            ELSE [simu_status EXCEPT ![<<g, i>>] = st]
          /\ UNCHANGED <<serverObj, job_status, nb_restarts, close_at>>
      BY <2>3
    <2>5. QED
      BY <2>2, <2>4
  <1>5. QED
    BY <1>1, <1>2, <1>3, <1>4

\* Where the loops of the main thread stand.
Positions ==
    /\ pc \in {"load", "launched"} => back = "load"
    /\ back = "load" /\ pc \notin {"loop", "stopped"} => next < NbGroups
    /\ pc \in {"slept", "timeouts", "regroup_lock"} => at < NbGroups

\* The steps of fault_tolerance that lead to a restart of the server.
LookAtServer ==
    \/ FirstLook \/ SleepForServer \/ ReadWantStop \/ FtServer
    \/ CancelGroup \/ GroupsCancelled

LEMMA PositionsOfInit == Init => Positions
  BY LauncherAssumption DEF Init, Positions

LEMMA PositionsOfStep == TypeOK /\ Positions /\ [Next]_vars => Positions'
  <1> SUFFICES ASSUME TypeOK, Positions, [Next]_vars PROVE Positions'
    OBVIOUS
  <1> USE LauncherAssumption DEF Positions, TypeOK, Stop
  <1>1. CASE WaitStart BY <1>1 DEF WaitStart
  <1>2. CASE SchedulerBusy BY <1>2 DEF SchedulerBusy
  <1>3. CASE LaunchJob BY <1>3 DEF LaunchJob
  <1>4. CASE Launched BY <1>4 DEF Launched
  <1>5. CASE Loop BY <1>5 DEF Loop
  <1>6. CASE LookAtServer
    BY <1>6 DEF LookAtServer, FirstLook, SleepForServer, ReadWantStop, FtServer, CancelGroup,
       GroupsCancelled
  <1>7. CASE Reboot BY <1>7 DEF Reboot
  <1>8. CASE Restarting \/ MarkWaiting BY <1>8 DEF Restarting, MarkWaiting
  <1>9. CASE Regroup BY <1>9 DEF Regroup
  <1>10. CASE RegroupLock BY <1>10 DEF RegroupLock
  <1>11. CASE CheckCrashed BY <1>11 DEF CheckCrashed
  <1>12. CASE RestartCrashed BY <1>12 DEF RestartCrashed
  <1>13. CASE CheckTimeouts BY <1>13 DEF CheckTimeouts
  <1>14. CASE FtReturns BY <1>14 DEF FtReturns
  <1>15. CASE ~Main
    <2>1. UNCHANGED mainVars
      BY <1>15
      DEF Next, vars, Messenger, CloseGroup, CheckServer, Server, ServerStarts,
          ServerRestarts, SendStop, ServerCrash, Receive, SendTimeout, HandleDrop, CheckGroup, JobStarts, JobEnds,
          StrayEnds, JobCrash
    <2>2. QED
      BY <2>1 DEF mainVars
  <1>16. QED
    BY <1>1, <1>2, <1>3, <1>4, <1>5, <1>6, <1>7, <1>8, <1>9, <1>10, <1>11, <1>12, <1>13,
       <1>14, <1>15
    DEF Main, LookAtServer

LEMMA TypesOfMain == TypeOK /\ Positions /\ Main => TypeOK'
  <1> SUFFICES ASSUME TypeOK, Positions, Main PROVE TypeOK'
    OBVIOUS
  <1> USE LauncherAssumption
      DEF TypeOK, mainVars, serverObj, groupVars, messengerVars, jobVars, serverVars
  <1> HIDE DEF TypeOK
  <1>0. /\ {WAITING, FINISHED} \subseteq GroupStatus
        /\ {PENDING, RUNNING, FINISHED} \subseteq JobStatus
    BY DEF GroupStatus, JobStatus
  <1>a. ASSUME UNCHANGED <<serverObj, groupVars, messengerVars, jobVars, serverVars, faults>>,
               pc' \in {"load", "loop", "ft", "ft_sleep", "ft_look", "ft_lost", "cancel",
                        "reboot", "mark", "wait_restart", "regroup", "regroup_lock", "group",
                        "slept", "crashed"},
               at' \in 0 .. NbGroups, UNCHANGED next, back' \in {"load", "loop"}
        PROVE  TypeOK'
    BY <1>a DEF TypeOK
  <1>b. ASSUME NEW end \in {"stopped", "failed"}, Stop(end)
        PROVE  /\ pc' = end
               /\ server_job_status' \in JobStatus
               /\ UNCHANGED <<groupVars, server_status, want_stop>>
    BY <1>b, <1>0 DEF Stop, TypeOK
  <1>1. CASE WaitStart BY <1>1, <1>a DEF WaitStart, TypeOK
  <1>2. CASE SchedulerBusy BY <1>2, <1>a DEF SchedulerBusy, TypeOK
  <1>3. CASE LaunchJob
    <2>1. next \in Groups
      BY <1>3 DEF LaunchJob, Positions, TypeOK, Groups
    <2>2. jobVars' = jobVars \/ NewJob(next)
      BY <1>3 DEF LaunchJob
    <2>3. /\ job' \in [Groups -> {"none", "pending", "running", "hung", "sent", "over"}]
          /\ stray' \in [Groups -> BOOLEAN]
      BY <2>1, <2>2 DEF NewJob, TypeOK
    <2>4. QED
      BY <1>3, <2>3 DEF LaunchJob, TypeOK
  <1>4. CASE Launched
    <2>1. next \in Groups /\ next + 1 \in 0 .. NbGroups
      BY <1>4 DEF Launched, Positions, TypeOK, Groups
    <2>2. group_status' \in [Groups -> GroupStatus] /\ job_status' \in [Groups -> JobStatus]
      BY <1>4, <1>0 DEF Launched, TypeOK
    <2>3. QED
      BY <1>4, <2>1, <2>2 DEF Launched, TypeOK
  <1>5. CASE Loop
    <2>1. CASE StudyOver
      BY <1>5, <2>1, <1>b DEF Loop, TypeOK
    <2>2. CASE ~StudyOver
      BY <1>5, <2>2, <1>a DEF Loop, TypeOK
    <2>3. QED
      BY <2>1, <2>2
  <1>6. CASE LookAtServer
    <2>1. at' \in 0 .. NbGroups
      BY <1>6 DEF LookAtServer, FirstLook, SleepForServer, ReadWantStop, FtServer,
         CancelGroup, GroupsCancelled, TypeOK
    <2>2. pc' \in {"ft_sleep", "ft_look", "ft_lost", "group", "cancel", "reboot", "crashed"}
      BY <1>6 DEF LookAtServer, FirstLook, SleepForServer, ReadWantStop, FtServer,
         CancelGroup, GroupsCancelled
    <2>3. /\ UNCHANGED <<next, back>>
          /\ UNCHANGED <<serverObj, groupVars, messengerVars, jobVars, serverVars, faults>>
      BY <1>6 DEF LookAtServer, FirstLook, SleepForServer, ReadWantStop, FtServer,
         CancelGroup, GroupsCancelled
    <2>4. QED
      BY <2>1, <2>2, <2>3, <1>a DEF TypeOK
  <1>7. CASE Reboot
    <2>1. CASE server' = "again" /\ server_job_status' = PENDING /\ pc' = "restarting"
                 /\ UNCHANGED <<server_status, want_stop, groupVars>>
      BY <1>7, <2>1, <1>0 DEF Reboot, TypeOK
    <2>2. CASE Stop("failed") /\ UNCHANGED server
      BY <1>7, <2>2, <1>b DEF Reboot, TypeOK
    <2>3. QED
      BY <1>7, <2>1, <2>2 DEF Reboot
  <1>8. CASE Restarting \/ MarkWaiting
    <2>1. CASE Restarting
      BY <2>1, <1>a DEF Restarting, TypeOK
    <2>2. CASE MarkWaiting
      BY <2>2, <1>0 DEF MarkWaiting, TypeOK
    <2>3. QED
      BY <1>8, <2>1, <2>2
  <1>9. CASE Regroup
    <2>1. at' \in 0 .. NbGroups /\ pc' \in {"group", "regroup", "regroup_lock"}
      BY <1>9 DEF Regroup, TypeOK
    <2>2. QED
      BY <1>9, <2>1, <1>a DEF Regroup, TypeOK
  <1>10. CASE RegroupLock
    <2>1. at \in Groups /\ at + 1 \in 0 .. NbGroups
      BY <1>10 DEF RegroupLock, Positions, TypeOK, Groups
    <2>2. CASE RestartGroup(at) /\ pc' = "regroup" /\ at' = at + 1
      BY <1>10, <2>1, <2>2, TypesOfRestart DEF RegroupLock, TypeOK
    <2>3. CASE pc' = "crashed" /\ UNCHANGED <<at, groupVars, jobVars, drops>>
      BY <1>10, <2>3 DEF RegroupLock, TypeOK
    <2>4. QED
      BY <1>10, <2>2, <2>3 DEF RegroupLock
  <1>11. CASE CheckCrashed BY <1>11, <1>a DEF CheckCrashed, TypeOK
  <1>12. CASE RestartCrashed
    <2>1. at \in Groups /\ at + 1 \in 0 .. NbGroups
      BY <1>12 DEF RestartCrashed, Positions, TypeOK, Groups
    <2>2. CASE ~StillRunning(at)
      BY <1>12, <2>2 DEF RestartCrashed, TypeOK
    <2>3. CASE Stop("failed") /\ UNCHANGED <<at, jobVars, drops>>
      BY <1>12, <2>3, <1>b DEF RestartCrashed, TypeOK
    <2>4. CASE RestartGroup(at) /\ pc' = "group" /\ at' = at + 1 /\ UNCHANGED serverObj
      BY <1>12, <2>4, <2>1, TypesOfRestart DEF RestartCrashed, TypeOK
    <2>5. QED
      BY <1>12, <2>2, <2>3, <2>4 DEF RestartCrashed
  <1>13. CASE CheckTimeouts
    <2>1. at \in Groups /\ at + 1 \in 0 .. NbGroups
      BY <1>13 DEF CheckTimeouts, Positions, TypeOK, Groups
    <2>2. faults' \in [{"job_crash", "timeout", "server_crash"} -> Nat]
      BY <1>13 DEF CheckTimeouts, TypeOK
    <2>3. CASE UNCHANGED <<groupVars, jobVars, drops>>
      <3>1. pc' \in {"crashed", "group"} /\ at' \in 0 .. NbGroups
        BY <1>13, <2>1 DEF CheckTimeouts, TypeOK
      <3>2. QED
        BY <1>13, <2>2, <2>3, <3>1 DEF CheckTimeouts, TypeOK
    <2>4. CASE RestartGroup(at) /\ pc' = "group" /\ at' = at + 1
      BY <1>13, <2>1, <2>2, <2>4, TypesOfRestart DEF CheckTimeouts, TypeOK
    <2>5. QED
      BY <1>13, <2>3, <2>4 DEF CheckTimeouts
  <1>14. CASE FtReturns BY <1>14, <1>a DEF FtReturns, TypeOK
  <1>15. QED
    BY <1>1, <1>2, <1>3, <1>4, <1>5, <1>6, <1>7, <1>8, <1>9, <1>10, <1>11, <1>12, <1>13,
       <1>14
    DEF Main, LookAtServer

\* What a restarted server tells of its simulations: reports only.
StateReports(states) ==
    [k \in 1 .. NbGroups * BatchSize |-> <<"group_state", SimuOf(k - 1), states[SimuOf(k - 1)]>>]

LEMMA StatesType ==
    ASSUME NEW states \in [Simus -> 0 .. 3]
    PROVE  StateReports(states) \in Seq({"group_state"} \X Simus \X (0 .. 3))
  <1> DEFINE f == StateReports(states)
  <1>1. PICK n \in Nat : n = NbGroups * BatchSize
    BY LauncherAssumption
  <1>2. ASSUME NEW k \in 1 .. n
        PROVE  f[k] \in {"group_state"} \X Simus \X (0 .. 3)
    <2>1. SimuOf(k - 1) \in Simus
      BY <1>1, SimuOfIsASimu
    <2>2. states[SimuOf(k - 1)] \in 0 .. 3
      BY <2>1
    <2>3. QED
      BY <1>1, <2>1, <2>2 DEF StateReports
  <1>3. f = [k \in 1 .. n |-> f[k]]
    BY <1>1 DEF StateReports
  <1> HIDE DEF f
  <1>4. f \in [1 .. n -> {"group_state"} \X Simus \X (0 .. 3)]
    BY <1>2, <1>3
  <1>5. f \in Seq({"group_state"} \X Simus \X (0 .. 3))
    BY <1>4, SeqDef
  <1>6. QED
    BY <1>5 DEF f

LEMMA StatesAreMessages ==
    ASSUME ServerRestarts, TypeOK, simu_state' \in [Simus -> 0 .. 3]
    PROVE  inbox' \in Seq(Message)
  <1> DEFINE a == Append(inbox, <<"server", 0, "node">>)
             more == StateReports(simu_state')
  <1>1. a \in Seq(Message)
    BY DEF Message, TypeOK
  <1>2. more \in Seq(Message)
    <2>1. {"group_state"} \X Simus \X (0 .. 3) \subseteq Message
      BY DEF Message
    <2>2. more \in Seq({"group_state"} \X Simus \X (0 .. 3))
      BY StatesType
    <2> HIDE DEF more
    <2>3. QED
      BY <2>1, <2>2
  <1>3. inbox' = a \o more
    BY RestartMessages DEF StateReports
  <1> HIDE DEF a, more
  <1>4. QED
    BY <1>1, <1>2, <1>3

LEMMA TypesOfServer == TypeOK /\ Server => TypeOK'
  <1> SUFFICES ASSUME TypeOK, Server PROVE TypeOK'
    OBVIOUS
  <1> USE LauncherAssumption DEF mainVars, serverObj, groupVars, messengerVars, jobVars
  <1>0. ASSUME NEW m \in Message, inbox' = Append(inbox, m)
        PROVE  inbox' \in Seq(Message)
    BY <1>0 DEF TypeOK
  <1>b. /\ <<"server", 0, "node">> \in Message
        /\ Append(inbox, <<"server", 0, "node">>) \in Seq(Message)
    BY DEF Message, TypeOK
  <1>1. CASE ServerStarts
    <2>1. inbox' \in Seq(Message)
      BY <1>1, <1>b, OthersArrive DEF ServerStarts
    <2>2. QED
      BY <1>1, <2>1 DEF ServerStarts, TypeOK
  <1>c. CASE ServerRestarts
    <2>1. PICK forgotten \in SUBSET {s \in Simus : simu_state[s] = 2} :
            simu_state' = [s \in Simus |->
                IF s \in forgotten \/ simu_state[s] = 1 THEN 0 ELSE simu_state[s]]
      BY <1>c DEF ServerRestarts
    <2>2. simu_state' \in [Simus -> 0 .. 3]
      BY <2>1 DEF TypeOK
    <2>3. inbox' \in Seq(Message)
      BY <1>c, <2>2, StatesAreMessages
    <2>4. counted' \subseteq Simus
      BY <1>c DEF ServerRestarts
    <2>5. server' = "up" /\ UNCHANGED <<mainVars, serverObj, groupVars, close_at, jobVars, drops, faults>>
      BY <1>c DEF ServerRestarts
    <2>6. QED
      BY <2>2, <2>3, <2>4, <2>5 DEF TypeOK
  <1>2. CASE SendStop
    <2>1. <<"stop">> \in Message
      BY DEF Message
    <2>2. inbox' \in Seq(Message)
      BY <1>2, <2>1, <1>0, OthersArrive DEF SendStop
    <2>3. QED
      BY <1>2, <2>2 DEF SendStop, TypeOK
  <1>3. CASE ServerCrash
    <2>1. PICK hung \in SUBSET {g \in Groups : job[g] = "running"} :
            job' = [g \in Groups |-> IF g \in hung THEN "hung"
                                     ELSE IF job[g] = "sent" THEN "over" ELSE job[g]]
      BY <1>3 DEF ServerCrash
    <2>2. job' \in [Groups -> {"none", "pending", "running", "hung", "sent", "over"}]
      BY <2>1 DEF TypeOK
    <2>5. drops' \subseteq Simus /\ stray' \in [Groups -> BOOLEAN]
      BY <1>3 DEF ServerCrash
    <2>6. faults' \in [{"job_crash", "timeout", "server_crash"} -> Nat]
      BY <1>3 DEF ServerCrash, TypeOK
    <2>7. server' = "dead" /\ UNCHANGED <<mainVars, serverObj, groupVars, messengerVars,
                                          simu_state, counted>>
      BY <1>3 DEF ServerCrash
    <2>8. QED
      BY <2>2, <2>5, <2>6, <2>7 DEF TypeOK
  <1>4. ASSUME NEW s \in Simus, Receive(s) PROVE TypeOK'
    <2>1. PICK new \in 1 .. 2 :
            /\ simu_state' = [simu_state EXCEPT ![s] = new]
            /\ counted' = IF new = 2 THEN counted \cup {s} ELSE counted
            /\ inbox' = Append(inbox, <<"group_state", s, new>>)
      BY <1>4, ReceiveMessages
    <2>2. <<"group_state", s, new>> \in Message
      BY DEF Message
    <2>3. inbox' \in Seq(Message)
      BY <2>1, <2>2, <1>0
    <2>4. simu_state' \in [Simus -> 0 .. 3] /\ counted' \subseteq Simus
      BY <2>1 DEF TypeOK
    <2>5. QED
      BY <1>4, <2>3, <2>4 DEF Receive, TypeOK
  <1>5. ASSUME NEW s \in Simus, SendTimeout(s) PROVE TypeOK'
    <2>1. PICK id \in Beyond :
            inbox' = Append(inbox, Read(Msg!message_timeout(IdOf(s)), id))
      BY <1>5 DEF SendTimeout
    <2>2. inbox' \in Seq(Message)
      BY <2>1, TimeoutArrives, <1>0 DEF Message
    <2>3. /\ simu_state' \in [Simus -> 0 .. 3]
          /\ faults' \in [{"job_crash", "timeout", "server_crash"} -> Nat]
      BY <1>5 DEF SendTimeout, TypeOK
    <2>4. QED
      BY <1>5, <2>2, <2>3 DEF SendTimeout, TypeOK
  <1>6. ASSUME NEW s \in Simus, HandleDrop(s) PROVE TypeOK'
    BY <1>6 DEF HandleDrop, TypeOK
  <1>7. QED
    BY <1>1, <1>c, <1>2, <1>3, <1>4, <1>5, <1>6 DEF Server

LEMMA TypesOfStep == TypeOK /\ Positions /\ [Next]_vars => TypeOK'
  <1> SUFFICES ASSUME TypeOK, Positions, [Next]_vars PROVE TypeOK'
    OBVIOUS
  <1> USE LauncherAssumption
      DEF mainVars, serverObj, groupVars, messengerVars, jobVars, serverVars
  <1>0. {PENDING, RUNNING, FINISHED} \subseteq JobStatus /\ FINISHED \in GroupStatus
    BY DEF JobStatus, GroupStatus
  <1>1. CASE Messenger
    <2>1. Head(inbox) \in Message /\ Tail(inbox) \in Seq(Message)
      BY <1>1 DEF Messenger, TypeOK
    <2>2. QED
      BY <1>1, <2>1, TypesOfMessage DEF Messenger, TypeOK
  <1>2. CASE CloseGroup
    <2>1. close_at \in Groups /\ close_at + 1 \in 0 .. NbGroups
      BY <1>2 DEF CloseGroup, TypeOK, Groups
    <2>2. group_status' \in [Groups -> GroupStatus]
      BY <1>2, <1>0 DEF CloseGroup, TypeOK
    <2>3. QED
      BY <1>2, <2>1, <2>2 DEF CloseGroup, TypeOK
  <1>3. CASE CheckServer
    BY <1>3, <1>0 DEF CheckServer, ServerState, TypeOK
  <1>4. ASSUME NEW g \in Groups, CheckGroup(g) PROVE TypeOK'
    <2>1. JobState(g) \in JobStatus
      BY <1>0 DEF JobState
    <2>2. job_status' \in [Groups -> JobStatus]
      BY <1>4, <2>1 DEF CheckGroup, TypeOK
    <2>3. QED
      BY <1>4, <2>2 DEF CheckGroup, TypeOK
  <1>5. ASSUME NEW g \in Groups, JobStarts(g) \/ JobEnds(g) \/ StrayEnds(g) \/ JobCrash(g)
        PROVE  TypeOK'
    <2>1. /\ job' \in [Groups -> {"none", "pending", "running", "hung", "sent", "over"}]
          /\ stray' \in [Groups -> BOOLEAN]
      BY <1>5 DEF JobStarts, JobEnds, StrayEnds, JobCrash, TypeOK
    <2>2. faults' \in [{"job_crash", "timeout", "server_crash"} -> Nat]
      BY <1>5 DEF JobStarts, JobEnds, StrayEnds, JobCrash, TypeOK
    <2>3. UNCHANGED <<mainVars, serverObj, groupVars, messengerVars, serverVars>>
      BY <1>5 DEF JobStarts, JobEnds, StrayEnds, JobCrash
    <2>4. QED
      BY <2>1, <2>2, <2>3 DEF TypeOK
  <1>6. CASE UNCHANGED vars
    BY <1>6 DEF vars, TypeOK
  <1>7. QED
    BY <1>1, <1>2, <1>3, <1>4, <1>5, <1>6, TypesOfMain, TypesOfServer DEF Next

\* The variables of the launcher keep their types, for any number of groups, of
\* simulations and of faults.
THEOREM LauncherTypes == Spec => []TypeOK
  <1>1. Init => TypeOK /\ Positions
    BY TypesOfInit, PositionsOfInit
  <1>2. TypeOK /\ Positions /\ [Next]_vars => TypeOK' /\ Positions'
    BY TypesOfStep, PositionsOfStep
  <1>3. QED
    BY <1>1, <1>2, PTL DEF Spec

-----------------------------------------------------------------------------
(* What the launcher knows of the server.                                    *)

\* What the main thread knows of the server is late, never wrong: a server whose
\* job it takes for ended, and for which it cancels the groups, is dead or done.
ServerSeen ==
    /\ pc \notin {"wait_start", "wait_restart"} => server_status # WAITING
    /\ server_job_status = FINISHED
          => server \in {"dead", "done"} \/ pc \in {"stopped", "failed"}
    /\ pc \in {"cancel", "reboot"} => server \in {"dead", "done"}

LEMMA ServerSeenInit == Init => ServerSeen
  BY DEF Init, ServerSeen, WAITING, PENDING, FINISHED

\* fault_tolerance takes a server for lost only when its job has ended, whether it
\* slept before the second look or not.
LEMMA LostIsOver ==
    ASSUME TypeOK, ServerSeen, pc = "ft_lost", ServerLost
    PROVE  server \in {"dead", "done"}
  <1>1. server_status = RUNNING
    BY DEF ServerLost, ServerSeen, TypeOK
  <1>2. server_job_status = FINISHED
    BY <1>1 DEF ServerLost, TypeOK, JobStatus, RUNNING, FINISHED, PENDING, NOT_SUBMITTED
  <1>3. QED
    BY <1>2 DEF ServerSeen

\* The steps of the main thread that do not touch the server.
LEMMA MainLeavesServer ==
    ASSUME Main, ~Reboot
    PROVE  UNCHANGED <<server, inbox, close_at, counted, simu_state, want_stop>>
  BY DEF Main, WaitStart, SchedulerBusy, LaunchJob, Launched, Loop, FirstLook, SleepForServer,
     ReadWantStop, FtServer, CancelGroup, GroupsCancelled, Restarting, MarkWaiting, Regroup,
     RegroupLock, CheckCrashed, RestartCrashed, CheckTimeouts, FtReturns, Stop, serverObj,
     serverVars, messengerVars

LEMMA ServerSeenByMain ==
    ASSUME TypeOK, ServerSeen, Main
    PROVE  ServerSeen'
  <1> USE DEF ServerSeen, serverObj, serverVars, Stop, WAITING, PENDING, RUNNING, FINISHED
  <1>1. CASE WaitStart BY <1>1 DEF WaitStart, TypeOK
  <1>2. CASE SchedulerBusy BY <1>2 DEF SchedulerBusy
  <1>3. CASE LaunchJob BY <1>3 DEF LaunchJob
  <1>4. CASE Launched BY <1>4 DEF Launched
  <1>5. CASE Loop BY <1>5 DEF Loop
  <1>6. CASE FirstLook \/ SleepForServer \/ ReadWantStop
    BY <1>6 DEF FirstLook, SleepForServer, ReadWantStop
  <1>7. CASE FtServer
    <2>1. ServerLost => server \in {"dead", "done"}
      BY <1>7, LostIsOver DEF FtServer
    <2>2. QED
      BY <1>7, <2>1 DEF FtServer
  <1>8. CASE CancelGroup \/ GroupsCancelled
    BY <1>8 DEF CancelGroup, GroupsCancelled
  <1>9. CASE Reboot
    <2>1. server_status' = server_status /\ server_status # WAITING
      BY <1>9 DEF Reboot
    <2>2. \/ server_job_status' = PENDING /\ pc' = "restarting"
          \/ pc' = "failed"
      BY <1>9 DEF Reboot
    <2>3. QED
      BY <2>1, <2>2
  <1>10. CASE Restarting \/ MarkWaiting BY <1>10 DEF Restarting, MarkWaiting
  <1>11. CASE Regroup BY <1>11 DEF Regroup
  <1>12. CASE RegroupLock BY <1>12 DEF RegroupLock
  <1>13. CASE CheckCrashed BY <1>13 DEF CheckCrashed
  <1>14. CASE RestartCrashed BY <1>14 DEF RestartCrashed
  <1>15. CASE CheckTimeouts BY <1>15 DEF CheckTimeouts
  <1>16. CASE FtReturns
    <2>1. pc' \in {"load", "loop"}
      BY <1>16 DEF FtReturns, TypeOK
    <2>2. QED
      BY <1>16, <2>1 DEF FtReturns
  <1>17. QED
    BY <1>1, <1>2, <1>3, <1>4, <1>5, <1>6, <1>7, <1>8, <1>9, <1>10, <1>11, <1>12, <1>13,
       <1>14, <1>15, <1>16
    DEF Main

LEMMA ServerSeenByStep ==
    ASSUME TypeOK, ServerSeen, [Next]_vars
    PROVE  ServerSeen'
  <1> USE DEF ServerSeen, mainVars, serverObj
  <1>1. CASE Messenger
    <2>1. /\ inbox # <<>> /\ HandleMessage(Head(inbox))
          /\ UNCHANGED <<pc, server>>
      BY <1>1 DEF Messenger, serverVars
    <2>2. \/ UNCHANGED serverObj
          \/ server_status' = RUNNING /\ server_job_status' = RUNNING
          \/ server_status' = FINISHED /\ UNCHANGED server_job_status
      BY <2>1 DEF HandleMessage
    <2>3. QED
      BY <2>1, <2>2 DEF WAITING, RUNNING, FINISHED
  <1>2. ASSUME \/ CloseGroup
               \/ \E g \in Groups : CheckGroup(g) \/ JobStarts(g) \/ JobEnds(g)
                                    \/ StrayEnds(g) \/ JobCrash(g)
               \/ UNCHANGED vars
        PROVE  ServerSeen'
    <2>1. UNCHANGED <<pc, serverObj, server>>
      BY <1>2 DEF CloseGroup, CheckGroup, JobStarts, JobEnds, StrayEnds, JobCrash, vars,
         serverVars
    <2>2. QED
      BY <2>1
  <1>3. CASE CheckServer
    <2>1. server_job_status' = FINISHED => server \in {"dead", "done"}
      BY <1>3 DEF CheckServer, ServerState, PENDING, RUNNING, FINISHED, TypeOK
    <2>2. QED
      BY <1>3, <2>1 DEF CheckServer, serverVars
  <1>4. CASE Server
    <2>1. UNCHANGED <<pc, serverObj>>
      BY <1>4 DEF Server, ServerStarts, ServerRestarts, SendStop, ServerCrash, Receive,
         SendTimeout, HandleDrop
    <2>2. server' = server \/ server \notin {"dead", "done"}
      BY <1>4 DEF Server, ServerStarts, ServerRestarts, SendStop, ServerCrash, Receive,
         SendTimeout, HandleDrop
    <2>3. QED
      BY <2>1, <2>2
  <1>5. QED
    BY <1>1, <1>2, <1>3, <1>4, ServerSeenByMain DEF Next

SeenInv == TypeOK /\ Positions /\ ServerSeen

LEMMA SeenAlways == Spec => []SeenInv
  <1>1. Init => SeenInv
    BY TypesOfInit, PositionsOfInit, ServerSeenInit DEF SeenInv
  <1>2. SeenInv /\ [Next]_vars => SeenInv'
    BY TypesOfStep, PositionsOfStep, ServerSeenByStep DEF SeenInv
  <1>3. QED
    BY <1>1, <1>2, PTL DEF Spec

LEMMA StepsOfServer ==
    ASSUME SeenInv, [Next]_vars
    PROVE  /\ server' = "again" => server \in {"dead", "done"} \/ server' = server
           /\ server \in {"dead", "done"} => server' \in {server, "again"}
  <1>1. CASE Reboot
    BY <1>1 DEF Reboot, SeenInv, ServerSeen
  <1>2. CASE Server
    BY <1>2 DEF Server, ServerStarts, ServerRestarts, SendStop, ServerCrash, Receive,
       SendTimeout, HandleDrop
  <1>3. CASE ~Reboot /\ ~Server
    <2>1. CASE Main
      BY <1>3, <2>1, MainLeavesServer
    <2>2. CASE ~Main
      BY <1>3, <2>2 DEF Next, Messenger, CloseGroup, CheckServer, CheckGroup, JobStarts, JobEnds,
         StrayEnds, JobCrash, vars, serverVars
    <2>3. QED
      BY <2>1, <2>2
  <1>4. QED
    BY <1>1, <1>2, <1>3

\* A server is submitted again only when the one before has ended: no second server
\* is started beside one that runs or waits to be run. It rests on what the state
\* checker saw, not on the time between the two looks of fault_tolerance, on the
\* messages read between them or on how cancel() ends (study.py 840-863).
THEOREM NoTwoServers == Spec => NoSecondServer
  <1>1. SeenInv /\ [Next]_vars
            => [server' = "again" => server \in {"dead", "done"}]_server
    BY StepsOfServer
  <1>2. QED
    BY <1>1, SeenAlways, PTL DEF Spec, NoSecondServer

LEMMA AbortsByStep ==
    ASSUME Sobol, SeenInv, AbortMeansNoServer, [Next]_vars
    PROVE  AbortMeansNoServer'
  <1> USE DEF AbortMeansNoServer
  <1>1. CASE CancelGroup
    BY <1>1 DEF CancelGroup, SeenInv, ServerSeen, serverVars
  <1>2. CASE Reboot
    BY <1>2 DEF Reboot, SeenInv, ServerSeen
  <1>3. CASE Server
    <2>1. UNCHANGED pc /\ (server \notin {"dead", "done"} \/ UNCHANGED server)
      BY <1>3 DEF Server, ServerStarts, ServerRestarts, SendStop, ServerCrash, Receive,
         SendTimeout, HandleDrop, mainVars
    <2>2. QED
      BY <2>1
  <1>4. CASE Main /\ ~CancelGroup /\ ~Reboot
    <2>1. server' = server
      BY <1>4, MainLeavesServer
    <2>2. pc' \notin {"failed", "crashed"}
      BY <1>4
      DEF Main, WaitStart, SchedulerBusy, LaunchJob, Launched, Loop, FirstLook, SleepForServer,
          ReadWantStop, FtServer, GroupsCancelled, Restarting, MarkWaiting, Regroup,
          RegroupLock, RestartRaises, CheckCrashed, RestartCrashed, CheckTimeouts, FtReturns,
          Stop, SeenInv, TypeOK
    <2>3. QED
      BY <2>1, <2>2
  <1>5. CASE ~Main /\ ~Server
    <2>1. UNCHANGED <<pc, server>>
      BY <1>5
      DEF Next, Messenger, CloseGroup, CheckServer, CheckGroup, JobStarts, JobEnds,
          StrayEnds, JobCrash, vars, serverVars, mainVars
    <2>2. QED
      BY <2>1
  <1>6. QED
    BY <1>1, <1>2, <1>3, <1>4, <1>5

\* A study of Sobol' groups is given up, or its main thread dies, only when its
\* server has ended: not for a crashed job, a late simulation, a report that is
\* overtaken or a drop (study.py 853-947, simulation.py 558-562). The server may be
\* one that is done and whose stop message waits: the two looks allow it.
THEOREM NothingAborts ==
    ASSUME Sobol
    PROVE  Spec => []AbortMeansNoServer
  <1>1. Init => AbortMeansNoServer
    BY DEF Init, AbortMeansNoServer
  <1>2. SeenInv /\ AbortMeansNoServer /\ [Next]_vars => AbortMeansNoServer'
    BY AbortsByStep
  <1>3. QED
    BY <1>1, <1>2, SeenAlways, PTL DEF Spec

-----------------------------------------------------------------------------
(* The end of a study whose cancel function is a function, as documented.     *)

StopOnItsWay == \E k \in 1 .. Len(inbox) : inbox[k] = <<"stop">>

\* No server is started a second time, so a stop message is that of a server that
\* is done.
StopKnown ==
    /\ server # "again"
    /\ pc \notin {"restarting", "mark", "wait_restart", "regroup", "regroup_lock"}
    /\ server = "done" => counted = Simus
    /\ server_status = FINISHED => want_stop
    /\ want_stop \/ StopOnItsWay => server = "done"
    /\ pc = "stopped" => want_stop

LEMMA StopKnownInit == Init => StopKnown
  BY DEF Init, StopKnown, StopOnItsWay, WAITING, FINISHED

LEMMA StopInAppend ==
    ASSUME TypeOK, NEW m \in Message, inbox' = Append(inbox, m)
    PROVE  StopOnItsWay' <=> StopOnItsWay \/ m = <<"stop">>
  <1>1. inbox \in Seq(Message) /\ Len(inbox) \in Nat
    BY DEF TypeOK
  <1>2. Len(inbox') = Len(inbox) + 1 /\ inbox'[Len(inbox) + 1] = m
    BY <1>1
  <1>3. \A k \in 1 .. Len(inbox) : inbox'[k] = inbox[k]
    BY <1>1
  <1>4. StopOnItsWay => StopOnItsWay'
    BY <1>1, <1>2, <1>3 DEF StopOnItsWay
  <1>5. m = <<"stop">> => StopOnItsWay'
    <2>1. Len(inbox) + 1 \in 1 .. Len(inbox')
      BY <1>1, <1>2
    <2>2. QED
      BY <1>2, <2>1 DEF StopOnItsWay
  <1>6. ASSUME NEW k \in 1 .. Len(inbox'), inbox'[k] = <<"stop">>, m # <<"stop">>
        PROVE  StopOnItsWay
    <2>1. k # Len(inbox) + 1
      BY <1>2, <1>6, Zenon
    <2>2. k \in 1 .. Len(inbox)
      BY <1>1, <1>2, <2>1
    <2>3. QED
      BY <1>3, <1>6, <2>2 DEF StopOnItsWay
  <1>7. QED
    BY <1>4, <1>5, <1>6 DEF StopOnItsWay

LEMMA StopInTail ==
    ASSUME TypeOK, inbox # <<>>, inbox' = Tail(inbox)
    PROVE  StopOnItsWay <=> StopOnItsWay' \/ Head(inbox) = <<"stop">>
  <1>1. inbox \in Seq(Message) /\ Len(inbox) \in Nat /\ Len(inbox) > 0
    BY DEF TypeOK
  <1>2. Len(inbox') = Len(inbox) - 1 /\ Head(inbox) = inbox[1]
    BY <1>1
  <1>3. \A k \in 1 .. Len(inbox) - 1 : inbox'[k] = inbox[k + 1]
    BY <1>1
  <1>4. ASSUME NEW k \in 1 .. Len(inbox), k # 1, inbox[k] = <<"stop">> PROVE StopOnItsWay'
    <2>1. k - 1 \in 1 .. Len(inbox) - 1 /\ inbox'[k - 1] = inbox[k]
      BY <1>1, <1>3, <1>4
    <2>2. QED
      BY <1>2, <1>4, <2>1 DEF StopOnItsWay
  <1>5. QED
    BY <1>1, <1>2, <1>3, <1>4 DEF StopOnItsWay

LEMMA StopKnownByMain ==
    ASSUME FALSE \notin CancelRaises, TypeOK, StopKnown, Main
    PROVE  StopKnown'
  <1> USE DEF StopKnown, Stop, serverObj, FINISHED
  <1>1. CASE Reboot
    <2>1. Stop("failed") /\ UNCHANGED <<server, inbox, counted>>
      BY <1>1 DEF Reboot, messengerVars
    <2>2. StopOnItsWay' <=> StopOnItsWay
      BY <2>1 DEF StopOnItsWay
    <2>3. QED
      BY <2>1, <2>2
  <1>2. CASE ~Reboot
    <2>1. UNCHANGED <<server, inbox, counted, want_stop>>
      BY <1>2, MainLeavesServer
    <2>2. StopOnItsWay' <=> StopOnItsWay
      BY <2>1 DEF StopOnItsWay
    <2>3. /\ server_status' = server_status
          /\ pc' \notin {"restarting", "mark", "wait_restart", "regroup", "regroup_lock"}
      BY <1>2
      DEF Main, WaitStart, SchedulerBusy, LaunchJob, Launched, Loop, FirstLook, SleepForServer,
          ReadWantStop, FtServer, CancelGroup, GroupsCancelled, Restarting, MarkWaiting, Regroup,
          RegroupLock, CheckCrashed, RestartCrashed, CheckTimeouts, FtReturns, TypeOK
    <2>4. pc' = "stopped" => want_stop
      BY <1>2
      DEF Main, WaitStart, SchedulerBusy, LaunchJob, Launched, Loop, StudyOver, FirstLook,
          SleepForServer, ReadWantStop, FtServer, CancelGroup, GroupsCancelled, Restarting,
          MarkWaiting, Regroup, RegroupLock, CheckCrashed, RestartCrashed, CheckTimeouts,
          FtReturns, TypeOK
    <2>5. QED
      BY <2>1, <2>2, <2>3, <2>4
  <1>3. QED
    BY <1>1, <1>2

LEMMA StopKnownByServer ==
    ASSUME TypeOK, StopKnown, Server
    PROVE  StopKnown'
  <1> USE DEF StopKnown, serverObj, serverVars, messengerVars, mainVars
  <1>1. CASE ServerStarts
    <2>1. <<"server", 0, "node">> \in Message /\ <<"server", 0, "node">> # <<"stop">>
      BY DEF Message
    <2>2. StopOnItsWay' <=> StopOnItsWay
      BY <1>1, <2>1, StopInAppend, OthersArrive DEF ServerStarts
    <2>3. QED
      BY <1>1, <2>2 DEF ServerStarts
  <1>2. CASE ServerRestarts
    BY <1>2 DEF ServerRestarts
  <1>3. CASE SendStop
    BY <1>3 DEF SendStop
  <1>4. CASE ServerCrash
    <2>1. StopOnItsWay' <=> StopOnItsWay
      BY <1>4 DEF ServerCrash, StopOnItsWay
    <2>2. server = "up" /\ server' = "dead" /\ UNCHANGED <<mainVars, serverObj, messengerVars>>
      BY <1>4 DEF ServerCrash
    <2>3. QED
      BY <2>1, <2>2
  <1>5. ASSUME NEW s \in Simus, Receive(s) PROVE StopKnown'
    <2>1. PICK new \in 1 .. 2 : inbox' = Append(inbox, <<"group_state", s, new>>)
      BY <1>5, ReceiveMessages
    <2>2. <<"group_state", s, new>> \in Message /\ <<"group_state", s, new>> # <<"stop">>
      BY DEF Message
    <2>3. StopOnItsWay' <=> StopOnItsWay
      BY <2>1, <2>2, StopInAppend
    <2>4. server = "up" /\ UNCHANGED <<mainVars, serverObj, server>>
      BY <1>5 DEF Receive
    <2>5. QED
      BY <2>3, <2>4
  <1>6. ASSUME NEW s \in Simus, SendTimeout(s) PROVE StopKnown'
    <2>1. PICK id \in Beyond :
            inbox' = Append(inbox, Read(Msg!message_timeout(IdOf(s)), id))
      BY <1>6 DEF SendTimeout
    <2>2. StopOnItsWay' <=> StopOnItsWay
      <3>1. PICK m \in Message : m[1] = "timeout" /\ inbox' = Append(inbox, m)
        BY <2>1, TimeoutArrives DEF Message
      <3>2. QED
        BY <3>1, StopInAppend
    <2>3. QED
      BY <1>6, <2>2 DEF SendTimeout
  <1>7. ASSUME NEW s \in Simus, HandleDrop(s) PROVE StopKnown'
    <2>1. StopOnItsWay' <=> StopOnItsWay
      BY <1>7 DEF HandleDrop, StopOnItsWay
    <2>2. QED
      BY <1>7, <2>1 DEF HandleDrop
  <1>8. QED
    BY <1>1, <1>2, <1>3, <1>4, <1>5, <1>6, <1>7 DEF Server

LEMMA StopKnownByStep ==
    ASSUME FALSE \notin CancelRaises, TypeOK, StopKnown, [Next]_vars
    PROVE  StopKnown'
  <1> USE DEF StopKnown, mainVars, serverObj, serverVars, messengerVars
  <1>1. CASE Messenger
    <2>1. /\ inbox # <<>> /\ HandleMessage(Head(inbox)) /\ inbox' = Tail(inbox)
          /\ UNCHANGED <<pc, server, counted>>
      BY <1>1 DEF Messenger
    <2>2. StopOnItsWay <=> StopOnItsWay' \/ Head(inbox) = <<"stop">>
      BY <2>1, StopInTail
    <2>3. Head(inbox) \in Message
      BY <2>1 DEF TypeOK
    <2>4. CASE Head(inbox) = <<"stop">>
      <3>1. want_stop' = TRUE
        BY <2>1, <2>4 DEF HandleMessage
      <3>2. QED
        BY <2>1, <2>2, <2>4, <3>1
    <2>5. CASE Head(inbox) # <<"stop">>
      <3>1. Head(inbox)[1] # "stop"
        BY <2>3, <2>5 DEF Message
      <3>2. want_stop' = want_stop /\ server_status' \in {server_status, RUNNING}
        BY <2>1, <3>1 DEF HandleMessage
      <3>3. QED
        BY <2>1, <2>2, <2>5, <3>2 DEF RUNNING, FINISHED
    <2>6. QED
      BY <2>4, <2>5
  <1>2. ASSUME \/ CloseGroup \/ CheckServer
               \/ \E g \in Groups : CheckGroup(g) \/ JobStarts(g) \/ JobEnds(g)
                                    \/ StrayEnds(g) \/ JobCrash(g)
               \/ UNCHANGED vars
        PROVE  StopKnown'
    <2>1. UNCHANGED <<pc, server_status, want_stop, inbox, server, counted>>
      BY <1>2 DEF CloseGroup, CheckServer, CheckGroup, JobStarts, JobEnds, StrayEnds, JobCrash,
         vars
    <2>2. StopOnItsWay' <=> StopOnItsWay
      BY <2>1 DEF StopOnItsWay
    <2>3. QED
      BY <2>1, <2>2
  <1>3. QED
    BY <1>1, <1>2, StopKnownByMain, StopKnownByServer DEF Next

KnownInv == TypeOK /\ Positions /\ StopKnown

\* The study stops only when the server has counted every simulation, whatever
\* crashes before (the jobs, late simulations, the server), whenever the messages
\* are read and whatever main sees at its two looks (study.py 131-148, 567 and
\* 840-858), when cancel() returns what asyncio cannot await, as in the documentation.
THEOREM StopsWhenCounted ==
    ASSUME FALSE \notin CancelRaises
    PROVE  Spec => []StopMeansCounted
  <1>1. Init => KnownInv
    BY TypesOfInit, PositionsOfInit, StopKnownInit DEF KnownInv
  <1>2. KnownInv /\ [Next]_vars => KnownInv'
    BY TypesOfStep, PositionsOfStep, StopKnownByStep DEF KnownInv
  <1>3. KnownInv => StopMeansCounted
    BY DEF KnownInv, StopKnown, StopMeansCounted
  <1>4. QED
    BY <1>1, <1>2, <1>3, PTL DEF Spec

-----------------------------------------------------------------------------
(* Reports on Sobol' groups.                                                 *)

\* A job reports after its submission, a timeout reaches its group, and the server
\* is not started again.
InOrder ==
    /\ Sobol /\ FALSE \notin CancelRaises
    /\ "early_report" \notin Faults
    /\ "timeout" \notin Faults \/ NbGroups = 1

\* message m is about group g
On(m, g) == m[1] \in {"timeout", "group_state"} /\ m[2][1] = g
NoneOn(g) == \A k \in 1 .. Len(inbox) : ~On(inbox[k], g)

\* A finished simulation: the last message on its group reports it, or the group
\* is finished and there is no message on it.
LastIsReport(g) ==
    \/ \E k \in 1 .. Len(inbox) :
          /\ inbox[k] = <<"group_state", <<g, 0>>, 2>>
          /\ \A l \in k + 1 .. Len(inbox) : ~On(inbox[l], g)
    \/ group_status[g] = FINISHED /\ NoneOn(g)

\* A group that was not submitted has no job and sends nothing.
NotSubmitted(g) ==
    /\ ~stray[g]
    /\ job[g] = "none" \/ (pc = "launched" /\ g = next)
    /\ simu_state[<<g, 0>>] \in {0, 3}
    /\ group_status[g] \in {NOT_SUBMITTED, FINISHED}
    /\ NoneOn(g)

\* Only groups that were submitted are restarted.
Calm == pc \in {"slept", "timeouts"} => at < next
Unsubmitted == \A g \in Groups : g >= next => NotSubmitted(g)
Reported == \A g \in Groups : simu_state[<<g, 0>>] = 2 => LastIsReport(g)

ReportInv == KnownInv /\ Calm /\ Unsubmitted /\ Reported

LEMMA OneMember ==
    ASSUME InOrder
    PROVE  Members = {0} /\ \A s \in Simus : s[1] \in Groups /\ s = <<s[1], 0>>
  <1>1. Members = {0}
    BY LauncherAssumption DEF InOrder, Members
  <1>2. QED
    BY <1>1 DEF Simus

LEMMA AppendAbout ==
    ASSUME TypeOK, NEW m \in Message, inbox' = Append(inbox, m), NEW g \in Groups,
           ~On(m, g), group_status' = group_status
    PROVE  /\ NoneOn(g) => NoneOn(g)'
           /\ LastIsReport(g) => LastIsReport(g)'
  <1>1. inbox \in Seq(Message) /\ Len(inbox) \in Nat /\ Len(inbox') = Len(inbox) + 1
    BY DEF TypeOK
  <1>2. \A k \in 1 .. Len(inbox) : inbox'[k] = inbox[k]
    BY <1>1
  <1>3. inbox'[Len(inbox) + 1] = m
    BY <1>1
  <1>4. ASSUME NEW l \in 1 .. Len(inbox'), l \notin 1 .. Len(inbox)
        PROVE  ~On(inbox'[l], g)
    <2>1. l = Len(inbox) + 1
      BY <1>1, <1>4
    <2>2. QED
      BY <1>3, <2>1
  <1>5. ASSUME NoneOn(g) PROVE NoneOn(g)'
    <2>1. ASSUME NEW l \in 1 .. Len(inbox') PROVE ~On(inbox'[l], g)
      <3>1. CASE l \in 1 .. Len(inbox)
        <4>1. ~On(inbox[l], g) /\ inbox'[l] = inbox[l]
          BY <1>2, <1>5, <3>1 DEF NoneOn
        <4>2. QED
          BY <4>1
      <3>2. QED
        BY <1>4, <3>1
    <2>2. QED
      BY <2>1 DEF NoneOn, On
  <1>6. ASSUME NEW k \in 1 .. Len(inbox), inbox[k] = <<"group_state", <<g, 0>>, 2>>,
               \A l \in k + 1 .. Len(inbox) : ~On(inbox[l], g)
        PROVE  LastIsReport(g)'
    <2>1. k \in 1 .. Len(inbox') /\ inbox'[k] = <<"group_state", <<g, 0>>, 2>>
      BY <1>1, <1>2, <1>6
    <2>2. ASSUME NEW l \in k + 1 .. Len(inbox') PROVE ~On(inbox'[l], g)
      <3>1. CASE l \in 1 .. Len(inbox)
        <4>1. l \in k + 1 .. Len(inbox)
          BY <1>1, <2>2, <3>1
        <4>2. ~On(inbox[l], g) /\ inbox'[l] = inbox[l]
          BY <1>2, <1>6, <3>1, <4>1
        <4>3. QED
          BY <4>2
      <3>2. l \in 1 .. Len(inbox')
        BY <1>1, <2>2
      <3>3. QED
        BY <1>4, <3>1, <3>2
    <2>3. QED
      BY <2>1, <2>2 DEF LastIsReport, On
  <1>7. QED
    BY <1>5, <1>6 DEF LastIsReport

LEMMA AppendReport ==
    ASSUME TypeOK, NEW g \in Groups, <<"group_state", <<g, 0>>, 2>> \in Message,
           inbox' = Append(inbox, <<"group_state", <<g, 0>>, 2>>)
    PROVE  LastIsReport(g)'
  <1>1. /\ inbox \in Seq(Message) /\ Len(inbox) \in Nat /\ Len(inbox') = Len(inbox) + 1
        /\ inbox'[Len(inbox) + 1] = <<"group_state", <<g, 0>>, 2>>
    BY DEF TypeOK
  <1>2. Len(inbox') \in 1 .. Len(inbox') /\ inbox'[Len(inbox')] = <<"group_state", <<g, 0>>, 2>>
    BY <1>1
  <1>3. Len(inbox') + 1 .. Len(inbox') = {}
    BY <1>1
  <1>4. QED
    BY <1>2, <1>3 DEF LastIsReport

\* nothing is read: what is finished stays so
LEMMA SameInbox ==
    ASSUME inbox' = inbox, NEW g \in Groups,
           group_status[g] = FINISHED => group_status'[g] = FINISHED
    PROVE  /\ NoneOn(g) => NoneOn(g)'
           /\ LastIsReport(g) => LastIsReport(g)'
  <1>1. NoneOn(g) => NoneOn(g)'
    BY DEF NoneOn, On
  <1>2. QED
    BY <1>1 DEF LastIsReport, On

LEMMA MessageRead ==
    ASSUME InOrder, TypeOK, Messenger, NEW g \in Groups
    PROVE  /\ NoneOn(g) => NoneOn(g)' /\ group_status'[g] = group_status[g]
           /\ LastIsReport(g) => LastIsReport(g)'
  <1>1. /\ inbox \in Seq(Message) /\ Len(inbox) \in Nat /\ Len(inbox) > 0
        /\ inbox # <<>> /\ inbox' = Tail(inbox)
    BY DEF TypeOK, Messenger
  <1> DEFINE m == inbox[1]
  <1>2. /\ Len(inbox') = Len(inbox) - 1
        /\ \A k \in 1 .. Len(inbox) - 1 : inbox'[k] = inbox[k + 1]
        /\ Head(inbox) = m /\ m \in Message
    BY <1>1
  <1> HIDE DEF m
  <1>3. HandleMessage(m)
    BY <1>2 DEF Messenger
  <1>4. ASSUME ~On(m, g) PROVE group_status'[g] = group_status[g]
    <2>1. CASE m[1] \in {"server", "stop"}
      BY <1>3, <2>1 DEF HandleMessage, groupVars
    <2>2. CASE m[1] \in {"timeout", "group_state"}
      BY <1>3, <1>4, <2>2 DEF HandleMessage, On, TypeOK
    <2>3. QED
      BY <1>3, <2>1, <2>2 DEF HandleMessage
  <1>5. ASSUME \A k \in 2 .. Len(inbox) : ~On(inbox[k], g) PROVE NoneOn(g)'
    <2>1. ASSUME NEW k \in 1 .. Len(inbox') PROVE ~On(inbox'[k], g)
      <3>1. k + 1 \in 2 .. Len(inbox) /\ inbox'[k] = inbox[k + 1]
        BY <1>1, <1>2
      <3>2. QED
        BY <1>5, <3>1
    <2>2. QED
      BY <2>1 DEF NoneOn, On
  <1>6. ASSUME NoneOn(g) PROVE NoneOn(g)' /\ group_status'[g] = group_status[g]
    <2>1. ~On(m, g)
      BY <1>1, <1>6 DEF NoneOn, m
    <2>2. \A k \in 2 .. Len(inbox) : ~On(inbox[k], g)
      BY <1>6 DEF NoneOn
    <2>3. QED
      BY <1>4, <1>5, <2>1, <2>2
  <1>7. ASSUME NEW k \in 1 .. Len(inbox), inbox[k] = <<"group_state", <<g, 0>>, 2>>,
               \A l \in k + 1 .. Len(inbox) : ~On(inbox[l], g)
        PROVE  LastIsReport(g)'
    <2>1. CASE k = 1
      <3>1. m = <<"group_state", <<g, 0>>, 2>>
        BY <1>7, <2>1 DEF m
      <3>2. group_status' = [group_status EXCEPT ![g] = AfterReport(g, 0, 2)]
        BY <1>3, <3>1 DEF HandleMessage
      <3>3. group_status'[g] = FINISHED
        BY <3>2 DEF AfterReport, InOrder, FINISHED, TypeOK
      <3>4. NoneOn(g)'
        BY <1>5, <1>7, <2>1
      <3>5. QED
        BY <3>3, <3>4 DEF LastIsReport
    <2>2. CASE k # 1
      <3>1. k - 1 \in 1 .. Len(inbox') /\ inbox'[k - 1] = <<"group_state", <<g, 0>>, 2>>
        BY <1>1, <1>2, <1>7, <2>2
      <3>2. ASSUME NEW l \in (k - 1) + 1 .. Len(inbox') PROVE ~On(inbox'[l], g)
        <4>1. l + 1 \in k + 1 .. Len(inbox) /\ inbox'[l] = inbox[l + 1]
          BY <1>1, <1>2, <1>7, <2>2, <3>2
        <4>2. QED
          BY <1>7, <4>1
      <3>3. QED
        BY <3>1, <3>2 DEF LastIsReport, On
    <2>3. QED
      BY <2>1, <2>2
  <1>8. QED
    BY <1>6, <1>7 DEF LastIsReport

LEMMA ReportsInit == InOrder /\ Init => Calm /\ Unsubmitted /\ Reported
  <1> SUFFICES ASSUME InOrder, Init PROVE Calm /\ Unsubmitted /\ Reported
    OBVIOUS
  <1>1. \A g \in Groups : <<g, 0>> \in Simus
    BY OneMember DEF Simus
  <1>2. Calm
    BY DEF Init, Calm
  <1>3. ASSUME NEW g \in Groups PROVE NotSubmitted(g) /\ simu_state[<<g, 0>>] # 2
    BY <1>1 DEF Init, NotSubmitted, NoneOn
  <1>4. QED
    BY <1>2, <1>3 DEF Unsubmitted, Reported

\* a restart of a group that was submitted and is not finished
LEMMA RestartKeepsReports ==
    ASSUME InOrder, ReportInv, pc # "launched", NEW r \in Groups, r < next,
           group_status[r] # FINISHED, RestartGroup(r),
           UNCHANGED <<next, inbox, simu_state>>
    PROVE  Unsubmitted' /\ Reported'
  <1>1. /\ group_status \in [Groups -> GroupStatus] /\ job = [g \in Groups |-> job[g]]
        /\ stray \in [Groups -> BOOLEAN] /\ next \in Nat
    BY DEF ReportInv, KnownInv, TypeOK
  <1>2. ASSUME NEW g \in Groups, g # r
        PROVE  group_status'[g] = group_status[g] /\ job'[g] = job[g] /\ stray'[g] = stray[g]
    BY <1>1, <1>2 DEF RestartGroup, NewJob, jobVars
  <1>3. ASSUME NEW g \in Groups, g >= next PROVE NotSubmitted(g)'
    <2>1. g # r
      BY <1>1, <1>3 DEF Groups
    <2>2. NotSubmitted(g)
      BY <1>3 DEF ReportInv, Unsubmitted
    <2>3. NoneOn(g)'
      BY <1>2, <2>1, <2>2, SameInbox DEF NotSubmitted
    <2>4. QED
      BY <1>2, <2>1, <2>2, <2>3 DEF NotSubmitted
  <1>4. ASSUME NEW g \in Groups, simu_state'[<<g, 0>>] = 2 PROVE LastIsReport(g)'
    BY <1>2, <1>4, SameInbox DEF ReportInv, Reported
  <1>5. QED
    BY <1>3, <1>4 DEF Unsubmitted, Reported

\* a step that touches no group, no job and no message
LEMMA NothingReported ==
    ASSUME ReportInv, UNCHANGED <<group_status, job, stray, simu_state, inbox, next>>,
           pc = "launched" => pc' = "launched"
    PROVE  Unsubmitted' /\ Reported'
  <1>1. ASSUME NEW g \in Groups, g >= next PROVE NotSubmitted(g)'
    <2>1. NotSubmitted(g)
      BY <1>1 DEF ReportInv, Unsubmitted
    <2>2. QED
      BY <2>1, SameInbox DEF NotSubmitted
  <1>2. ASSUME NEW g \in Groups, simu_state'[<<g, 0>>] = 2 PROVE LastIsReport(g)'
    BY <1>2, SameInbox DEF ReportInv, Reported
  <1>3. QED
    BY <1>1, <1>2 DEF Unsubmitted, Reported

LEMMA ReportsByMain ==
    ASSUME InOrder, ReportInv, Main
    PROVE  Calm' /\ Unsubmitted' /\ Reported'
  <1>0. /\ next \in 0 .. NbGroups /\ at \in 0 .. NbGroups
        /\ group_status \in [Groups -> GroupStatus]
        /\ job = [g \in Groups |-> job[g]] /\ stray \in [Groups -> BOOLEAN]
        /\ faults \in [{"job_crash", "timeout", "server_crash"} -> Nat]
        /\ back \in {"load", "loop"}
    BY DEF ReportInv, KnownInv, TypeOK
  <1> USE LauncherAssumption DEF groupVars, jobVars, messengerVars, serverVars, serverObj
  <1>a. ASSUME NEW g \in Groups, group_status[g] \notin {NOT_SUBMITTED, FINISHED}
        PROVE  g < next
    <2>1. g >= next => group_status[g] \in {NOT_SUBMITTED, FINISHED}
      BY DEF ReportInv, Unsubmitted, NotSubmitted
    <2>2. g \in Int /\ next \in Int
      BY <1>0 DEF Groups
    <2>3. QED
      BY <1>a, <2>1, <2>2
  <1>1. CASE WaitStart
    BY <1>0, <1>1, NothingReported DEF WaitStart, ReportInv, Calm
  <1>2. CASE SchedulerBusy
    BY <1>2, NothingReported DEF SchedulerBusy, ReportInv, Calm
  <1>3. CASE LaunchJob
    <2>1. CASE want_stop
      BY <1>3, <2>1, NothingReported DEF LaunchJob, ReportInv, Calm
    <2>2. CASE ~want_stop
      <3>1. /\ pc' = "launched" /\ pc = "load" /\ NewJob(next)
            /\ UNCHANGED <<next, at, serverObj, groupVars, messengerVars, serverVars, faults>>
        BY <1>3, <2>2 DEF LaunchJob
      <3>2. Calm'
        BY <3>1 DEF ReportInv, Calm
      <3>3. ASSUME NEW g \in Groups, g >= next PROVE NotSubmitted(g)'
        <4>1. NotSubmitted(g) /\ job[g] = "none"
          BY <3>1, <3>3 DEF ReportInv, Unsubmitted, NotSubmitted
        <4>2. NoneOn(g)'
          BY <3>1, <4>1, SameInbox DEF NotSubmitted
        <4>3. ~stray'[g] /\ (job'[g] = "none" \/ g = next)
          BY <1>0, <3>1, <4>1 DEF NewJob, NotSubmitted
        <4>4. QED
          BY <3>1, <4>1, <4>2, <4>3 DEF NotSubmitted
      <3>4. ASSUME NEW g \in Groups, simu_state'[<<g, 0>>] = 2 PROVE LastIsReport(g)'
        BY <3>1, <3>4, SameInbox DEF ReportInv, Reported
      <3>5. QED
        BY <3>1, <3>2, <3>3, <3>4 DEF Unsubmitted, Reported
    <2>3. QED
      BY <2>1, <2>2
  <1>4. CASE Launched
    <2>1. /\ pc = "launched" /\ pc' \in {"ft", "loop"} /\ next' = next + 1
          /\ group_status' = [group_status EXCEPT ![next] = WAITING]
          /\ UNCHANGED <<at, messengerVars, jobVars, serverVars, faults>>
      BY <1>4 DEF Launched
    <2>2. next \in Groups
      BY <1>0, <2>1 DEF ReportInv, KnownInv, Positions, Groups
    <2>3. Calm'
      BY <2>1 DEF ReportInv, Calm
    <2>4. ASSUME NEW g \in Groups, g >= next' PROVE NotSubmitted(g)'
      <3>1. g >= next /\ g # next
        BY <1>0, <2>1, <2>4 DEF Groups
      <3>2. NotSubmitted(g) /\ job[g] = "none" /\ group_status'[g] = group_status[g]
        BY <1>0, <2>1, <3>1 DEF ReportInv, Unsubmitted, NotSubmitted
      <3>3. NoneOn(g)'
        BY <2>1, <3>2, SameInbox DEF NotSubmitted
      <3>4. QED
        BY <2>1, <3>2, <3>3 DEF NotSubmitted
    <2>5. ASSUME NEW g \in Groups, simu_state'[<<g, 0>>] = 2 PROVE LastIsReport(g)'
      <3>1. NotSubmitted(next)
        BY <1>0, <2>2 DEF ReportInv, Unsubmitted
      <3>2. g # next
        BY <2>1, <2>5, <3>1 DEF NotSubmitted
      <3>3. group_status'[g] = group_status[g]
        BY <1>0, <2>1, <3>2
      <3>4. QED
        BY <2>1, <2>5, <3>3, SameInbox DEF ReportInv, Reported
    <2>6. QED
      BY <2>3, <2>4, <2>5 DEF Unsubmitted, Reported
  <1>5. CASE Loop
    BY <1>5, NothingReported DEF Loop, Stop, ReportInv, Calm
  <1>6. CASE LookAtServer
    <2>1. /\ pc # "launched" /\ pc' \notin {"slept", "timeouts"}
          /\ UNCHANGED <<group_status, job, stray, simu_state, inbox, next>>
      BY <1>6 DEF LookAtServer, FirstLook, SleepForServer, ReadWantStop, FtServer,
         CancelGroup, GroupsCancelled
    <2>2. QED
      BY <2>1, NothingReported DEF Calm
  <1>7. CASE Reboot \/ Restarting \/ MarkWaiting \/ Regroup \/ RegroupLock
    <2>1. CASE Reboot
      BY <2>1, NothingReported DEF Reboot, Stop, InOrder, Calm
    <2>2. CASE Restarting \/ MarkWaiting \/ Regroup \/ RegroupLock
      BY <2>2 DEF Restarting, MarkWaiting, Regroup, RegroupLock, ReportInv, KnownInv, StopKnown
    <2>3. QED
      BY <1>7, <2>1, <2>2
  <1>8. CASE CheckCrashed
    <2>1. at \in Groups /\ group_status[at] \notin {NOT_SUBMITTED, FINISHED}
      BY <1>0, <1>8 DEF CheckCrashed, Active, Groups, GroupStatus, NOT_SUBMITTED, WAITING,
         RUNNING, FINISHED, TIMEOUT
    <2>2. at < next
      BY <2>1, <1>a
    <2>3. Calm'
      BY <1>8, <2>2 DEF CheckCrashed, ReportInv, Calm
    <2>4. QED
      BY <1>8, <2>3, NothingReported DEF CheckCrashed
  <1>9. CASE RestartCrashed
    <2>1. at \in Groups /\ at < next /\ pc = "slept" /\ pc' \in {"timeouts", "failed", "group"}
      BY <1>0, <1>9 DEF RestartCrashed, ReportInv, KnownInv, Positions, Calm, Groups, Stop
    <2>2. \A raises \in CancelRaises : ~RestartRaises(raises)
      BY DEF RestartRaises, InOrder
    <2>3. CASE StillRunning(at)
      <3>1. group_status[at] # FINISHED
        BY <2>3 DEF StillRunning, RUNNING, FINISHED
      <3>2. /\ RestartGroup(at) /\ pc' = "group"
            /\ UNCHANGED <<next, inbox, simu_state, server, faults>>
        BY <1>9, <2>2, <2>3 DEF RestartCrashed
      <3>3. Calm'
        BY <3>2 DEF ReportInv, Calm
      <3>4. QED
        BY <2>1, <3>1, <3>2, <3>3, RestartKeepsReports
    <2>4. CASE ~StillRunning(at)
      <3>1. /\ pc' = "timeouts" /\ UNCHANGED <<next, at, groupVars, jobVars, messengerVars,
                                              server, simu_state, faults>>
        BY <1>9, <2>4 DEF RestartCrashed
      <3>2. Calm'
        BY <2>1, <3>1 DEF ReportInv, Calm
      <3>3. QED
        BY <2>1, <3>1, <3>2, NothingReported
    <2>5. QED
      BY <2>3, <2>4
  <1>10. CASE CheckTimeouts
    <2>1. at \in Groups /\ pc \in {"timeouts", "group"}
      BY <1>0, <1>10 DEF CheckTimeouts, ReportInv, KnownInv, Positions, Groups
    <2>2. \A raises \in CancelRaises : ~RestartRaises(raises)
      BY DEF RestartRaises, InOrder
    <2>3. CancelRaises # {}
      BY LauncherAssumption
    <2>4. CASE group_status[at] = TIMEOUT \/ LateStart(at)
      <3>1. group_status[at] \notin {NOT_SUBMITTED, FINISHED}
        BY <2>4 DEF LateStart, NOT_SUBMITTED, FINISHED, TIMEOUT, WAITING
      <3>2. at < next
        BY <1>a, <2>1, <3>1
      <3>3. pc' = "group" /\ UNCHANGED <<next, inbox, simu_state, server>>
        BY <1>10, <2>2 DEF CheckTimeouts
      <3>4. Calm'
        BY <3>3 DEF Calm
      <3>5. RestartGroup(at) \/ UNCHANGED <<groupVars, jobVars, drops>>
        BY <1>10 DEF CheckTimeouts
      <3>6. CASE RestartGroup(at)
        BY <2>1, <3>1, <3>2, <3>3, <3>4, <3>6, RestartKeepsReports
      <3>7. CASE UNCHANGED <<groupVars, jobVars, drops>>
        BY <2>1, <3>3, <3>4, <3>7, NothingReported
      <3>8. QED
        BY <3>5, <3>6, <3>7
    <2>5. CASE ~(group_status[at] = TIMEOUT \/ LateStart(at))
      <3>1. /\ pc' = "group"
            /\ UNCHANGED <<next, inbox, simu_state, server, groupVars, jobVars>>
        BY <1>10, <2>5 DEF CheckTimeouts
      <3>2. Calm'
        BY <3>1 DEF Calm
      <3>3. QED
        BY <2>1, <3>1, <3>2, NothingReported
    <2>6. QED
      BY <2>4, <2>5
  <1>11. CASE FtReturns
    <2>1. pc' \in {"load", "loop"} /\ pc = "group"
      BY <1>0, <1>11 DEF FtReturns
    <2>2. Calm'
      BY <1>11, <2>1 DEF FtReturns, ReportInv, Calm
    <2>3. QED
      BY <1>11, <2>1, <2>2, NothingReported DEF FtReturns
  <1>12. QED
    BY <1>1, <1>2, <1>3, <1>4, <1>5, <1>6, <1>7, <1>8, <1>9, <1>10, <1>11 DEF Main, LookAtServer

LEMMA ReportsByServer ==
    ASSUME InOrder, ReportInv, Server
    PROVE  Calm' /\ Unsubmitted' /\ Reported'
  <1>0. /\ TypeOK /\ next \in 0 .. NbGroups
        /\ simu_state \in [Simus -> 0 .. 3]
        /\ faults \in [{"job_crash", "timeout", "server_crash"} -> Nat]
    BY DEF ReportInv, KnownInv, TypeOK
  <1> USE DEF mainVars, groupVars, jobVars
  <1>a. ASSUME NEW m \in Message, m[1] \notin {"timeout", "group_state"},
               inbox' = Append(inbox, m),
               UNCHANGED <<mainVars, groupVars, jobVars, simu_state>>
        PROVE  Calm' /\ Unsubmitted' /\ Reported'
    <2>1. Calm'
      BY <1>a DEF ReportInv, Calm
    <2>2. ASSUME NEW g \in Groups
          PROVE  /\ NoneOn(g) => NoneOn(g)'
                 /\ LastIsReport(g) => LastIsReport(g)'
      <3>1. ~On(m, g)
        BY <1>a DEF On
      <3>2. QED
        BY <1>0, <1>a, <3>1, AppendAbout
    <2>3. ASSUME NEW g \in Groups, g >= next PROVE NotSubmitted(g)'
      BY <1>a, <2>2, <2>3 DEF ReportInv, Unsubmitted, NotSubmitted
    <2>4. ASSUME NEW g \in Groups, simu_state'[<<g, 0>>] = 2 PROVE LastIsReport(g)'
      BY <1>a, <2>2, <2>4 DEF ReportInv, Reported
    <2>5. QED
      BY <1>a, <2>1, <2>3, <2>4 DEF Unsubmitted, Reported
  <1>b. ASSUME NEW r \in Groups, r < next, NEW st \in 0 .. 2, NEW m \in Message,
               m[2] = <<r, 0>>,
               st = 2 => m = <<"group_state", <<r, 0>>, 2>>,
               inbox' = Append(inbox, m),
               simu_state' = [simu_state EXCEPT ![<<r, 0>>] = st],
               UNCHANGED <<mainVars, groupVars, jobVars>>
        PROVE  Calm' /\ Unsubmitted' /\ Reported'
    <2>1. Calm'
      BY <1>b DEF ReportInv, Calm
    <2>2. ASSUME NEW g \in Groups, g # r
          PROVE  /\ NoneOn(g) => NoneOn(g)'
                 /\ LastIsReport(g) => LastIsReport(g)'
                 /\ simu_state'[<<g, 0>>] = simu_state[<<g, 0>>]
      <3>1. ~On(m, g)
        BY <1>b, <2>2 DEF On
      <3>2. <<g, 0>> \in Simus /\ <<g, 0>> # <<r, 0>>
        BY <2>2, OneMember DEF Simus
      <3>3. simu_state'[<<g, 0>>] = simu_state[<<g, 0>>]
        BY <1>0, <1>b, <3>2
      <3>4. QED
        BY <1>0, <1>b, <3>1, <3>3, AppendAbout
    <2>3. ASSUME NEW g \in Groups, g >= next PROVE NotSubmitted(g)'
      <3>1. g # r
        BY <1>0, <1>b, <2>3 DEF Groups
      <3>2. NotSubmitted(g)
        BY <2>3 DEF ReportInv, Unsubmitted
      <3>3. QED
        BY <1>b, <2>2, <3>1, <3>2 DEF NotSubmitted
    <2>4. ASSUME NEW g \in Groups, simu_state'[<<g, 0>>] = 2 PROVE LastIsReport(g)'
      <3>1. CASE g = r
        <4>1. <<r, 0>> \in Simus
          BY OneMember DEF Simus
        <4>2. st = 2
          BY <1>0, <1>b, <2>4, <3>1, <4>1
        <4>3. QED
          BY <1>0, <1>b, <3>1, <4>2, AppendReport
      <3>2. CASE g # r
        BY <2>2, <2>4, <3>2 DEF ReportInv, Reported
      <3>3. QED
        BY <3>1, <3>2
    <2>5. QED
      BY <1>b, <2>1, <2>3, <2>4 DEF Unsubmitted, Reported
  <1>1. CASE ServerStarts
    <2>1. <<"server", 0, "node">> \in Message /\ <<"server", 0, "node">>[1] = "server"
      BY DEF Message
    <2>2. QED
      BY <1>1, <2>1, <1>a, OthersArrive DEF ServerStarts
  <1>c. CASE ServerRestarts
    BY <1>c DEF ServerRestarts, ReportInv, KnownInv, StopKnown
  <1>2. CASE SendStop
    <2>1. <<"stop">> \in Message /\ <<"stop">>[1] = "stop"
      BY DEF Message
    <2>2. QED
      BY <1>2, <2>1, <1>a, OthersArrive DEF SendStop
  <1>3. CASE ServerCrash
    <2>1. PICK hung \in SUBSET {g \in Groups : job[g] = "running"} :
            job' = [g \in Groups |-> IF g \in hung THEN "hung"
                                     ELSE IF job[g] = "sent" THEN "over" ELSE job[g]]
      BY <1>3 DEF ServerCrash
    <2>2. /\ UNCHANGED <<mainVars, groupVars, inbox, simu_state>>
          /\ stray' = [g \in Groups |-> FALSE]
      BY <1>3 DEF ServerCrash, messengerVars
    <2>3. Calm'
      BY <2>2 DEF ReportInv, Calm
    <2>4. ASSUME NEW g \in Groups, g >= next PROVE NotSubmitted(g)'
      <3>1. NotSubmitted(g)
        BY <2>4 DEF ReportInv, Unsubmitted
      <3>2. NoneOn(g)'
        BY <2>2, <3>1, SameInbox DEF NotSubmitted
      <3>3. ~stray'[g] /\ (job[g] = "none" => job'[g] = "none")
        BY <2>1, <2>2
      <3>4. QED
        BY <2>2, <3>1, <3>2, <3>3 DEF NotSubmitted
    <2>5. ASSUME NEW g \in Groups, simu_state'[<<g, 0>>] = 2 PROVE LastIsReport(g)'
      BY <2>2, <2>5, SameInbox DEF ReportInv, Reported
    <2>6. QED
      BY <2>2, <2>3, <2>4, <2>5 DEF Unsubmitted, Reported
  <1>4. ASSUME NEW s \in Simus, Receive(s) PROVE Calm' /\ Unsubmitted' /\ Reported'
    <2>1. PICK r \in Groups : s = <<r, 0>> /\ s[1] = r
      BY OneMember
    <2>2. r < next
      <3>1. SUFFICES ASSUME r >= next PROVE FALSE
        BY <1>0 DEF Groups
      <3>2. ~stray[r] /\ (job[r] = "none" \/ (pc = "launched" /\ r = next))
        BY <3>1 DEF ReportInv, Unsubmitted, NotSubmitted
      <3>3. ~(pc = "launched" /\ r = next)
        BY <1>4, <2>1 DEF Receive, InOrder
      <3>4. QED
        BY <1>4, <2>1, <3>2, <3>3 DEF Receive, Sends
    <2>3. PICK new \in 1 .. 2 :
            /\ simu_state' = [simu_state EXCEPT ![s] = new]
            /\ inbox' = Append(inbox, <<"group_state", s, new>>)
      BY <1>4, ReceiveMessages
    <2>4. /\ <<"group_state", s, new>> \in Message
          /\ <<"group_state", s, new>>[2] = <<r, 0>>
          /\ new = 2 => <<"group_state", s, new>> = <<"group_state", <<r, 0>>, 2>>
      BY <2>1 DEF Message
    <2>5. UNCHANGED <<mainVars, groupVars, jobVars>>
      BY <1>4 DEF Receive
    <2>6. PICK m \in Message : m = <<"group_state", s, new>>
      BY <2>4
    <2>7. /\ m[2] = <<r, 0>> /\ (new = 2 => m = <<"group_state", <<r, 0>>, 2>>)
          /\ inbox' = Append(inbox, m) /\ new \in 0 .. 2
          /\ simu_state' = [simu_state EXCEPT ![<<r, 0>>] = new]
      BY <2>1, <2>3, <2>4, <2>6
    <2>8. QED
      BY <2>2, <2>5, <2>7, <1>b
  <1>5. ASSUME NEW s \in Simus, SendTimeout(s) PROVE Calm' /\ Unsubmitted' /\ Reported'
    <2>1. PICK r \in Groups : s = <<r, 0>> /\ s[1] = r
      BY OneMember
    <2>2. r < next
      <3>1. SUFFICES ASSUME r >= next PROVE FALSE
        BY <1>0 DEF Groups
      <3>2. simu_state[<<r, 0>>] \in {0, 3}
        BY <3>1 DEF ReportInv, Unsubmitted, NotSubmitted
      <3>3. QED
        BY <1>5, <2>1, <3>2 DEF SendTimeout
    <2>3. PICK id \in Beyond :
            inbox' = Append(inbox, Read(Msg!message_timeout(IdOf(s)), id))
      BY <1>5 DEF SendTimeout
    <2>a. Groups = {0} /\ s = <<0, 0>>
      BY <1>5, <2>1, LauncherAssumption DEF InOrder, SendTimeout, Groups
    <2>b. <<"timeout", s>> \in Message /\ inbox' = Append(inbox, <<"timeout", s>>)
      BY <2>3, <2>a, OneMember, TimeoutArrives DEF Message
    <2>4. /\ simu_state' = [simu_state EXCEPT ![s] = 0]
          /\ UNCHANGED <<mainVars, groupVars, jobVars>>
      BY <1>0, <1>5 DEF SendTimeout
    <2>5. PICK m \in Message : m = <<"timeout", s>>
      BY <2>b
    <2>6. PICK st \in 0 .. 2 : st = 0
      OBVIOUS
    <2>7. /\ m[2] = <<r, 0>> /\ (st = 2 => m = <<"group_state", <<r, 0>>, 2>>)
          /\ inbox' = Append(inbox, m)
          /\ simu_state' = [simu_state EXCEPT ![<<r, 0>>] = st]
      BY <2>1, <2>b, <2>4, <2>5, <2>6
    <2>8. QED
      BY <2>2, <2>4, <2>7, <1>b
  <1>6. ASSUME NEW s \in Simus, HandleDrop(s) PROVE Calm' /\ Unsubmitted' /\ Reported'
    <2>1. PICK r \in Groups : s = <<r, 0>>
      BY OneMember
    <2>2. /\ simu_state' = [simu_state EXCEPT ![<<r, 0>>] = 3]
          /\ UNCHANGED <<mainVars, groupVars, inbox, jobVars, server, faults>>
      BY <1>6, <2>1 DEF HandleDrop, messengerVars
    <2>3. ASSUME NEW g \in Groups
          PROVE  simu_state'[<<g, 0>>] \in {3, simu_state[<<g, 0>>]}
      <3>1. <<g, 0>> \in Simus
        BY OneMember DEF Simus
      <3>2. QED
        BY <1>0, <2>2, <3>1
    <2>4. Calm'
      BY <2>2 DEF ReportInv, Calm
    <2>5. ASSUME NEW g \in Groups, g >= next PROVE NotSubmitted(g)'
      <3>1. NotSubmitted(g)
        BY <2>5 DEF ReportInv, Unsubmitted
      <3>2. NoneOn(g)'
        BY <2>2, <3>1, SameInbox DEF NotSubmitted
      <3>3. QED
        BY <2>2, <2>3, <3>1, <3>2 DEF NotSubmitted
    <2>6. ASSUME NEW g \in Groups, simu_state'[<<g, 0>>] = 2 PROVE LastIsReport(g)'
      BY <2>2, <2>3, <2>6, SameInbox DEF ReportInv, Reported
    <2>7. QED
      BY <2>2, <2>4, <2>5, <2>6 DEF Unsubmitted, Reported
  <1>7. QED
    BY <1>1, <1>c, <1>2, <1>3, <1>4, <1>5, <1>6 DEF Server

LEMMA ReportsByStep ==
    ASSUME InOrder, ReportInv, [Next]_vars
    PROVE  Calm' /\ Unsubmitted' /\ Reported'
  <1>0. /\ TypeOK /\ group_status \in [Groups -> GroupStatus]
        /\ job = [g \in Groups |-> job[g]] /\ stray \in [Groups -> BOOLEAN]
        /\ faults \in [{"job_crash", "timeout", "server_crash"} -> Nat]
        /\ close_at \in 0 .. NbGroups
    BY DEF ReportInv, KnownInv, TypeOK
  <1> USE DEF mainVars, serverObj, groupVars, messengerVars, jobVars, serverVars
  <1>1. CASE Messenger
    <2>1. UNCHANGED <<mainVars, jobVars, serverVars, faults>>
      BY <1>1 DEF Messenger
    <2>2. Calm'
      BY <2>1 DEF ReportInv, Calm
    <2>3. ASSUME NEW g \in Groups, g >= next PROVE NotSubmitted(g)'
      <3>1. NotSubmitted(g)
        BY <2>3 DEF ReportInv, Unsubmitted
      <3>2. NoneOn(g)' /\ group_status'[g] = group_status[g]
        BY <1>0, <1>1, <3>1, MessageRead DEF NotSubmitted
      <3>3. QED
        BY <2>1, <3>1, <3>2 DEF NotSubmitted
    <2>4. ASSUME NEW g \in Groups, simu_state'[<<g, 0>>] = 2 PROVE LastIsReport(g)'
      BY <1>0, <1>1, <2>1, <2>4, MessageRead DEF ReportInv, Reported
    <2>5. QED
      BY <2>1, <2>2, <2>3, <2>4 DEF Unsubmitted, Reported
  <1>2. CASE CloseGroup
    <2>1. UNCHANGED <<mainVars, inbox, jobVars, serverVars, faults>>
      BY <1>2 DEF CloseGroup
    <2>2. Calm'
      BY <2>1 DEF ReportInv, Calm
    <2>3. ASSUME NEW g \in Groups
          PROVE  group_status'[g] \in {FINISHED, group_status[g]}
      BY <1>0, <1>2 DEF CloseGroup
    <2>4. ASSUME NEW g \in Groups, g >= next PROVE NotSubmitted(g)'
      <3>1. NotSubmitted(g)
        BY <2>4 DEF ReportInv, Unsubmitted
      <3>2. NoneOn(g)'
        BY <2>1, <2>3, <3>1, SameInbox DEF NotSubmitted
      <3>3. QED
        BY <2>1, <2>3, <3>1, <3>2 DEF NotSubmitted
    <2>5. ASSUME NEW g \in Groups, simu_state'[<<g, 0>>] = 2 PROVE LastIsReport(g)'
      BY <2>1, <2>3, <2>5, SameInbox DEF ReportInv, Reported
    <2>6. QED
      BY <2>1, <2>2, <2>4, <2>5 DEF Unsubmitted, Reported
  <1>3. ASSUME NEW r \in Groups, JobStarts(r) \/ JobEnds(r) \/ StrayEnds(r) \/ JobCrash(r)
        PROVE  Calm' /\ Unsubmitted' /\ Reported'
    <2>1. UNCHANGED <<mainVars, inbox, group_status, simu_state, server>>
      BY <1>3 DEF JobStarts, JobEnds, StrayEnds, JobCrash
    <2>3. Calm'
      BY <2>1 DEF ReportInv, Calm
    <2>4. ASSUME NEW g \in Groups, g >= next PROVE NotSubmitted(g)'
      <3>1. NotSubmitted(g)
        BY <2>4 DEF ReportInv, Unsubmitted
      <3>2. NoneOn(g)'
        BY <2>1, <3>1, SameInbox DEF NotSubmitted
      <3>3. stray'[g] = stray[g] \/ ~stray'[g]
        BY <1>0, <1>3 DEF JobStarts, JobEnds, StrayEnds, JobCrash
      <3>4. job'[g] = job[g] \/ job[g] # "none"
        BY <1>0, <1>3 DEF JobStarts, JobEnds, StrayEnds, JobCrash
      <3>5. QED
        BY <2>1, <3>1, <3>2, <3>3, <3>4 DEF NotSubmitted
    <2>5. ASSUME NEW g \in Groups, simu_state'[<<g, 0>>] = 2 PROVE LastIsReport(g)'
      BY <2>1, <2>5, SameInbox DEF ReportInv, Reported
    <2>6. QED
      BY <2>1, <2>3, <2>4, <2>5 DEF Unsubmitted, Reported
  <1>4. ASSUME CheckServer \/ (\E g \in Groups : CheckGroup(g)) \/ UNCHANGED vars
        PROVE  Calm' /\ Unsubmitted' /\ Reported'
    <2>1. UNCHANGED <<mainVars, inbox, group_status, jobVars, simu_state, server, faults>>
      BY <1>4 DEF CheckServer, CheckGroup, vars
    <2>2. Calm'
      BY <2>1 DEF ReportInv, Calm
    <2>3. QED
      BY <2>1, <2>2, NothingReported
  <1>5. QED
    BY <1>1, <1>2, <1>3, <1>4, ReportsByMain, ReportsByServer DEF Next

\* No report on a Sobol' group is overwritten: neither the restart of a job that
\* ended, nor a timeout, nor the end of a submission hides that the group is
\* finished (study.py 131-148 and 888-947), however late messages are read. A job
\* does not report before its submission returns, and no server is started again:
\* cancel() returns a function. Nor does the server find simulations late, unless
\* there is only one group: a timeout is taken for one of the first group, which may
\* be finished.
THEOREM ReportsReachTheGroups ==
    ASSUME Sobol, FALSE \notin CancelRaises, "early_report" \notin Faults,
           "timeout" \notin Faults \/ NbGroups = 1
    PROVE  Spec => []ReportsAreKept
  <1>1. InOrder
    BY DEF InOrder
  <1>2. Init => ReportInv
    BY <1>1, TypesOfInit, PositionsOfInit, StopKnownInit, ReportsInit
    DEF ReportInv, KnownInv
  <1>3. ReportInv /\ [Next]_vars => ReportInv'
    BY <1>1, TypesOfStep, PositionsOfStep, StopKnownByStep, ReportsByStep
    DEF ReportInv, KnownInv, InOrder
  <1>4. ReportInv => ReportsAreKept
    <2>1. SUFFICES ASSUME ReportInv, NEW g \in Groups,
                          \A i \in Members : simu_state[<<g, i>>] = 2,
                          \A k \in 1 .. Len(inbox) :
                             inbox[k][1] \in {"timeout", "group_state"} => inbox[k][2][1] # g
                   PROVE  group_status[g] = FINISHED
      BY DEF ReportsAreKept
    <2>2. LastIsReport(g)
      BY <1>1, <2>1, OneMember DEF ReportInv, Reported
    <2>3. NoneOn(g)
      BY <2>1 DEF NoneOn, On
    <2>4. ASSUME NEW k \in 1 .. Len(inbox), inbox[k] = <<"group_state", <<g, 0>>, 2>>
          PROVE  FALSE
      BY <2>3, <2>4 DEF NoneOn, On
    <2>5. QED
      BY <2>2, <2>4 DEF LastIsReport
  <1>5. QED
    BY <1>2, <1>3, <1>4, PTL DEF Spec
=============================================================================
