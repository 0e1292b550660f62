------------------------------ MODULE PyServer ------------------------------
(***************************************************************************)
(* The server library for Python (src/utility/melissa4py/melissa4py), which *)
(* hands the data of the simulations over to a program of the user:         *)
(*     while not server.all_done(): server.run()                            *)
(*     server.stop()                                                        *)
(* on several MPI ranks, with a thread of rank 0 that answers connexions.   *)
(*                                                                         *)
(* Simplifications: the messages of a job come in order, and may come again *)
(* (which changes nothing, and is not a step); the parameters of a          *)
(* simulation, from its JOB message or asked of the launcher with its first *)
(* data, are left out; time is whether a simulation has been silent for     *)
(* longer than max_delay; a connexion is answered in one step.              *)
(***************************************************************************)
EXTENDS Integers, FiniteSets, Sequences, Functions

CONSTANTS
    NbProcServer,    \* ranks of the server
    NbSamples,       \* sample_size, as the program of the user gives it
    Fields,
    NbTimeSteps,
    Learning,        \* 1 or 2
    Faults,          \* what the environment may do: see FaultKinds
    MaxLaunches,     \* bounds: launches of a simulation,
    MaxFaults        \* faults, not counting the simulations given up

FaultKinds == {
    "silence",       \* no message of a simulation for max_delay
    "lost_text",     \* a rank misses a message of the launcher (PUB/SUB)
    "give_up",       \* the launcher removes a simulation
    "late_data" }    \* its data may still come after a rank has removed it

ASSUME PyServerAssumption ==
    /\ NbProcServer \in Nat \ {0} /\ NbSamples \in Nat /\ NbTimeSteps \in Nat \ {0}
    /\ IsFiniteSet(Fields) /\ Fields # {}
    /\ Learning \in 1 .. 2
    /\ Faults \subseteq FaultKinds
    /\ MaxLaunches \in Nat /\ MaxFaults \in Nat

Ranks == 0 .. NbProcServer - 1
Samples == 0 .. NbSamples - 1
Messages == Fields \X (0 .. NbTimeSteps - 1)

VARIABLES
    \* of each rank
    pc,               \* "init": in _wait_for_first_init, "run", "barrier", "stopped"
    simulations,
    sample_size,
    text_puller,
    returned,         \* how often run returned a message to the user
    reported,         \* the last report on each simulation to the launcher
    \* of rank 0
    first_connection_recieved,
    stopping,         \* the listener thread has ended
    stop_sent,
    \* the environment
    launches,
    connected,        \* simulations that got their ConnectionResponse
    dropped,          \* given up by the launcher
    lost,             \* DROP messages that a rank has missed
    silences, missed, crashes   \* how many faults there have been

rankVars == <<pc, simulations, sample_size, text_puller, returned, reported>>
rootVars == <<first_connection_recieved, stopping, stop_sent>>
envVars == <<launches, connected, dropped, lost, silences, missed, crashes>>
vars == <<rankVars, rootVars, envVars>>

faults == silences + missed + crashes

-----------------------------------------------------------------------------
(* fault_tolerance.py: what is known of a simulation.                         *)

Simulation == [timesteps |-> {}, silent |-> FALSE]
NewSimulation == Simulation

Known(r) == DOMAIN simulations[r]
WithSimulation(sims, s, simulation) ==
    [x \in DOMAIN sims \cup {s} |-> IF x = s THEN simulation ELSE sims[x]]
Without(sims, s) == [x \in DOMAIN sims \ {s} |-> sims[x]]

finished(simulation) == simulation.timesteps = Messages
\* time.time() - last_message > max_delay
crashed(simulation) == ~finished(simulation) /\ simulation.silent

mark_message_recieved(simulation, m) ==
    [simulation EXCEPT !.timesteps = @ \cup {m}, !.silent = FALSE]

\* with Learning 2 a time step goes to one rank, the others get no data
DataSize(r, s, m) ==
    IF Learning = 2 /\ r # (m[2] + (s % NbProcServer)) % NbProcServer THEN 0 ELSE 1

-----------------------------------------------------------------------------
(* server.py.                                                                *)

all_done(r) ==
    /\ Cardinality(Known(r)) >= sample_size[r]
    /\ \A s \in Known(r) : finished(simulations[r][s]) \/ crashed(simulations[r][s])

\* the program of the user calls run, and stop when all is done
Running(r) == pc[r] = "run" /\ ~all_done(r)

\* handle_launcher_message
Job(r, s) ==
    /\ simulations' = [simulations EXCEPT ![r] =
          IF s \in Known(r) THEN @ ELSE WithSimulation(@, s, NewSimulation)]
    /\ UNCHANGED sample_size

\* (mutants: only when the simulation is known; one size for all ranks)
DropKnown(r, s) ==
    /\ simulations' = [simulations EXCEPT ![r] = Without(@, s)]
    /\ sample_size' = [sample_size EXCEPT ![r] = IF s \in Known(r) THEN @ - 1 ELSE @]
DropForAll(r, s) ==
    /\ simulations' = [simulations EXCEPT ![r] = Without(@, s)]
    /\ sample_size' = [q \in Ranks |-> sample_size[q] - 1]
Drop(r, s) ==
    /\ simulations' = [simulations EXCEPT ![r] = Without(@, s)]
    /\ sample_size' = [sample_size EXCEPT ![r] = @ - 1]

handle_launcher_message(r) ==
    /\ Running(r)
    /\ text_puller[r] # <<>>
    /\ LET msg == Head(text_puller[r]) IN
       \/ msg[1] = "JOB" /\ Job(r, msg[2])
       \/ msg[1] = "DROP" /\ Drop(r, msg[2])
    /\ text_puller' = [text_puller EXCEPT ![r] = Tail(@)]
    /\ UNCHANGED <<pc, returned, reported, rootVars, envVars>>

\* (mutant: nothing is a duplicate)
DuplicateNever(simulation, m) == FALSE
Duplicate(simulation, m) == m \in simulation.timesteps

\* (mutant: finished before the message is marked)
FinishedBefore(before, after) == finished(before)
NowFinished(before, after) == finished(after)

\* a rank has handled the DROP message of a simulation
Removed(r, s) ==
    s \in dropped /\ <<r, s>> \notin lost /\ <<"DROP", s>> \notin Range(text_puller[r])

\* the messages of a job come in the order of the time steps
InOrder(before, m) == \A n \in Messages : n[2] < m[2] => n \in before.timesteps

\* handle_simulation_data; RUNNING is reported of a simulation not known before
handle_simulation_data(r, s, m) ==
    LET before == IF s \in Known(r) THEN simulations[r][s] ELSE NewSimulation
        after  == mark_message_recieved(before, m)
    IN
    /\ Running(r)
    /\ s \in connected
    /\ IF Removed(r, s) THEN "late_data" \in Faults ELSE InOrder(before, m)
    /\ ~Duplicate(before, m)
    /\ simulations' = [simulations EXCEPT ![r] = WithSimulation(@, s, after)]
    /\ reported' = [reported EXCEPT ![r][s] =
          IF NowFinished(before, after) THEN "FINISHED"
          ELSE IF s \notin Known(r) THEN "RUNNING" ELSE @]
    /\ returned' = IF DataSize(r, s, m) > 0
                   THEN [returned EXCEPT ![r][s][m] = @ + 1] ELSE returned
    /\ UNCHANGED <<pc, sample_size, text_puller, rootVars, envVars>>

\* the listener thread of rank 0: the first connexion ends _wait_for_first_init
\* of the other ranks
handle_simulation_connection(s) ==
    /\ ~stopping
    /\ launches[s] > 0 /\ s \notin dropped
    /\ s \notin connected
    /\ first_connection_recieved' = TRUE
    /\ pc' = [r \in Ranks |-> IF pc[r] = "init" THEN "run" ELSE pc[r]]
    /\ connected' = connected \cup {s}
    /\ UNCHANGED <<simulations, sample_size, text_puller, returned, reported,
                   stopping, stop_sent, launches, dropped, lost,
                   silences, missed, crashes>>

\* stop: rank 0 ends its thread, then all ranks meet
EnterStop(r) ==
    /\ pc[r] = "run"
    /\ all_done(r)
    /\ pc' = [pc EXCEPT ![r] = "barrier"]
    /\ stopping' = (stopping \/ r = 0)
    /\ UNCHANGED <<simulations, sample_size, text_puller, returned, reported,
                   first_connection_recieved, stop_sent, envVars>>

\* (mutant: no MPI_Barrier)
BarrierGone == TRUE
Barrier == \A r \in Ranks : pc[r] \in {"barrier", "stopped"}
LeaveStop(r) ==
    /\ pc[r] = "barrier"
    /\ Barrier
    /\ pc' = [pc EXCEPT ![r] = "stopped"]
    /\ stop_sent' = (stop_sent \/ r = 0)
    /\ UNCHANGED <<simulations, sample_size, text_puller, returned, reported,
                   first_connection_recieved, stopping, envVars>>

-----------------------------------------------------------------------------
(* The environment.                                                          *)

\* the listener has ended before the simulation connected: it waits for ever
CutOff(s) == stopping /\ s \notin connected

\* a simulation has sent nothing for max_delay (or its job has waited for as
\* long since the JOB message)
Silence(r, s) ==
    /\ "silence" \in Faults
    /\ pc[r] = "run"
    /\ s \in Known(r) /\ ~finished(simulations[r][s]) /\ ~simulations[r][s].silent
    /\ CutOff(s) \/ faults < MaxFaults
    /\ silences' = IF CutOff(s) THEN silences ELSE silences + 1
    /\ simulations' = [simulations EXCEPT ![r][s].silent = TRUE]
    /\ UNCHANGED <<pc, sample_size, text_puller, returned, reported, rootVars,
                   launches, connected, dropped, lost, missed, crashes>>

\* a message of the launcher to the ranks that do not miss it
Publish(msg, away) ==
    /\ away # {} => "lost_text" \in Faults
    /\ faults + Cardinality(away) <= MaxFaults
    /\ missed' = missed + Cardinality(away)
    /\ text_puller' = [r \in Ranks |-> IF r \in away THEN text_puller[r]
                                       ELSE Append(text_puller[r], msg)]

FinishedTold(s) == \E r \in Ranks : reported[r][s] = "FINISHED"

\* the launcher submits the simulations in order, one again when it has died
Submit(s) ==
    /\ ~stop_sent
    /\ \A x \in Samples : x < s => launches[x] > 0
    /\ launches[s] < MaxLaunches /\ s \notin dropped
    /\ ~FinishedTold(s)
    /\ \E away \in SUBSET Ranks : Publish(<<"JOB", s>>, away)
    /\ launches' = [launches EXCEPT ![s] = @ + 1]
    /\ UNCHANGED <<pc, simulations, sample_size, returned, reported, rootVars,
                   connected, dropped, lost, silences, crashes>>

GiveUp(s) ==
    /\ "give_up" \in Faults
    /\ ~stop_sent
    /\ launches[s] = MaxLaunches /\ s \notin dropped
    /\ ~FinishedTold(s)
    /\ \E away \in SUBSET Ranks :
          /\ Publish(<<"DROP", s>>, away)
          /\ lost' = lost \cup (away \X {s})
    /\ dropped' = dropped \cup {s}
    /\ UNCHANGED <<pc, simulations, sample_size, returned, reported, rootVars,
                   launches, connected, silences, crashes>>

\* __init__, with or without restart: _recover calls pickle.load with two
\* arguments, so that it always fails and the record is empty
Started(restart) ==
    /\ pc' = [r \in Ranks |-> IF r > 0 /\ ~restart THEN "init" ELSE "run"]
    /\ simulations' = [r \in Ranks |-> <<>>]
    /\ sample_size' = [r \in Ranks |-> NbSamples]
    /\ text_puller' = [r \in Ranks |-> <<>>]
    /\ returned' = [r \in Ranks |-> [s \in Samples |-> [m \in Messages |-> 0]]]
    /\ reported' = [r \in Ranks |-> [s \in Samples |-> "NOTHING"]]
    /\ first_connection_recieved' = restart
    /\ stopping' = FALSE

\* the server dies; the launcher starts it again, and the simulations with it
CrashAndRestart ==
    /\ faults < MaxFaults /\ ~stop_sent
    /\ crashes' = crashes + 1
    /\ \E restart \in BOOLEAN : Started(restart)
    /\ connected' = {}
    /\ UNCHANGED <<stop_sent, launches, dropped, lost, silences, missed>>

Init ==
    /\ pc = [r \in Ranks |-> IF r > 0 THEN "init" ELSE "run"]
    /\ simulations = [r \in Ranks |-> <<>>]
    /\ sample_size = [r \in Ranks |-> NbSamples]
    /\ text_puller = [r \in Ranks |-> <<>>]
    /\ returned = [r \in Ranks |-> [s \in Samples |-> [m \in Messages |-> 0]]]
    /\ reported = [r \in Ranks |-> [s \in Samples |-> "NOTHING"]]
    /\ first_connection_recieved = FALSE
    /\ stopping = FALSE /\ stop_sent = FALSE
    /\ launches = [s \in Samples |-> 0]
    /\ connected = {} /\ dropped = {} /\ lost = {}
    /\ silences = 0 /\ missed = 0 /\ crashes = 0

Next ==
    \/ \E r \in Ranks :
          \/ handle_launcher_message(r) \/ EnterStop(r) \/ LeaveStop(r)
          \/ \E s \in Samples : Silence(r, s)
          \/ \E s \in Samples, m \in Messages : handle_simulation_data(r, s, m)
    \/ \E s \in Samples : handle_simulation_connection(s) \/ Submit(s) \/ GiveUp(s)
    \/ CrashAndRestart

Spec == Init /\ [][Next]_vars

\* the ranks run, the launcher submits every simulation, the simulations connect
\* and send what they have, and time passes
Fairness ==
    /\ \A r \in Ranks :
          /\ WF_vars(handle_launcher_message(r))
          /\ WF_vars(EnterStop(r) \/ LeaveStop(r))
          /\ \A s \in Samples :
                /\ WF_vars(\E m \in Messages : handle_simulation_data(r, s, m))
                /\ WF_vars(CutOff(s) /\ Silence(r, s))
    /\ \A s \in Samples :
          /\ WF_vars(handle_simulation_connection(s))
          /\ WF_vars(launches[s] = 0 /\ Submit(s))

FairSpec == Spec /\ Fairness

-----------------------------------------------------------------------------
(* Properties.                                                              *)

TypeOK ==
    /\ pc \in [Ranks -> {"init", "run", "barrier", "stopped"}]
    /\ DOMAIN simulations = Ranks
    /\ \A r \in Ranks :
          /\ Known(r) \subseteq Samples
          /\ \A s \in Known(r) :
                simulations[r][s] \in [timesteps : SUBSET Messages, silent : BOOLEAN]
    /\ sample_size \in [Ranks -> 0 .. NbSamples]
    /\ text_puller \in [Ranks -> Seq({"JOB", "DROP"} \X Samples)]
    /\ returned \in [Ranks -> [Samples -> [Messages -> Nat]]]
    /\ reported \in [Ranks -> [Samples -> {"NOTHING", "RUNNING", "FINISHED"}]]
    /\ first_connection_recieved \in BOOLEAN
    /\ stopping \in BOOLEAN /\ stop_sent \in BOOLEAN
    /\ launches \in [Samples -> 0 .. MaxLaunches]
    /\ connected \subseteq Samples /\ dropped \subseteq Samples
    /\ lost \subseteq Ranks \X Samples
    /\ silences \in Nat /\ missed \in Nat /\ crashes \in Nat
    /\ faults <= MaxFaults

\* The program of the user gets a time step of a simulation once, however often
\* the simulation is launched (server.py 368-375, "ignore repeated messages");
\* once more if data comes after the simulation was removed.
ReturnedOnce ==
    \A r \in Ranks, s \in Samples, m \in Messages :
        returned[r][s][m] <= IF Removed(r, s) THEN 2 ELSE 1

\* When the launcher is told to stop, which makes it cancel the jobs, the program
\* of the user has on every rank all the data of each simulation that was not
\* given up, or the simulation was found silent there (server.py 275-291,
\* 393-401), whatever messages of the launcher each rank has missed.
Collected(r, s) ==
    /\ s \in Known(r)
    /\ \/ \A m \in Messages : DataSize(r, s, m) > 0 => returned[r][s][m] > 0
       \/ simulations[r][s].silent
StopMeansReturned ==
    stop_sent => \A r \in Ranks, s \in Samples \ dropped : Collected(r, s)

\* A rank reports a simulation as finished exactly when it has all its messages,
\* also when the last one carries no data (server.py 381-386).
FinishedReported ==
    \A r \in Ranks : \A s \in Known(r) :
        ~Removed(r, s) => (reported[r][s] = "FINISHED" <=> finished(simulations[r][s]))

\* Every rank gets to the end, although some simulations are given up or silent:
\* unless a rank misses that one was given up or, when it does not connect in
\* time, that there is one; the server dies; or rank 0 ends its thread before the
\* first connexion, and the others wait in _wait_for_first_init for ever.
Termination ==
    <>(\/ \A r \in Ranks : pc[r] = "stopped"
       \/ lost # {} \/ crashes > 0
       \/ missed > 0 /\ \E s \in Samples : CutOff(s)
       \/ stopping /\ ~first_connection_recieved)
=============================================================================
