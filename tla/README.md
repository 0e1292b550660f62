# Melissa in TLA+

Melissa runs a sensitivity analysis *in transit*: a launcher submits many
simulations, each simulation sends the fields it computes to a parallel server
while it runs, and the server folds every message into iterative statistics
instead of storing it. The results are right only if every message of every
simulation counts exactly once, although simulations and server may die and be
started again, and if the server stops when, and only when, everything has been
received. This directory states those properties, checks them with TLC on
small instances, and proves the most important ones with TLAPS for all
instances.

Paths below are relative to the repository (`src/`).

## 1. The system

| part | code | state | operations |
|---|---|---|---|
| server, main loop | `server/server.cxx` `melissa_server_run` 315-893 | per MPI rank: the simulations vector (status, job status, last message), `nb_finished_simulations`, `sampling_size`, the clocks of the checkpoint and of the launcher, the signal flags | text message, connexion, data message, timeout checks, checkpoint, end test |
| simulation states | `server/server_helper.c`, `server/fault_tolerance.c` | `status` 0 not started, 1 running, 2 finished, 3 dropped; `job_status` -1 unknown, 0 submitted, 1 seen | `process_launcher_message`, `check_simu_state`, `check_timeouts`, `send_timeouts`, `count_job_status` |
| statistics structures | `server/melissa_data.c`, `melissa_fields.c`, `compute_stats.c` | per field and client rank: statistics and one bit per simulation and time step | lazy allocation, `compute_stats`, `set_bit` |
| statistics | `server/stats/*` | per field, client rank and time step: moments, extremes, exceedances, quantiles, Sobol' accumulators | one update per value, save, read |
| options | `server/melissa_options.c` | what the command line asks for | parse, defaults, checks |
| checkpoint | `server/melissa_io.c` | `<field><rank>_<client>.data`, `simu_<rank>.data` | `save_stats`, `read_saved_stats`, `save_simu_states`, `read_simu_states` |
| output | `server/output/*` | a buffer and a gather per file | share the sizes, send the parts to rank 0, write one file per statistic and time step |
| client API | `api/melissa_api.c` | sizes and displacements of the redistribution, one socket per server rank | `melissa_init`, `melissa_send`, `melissa_finalize` |
| messages | `common/*` | - | encoding, vectors, sockets, the binding used by the launcher |
| launcher | `launcher/study.py`, `simulation.py` | per group: `status`, `job_status`, `nb_restarts`; the server's status; three threads and the main loop | submit, restart, drop, react to server messages, restart the server, stop |
| batch spawners | `launcher/batchspawner.py` | - | calls of the batch scheduler |
| Python server | `utility/melissa4py` | per rank: the simulations known and their messages, `sample_size`; a listener thread on rank 0 | a second server, which hands the data to a program of the user |
| monitoring, examples, tests | `utility/MelissaMonitoring`, `examples`, `tests` | - | read as documentation of the parts above |

**How they interact.** The launcher publishes `JOB`, `DROP` and `hello` messages to
all the ranks (ZeroMQ PUB/SUB: a rank that is not subscribed misses them). The
ranks push `server`, `group_state`, `timeout` and `stop` messages to the launcher. A
simulation first connects to rank 0 (REQ/REP), which tells it where the ranks listen,
then each of its ranks pushes, for every time step and field, one message to every server
rank its part of the field overlaps. The server ranks share nothing but the
collective operations: the broadcast of the client size at the first
connexion, the reduction of the simulation states at a restart, and the final
writing of the results. The checkpoint files are how the server talks to the next
incarnation of itself.

**What is hard.** Messages of different simulations, fields and client ranks arrive in
any order; a group that is restarted sends everything again; the ranks
checkpoint at different times, so after a crash they come back from
different pasts; the launcher decides by timeouts, so it is wrong
sometimes; both sides keep a copy of the status of every simulation.

**What makes each part correct.**

- *Server*: each message counts at most once; the bits tell exactly what was
  counted, in memory and in the checkpoint; what the launcher is told is finished
  will never be needed again; the end test holds only when everything was
  received; the study ends.
- *Checkpoint*: a later checkpoint holds all an earlier one held.
- *Launcher*: a group that is not finished is run until it is finished or given
  up; a finished group is left alone; the study stops after the server; a server is started
  again only when the one before has ended.
- *Client API*: the redistribution gives every cell of a client to exactly one message,
  and sender and receiver agree on its size.
- *Statistics*: after any updates, checkpoints and restarts the accumulators equal the batch
  definitions over the set of outputs received.
- *Output*: each file holds the field, from the statistic and the time step it is named after; nobody
  waits for a message that is never sent.
- *Python server*: the program of the user gets each time step once, on every rank, before the study is
  told to stop; and the study is told to stop.

## 2. Modules

```
MelissaServer <--- ServerRefines (maps it to ServerPromise) <--- MCServer
                         ^
                 MelissaServer_proofs

Messages <--- Redistribution <--- Output <--- MCOutput
                ^                   ^
    Redistribution_proofs <--- Output_proofs
                |
                v
         Arithmetic_proofs  <-----------------------------------------  Samples_proofs
                |                                                            |
                v                                                            v
Rationals <--- IterativeStatistics <--- StatisticsFiles <--- Statistics <--- Statistics_proofs
                     ^                                           ^
               StatisticsMerge <-------------------------- MCStatistics


Messages <--- Launcher <--- Launcher_proofs     PyServer <--- PyServer_proofs
                 ^--------- MCLauncher             ^--------- MCPyServer
```

| module | code | what it is |
|---|---|---|
| `MelissaServer` | `server.cxx`, `server_helper.c`, `fault_tolerance.c`, `melissa_data.c`, `melissa_io.c` | the loop of all ranks, the step bits, the checkpoint, crashes |
| `ServerPromise`, `ServerRefines` | the same | what a server promises to whoever runs a study, and the refinement mapping |
| `Launcher` | `study.py`, `simulation.py` | the three threads of the launcher, jobs, and the server as they see it |
| `Messages` | `melissa_messages.c`, `melissa_comm4py.c`, `server_helper.c` | each kind of message, as it is written and as it is read |
| `Redistribution` | `melissa_api.c` | which rank of a simulation sends which cells to which rank of the server |
| `Output` | `melissa_output.c` | extends `Redistribution`: from the parts that were received to the files |
| `Rationals`, `IterativeStatistics` | `stats/*` | one operator per function of the statistics, over exact rationals |
| `StatisticsFiles` | `stats/*` | what is saved of each statistic, and read back |
| `StatisticsMerge` | `stats/*` | partial results put together, covariances, the indices of Jansen: nothing the server calls |
| `Statistics` | `melissa_options.c`, `melissa_data.c`, `compute_stats.c`, `melissa_io.c`, `melissa_output.c` | the contents of one stream, from the options to the results |
| `PyServer` | `melissa4py` | the server library for Python |
| `*_proofs` | | theorems, section 5 |
| `MC*` | | the values of the constants for TLC |

Two modules describe the statistics on two levels: in `MelissaServer` a statistic is a counter per
message, which is enough to say that each message counts once; in `Statistics` the loop of the
server is reduced to what reaches one stream, and the counters get their contents. Both have the
same step bits and the same allocation, save and read.

The next steps would be: the launcher composed with `ServerPromise` in place of its own picture of a
server; `ReportsAreKept` for a server that dies, and the gain of the quantiles, as theorems; several fields.

## 3. How the modules correspond to the code

### MelissaServer

One module for the loop of all the ranks, with the checkpoint files, and the launcher and
the simulations as its environment.

| state | code |
|---|---|
| `pc[r]` | where rank r is in an iteration: `top` (before the polls), `poll` (launcher timeout and checkpoint done), `data` (text and connexion done), `test` (data done); `ended` after the loop, `finalized` after `melissa_server_finalize`, `down` dead, `broken` undefined behaviour |
| `status`, `job_status` | `simulations[i]->status`, `->job_status`, one copy per rank |
| `connected` | `first_init == 0` |
| `checkpoint_on` | `last_checkpoint_time > 0.1` |
| `stats_data[st]` | `fields[f].stats_data[c]`: `stats_init`, `steps_init`, `vect_size`, the step bits, and, instead of statistics, how often each (simulation, step) was folded in |
| `stats_file`, `simu_file` | the checkpoint |
| `text_puller` | text messages waiting at a rank |
| `told` | last status of each simulation sent to the launcher |

A *stream* is a (field, client rank) pair that sends to a given rank. Each action is
a whole branch of the loop: `RecvData` covers the allocation, the lazy read of
the checkpoint, the test of the bit, the statistics, the new
status, its report and the count (`server.cxx` 500-825); `RecvText` the text
branch with `process_launcher_message`; `RecvConnexion` the first connexion with
the broadcast that releases the other ranks; `CheckTimeouts`, `LauncherTimeout`
and `Checkpoint` the three clock tests; `SignalSave` and `EndTest` the two exits of an
iteration; `Finalize` the collective end. `Crash`, `CrashInSave` and `Restart` are the
death of the server, between or inside checkpoints, and its start with `-r`
(`melissa_server_init`). `Submit`, `GiveUp` and `LauncherDies` are the launcher as
the server sees it.

*Faults* are a constant set (`FaultKinds`), so that a run names what it allows and a theorem what
it excludes.

*Undefined behaviour.* A restart that finds no status file, or a rank that saves
before the first connexion, uses uninitialized memory (`melissa_io.c:367`,
`server.cxx:906`): `pc = "broken"`, from where the model claims nothing.

*Abstractions.* A clock may expire whenever the other conditions of its test hold.
The statistics are counters. A message of a submitted simulation may
arrive at any time and again: this covers every rerun and every order.

### ServerPromise and ServerRefines

A server, seen from outside, has a set of messages it has collected, a set it has saved, the
simulations it has reported as finished, and it stops or not. `Receive` may add one message and report
simulations that are complete on rank 0, `Save` moves the saved set towards the collected one, `Crash`
takes the collected set back to what was saved and forgets the reports, `Stop` needs everything. The
mapping counts as collected what the statistics hold, or what the checkpoint holds of a stream that
will read it with its next message; as reported what rank 0 has told since it runs.

### Launcher

The main thread, the messenger and the state checker of the launcher, with the jobs of the
groups and a server reduced to what the launcher sees of it.

| state | code |
|---|---|
| `pc`, `back` | where the main thread is: in `Server.wait_start` (`wait_start`, `wait_restart`), in the submission loop of `run` (`load`, `launched`), in its last loop (`loop`), in `fault_tolerance` (`ft`, `ft_sleep`, `ft_look`, `ft_lost`: the two looks at the server; `cancel`, `reboot`, `restarting`, `mark`, `wait_restart`, `regroup`, `regroup_lock`: its restart; `group`, `slept`, `timeouts`: the loop over the groups), after `stop` (`stopped`, or `failed` when `fault_tolerance` returned 1), or dead (`crashed`) |
| `next`, `at` | the group of the loop of `run`, of the loops of `fault_tolerance` |
| `server_status`, `server_job_status`, `want_stop` | the attributes of `server_obj[0]` |
| `group_status`, `job_status`, `nb_restarts`, `simu_status` | the attributes of the groups |
| `inbox`, `close_at` | messages not read yet; how far the handling of `stop` is |
| `job`, `stray` | what the scheduler runs: the last job of a group, and whether an earlier one still runs |
| `server`, `simu_state`, `counted`, `drops` | the server: its job, the statuses of its rank 0, the simulations it counts as finished, drops on their way |

A step is what a thread does while it holds one lock, or between two locks: `Launched` is apart
from `LaunchJob`, and `MarkWaiting` from `Reboot`, because the status is set after the job is
submitted, `RegroupLock` from `Regroup` because the status is read before the lock is taken,
`RestartCrashed` from `CheckCrashed` because the main thread sleeps ten seconds in between.

*Two looks at the server.* `fault_tolerance` decides with a first look (`FirstLook`, `study.py:840`) whether
to sleep (`SleepForServer`), reads `want_stop` (`ReadWantStop`, 848), and decides with a second look, without
the lock (`FtServer`, 851), whether the server is lost. Between any two of these the
state checker may find the job of the server over and the messenger may read its stop: a server that is
done can be taken for lost. Then `CancelGroup` goes through the active groups, `Reboot` cancels and submits
the server, `Restarting` reads `want_stop` once more (`simulation.py:530`) and `MarkWaiting` sets the statuses.

A restart covers `cancel`, the count of restarts, the drop or the new job, and the statuses
(`RestartGroup`). `JobStarts` to `JobCrash`, and `Receive` to `ServerCrash`, are the scheduler, the
simulations and the server.

*cancel.* `Group.cancel` and `Server.cancel` return the function of the user, uncalled. So no
job ends by them, and no `job_status` changes: a restarted Sobol' group leaves its old job (`stray`)
running. The other groups, and the restart of the server, give the returned value to asyncio, which accepts a
future or a coroutine object and raises for a function. `CancelRaises` is what may
happen each time: `{TRUE}` is every study written as documented, in which the main thread dies (`study.py:858`)
or the study is given up (866) when the server is lost; `{TRUE, FALSE}` adds studies that store
an awaitable instead of a function, the only ones in which the code after a lost server runs.

*Time.* A group is found late at any time (`MaxTimeouts` times). Sleeps order nothing by themselves;
`Slept` and `Handled` say what the code relies on: that messages sent before a sleep of
seconds have been read after it, and data handled. The faults `slow_messages` and `slow_data`
drop the two. No sleep stands between the two looks when the first one finds all well. No theorem needs `Slept`.

### Messages

A message is a sequence of cells, one per value its writer copies into the buffer; a reader takes cells from
where its pointer goes, and one that goes beyond the end finds anything. `Launcher` and `Redistribution`
build the messages they send and read them with these operators, so what arrives is what the layout of
both sides makes of it: of a late simulation the launcher learns nothing (its id lies
behind the end of the message), and a server rank finds its part at the offset it computes.

### Redistribution

`comm_n_to_m_init` decides with two loops over the cells which rank of a simulation
sends what to which server rank. Each iteration is a step: `CountCell` of the first loop, which counts
cells (`send_counts`) and messages (`total_nb_messages`, `local_nb_messages`), `FillCell` of the second,
which fills the list of messages with their sender and receiver (`push_rank`, `pull_rank`); `Rewind` stands
between them, where the two ranks and their counts are reset, and `Connect` after them. Both move on with
`NextCell`, on their own variables. So what the first counts and what the second lists need not agree
by construction: `PushersMatch` says they do. All ranks run the loops on the same sizes, so they are
run once, with a row of `send_counts` for each. `OneToM` is `comm_1_to_m_init`, for learning. `Send` is `melissa_send`
for a time step, with the gather of learning (`Gathered`) and the round robin of learning 2.
A message carries its part through the header of `Messages` (`Arrives`).
The value of a cell is its number in the field, so `Written`, what `melissa_write_stats` and
`dgather_data` put together from the server ranks, can be compared with the field.

### Output

`melissa_write_stats_seq` on all the ranks, after the loop of the server. `LeaveLoop` is the end of the
loop for one simulation with `melissa_write_stats_seq`'s exchange of sizes; `SendPart` a rank that copies its part
and sends it; `CopyPart`, `ReceivePart` and `write_output` what rank 0 does for a file, receive by
receive (`dgather_data`, `igather_data`); `Leave` the last barrier. `eager` is whether `MPI_Send` returns
before the message is received: the standard lets the library choose, so the model has both.
The buffer starts with garbage and is used for every file. The content of a cell is the file it was
written for and its number in the field.

### IterativeStatistics and Statistics

Every function of `stats/*` that the server calls is an operator on one cell, over fractions. Square
roots (the indices, the skewness) are kept as signed squares. Of a quantile only the number of its
updates and the exponent of its gain are kept: its moves are powers with a real exponent.
`StatisticsFiles` has what each `save_` function writes, in order, and what the `read_` function makes of it.
`StatisticsMerge` has the functions that put the partial results of ranks together; the server does not use
them, so they are no part of a state machine and are checked as functions.
`Statistics` has the command line and its checks (`melissa_get_options`, `melissa_check_options`),
`melissa_alloc_data`, `compute_stats` with the order of its updates (run A, the Sobol' indices, run B),
which values `save_stats` writes and `read_saved_stats` reads back, and `melissa_write_stats`
(a file per statistic, value and time step). `fresh` remembers which time steps got a message since the
server started.

### PyServer

| state | code |
|---|---|
| `pc[r]` | `init`: in `_wait_for_first_init`; `run`: the loop of the user's program; `barrier`: in `stop`; `stopped` |
| `simulations[r]` | the dictionary of `server.py`, with the messages marked by `mark_message_recieved`, and whether the simulation has been silent for `max_delay` |
| `sample_size[r]`, `text_puller[r]` | one per rank: each rank counts the drops it has heard of |
| `returned[r]` | how often `run` returned a message to the user |
| `first_connection_recieved`, `stopping` | shared with the listener thread of rank 0 |

`run` is `handle_launcher_message` and `handle_simulation_data`; the thread is
`handle_simulation_connection`, which also releases the other ranks by its broadcast; `EnterStop` and
`LeaveStop` are the two sides of the barrier in `stop`. `CrashAndRestart` starts the server with or
without `restart`: as `_recover` never succeeds both begin with an empty record.

## 4. What the runs check

| run | question | bounds | distinct states |
|---|---|---|---|
| `ServerFaults` | Does each message count at most once, and do bits and statistics agree, whatever happens? | 1 rank, 2 streams, one of them empty, 1 simulation, 2 steps, 2 crashes, every fault but a file cut in its middle | 77 thousand |
| `ServerOneStream` | Is what the launcher is told safe, is the count right, do checkpoints keep what they held, is the promise kept? | 1 rank, 1 stream, 2 simulations, 2 steps, 2 crashes that may cut a checkpoint between two files | 9 thousand |
| `ServerTwoRanks` | Is the end complete when the ranks come back from different pasts; does the study end? | 2 ranks with a stream each, 2 simulations, 1 step, 1 crash | 13 thousand |
| `ServerPremature` | violated: with two streams on one rank the server may stop before the second has sent anything | no fault at all | - |
| `ServerWipe` | violated: the checkpoint after a restart erases the streams not read back yet | 1 crash | - |
| `LauncherSobol` | Is a report that a group is finished ever lost; does the study stop too early; does anything but the loss of the server end it? | 2 Sobol' groups, 1 restart each before they are given up, 1 crash of a job, 1 of the server, a slow server, a documented `cancel` | 930 thousand |
| `LauncherReboot` | Is a server only started when the one before has ended, whatever the two looks see; does the study complete unless it loses its server? | 1 Sobol' group, 1 crash of the server that may forget, 1 crash of a job, 1 late group, a `cancel` that may raise each time | 294 thousand |
| `FieldToFile` | Is the field whole in the server, and in every file, whatever the sizes and the mode, and however far MPI lets the ranks run ahead? | 1 to 3 ranks with 1, 2 or 4 cells, 1 to 3 server ranks, 3 steps, learning 0, 1 and 2, two statistics with one and two files per step | 97 thousand |
| `Statistics` | Are the statistics those of the set of outputs received? | 7 command lines (2 refused), 3 or 4 simulations or groups, 1 or 2 steps, 2 restarts from any checkpoint | 20 thousand |
| `StatisticsSobol` | violated: the covariances of the Sobol' indices are not those of the outputs | 4 groups, no fault needed | - |
| `StatisticsRestart` | violated: after a restart the variance of a complete time step is written as 0 | 4 simulations, 1 restart | - |
| `PyServer` | Has the user every time step once, on every rank, when the study is told to stop; is it? | 2 ranks, learning 2, 2 simulations of 2 steps that may be given up, 1 silence, lost message or crash | 295 thousand |

**Why these bounds.** Two simulations of one or two time steps are used because each hazard of the server relates at most two
simulations (one finished, one not), two steps (one saved, one not), two streams
(one seen, one not) or two ranks (one ahead of the other). Two crashes are needed
to see that a checkpoint written after a restart still holds what the first one held.
`MaxLaunches` bounds the submissions of a simulation; since messages may be
duplicated anyway, one submission covers the reruns.
For the launcher, two groups are needed where one may finish while the other is restarted
(`LauncherSobol`); what happens around a restart of the server concerns each group alone, and one group
keeps the liveness check small (`LauncherReboot`). There `CrashesBeforeRedraw = 3` lets a group be given up only
after the server was started again: a drop while it is down is lost (see the divergences). In `FieldToFile` sizes of 1, 2 and 4 give parts that end
before, with and after the part of a server rank, three server ranks share 1 to 12
cells with every remainder, and some of them have no cell; two files of one statistic show ranks that run ahead
between two barriers. In `Statistics` (where the assumptions of `MCStatistics` are evaluated too: samples of 1 to 3 values merged in
every combination against the statistics of all values together, and every structure saved and read) the values have ties and extremes that come first or last; four
groups are the first sample on which the covariances can be seen to be wrong. In `PyServer` two ranks
are enough for one to miss what the other knows.

Deadlock is not checked: everything ends. The server stops (`finalized`), or is `broken`,
and then nothing more happens; so do the launcher, the writers and the Python server.

**Fairness.** *Server* (`FairSpec`): the loop of a rank never blocks, so its end test is weakly fair;
the text socket and the data sockets are polled in every iteration, and ZeroMQ serves
its peers in turn, so a rank that polls for ever gets every
message that is sent: strong fairness for `RecvText` and for a message that is still
needed (`Awaited`), because other messages take the rank through states in which it is
not enabled. The launcher submits every group in a loop and restarts a dead server:
weak fairness. Nothing is assumed of crashes, timeouts and signals.
*Launcher*: its threads are loops with sleeps, so each is weakly
fair; the scheduler is not busy for ever (`SF_vars(LaunchJob)`), starts what is
submitted, a restarted server too, and ends what is done; the server reads what it is sent; and it finds late a
simulation it has heard of when nobody sends for it any more, since its clock only runs
on.
*Python server*: the user calls `run` until all is done and then `stop`; the launcher submits every
simulation once; a simulation that was launched connects and sends what it has; and a simulation that
can no longer connect is found silent, since time passes (`crashed`, 600 s). All of it weak fairness. No
fault is fair.

### Findings

Each is shown by a run that expects the violation.

- `ServerPremature`: `check_simu_state` ignores streams that have not sent anything (`server_helper.c:120`).
- `ServerWipe`: the lazy restart lets a checkpoint overwrite what has not been read (`server.cxx:391` with 596-603).
- `StatisticsSobol`: `increment_sobol_martinez` gives the covariances the number of iterations of before
  the vector (`sobol.c:264`; it is incremented at line 314).
- `StatisticsRestart`: the thetas of the moments are not in the checkpoint, so a time step complete before
  the crash has variance, skewness and kurtosis 0 (`general_moments.c:303-382`).

### Divergences

The others met while modelling. Those with constants can be seen by giving them to the named run.

*Server* (`ServerOneStream` or `ServerTwoRanks` with the fault):

- two crashes with two ranks (`ServerTwoRanks`, `Faults = {"crash"}`, `MaxCrashes = 2`): a rank saves when it
  ends. If the server dies before the last rank has, the other ranks keep files that call every
  simulation finished; after the restart the last rank ends and saves too, and if the server then dies
  once more, the next one finds every simulation finished in every file, ends at once, has no
  statistics in memory, and overwrites the files (`StopMeansComplete`; `server.cxx:881-906`);
- `late_crash`: the same with one crash, after the last rank has saved and while the results are written;
- `drop` with a crash: a dropped simulation is saved as dropped by rank 0 and as finished by the others, is not
  counted after a restart, and the study never ends (`Termination`; `server.cxx:285`);
- `late_data` or `drop_finished`: a simulation finished and dropped counts twice (`FinishedCount`);
- `launcher_death`: the sample shrinks in every iteration of the loop after the launcher's
  timeout, not once (`server.cxx:376-381`), and may fall under what `melissa_check_options` accepts;
- `torn_file`: the checkpoint is overwritten in place; statistics without their bits make
  every message count twice (`AtMostOnce`);
- `early_crash`: a restart without a checkpoint reads uninitialized memory (`Termination`);
- `signal`: after a SIGUSR1 the end test is never reached again (`Termination`);
- without a run: a server rank without a cell never gets a message in the classic mode and never leaves its
  loop (`melissa_api.c:739`); the vectors of simulations and steps grow one short of the id of the
  message (`server.cxx:579`, 641); `converged` is never sent since its test is commented out (683).

*Launcher*:

- a batch (`LauncherSobol` without the crash of the server, with `FairSpec`, `Sobol = FALSE`, `NbGroups = 1`,
  `BatchSize = 2`, `CancelRaises = {FALSE}`): one finished simulation of a batch makes the launcher take the whole group for
  finished (`study.py:138`); if the job dies then, the study waits for ever (`CompletesOrLosesServer`);
- the documented `cancel` and `server_crash` (both in `LauncherSobol`, `CancelRaises = {TRUE}`): the server that
  died is never started again, although `restart_server` "is used to reboot the server in the case of a
  fault" (`examples/heat_example/README.md:404`): `study.py:858` awaits the function of the first active
  group and the main thread dies, and without an active group the study is given up (866). This is why
  `AbortMeansNoServer` and `CompletesOrLosesServer` leave out a lost server. With `Sobol = FALSE` every restart of a
  group ends the study (`AbortMeansNoServer`; `simulation.py:246`);
- the two looks (`study.py:841` and 851; "did we get a want stop in the meantime? ... Refactor race conditions!",
  848): both statuses are RUNNING at the first, so main does not sleep; the server ends, the state checker sees its job
  over, and its stop and last reports are unread at the second. With a `cancel` that can be awaited, the server that is
  done is submitted again (`LauncherReboot` with `OnlyDeadServerReboots`; 863 comes before `simulation.py:530`
  looks at `want_stop`), and since it may have forgotten what the first one counted, the study may stop
  before it has counted everything (`LauncherReboot` with `StopMeansCounted`). With the documented `cancel`, main dies or gives up
  although the study was complete (the `done` in `AbortMeansNoServer`);
- `early_report`: a report that comes before the call that submits the job returns is
  overwritten, and a finished group is run again (`ReportsAreKept`; `simulation.py:159-160`);
- `late_crash`: when the server dies after the launcher has every group finished, it is not
  restarted, and the launcher waits for ever (`CompletesOrLosesServer`; `study.py:853`);
- `timeout` with two Sobol' groups (`LauncherSobol`): the id in a timeout message is written behind its end and never
  sent (`melissa_messages.c:193`), so the launcher restarts the first group whichever one is late, also when
  that one is finished (`ReportsAreKept`);
- a group that is given up while the server is down (`LauncherReboot`, `CrashesBeforeRedraw = 1` or 2) or before it dies (the
  fault `crash_after_drop`): the drop is published once, so the server that is started again does not know of it, and waits
  for a simulation nobody runs (`CompletesOrLosesServer`; `simulation.py:260`);
- without a run: a thread that died is replaced by one without the server and the groups
  (`study.py:824`, 830, 836); the handlers of `study.py:896` and 932 add a number to a string and raise;
  the launcher's own timeout of the server cannot fire (`study.py:173`), since `last_server` was set in
  the same iteration.

*Client API and output*:

- a rank without cells (`FieldToFile` with `PartSizes = {0, 2}`, `Modes = {0}`) gets a cell of its neighbour, and
  the field loses one (`FieldIsWhole`; `melissa_api.c:346`): the loop moves on by one rank only, and two empty ranks in a
  row read past their vectors;
- files are named with `%g` of thresholds and orders: values equal to six digits share a file; the ids of the
  extremes are copied through an integer buffer laid over the one for reals; the messages of the gather
  carry the rank as their tag, and no statistic or step.

*Statistics*:

- the first vector sets no `min_id` and `max_id` (`min_max.c:88-93`), so simulation 0 stands for "none" too;
- `compute_kurtosis` divides by theta3 squared instead of theta2 squared (`general_moments.c:508`);
- the variance that is written is theta2, the biased one; `compute_variance` is not called;
- a group with Sobol' indices updates a quantile twice, while its gain is planned for `sampling_size`
  updates (`quantile.c:78-104`, `compute_stats.c:137`): gamma exceeds 1;
- in the merges, which nothing calls: `update_variance` adds variances as if they were sums of squares, unlike
  `increment_variance`; `update_covariance` divides the counters as integers, so it is right only when the
  quotient has no remainder; the indices of Jansen sum squares of sums, not of differences, and are never
  selected (`melissa_data.c:155-159`);
- `confidence_sobol_martinez` is not called either, so the intervals stay 1 and the study never converges.

*Options*: the usage text gives `-l` no argument, `getopt` requires one; a restart does not keep the options
with the checkpoint.

*Python server*:

- `late_data` (`PyServer`): data after the DROP makes the simulation known again, `all_done` counts it, and the study may
  stop while another one is missing (`StopMeansReturned`);
- a server that restarts has forgotten what was finished, and the launcher does not run it again: `all_done` is
  never reached (`crashes > 0` in `Termination`); `_recover` calls `pickle.load` with two arguments and always fails;
- rank 0 may end its thread before the first connexion, when every simulation is silent or given up;
  the others then wait in a broadcast (`stopping` in `Termination`);
- `crashed` counts from the JOB message, also for a job that is still queued;
- without a run: a repeated DROP, or one of an unknown simulation, decrements `sample_size` too, and with the default `None`
  raises; RUNNING is only reported of a simulation whose JOB was missed; FINISHED is reported by
  each rank alone; the filter of repeated messages ignores the client rank.

## 5. What is proved

Every theorem holds for all finite sets of simulations, all numbers of ranks and steps and every bound on
crashes and launches, under the assumptions it names.

### MelissaServer_proofs

- `TypeCorrect`: `Spec => []TypeOK`, with every fault.
- `MessagesCountAtMostOnce`: `Spec => []AtMostOnce`, and
- `BitsTellContributions`: `Spec => []BitsAreContributions`, both when `"torn_file" \notin Faults`.

`AtMostOnce` alone is not inductive: a message is folded in when its bit is not set, so
the induction needs to know that an unset bit means no contribution; and since a
restart takes bits and counts from a file, the same has to hold of the files; and since
`melissa_init_data` zeroes the counts but not the bits, a structure must have no bits
before its first allocation. The invariant is
`StatisticsInv == TypeOK /\ MemoryOK /\ FilesOK`:

- a structure with cells agrees (`Agree`: each count is 1 if the bit is set and 0 if it is not);
  one without cells has no count;
- one without `stats_init` has no bit;
- a file with cells agrees.

`InitStream`, `Accumulate`, `save_stats` and `read_saved_stats` preserve these facts (one lemma
each), every other action leaves statistics and files alone, and `CutSave` mixes old and new
files of different streams, which is harmless since the facts are per stream. The
assumption on `torn_file` is used there only, and it is necessary.

Under `Undisturbed`, for the end of the study:

- `NothingMissingAtTheEnd`: `Spec => []StopMeansComplete`;
- `ReportsCanBeTrusted`: `Spec => []ToldMeansCollected`;
- `CountedOnce`: `Spec => []FinishedCount`.

`Undisturbed` says that each rank is fed by one stream and no part is empty, that a file is not cut in its middle, that the
server does not die while it writes the results, that nothing is dropped, the launcher lives and
no signal comes; and that there is at most one crash, or one rank. What happens without one
stream per rank, with two crashes of several ranks, a cut file, a late crash or drops is in section 4; signals, empty parts and the
death of the launcher are left out to keep the invariant small. Ranks, simulations, steps, reruns, timeouts,
lost text messages and the moments of the crashes are free.

The invariant relates five copies of the same fact: that a simulation is finished. `Has(st, s)` says that
the stream has all of simulation s, in memory or in the file it will read. On top of `StatisticsInv`:

- `Allocated`: a stream is allocated at once, and before its rank saves anything (this is where one stream per rank is used);
- `Stored`: the bits in the memory contain those of the file;
- `FinishedHas`: a simulation that is finished for the rank is there (`Has`), and one that is finished in
  `simu_<rank>.data` is in the file of the stream. After a restart the first follows from the second,
  since the ranks take the minimum of their statuses (`SavedStatusMin`);
- `RankInv`: the count is the number of finished simulations, the rank ends exactly when all are;
- `Together`: the ranks die and end together, what rank 0 told is what it thinks, and when the server is dead
  some rank has not saved the end of the study. This last part is what the bound on crashes is for.

And for the promise:

- `PromiseIsKept`: `Spec => KeepsPromise` under `Undisturbed`: the refinement of `ServerPromise`.

The lemma `Mapped` gives the abstract sets in terms of the bits (by `BitsAreContributions`);
then each action is a step of the promise: a message or a restart is `Receive`, a checkpoint and
the end of a rank `Save`, a death `Crash`, the end of the study `Stop`; the rest changes nothing (`QuietSteps`).
Two facts are added to the invariant: the ranks are down, or broken, together and then without memory, and a file
that does not exist holds nothing.

- `CheckpointsOnlyGrow`: `Spec => CheckpointsKeepStatistics`, and
- `FinishedStaysFinished`: `Spec => FinishedIsFinal`, under `Undisturbed` too. Both are about steps: the first
  follows from the saved set of the promise, which `Save` only enlarges and no other step changes; the second looks
  at every action that writes a status, and needs `RankInv` and the bits for a repeated last message.

### PyServer_proofs

For every number of ranks, simulations, fields and steps, with all faults, crashes included:

- `TypesAreKept`: `Spec => []TypeOK`: no `sample_size` falls below zero, which is a question of how many DROP
  messages a rank can get;
- `NothingTwice`: `Spec => []ReturnedOnce`; `ReportsAreTrue`: `Spec => []FinishedReported`;
- `NothingIsMissing`: `Spec => []StopMeansReturned` when `"late_data" \notin Faults`.

The invariant of a rank: its queue has a JOB or DROP of a simulation only as the launcher sent it, one DROP
at most and nothing behind it (`QueueInOrder`); what was returned is what is marked, once more before a
removal (`ReturnsAreMarked`); reports follow the record (`ReportsFollow`); the sample has shrunk by the
removals the rank has heard of at most (`SampleShrinks`), whose simulations are gone (`RemovedAreGone`); a rank that has left its loop
was and is done. Of all ranks: the end is common (`EndIsCommon`), and what a rank missed was dropped
(`LostAreDropped`). `NothingIsMissing` is then a count: a rank that knows at least `sample_size`
simulations, none of them removed, knows all that were not given up.

### Redistribution_proofs

For every number of ranks on both sides and every partition of the
field, parts without a cell included:

- `AtMostOneMessage`: `Spec => []OneMessagePerStep`: a server rank, which takes one message of a rank
  and step only, never gets two;
- `OneSocketPerMessage`: `Spec => []PushersMatch`: `local_nb_messages`, which the first loop has counted, is the number of
  messages the second has listed for the rank.

The ranks of the second loop only grow and one of them grows before each new message, so the new one is different from
all before it. The invariant says so of the list (`Ordered`), and that the loop is not behind its list
(`Ahead`).

That the two loops agree is no step of either: it relates a number fixed at the end of the first to a list
that grows in the second. The invariant `TwoLoops` says that both run along one path of positions
(`Path`: the positions after each cell, each from the one before by `After`). While
the first loop is at its cell i, each count is the number of messages that begin among the first i positions
(`Counting`, `CountedAlong`). In the second, the counts are those of the whole path, and the list has the
messages that begin among the first i (`Filling`, `FilledAlong`). `Rewind` starts the second at
the beginning of the path (`TwoLoopsRewind`), and a `Rewind` that forgets one counter is the mutant of `PushersMatch`. At the end of
the second loop both are of the whole path.

- `RedistributionTypeOK`: `Spec => []TypeOK`: no count and no rank leaves its range, although both loops move their two ranks on
  without looking at their number;
- `ServersTakeTurns`: `Spec => []EachServerLearns`. The target of a step is a remainder modulo the number of server ranks,
  and any as many consecutive steps have every remainder (`EveryRemainder`); the invariant `Taught` says that what a
  server has of rank 0 is what rank 0 sends to the target of the step.

And when no rank of the simulation is without cells (`0 \notin PartSizes`):

- `FieldArrivesWhole`: `Spec => []FieldIsWhole`.

The hypothesis is necessary: TLC finds the field incomplete with parts of 0, 0 and 1 cells (section 4). The proof has three
parts. *The shares*: `First(s)` is a fold over the sizes of the parts of the servers; the lemmas on
`SumFunctionOnSet` give its recurrence, and a least counterexample stands for the inductions over ranks
(`Places`, `FieldLayout`). *The loops*: after x cells of the first loop each rank of the simulation has counted,
for each server, the cells before x that both own (`Common`, invariant `Counts`); in the second the counts stay,
and it lists a message for each pair of ranks with common cells before x. *The messages*: so the messages of a step
are slices of the field between edges that follow one another (`Edge`, `EdgesOfServer`), which `FlattenSeq` puts
together again (`Held`, `FieldArrives`).

### Output_proofs

For every number of ranks, every list of statistics and whatever MPI buffers:

- `RankZeroIsWaitedFor`: `OutputSpec => []NobodyLeavesEarly`, also for parts without cells. The invariant `Writes` ties
  what rank 0 has written to what it has gone through, and says that nobody is past the last barrier before rank 0
  has come to it.

And when no part is empty, as above, since a server gets what it shares from `Redistribution`:

- `OutputTypes`: `OutputSpec => []OutputTypeOK`;
- `EveryFileIsWhole`: `OutputSpec => []FilesAreWhole`;
- `EveryMessageHasItsReceive`: `OutputSpec => []EveryMessageIsAwaited`;
- `MessagesOfOneStatistic`: `OutputSpec => []OneStatisticWaits`.

The messages carry no file, so the invariant `Writing` has to say by counting alone which file each one is of: the channel of
rank s is the pieces of s (`Piece`) of the files from the one rank 0 awaits of it (`Awaited`) to the last
one s took part in (`Waiting`). `Shared` says that sizes are known before anything is sent; `InStep` that a barrier keeps
a rank from the files of a statistic rank 0 has not come to; `Gathered0` that the buffer of rank 0
holds the field up to its offset, whatever was there before. `PieceOfServer` takes from `Held`, the invariant of the
redistribution, that the part of a rank is its share of the field. The list of files is a flattened one, of
which `FilesInOrder` proves that it has a length and that its statistics come in order (`Flattened`).

### Launcher_proofs

For any number of groups, simulations, restarts and faults:

- `LauncherTypes`: `Spec => []TypeOK`;
- `NoTwoServers`: `Spec => NoSecondServer`, for every kind of group and every outcome of `cancel`;
- `NothingAborts`: `Spec => []AbortMeansNoServer` for Sobol' groups;
- `StopsWhenCounted`: `Spec => []StopMeansCounted` with the documented `cancel` (`FALSE \notin CancelRaises`);
- `ReportsReachTheGroups`: `Spec => []ReportsAreKept` for Sobol' groups with the documented `cancel`, when no report
  comes before its submission has returned (`early_report`), and no simulation is late or there is one group: with two
  a timeout is taken for one of the first (section 4).

None of them assumes anything of time: they hold with `slow_messages` and `slow_data`, whatever the
two looks of `fault_tolerance` see, and with crashes of the server.

`Positions` says where the main thread is (which loop it returns to, that its counters are in range). `ServerSeen`
says that what main knows of the server is late, never wrong: a server is known only once it has spoken, a job known to be over
is over, and `LostIsOver` draws from it that a server taken for lost at the second look is dead or done. That it is dead
cannot be shown: this is the race of section 4. `StopKnown` is for the documented `cancel`: the server is not started a
second time, so a stop message, read or waiting, is that of a server that has counted everything. With an
awaitable `cancel` a server that is done can be started again and forget, and TLC finds `StopMeansCounted` violated: the
hypothesis is necessary. For the reports, `ReportInv` adds that only submitted groups are
restarted (`Calm`), that a group that was not submitted has no job and no message (`Unsubmitted`), and that of a
group the server calls finished the last message waiting is the report, or the group is finished
(`Reported`).

### Statistics_proofs

For every command line, all outputs and any number of repeated messages, checkpoints and deaths:

- `StatisticsCountTheSamples`: `Spec => []SamplesCounted`;
- `ThresholdsCountTheSamples`: `Spec => []ExceedancesCounted`;
- `ExtremesAreOfTheSamples`: `Spec => []ExtremesAreReached`;
- `StatisticsTypeOK`: `Spec => []TypeOK`;
- `RestartsLoseOnlyThetas`: what a checkpoint writes is what a restart reads, but for the thetas of the moments. This is the
  reverse of the finding `StatisticsRestart`: nothing else is lost.

As in `MelissaServer`, what holds in the memory has to hold in the file, so the invariant `SInv` says the same of both:
the structures are those of the allocation (`ShapeOf`), and their counters are those of the step bits beside them
(`CountsAgree`). One lemma says that an allocation counts nothing, one that a vector counts once in
every statistic of its step and in no other (`UpdateCounts`), one what both vectors of a group add (`ComputeCounts`), one each that saving
and reading keep the agreement. `MessageCounts` puts them together: the bit is set by the same message. The
extremes are bounds that are reached (`SInv` again, of memory and file), one more value moves them at most to itself.

### Arithmetic_proofs

Only lemmas: sums over finite sets (whatever order the fold takes, one more term, linear combinations), and
fractions. `gcd` is the greatest common divisor with its coefficients (`GcdIsGcd`), so two equal fractions are one
`Rational` (`SameRational`); from there `PlusIs`, `MinusIs`, `TimesIs`, `OverIs`, `PowIs` and `LessIs` say what the
operators are of fractions a/b, and `MeanStep` and `VarianceStep` are the two update formulas of the C code as
identities. Induction over an operator is out of reach, so a least counterexample stands for it (`LeastNat`), and for
finite sets `OneByOne`, with a set in the place of the property. The powers of the moments are written out
(`Power`, 1 to 4): the provers know nothing of n^k; TLC checks that they are the same.

### Samples_proofs

For every command line, all integer outputs and any number of repeated messages, checkpoints and deaths:

- `MomentsAreOfTheSamples`: `Spec => []MomentsAreBatch`;
- `ThetasAreOfTheSamples`: `Spec => []ThetasFollow`;
- `VariancesAreOfTheColumns`: `Spec => []SobolVariances`;
- `GainsStayInRange`: `Spec => []QuantileGain`;
- `ResultsAreOfAll`: `Spec => []ResultsOfAll`.

The batch values are of a function x, its domain a set of outputs: `N(x)`, `PowerSum(x, k)`. One more number changes
them as the update changes the structure (`MomentsOneMore`, `VarianceOneMore`). `CentralSums` expands the sum of
(n x - sum)^k into power sums, so that `ThetaIs` can compare the formulas of the thetas with the central moments: two
polynomials over n^k. The invariant `BInv` is, as `SInv`, of the memory and of what a restart would read: `Follows(d, f)`
says that the moments, gains and variances in d are those of what the bits in d call received, the thetas for the time
steps in f only. f is `fresh` for the memory and empty for the file, whose thetas are not kept: here the finding
`StatisticsRestart` is what the invariant has to leave room for. A theta is not computed from the first number; it stays
0, which is right since a central moment of one number is (`CentralOfOne`), and since nothing was computed before:
this is why `IsMomentsOf` asks for the thetas also when nothing was received. The variances of the indices are 0 at the first
number in the same way. `GainsStayInRange` needs no induction of its own: the number of updates is the
number of simulations received (`SInv`). `ResultsAreOfAll` adds that the results are written from the final data and
nothing happens after them (`RInv`), and that no two writers use one name (`OwnResults`).

### Only model-checked

- The liveness properties (`Termination`, `CompletesOrLosesServer`): liveness under fairness and ENABLED are out of the prover's reach.
- The merges of `StatisticsMerge`, as assumptions of `MCStatistics` over small samples.
- The launcher with a `cancel` that can be awaited, as far as it goes (`LauncherReboot`); whatever the theorems'
  hypotheses exclude.

Every invariant that a run checks is stated by a theorem.

No module declares a RECURSIVE operator.

## 6. What is not modelled, and why

- In the server: SIGINT, the learning mode, the growth of the simulations vector, `CHECK_SIMU_DECONNECTION` (off by default), the
  parameter query: small variations of the loop. A restart that reads statistics
  without step bits (`restart = 2`).
- In the statistics: confidence intervals (their use is commented out); the estimate of a quantile, a power with a real exponent;
  rounding. `learning.c`.
- In the output: the formats (text, Ensight, NetCDF), sequential formatting; `write_stats_bin`, which nothing calls.
- In the options: ports, directories, verbosity; `melissa_write_options` and `melissa_read_options`, which
  nothing calls.
- In the launcher: the responder thread, which only reads; threads that die;
  the assimilation mode; `disable_fault_tolerance`; the creation and the check of a study.
- In the client API: the exchange of names and ports, the Sobol' coupling, several fields,
  `melissa_finalize`.
- In the messages: the width of numbers, and the vectors, sequential code covered by unit tests; the state machines do not
  send the options (only the responder of the launcher does) and the confidence intervals (which the launcher only records).
- Batch spawners: templates and calls of the scheduler. Monitoring, examples and tests: not part of the protocol.
