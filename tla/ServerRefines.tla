---------------------------- MODULE ServerRefines ----------------------------
(* MelissaServer keeps the promise of ServerPromise.                          *)
EXTENDS MelissaServer

Items == (Streams \ EmptyStreams) \X Simulations \X Steps

\* what a stream has, or will have read back before its next message is looked at
Data == [st \in Streams |->
    IF ~stats_data[st].stats_init /\ (restart \/ pc[Root] = "down")
    THEN stats_file[st].contributions ELSE stats_data[st].contributions]
DataSaved == [st \in Streams |-> stats_file[st].contributions]

ItemsIn(contributions) == {x \in Items : contributions[x[1]][x[2]][x[3]] > 0}

Reported == {s \in Simulations : (Up \/ Stopped) /\ told[s] = 2}

Promise == INSTANCE ServerPromise WITH
    ItemsOf   <- [s \in Simulations |-> {x \in Items : x[2] = s /\ RankOf[x[1]] = Root}],
    collected <- ItemsIn(Data),
    saved     <- ItemsIn(DataSaved),
    finished  <- Reported,
    stopped   <- Stopped

\* The server keeps its promise: nothing that is collected is lost but in a
\* crash, and then nothing that was saved; no simulation that was not received by
\* rank 0 is reported as finished; it stops when all is collected (server.cxx
\* 388-399, 591-617, 649-775 and 881-885, melissa_io.c 142-406).
KeepsPromise == Promise!Spec
=============================================================================
