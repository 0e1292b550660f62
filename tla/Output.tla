------------------------------- MODULE Output -------------------------------
(***************************************************************************)
(* From the parts of the field a rank of the server has received (module    *)
(* Redistribution) to the files of results: melissa_write_stats_seq of      *)
(* src/server/output/melissa_output.c. The ranks share the sizes of their   *)
(* parts; then, statistic after statistic and time step after time step,    *)
(* each copies its part into a buffer and sends it to rank 0, which puts    *)
(* the parts one after the other and writes a file.                         *)
(*                                                                         *)
(* Simplifications: one field; what a file holds of a cell is the file and  *)
(* the number of the cell (module Statistics has the values); MPI_Allgather *)
(* and MPI_Barrier let a rank go on once every rank has come to them; the   *)
(* ranks leave the loop of the server once all messages of the simulation   *)
(* have come (module MelissaServer has when they do, and when too early);   *)
(* not in learning mode 2, where no rank has a part of its own.             *)
(***************************************************************************)
EXTENDS Redistribution

CONSTANT Loops   \* for each statistic asked for, in order, how many files it
                 \* has per time step (thresholds, quantiles, parameters)

ASSUME LoopsAssumption == Loops \in Seq(Nat \ {0})

VARIABLES
    eager,         \* whether MPI_Send returns before the message is received
    next,          \* of each rank: 0 in the loop of the server, then the file
                   \* it takes part in
    vect_size,     \* what a rank tells the others of its part
    channel,       \* messages of a rank to rank 0
    buffer,        \* d_buffer
    from,          \* rank 0: the rank it receives from, 0 before the first
    temp_offset,
    files          \* of results, in the order of Files

writerVars == <<next, vect_size, channel, buffer, from, temp_offset, files>>
allVars == <<vars, eager, writerVars>>

\* the files, in the order they are written
Files == FlattenSeq([op \in DOMAIN Loops |-> FlattenSeq([value \in 1 .. Loops[op] |->
             [t \in 1 .. NbSteps |-> [op |-> op, value |-> value, step |-> t - 1]]])])
NbFiles == Len(Files)

-----------------------------------------------------------------------------

\* a rank that no message comes to waits for one for ever
LeaveLoop(s) ==
    /\ learning < 2 /\ NbSteps > 0
    /\ Complete(NbSteps - 1)
    /\ next[s] = 0
    /\ \E c \in Clients : received[s][0][c] # {}
    /\ next' = [next EXCEPT ![s] = 1]
    /\ vect_size' = [vect_size EXCEPT ![s] = SumFunction([c \in Clients |-> Len(Part(s, 0, c))])]
    /\ UNCHANGED <<channel, buffer, from, temp_offset, files>>

OpOf(f) == IF f > NbFiles THEN Len(Loops) + 1 ELSE Files[f].op

\* the barrier before each statistic: every rank is done with the ones before
\* (mutant: only the sizes are waited for)
BarrierOfSizes(s) == \A r \in Servers : next[r] > 0
Barrier(s) == \A r \in Servers : next[r] > 0 /\ OpOf(next[r]) >= OpOf(next[s])

\* the buffer of rank s, with the parts of the clients of a file copied into it
OfFile(f, cells) == [k \in DOMAIN cells |-> <<f, cells[k]>>]
memcpy(s, f) ==
    LET part == FlattenSeq([c \in 1 .. Cardinality(Clients) |->
                               OfFile(f, Part(s, Files[f].step, c - 1))])
    IN [k \in DOMAIN buffer[s] |-> IF k \in DOMAIN part THEN part[k] ELSE buffer[s][k]]

\* (mutant: not a part of one cell)
SendsLongParts(s) == vect_size[s] > 1
Sends(s) == vect_size[s] > 0

\* rank s # 0 takes part in its next file; without room in MPI it waits for
\* rank 0 to have received the message before
SendPart(s) ==
    /\ s # 0
    /\ next[s] \in 1 .. NbFiles
    /\ Barrier(s)
    /\ eager \/ channel[s] = <<>>
    /\ buffer' = [buffer EXCEPT ![s] = memcpy(s, next[s])]
    /\ channel' = [channel EXCEPT ![s] =
          IF Sends(s) THEN Append(@, SubSeq(buffer'[s], 1, vect_size[s])) ELSE @]
    /\ next' = [next EXCEPT ![s] = @ + 1]
    /\ UNCHANGED <<vect_size, from, temp_offset, files>>

CopyPart ==
    /\ next[0] \in 1 .. NbFiles
    /\ from = 0
    /\ Barrier(0)
    /\ buffer' = [buffer EXCEPT ![0] = memcpy(0, next[0])]
    /\ from' = 1
    /\ UNCHANGED <<next, vect_size, channel, temp_offset, files>>

\* (mutant: the offset is that of the part before alone)
OffsetOfLast == vect_size[from - 1]
Offset == temp_offset + vect_size[from - 1]

\* dgather_data, igather_data
ReceivePart ==
    /\ from \in 1 .. nb_proc_server - 1
    /\ vect_size[from] > 0 => channel[from] # <<>>
    /\ IF vect_size[from] > 0
       THEN /\ buffer' = [buffer EXCEPT ![0] = [k \in DOMAIN @ |->
                  IF k - Offset \in 1 .. vect_size[from]
                  THEN Head(channel[from])[k - Offset] ELSE @[k]]]
            /\ channel' = [channel EXCEPT ![from] = Tail(@)]
       ELSE UNCHANGED <<buffer, channel>>
    /\ temp_offset' = Offset
    /\ from' = from + 1
    /\ UNCHANGED <<next, vect_size, files>>

\* (mutant: temp_offset keeps its value)
write_output_offset ==
    /\ from > 0 /\ from = nb_proc_server
    /\ files' = Append(files, buffer[0])
    /\ next' = [next EXCEPT ![0] = @ + 1]
    /\ from' = 0
    /\ UNCHANGED <<vect_size, channel, buffer, temp_offset>>
write_output ==
    /\ from > 0 /\ from = nb_proc_server
    /\ files' = Append(files, buffer[0])
    /\ next' = [next EXCEPT ![0] = @ + 1]
    /\ from' = 0
    /\ temp_offset' = 0
    /\ UNCHANGED <<vect_size, channel, buffer>>

\* the last barrier
\* (mutant: it is not there)
LastBarrierGone == TRUE
LastBarrier == \A r \in Servers : next[r] > NbFiles
Leave(s) ==
    /\ next[s] = NbFiles + 1
    /\ LastBarrier
    /\ next' = [next EXCEPT ![s] = @ + 1]
    /\ UNCHANGED <<vect_size, channel, buffer, from, temp_offset, files>>

melissa_write_stats_seq ==
    /\ \/ CopyPart \/ ReceivePart \/ write_output
       \/ \E s \in Servers : LeaveLoop(s) \/ SendPart(s) \/ Leave(s)
    /\ UNCHANGED <<vars, eager>>

\* what melissa_malloc leaves in the buffer
Garbage == <<0, NoCell>>

OutputInit ==
    /\ Init
    /\ eager \in IF learning < 2 THEN BOOLEAN ELSE {TRUE}
    /\ next = [s \in Servers |-> 0]
    /\ vect_size = [s \in Servers |-> 0]
    /\ channel = [s \in Servers |-> <<>>]
    /\ buffer = [s \in Servers |-> [k \in 1 .. global_vect_size |-> Garbage]]
    /\ from = 0
    /\ temp_offset = 0
    /\ files = <<>>

OutputNext ==
    \/ Next /\ UNCHANGED <<eager, writerVars>>
    \/ melissa_write_stats_seq

OutputSpec == OutputInit /\ [][OutputNext]_allVars

-----------------------------------------------------------------------------
(* Properties.                                                              *)

OutputTypeOK ==
    /\ eager \in BOOLEAN
    /\ next \in [Servers -> 0 .. NbFiles + 2]
    /\ vect_size \in [Servers -> 0 .. global_vect_size]
    /\ DOMAIN channel = Servers /\ DOMAIN buffer = Servers
    /\ from \in 0 .. nb_proc_server
    /\ temp_offset \in 0 .. global_vect_size

\* A file holds the field, every cell once, at its place and from the statistic
\* and the time step the file is named after, although the messages carry no
\* more than the rank (melissa_output.c 38-105, 184-545).
FilesAreWhole ==
    \A f \in DOMAIN files : files[f] = [k \in 1 .. global_vect_size |-> <<f, k>>]

\* The messages that wait for rank 0 are of the statistic it works on ("looks
\* like we have mpi buffer overflows if we are on large scale", melissa_output.c
\* 548-553): however far MPI lets the other ranks run ahead.
OneStatisticWaits ==
    \A s \in Servers, k \in 1 .. NbFiles :
        k \in DOMAIN channel[s] =>
            next[0] <= NbFiles /\ OpOf(channel[s][k][1][1]) = OpOf(next[0])

\* No rank leaves while rank 0 is still writing ("The slave processes (rank != 0)
\* quit already while the master is still writing", melissa_output.c 549).
NobodyLeavesEarly ==
    (\E s \in Servers : next[s] > NbFiles + 1) => Len(files) = NbFiles

\* What waits for rank 0 from a rank is what it has not received yet of the files
\* that rank took part in, in order: no receive is for ever without its send, no
\* message is left over, and no rank waits for another one (melissa_output.c 43-73).
EveryMessageIsAwaited ==
    \A s \in Servers \ {0} :
        LET first == next[0] + (IF from > s THEN 1 ELSE 0) IN
        vect_size[s] > 0 /\ next[0] > 0 =>
            /\ Len(channel[s]) = Min({next[s], NbFiles + 1}) - Min({first, NbFiles + 1})
            /\ \A k \in DOMAIN channel[s] : channel[s][k][1][1] = first + k - 1
=============================================================================
