--------------------------- MODULE Redistribution ---------------------------
(***************************************************************************)
(* How the ranks of a simulation share a field among the ranks of the       *)
(* server (src/api/melissa_api.c), and how the server puts it together      *)
(* again (src/server/output/melissa_output.c).                              *)
(*                                                                         *)
(* melissa_init computes which rank sends what to which server rank, in two *)
(* loops over the cells: the first counts, the second fills the list of the *)
(* messages. There is one action per iteration. Every rank runs the loops   *)
(* on the same sizes, so they are run once here, with a row of send_counts  *)
(* for each rank. melissa_send then sends a time step.                      *)
(*                                                                         *)
(* Simplifications: one field; no Sobol' group (its first simulation sends  *)
(* the data of the others along with its own); the value of a cell is its   *)
(* number in the field, so what the server writes can be compared with what *)
(* it should; the messages of a time step of a rank are sent in one action. *)
(***************************************************************************)
EXTENDS Integers, FiniteSets, SequencesExt

CONSTANTS
    MaxClients,    \* bounds on the ranks of the simulation and of the server
    MaxServers,
    PartSizes,     \* how many cells a rank of the simulation may have
    Modes,         \* learning, as the server tells it: 0, 1 or 2
    NbSteps,       \* time steps sent
    Samples        \* ids of the simulation

ASSUME RedistributionAssumption ==
    /\ MaxClients \in Nat \ {0} /\ MaxServers \in Nat \ {0}
    /\ PartSizes \subseteq Nat
    /\ Modes \subseteq 0 .. 2
    /\ NbSteps \in Nat
    /\ Samples \subseteq Nat

VARIABLES
    learning, sample_id, nb_proc_server, local_vect_sizes,   \* never change
    phase,
    client_rank, client_count, server_rank, server_count,    \* the loops
    i,
    send_counts,           \* results of the first loop
    total_nb_messages,
    local_nb_messages,
    messages,              \* of the second: push_rank and pull_rank of each message
    timestamp,
    received               \* by a server rank, of a time step, from a rank

confVars == <<learning, sample_id, nb_proc_server, local_vect_sizes>>
loopVars == <<client_rank, client_count, server_rank, server_count, i>>
countVars == <<send_counts, total_nb_messages, local_nb_messages>>
tableVars == <<countVars, messages>>
vars == <<confVars, phase, loopVars, tableVars, timestamp, received>>

Clients == DOMAIN local_vect_sizes
Servers == 0 .. nb_proc_server - 1
Steps == 0 .. NbSteps - 1

global_vect_size == SumFunction(local_vect_sizes)
gatherv_displs(c) == SumFunctionOnSet(local_vect_sizes, 0 .. c - 1)

\* (mutant: the remainder goes to nobody)
server_vect_size_floor(s) == global_vect_size \div nb_proc_server
server_vect_size(s) ==
    global_vect_size \div nb_proc_server
        + (IF s < global_vect_size % nb_proc_server THEN 1 ELSE 0)

sdispls(c, s) == SumFunctionOnSet(send_counts[c], 0 .. s - 1)

NoCell == 0        \* what lies outside of the vector of a rank
Cells == 1 .. global_vect_size

-----------------------------------------------------------------------------
(* melissa_init.                                                             *)

\* with learning, rank 0 has gathered the field and has a message for each
\* server rank
OneToM ==
    /\ phase = "send"
    /\ send_counts = [c \in Clients |-> [s \in Servers |->
                         IF c = 0 THEN server_vect_size(s) ELSE 0]]
    /\ messages = [k \in 1 .. nb_proc_server |-> [push |-> 0, pull |-> k - 1]]
    /\ total_nb_messages = nb_proc_server
    /\ local_nb_messages = [c \in Clients |-> IF c = 0 THEN nb_proc_server ELSE 0]

\* without, at least one message is counted, of rank 0
NToM ==
    /\ phase = "count"
    /\ send_counts = [c \in Clients |-> [s \in Servers |-> 0]]
    /\ messages = <<>>
    /\ total_nb_messages = 1
    /\ local_nb_messages = [c \in Clients |-> IF c = 0 THEN 1 ELSE 0]

Init ==
    /\ learning \in Modes
    /\ sample_id \in Samples
    /\ nb_proc_server \in 1 .. MaxServers
    /\ \E n \in 1 .. MaxClients : local_vect_sizes \in [0 .. n - 1 -> PartSizes]
    /\ client_rank = 0 /\ client_count = 0
    /\ server_rank = 0 /\ server_count = 0
    /\ i = 0
    /\ IF learning > 0 THEN OneToM ELSE NToM
    /\ timestamp = [c \in Clients |-> 0]
    /\ received = [s \in Servers |-> [t \in Steps |-> [c \in Clients |-> {}]]]

\* The next cell, the same way in both loops: it belongs to a rank of the
\* simulation and to a server rank, and needs a new message when one of them is new.
NextClient == client_count >= local_vect_sizes[client_rank]
NextServer == server_count >= server_vect_size(server_rank)
NewMessage == NextClient \/ NextServer

NextCell ==
    /\ i < global_vect_size
    /\ client_rank' = IF NextClient THEN client_rank + 1 ELSE client_rank
    /\ client_count' = IF NextClient THEN 1 ELSE client_count + 1
    /\ server_rank' = IF NextServer THEN server_rank + 1 ELSE server_rank
    /\ server_count' = IF NextServer THEN 1 ELSE server_count + 1
    /\ i' = i + 1
    /\ UNCHANGED <<confVars, phase, timestamp, received>>

\* the first loop counts cells and messages
CountCell ==
    /\ phase = "count"
    /\ NextCell
    /\ send_counts' = [send_counts EXCEPT ![client_rank'][server_rank'] = @ + 1]
    /\ IF NewMessage
       THEN /\ total_nb_messages' = total_nb_messages + 1
            /\ local_nb_messages' = [local_nb_messages EXCEPT ![client_rank'] = @ + 1]
       ELSE UNCHANGED <<total_nb_messages, local_nb_messages>>
    /\ UNCHANGED messages

\* between the loops: the lists are allocated, the first message is that of rank 0
\* (mutant: server_count is not reset)
RewindPart ==
    /\ phase = "count" /\ i = global_vect_size
    /\ phase' = "fill"
    /\ client_rank' = 0 /\ client_count' = 0
    /\ server_rank' = 0
    /\ i' = 0
    /\ messages' = <<[push |-> 0, pull |-> 0]>>
    /\ UNCHANGED <<confVars, countVars, server_count, timestamp, received>>
Rewind ==
    /\ phase = "count" /\ i = global_vect_size
    /\ phase' = "fill"
    /\ client_rank' = 0 /\ client_count' = 0
    /\ server_rank' = 0 /\ server_count' = 0
    /\ i' = 0
    /\ messages' = <<[push |-> 0, pull |-> 0]>>
    /\ UNCHANGED <<confVars, countVars, timestamp, received>>

\* the second loop fills the lists
\* (mutant: new_message is not reset)
FillCellKept ==
    /\ phase = "fill"
    /\ NextCell
    /\ messages' = IF NewMessage \/ Len(messages) > 1
                   THEN Append(messages, [push |-> client_rank', pull |-> server_rank'])
                   ELSE messages
    /\ UNCHANGED countVars
FillCell ==
    /\ phase = "fill"
    /\ NextCell
    /\ messages' = IF NewMessage
                   THEN Append(messages, [push |-> client_rank', pull |-> server_rank'])
                   ELSE messages
    /\ UNCHANGED countVars

Connect ==
    /\ phase = "fill" /\ i = global_vect_size
    /\ phase' = "send"
    /\ UNCHANGED <<confVars, loopVars, tableVars, timestamp, received>>

-----------------------------------------------------------------------------
(* melissa_send.                                                             *)

\* the vector a rank sends from
Vector(c) ==
    IF learning > 0
    THEN [k \in 1 .. (IF c = 0 THEN global_vect_size ELSE 0) |-> k]
    ELSE [k \in 1 .. local_vect_sizes[c] |-> gatherv_displs(c) + k]

\* (mutant: every message starts at the beginning of the vector)
ChunkFromStart(c, s) == [k \in 1 .. send_counts[c][s] |->
    IF k \in DOMAIN Vector(c) THEN Vector(c)[k] ELSE NoCell]
Chunk(c, s) == [k \in 1 .. send_counts[c][s] |->
    IF sdispls(c, s) + k \in DOMAIN Vector(c) THEN Vector(c)[sdispls(c, s) + k]
    ELSE NoCell]

\* The vector the server finds in the data message that holds the given one.
Msg == INSTANCE Messages
Arrives(c, size, vector) ==
    Msg!buff_tab_ptr(Msg!read_message_simu_data(
        Msg!message_simu_data(timestamp[c], sample_id, c, size, 1, "field", <<vector>>)), 1)

\* the messages of rank c to server rank s in one time step
Classic(c, s) ==
    {[nb |-> k, cells |-> Arrives(c, send_counts[c][s], Chunk(c, s))] :
        k \in {k \in DOMAIN messages : messages[k].push = c /\ messages[k].pull = s}}

\* with learning 2, rank 0 sends the whole field to one server rank, and an
\* empty message to the others
\* (mutant: the time step is left out)
TargetOfSample(t) == sample_id % nb_proc_server
Target(t) == (t + (sample_id % nb_proc_server)) % nb_proc_server
RoundRobin(c, s, t) ==
    IF c # 0 THEN {}
    ELSE {[nb |-> s + 1,
           cells |-> Arrives(0, IF s = Target(t) THEN global_vect_size ELSE 0, Vector(0))]}

\* MPI_Gatherv: rank 0 waits for the part of every rank
Gathered(c) ==
    learning > 0 /\ c = 0 => \A d \in Clients \ {0} : timestamp[d] > timestamp[0]

Send(c) ==
    /\ phase = "send"
    /\ timestamp[c] < NbSteps
    /\ Gathered(c)
    /\ LET t == timestamp[c] IN
       received' = [s \in Servers |-> [received[s] EXCEPT ![t][c] =
          IF learning < 2 THEN Classic(c, s) ELSE RoundRobin(c, s, t)]]
    /\ timestamp' = [timestamp EXCEPT ![c] = @ + 1]
    /\ UNCHANGED <<confVars, phase, loopVars, tableVars>>

Next == CountCell \/ Rewind \/ FillCell \/ Connect \/ \E c \in Clients : Send(c)

Spec == Init /\ [][Next]_vars

-----------------------------------------------------------------------------
(* Properties.                                                              *)

Complete(t) == phase = "send" /\ \A c \in Clients : timestamp[c] > t

\* What the server writes of a time step: the parts of its ranks one after the
\* other, and in each of them what each rank of the simulation sent.
Part(s, t, c) == IF received[s][t][c] = {} THEN <<>>
                 ELSE (CHOOSE m \in received[s][t][c] : TRUE).cells
Written(t) ==
    FlattenSeq([s \in 1 .. nb_proc_server |->
        FlattenSeq([c \in 1 .. Cardinality(Clients) |-> Part(s - 1, t, c - 1)])])

TypeOK ==
    /\ learning \in Modes /\ sample_id \in Samples
    /\ nb_proc_server \in 1 .. MaxServers
    /\ local_vect_sizes \in [Clients -> PartSizes]
    /\ phase \in {"count", "fill", "send"}
    /\ client_rank \in Clients /\ client_count \in Nat
    /\ server_rank \in Servers /\ server_count \in Nat
    /\ i \in 0 .. global_vect_size
    /\ send_counts \in [Clients -> [Servers -> Nat]]
    /\ messages \in Seq([push : Clients, pull : Servers])
    /\ total_nb_messages \in Nat
    /\ local_nb_messages \in [Clients -> Nat]
    /\ timestamp \in [Clients -> 0 .. NbSteps]
    /\ \A s \in Servers, t \in Steps, c \in Clients :
          \A m \in received[s][t][c] :
              m.nb \in Nat /\ m.cells \in Seq(Cells \cup {NoCell})

\* Every cell is written once and at its place: parts and messages of all ranks
\* together are the field again (melissa_api.c 319-436, melissa_output.c 159-206).
FieldIsWhole ==
    \A t \in Steps : Complete(t) => Written(t) = [k \in 1 .. global_vect_size |-> k]

\* A server rank gets at most one message of a rank in a time step: it would
\* take a second one for data it already has (server.cxx 649).
OneMessagePerStep ==
    \A s \in Servers, t \in Steps, c \in Clients :
        \A m1, m2 \in received[s][t][c] : m1 = m2

\* What the first loop counts is what the second fills in: the lists have the size
\* they were allocated with, and every rank has as many messages to send as it opens
\* sockets for ("should never appen", melissa_api.c 919).
PushersMatch ==
    phase = "send" =>
        /\ Len(messages) = total_nb_messages
        /\ \A c \in Clients :
              Cardinality({k \in DOMAIN messages : messages[k].push = c}) = local_nb_messages[c]

\* With learning 2, as many time steps in a row as there are server ranks give
\* each of them the whole field once (melissa_api.c 1390-1466).
EachServerLearns ==
    learning = 2 => \A t \in Steps :
        t + nb_proc_server <= NbSteps /\ Complete(t + nb_proc_server - 1)
        => \A s \in Servers :
              \E u \in t .. t + nb_proc_server - 1 : Part(s, u, 0) = Vector(0)
=============================================================================
