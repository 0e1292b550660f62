------------------------------ MODULE Messages ------------------------------
(***************************************************************************)
(* The messages of the server, the launcher and the simulations: how they   *)
(* are written (src/common/melissa_messages.c) and read again (there, in    *)
(* melissa_comm4py.c for the launcher, in server_helper.c for the server).  *)
(*                                                                         *)
(* A message is a sequence of cells, one for each value its writer copies   *)
(* into the buffer: a number, or a text and the zero byte that ends it. A   *)
(* reader that goes beyond the end of the message finds anything.           *)
(*                                                                         *)
(* Simplifications: a number takes one cell whatever its width; a text has  *)
(* no blank in it; a field name fills its MAX_FIELD_NAME bytes.             *)
(***************************************************************************)
EXTENDS Integers, Sequences

JOB == 1
DROP == 2
STOP == 3
TIMEOUT == 4
SIMU_STATUS == 5
SERVER == 6
ALIVE == 7
CONFIDENCE_INTERVAL == 8
OPTIONS == 9
HELLO == 10

NUL == "NUL"    \* the zero byte that ends a text

get_message_type(msg) == Head(msg)

\* what follows the type (buff_ptr += sizeof(int))
Body(msg) == Tail(msg)

-----------------------------------------------------------------------------
(* The writers: message_ and send_message_ of each kind.                     *)

message_hello == <<HELLO>>
message_alive == <<ALIVE>>
message_stop == <<STOP>>

message_job(simu_id, job_id, param_set) ==
    <<JOB, simu_id, job_id, NUL>> \o param_set

message_drop(simu_id, job_id) == <<DROP, simu_id, job_id, NUL>>

\* the message is sized for its type alone: the id is written behind its end
message_timeout(simu_id) == <<TIMEOUT>>

message_simu_status(simu_id, status) == <<SIMU_STATUS, simu_id, status>>

message_server_name(node_name, rank) == <<SERVER, rank, node_name, NUL>>

message_confidence_interval(stat_name, field_name, value) ==
    <<CONFIDENCE_INTERVAL, stat_name, NUL, field_name, NUL, value>>

message_options(buff) == <<OPTIONS>> \o buff

\* nb_vect vectors of vect_size values one after the other; no type
message_simu_data(time_stamp, simu_id, client_rank, vect_size, nb_vect, field_name, data_ptr) ==
    <<time_stamp, simu_id, client_rank, vect_size, field_name>>
        \o [k \in 1 .. nb_vect * vect_size |->
               data_ptr[((k - 1) \div vect_size) + 1][((k - 1) % vect_size) + 1]]

-----------------------------------------------------------------------------
(* The readers: of a message without its type, except for data.              *)

read_message_job(body, nb_param) ==
    [simu_id |-> body[1], job_id |-> body[2], param_set |-> SubSeq(body, 4, nb_param + 3)]

read_message_drop(body) == [simu_id |-> body[1], job_id |-> body[2]]

read_message_timeout(body, beyond) ==
    [simu_id |-> IF body = <<>> THEN beyond ELSE body[1]]

\* the status is copied like a text: up to its first zero byte
read_message_simu_status(body) == [simu_id |-> body[1], status |-> body[2]]

read_message_server_name(body) == [rank |-> body[1], node_name |-> body[2]]

\* the zero bytes are not skipped: the text at the one that ends the name of the
\* statistic is empty, and so is what is read as the value not the value
read_message_confidence_interval(body, beyond) ==
    [stat_name |-> body[1], field_name |-> IF body[2] = NUL THEN "" ELSE body[2],
     value |-> beyond]

\* data is a pointer to what follows the name of the field
read_message_simu_data(msg) ==
    [time_stamp |-> msg[1], simu_id |-> msg[2], client_rank |-> msg[3],
     vect_size |-> msg[4], field_name |-> msg[5],
     data |-> SubSeq(msg, 6, Len(msg))]

\* the k-th vector of a data message, as the server finds it
buff_tab_ptr(read, k) ==
    SubSeq(read.data, (k - 1) * read.vect_size + 1, k * read.vect_size)

\* what the server keeps of a JOB message or a DROP
process_launcher_message(msg, nb_parameters) ==
    CASE get_message_type(msg) = JOB  -> read_message_job(Body(msg), nb_parameters)
      [] get_message_type(msg) = DROP -> read_message_drop(Body(msg))

\* The words the launcher reads; nothing when no message came in a second. beyond
\* is what lies behind a message, whose first byte has been set to zero.
wait_message(msg, beyond) ==
    IF msg = <<>> THEN <<"nothing">>
    ELSE CASE get_message_type(msg) = STOP        -> <<"stop">>
           [] get_message_type(msg) = SIMU_STATUS -> <<"group_state", msg[2], msg[3]>>
           [] get_message_type(msg) = SERVER      -> <<"server", msg[2], msg[3]>>
           [] get_message_type(msg) = TIMEOUT     ->
                  <<"timeout", IF Len(msg) >= 2 THEN msg[2] ELSE beyond>>
           [] get_message_type(msg) \in {HELLO, ALIVE} -> <<"alive">>
           [] get_message_type(msg) = CONFIDENCE_INTERVAL ->
                  <<"interval", msg[2], msg[4], msg[Len(msg)]>>
           [] OTHER -> <<"exit">>
=============================================================================
