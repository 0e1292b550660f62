------------------------ MODULE Redistribution_proofs ------------------------
(***************************************************************************)
(* The redistribution, for every number of ranks and every partition of the *)
(* field, parts without a cell included where the theorem does not say      *)
(* otherwise.                                                               *)
(*                                                                         *)
(* The argument: the ranks of the loops only grow, so each message is after *)
(* those before it, on one side at least (Ordered): no two messages have    *)
(* the same sender and receiver. The two loops visit the cells along one    *)
(* path (TwoLoops), so the second fills in what the first counted. The      *)
(* cells counted for two ranks are those both of them have among the first  *)
(* i (Counts), so what a rank sends is the field between two edges, and the *)
(* parts of all ranks join.                                                 *)
(***************************************************************************)
EXTENDS Redistribution, Arithmetic_proofs, SequenceTheorems

Ranks ==
    /\ \E n \in Nat : Clients = 0 .. n
    /\ \A c \in Clients : local_vect_sizes[c] \in Nat
    /\ nb_proc_server \in Nat \ {0}
    /\ client_rank \in Nat /\ server_rank \in Nat
    /\ phase \in {"count", "fill", "send"}
    /\ messages \in Seq([push : Nat, pull : Nat])

\* the second loop is not behind its messages
Ahead ==
    phase = "fill" => \A k \in 1 .. Len(messages) :
        messages[k].push <= client_rank /\ messages[k].pull <= server_rank

Ordered ==
    \A j, k \in 1 .. Len(messages) :
        messages[j].push = messages[k].push /\ messages[j].pull = messages[k].pull
        => j = k

Shape ==
    /\ DOMAIN received = Servers
    /\ \A s \in Servers : DOMAIN received[s] = Steps
    /\ \A s \in Servers, t \in Steps : DOMAIN received[s][t] = Clients
    /\ DOMAIN timestamp = Clients

IInv == Ranks /\ Ahead /\ Ordered /\ Shape /\ OneMessagePerStep

-----------------------------------------------------------------------------
(* Sums of natural numbers. *)

LEMMA SumIsNat ==
  ASSUME NEW f, NEW S, IsFiniteSet(S), \A x \in S : f[x] \in Nat
  PROVE  SumFunctionOnSet(f, S) \in Nat
<1>1. Nat \in Numbers
  BY DEF Numbers
<1> QED
  BY <1>1, SumType

LEMMA SumOneMoreNat ==
  ASSUME NEW f, NEW S, IsFiniteSet(S), NEW x, x \notin S,
         \A y \in S \cup {x} : f[y] \in Nat
  PROVE  SumFunctionOnSet(f, S \cup {x}) = SumFunctionOnSet(f, S) + f[x]
<1>1. Nat \in Numbers
  BY DEF Numbers
<1> QED
  BY <1>1, SumOneMore

-----------------------------------------------------------------------------
(* Data messages. *)

LEMMA QuotientAndRemainder ==
    ASSUME NEW n \in Nat \ {0}, NEW a \in Nat, NEW b \in 0 .. n - 1
    PROVE  (a * n + b) \div n = a /\ (a * n + b) % n = b
  <1> DEFINE x == a * n + b
  <1>1. a * n \in Nat /\ x \in Nat
    OBVIOUS
  <1>2. x = n * (x \div n) + (x % n) /\ x % n \in 0 .. n - 1 /\ x \div n \in Int
    BY <1>1
  <1>3. n * (a - (x \div n)) = (x % n) - b /\ (x % n) - b < n /\ (x % n) - b > -n
    BY <1>1, <1>2
  <1>4. a - (x \div n) = 0
    <2>1. CASE a - (x \div n) > 0
      <3>1. n * (a - (x \div n)) >= n
        BY <2>1, <1>2
      <3>2. QED
        BY <3>1, <1>1, <1>2, <1>3
    <2>2. CASE a - (x \div n) < 0
      <3>1. n * (a - (x \div n)) <= -n
        BY <2>2, <1>2
      <3>2. QED
        BY <3>1, <1>1, <1>2, <1>3
    <2>3. QED
      BY <2>1, <2>2, <1>2
  <1>5. QED
    BY <1>1, <1>2, <1>3, <1>4

\* Every vector of a data message arrives as it was sent.
LEMMA DataArrives ==
    ASSUME NEW t, NEW id, NEW r, NEW size \in Nat, NEW nb \in Nat, NEW name,
           NEW data, \A k \in 1 .. nb : data[k] = [j \in 1 .. size |-> data[k][j]],
           NEW k \in 1 .. nb
    PROVE  Msg!buff_tab_ptr(Msg!read_message_simu_data(
               Msg!message_simu_data(t, id, r, size, nb, name, data)), k) = data[k]
<1> DEFINE head == <<t, id, r, size, name>>
           body == [j \in 1 .. nb * size |->
                       data[((j - 1) \div size) + 1][((j - 1) % size) + 1]]
           S == {data[ij[1]][ij[2]] : ij \in (1 .. nb) \X (1 .. size)}
           V == S \cup {t, id, r, size, name}
           m == head \o body
           d == SubSeq(m, 6, Len(m))
<1>0. \A n \in 1 .. nb : data[n] \in [1 .. size -> S]
  <2> TAKE n \in 1 .. nb
  <2>1. \A j \in 1 .. size : <<n, j>> \in (1 .. nb) \X (1 .. size) /\ data[n][j] \in S
    OBVIOUS
  <2> QED
    BY <2>1
<1> HIDE DEF S
<1>1. nb * size \in Nat /\ (k - 1) * size \in Nat /\ k * size <= nb * size
      /\ k * size \in Nat /\ k * size = (k - 1) * size + size
  <2>1. (nb - k) * size \in Nat
    OBVIOUS
  <2>2. nb * size = (nb - k) * size + k * size /\ k * size = (k - 1) * size + size
    OBVIOUS
  <2> QED
    BY <2>1, <2>2
<1>2. \A j \in 1 .. nb * size : size \in Nat \ {0} /\ (j - 1) \div size \in 0 .. nb - 1
                                /\ (j - 1) % size \in 0 .. size - 1
  <2> TAKE j \in 1 .. nb * size
  <2>1. size # 0
    OBVIOUS
  <2> DEFINE q == (j - 1) \div size
             p == (j - 1) % size
  <2>2. j - 1 = size * q + p /\ p \in 0 .. size - 1 /\ q \in Nat
    BY <2>1
  <2> HIDE DEF q, p
  <2>3. q < nb
    <3> SUFFICES ASSUME q >= nb PROVE FALSE
      BY <2>2
    <3>1. size * q >= size * nb
      BY <2>2
    <3> QED
      BY <1>1, <2>2, <3>1
  <2>4. q \in 0 .. nb - 1
    BY <2>2, <2>3
  <2> QED
    BY <2>1, <2>2, <2>4 DEF q, p
<1>3. \A j \in 1 .. nb * size : body[j] \in S
  <2> TAKE j \in 1 .. nb * size
  <2>1. ((j - 1) \div size) + 1 \in 1 .. nb /\ ((j - 1) % size) + 1 \in 1 .. size
    BY <1>2
  <2> QED
    BY <1>0, <2>1
<1>4. head \in Seq(V) /\ Len(head) = 5
  OBVIOUS
<1>5. body \in Seq(V) /\ Len(body) = nb * size
  <2>1. body \in [1 .. nb * size -> V]
    BY <1>3
  <2> HIDE DEF body
  <2> QED
    BY <1>1, <2>1
<1>6. Msg!message_simu_data(t, id, r, size, nb, name, data) = m
  BY DEF Msg!message_simu_data
<1>7. /\ m \in Seq(V) /\ Len(m) = nb * size + 5
      /\ m[4] = size
      /\ \A j \in 1 .. nb * size : m[j + 5] = body[j]
  <2>1. head[4] = size
    OBVIOUS
  <2> HIDE DEF head, body
  <2> HIDE DEF V
  <2>a. /\ head \o body \in Seq(V) /\ Len(head \o body) = Len(head) + Len(body)
        /\ \A e \in 1 .. Len(head) + Len(body) :
               (head \o body)[e] = IF e <= Len(head) THEN head[e] ELSE body[e - Len(head)]
    <3>1. head \in Seq(V) /\ body \in Seq(V)
      BY <1>4, <1>5
    <3> QED
      BY <3>1, ConcatProperties, Zenon
  <2>b. m = head \o body
    OBVIOUS
  <2> HIDE DEF m
  <2>2. /\ m \in Seq(V) /\ Len(m) = Len(head) + Len(body)
        /\ \A e \in 1 .. Len(head) + Len(body) :
               m[e] = IF e <= Len(head) THEN head[e] ELSE body[e - Len(head)]
    BY <2>a, <2>b, Zenon
  <2>3. /\ Len(m) = nb * size + 5
        /\ \A e \in 1 .. 5 + nb * size : m[e] = IF e <= 5 THEN head[e] ELSE body[e - 5]
    <3> DEFINE all == nb * size
    <3>1. Len(head) = 5 /\ Len(body) = all /\ all \in Nat
      BY <1>1, <1>4, <1>5
    <3> HIDE DEF all
    <3>2. /\ Len(m) = all + 5
          /\ \A e \in 1 .. 5 + all : m[e] = IF e <= 5 THEN head[e] ELSE body[e - 5]
      BY <2>2, <3>1
    <3> QED
      BY <3>2 DEF all
  <2>4. \A j \in 1 .. nb * size : j + 5 \in 1 .. 5 + nb * size /\ ~(j + 5 <= 5) /\ (j + 5) - 5 = j
    BY <1>1
  <2>5. 4 \in 1 .. 5 + nb * size /\ 4 <= 5
    BY <1>1
  <2>6. m[4] = size
    BY <2>1, <2>3, <2>5
  <2>7. \A j \in 1 .. nb * size : m[j + 5] = body[j]
    <3> TAKE j \in 1 .. nb * size
    <3>1. m[j + 5] = body[(j + 5) - 5]
      BY <2>3, <2>4
    <3> QED
      BY <2>4, <3>1
  <2> QED
    BY <2>2, <2>3, <2>6, <2>7
<1> HIDE DEF m, head
<1>8. /\ d \in Seq(V) /\ Len(d) = nb * size
      /\ \A j \in 1 .. nb * size : d[j] = body[j]
  <2>1. \A e \in 6 .. Len(m) : m[e] \in V
    BY <1>7
  <2>2. 6 \in Int /\ Len(m) \in Int
    BY <1>1, <1>7
  <2>3. d \in Seq(V) /\ Len(d) = IF 6 <= Len(m) THEN Len(m) - 6 + 1 ELSE 0
    BY <2>1, <2>2, SubSeqProperties
  <2>4. \A e \in 1 .. Len(m) - 6 + 1 : d[e] = m[6 + e - 1]
    BY <2>1, <2>2, SubSeqProperties
  <2>5. \A e \in 1 .. nb * size : d[e] = m[e + 5]
    <3> HIDE DEF d
    <3> QED
      BY <1>1, <1>7, <2>4
  <2> QED
    BY <1>1, <1>7, <2>3, <2>5
<1> HIDE DEF d, body
<1>9. Msg!buff_tab_ptr(Msg!read_message_simu_data(m), k)
          = SubSeq(d, (k - 1) * size + 1, k * size)
  BY <1>7 DEF Msg!buff_tab_ptr, Msg!read_message_simu_data, d
<1> DEFINE v == SubSeq(d, (k - 1) * size + 1, k * size)
<1>10. /\ v \in Seq(V) /\ Len(v) = size
       /\ \A e \in 1 .. size : v[e] = d[(k - 1) * size + e]
  <2>1. (k - 1) * size + 1 \in Int /\ k * size \in Int
    BY <1>1
  <2>2. \A e \in (k - 1) * size + 1 .. k * size : d[e] \in V
    <3> DEFINE lo == (k - 1) * size
               hi == k * size
               all == nb * size
    <3>1. lo \in Nat /\ hi \in Nat /\ all \in Nat /\ hi <= all /\ Len(d) = all
      BY <1>1, <1>8
    <3> HIDE DEF lo, hi, all
    <3>2. \A e \in lo + 1 .. hi : e \in 1 .. Len(d)
      BY <3>1
    <3>3. \A e \in lo + 1 .. hi : d[e] \in V
      BY <1>8, <3>2, ElementOfSeq
    <3> QED
      BY <3>3 DEF lo, hi
  <2> DEFINE a == (k - 1) * size
             from == a + 1
             to == k * size
  <2>3. a \in Nat /\ from = a + 1 /\ to = a + size
    BY <1>1
  <2>4. v = SubSeq(d, from, to)
    BY DEF v
  <2>5. from \in Int /\ to \in Int /\ \A e \in from .. to : d[e] \in V
    BY <2>1, <2>2
  <2> HIDE DEF v, a, from, to, V
  <2>6. /\ SubSeq(d, from, to) \in Seq(V)
        /\ Len(SubSeq(d, from, to)) = IF from <= to THEN to - from + 1 ELSE 0
        /\ \A e \in 1 .. to - from + 1 : SubSeq(d, from, to)[e] = d[from + e - 1]
    BY <2>5, SubSeqProperties
  <2>7. /\ v \in Seq(V) /\ Len(v) = IF from <= to THEN to - from + 1 ELSE 0
        /\ \A e \in 1 .. to - from + 1 : v[e] = d[from + e - 1]
    BY <2>4, <2>6, Zenon
  <2>8. v \in Seq(V) /\ Len(v) = size
    BY <2>3, <2>7
  <2>9. \A e \in 1 .. size : v[e] = d[a + e]
    <3> TAKE e \in 1 .. size
    <3>1. e \in 1 .. to - from + 1 /\ from + e - 1 = a + e
      BY <2>3
    <3>2. v[e] = d[from + e - 1]
      BY <2>7, <3>1
    <3> QED
      BY <3>1, <3>2
  <2> QED
    BY <2>8, <2>9 DEF a
<1> HIDE DEF v
<1>11. \A e \in 1 .. size : d[(k - 1) * size + e] = data[k][e]
  <2> TAKE e \in 1 .. size
  <2> DEFINE a == (k - 1) * size
             j == a + e
  <2> DEFINE all == nb * size
  <2>1. a \in Nat /\ all \in Nat /\ a + size <= all
    BY <1>1
  <2> HIDE DEF a, all
  <2>a. j \in 1 .. all /\ j - 1 = a + (e - 1)
    BY <2>1
  <2>2. j \in 1 .. nb * size /\ j - 1 = (k - 1) * size + (e - 1)
    BY <2>a DEF a, all
  <2>3. (j - 1) \div size = k - 1 /\ (j - 1) % size = e - 1
    <3>1. size \in Nat \ {0} /\ k - 1 \in Nat /\ e - 1 \in 0 .. size - 1
      OBVIOUS
    <3>2. ((k - 1) * size + (e - 1)) \div size = k - 1
          /\ ((k - 1) * size + (e - 1)) % size = e - 1
      BY <3>1, QuotientAndRemainder
    <3> HIDE DEF j
    <3> QED
      BY <2>2, <3>2
  <2>4. d[j] = body[j]
    BY <1>8, <2>2
  <2>5. body[j] = data[((j - 1) \div size) + 1][((j - 1) % size) + 1]
    BY <2>2 DEF body
  <2> HIDE DEF j
  <2>6. body[j] = data[(k - 1) + 1][(e - 1) + 1]
    BY <2>3, <2>5
  <2> QED
    BY <2>4, <2>6 DEF j, a
<1>12. data[k] \in Seq(V) /\ Len(data[k]) = size
  <2>1. data[k] \in [1 .. size -> V]
    BY <1>0
  <2> QED
    BY <2>1
<1>13. \A e \in 1 .. Len(v) : v[e] = data[k][e]
  BY <1>10, <1>11
<1>14. v = data[k]
  BY <1>10, <1>12, <1>13, SeqEqual
<1> QED
  BY <1>6, <1>9, <1>14 DEF v

\* Without a vector, nothing arrives.
LEMMA NoDataArrives ==
    ASSUME NEW t, NEW id, NEW r, NEW name, NEW data
    PROVE  Msg!buff_tab_ptr(Msg!read_message_simu_data(
               Msg!message_simu_data(t, id, r, 0, 1, name, data)), 1) = <<>>
<1> DEFINE m == Msg!message_simu_data(t, id, r, 0, 1, name, data)
           head == <<t, id, r, 0, name>>
           body == [j \in 1 .. 1 * 0 |->
                       data[((j - 1) \div 0) + 1][((j - 1) % 0) + 1]]
           V == {t, id, r, 0, name}
<1>1. head \in Seq(V) /\ Len(head) = 5 /\ head[4] = 0
  OBVIOUS
<1>2. body = <<>>
  OBVIOUS
<1>3. m = head \o body
  BY DEF Msg!message_simu_data
<1> HIDE DEF m, head, body, V
<1>4. m = head
  BY <1>1, <1>2, <1>3, ConcatEmptySeq
<1>5. Msg!read_message_simu_data(m).vect_size = 0
  BY <1>1, <1>4 DEF Msg!read_message_simu_data
<1> DEFINE read == Msg!read_message_simu_data(m)
<1> HIDE DEF read
<1>6. Msg!buff_tab_ptr(read, 1) = SubSeq(read.data, 1, 0)
  BY <1>5 DEF Msg!buff_tab_ptr, read
<1>7. SubSeq(read.data, 1, 0) = <<>>
  BY SubSeqEmpty
<1> QED
  BY <1>6, <1>7 DEF read, m

\* What arrives of a vector is the vector.
LEMMA VectorArrives ==
    ASSUME NEW c, NEW size \in Nat, NEW S, NEW v \in [1 .. size -> S]
    PROVE  Arrives(c, size, v) = v
<1> DEFINE data == <<v>>
           one == 1
<1>1. \A k \in 1 .. one : data[k] = [j \in 1 .. size |-> data[k][j]]
  OBVIOUS
<1>2. one \in Nat /\ one \in 1 .. one /\ data[one] = v
  OBVIOUS
<1> HIDE DEF data, one
<1> DEFINE t == timestamp[c]
           name == "field"
<1> HIDE DEF t, name
<1>3. Msg!buff_tab_ptr(Msg!read_message_simu_data(
          Msg!message_simu_data(t, sample_id, c, size, one, name, data)), one) = data[one]
  BY <1>1, <1>2, DataArrives
<1> QED
  BY <1>2, <1>3 DEF Arrives, data, one, t, name

\* The field has a size.
LEMMA FieldSize ==
    ASSUME IInv
    PROVE  global_vect_size \in Nat
<1>1. PICK n \in Nat : Clients = 0 .. n
  BY DEF IInv, Ranks
<1>2. 0 \in Int /\ n \in Int
  BY <1>1
<1>3. IsFiniteSet(Clients)
  BY <1>1, <1>2, FS_Interval
<1>4. \A c \in Clients : local_vect_sizes[c] \in Nat
  BY DEF IInv, Ranks
<1> QED
  BY <1>3, <1>4, SumIsNat DEF global_vect_size, SumFunction, Clients

\* What the messages of learning 2 hold.
Turn(s, u) == {[nb |-> s + 1, cells |-> IF s = Target(u) THEN Vector(0) ELSE <<>>]}
LEMMA RoundRobinCells ==
    ASSUME global_vect_size \in Nat, learning > 0, NEW s, NEW u
    PROVE  RoundRobin(0, s, u) = Turn(s, u)
<1>1. Vector(0) \in [1 .. global_vect_size -> Nat]
  BY DEF Vector
<1>2. CASE s = Target(u)
  <2>1. Arrives(0, global_vect_size, Vector(0)) = Vector(0)
    BY <1>1, VectorArrives
  <2> QED
    BY <1>2, <2>1 DEF RoundRobin, Turn
<1>3. CASE s # Target(u)
  <2>1. Arrives(0, 0, Vector(0)) = <<>>
    BY <1>1, NoDataArrives DEF Arrives
  <2> QED
    BY <1>3, <2>1 DEF RoundRobin, Turn
<1> QED
  BY <1>2, <1>3

-----------------------------------------------------------------------------

\* A sequence with one more element has the places it had, and one more.
LEMMA AppendPlaces ==
    ASSUME NEW S, NEW seq \in Seq(S), NEW e \in S
    PROVE  /\ Append(seq, e) \in Seq(S)
           /\ Len(Append(seq, e)) = Len(seq) + 1
           /\ DOMAIN Append(seq, e) = 1 .. Len(seq) + 1
           /\ \A k \in 1 .. Len(seq) : Append(seq, e)[k] = seq[k]
           /\ Append(seq, e)[Len(seq) + 1] = e
  OBVIOUS

\* The ranks of a message are natural numbers.
LEMMA MessageRanks ==
    ASSUME NEW seq \in Seq([push : Nat, pull : Nat]), NEW k \in 1 .. Len(seq)
    PROVE  seq[k].push \in Nat /\ seq[k].pull \in Nat
<1>1. \A S : \A q \in Seq(S) : \A j \in 1 .. Len(q) : q[j] \in S
  OBVIOUS
<1>2. seq[k] \in [push : Nat, pull : Nat]
  BY <1>1
<1> QED
  BY <1>2

\* A counter more keeps the type of the counters.
LEMMA CounterType ==
    ASSUME NEW S, NEW f \in [S -> Nat], NEW r
    PROVE  [f EXCEPT ![r] = @ + 1] \in [S -> Nat]
<1>1. CASE r \in S
  BY <1>1
<1>2. CASE r \notin S
  BY <1>2
<1> QED
  BY <1>1, <1>2

LEMMA InitRanks == ASSUME Init PROVE Ranks /\ Shape /\ OneMessagePerStep
<1> USE RedistributionAssumption
<1>1. \E n \in Nat : Clients = 0 .. n
  <2>1. PICK n \in 1 .. MaxClients : local_vect_sizes \in [0 .. n - 1 -> PartSizes]
    BY DEF Init
  <2>2. Clients = 0 .. n - 1 /\ n - 1 \in Nat
    BY <2>1 DEF Clients
  <2> QED
    BY <2>2
<1>2. messages \in Seq([push : Nat, pull : Nat]) /\ phase \in {"count", "fill", "send"}
  <2>1. CASE learning > 0
    <3>1. /\ messages = [k \in 1 .. nb_proc_server |-> [push |-> 0, pull |-> k - 1]]
          /\ phase = "send" /\ nb_proc_server \in Nat
      BY <2>1 DEF Init, OneToM
    <3>2. \A k \in 1 .. nb_proc_server :
             [push |-> 0, pull |-> k - 1] \in [push : Nat, pull : Nat]
      BY <3>1
    <3>3. messages \in [1 .. nb_proc_server -> [push : Nat, pull : Nat]]
      BY <3>1, <3>2
    <3> QED
      BY <3>1, <3>3
  <2>2. CASE ~(learning > 0)
    <3>1. messages = <<>> /\ phase = "count"
      BY <2>2 DEF Init, NToM
    <3> QED
      BY <3>1
  <2> QED
    BY <2>1, <2>2
<1>a. \A c \in Clients : local_vect_sizes[c] \in Nat
  <2>1. PICK n \in 1 .. MaxClients : local_vect_sizes \in [0 .. n - 1 -> PartSizes]
    BY DEF Init
  <2> QED
    BY <2>1 DEF Clients
<1>3. Ranks
  BY <1>1, <1>2, <1>a DEF Init, Ranks
<1>4. Shape /\ OneMessagePerStep
  BY DEF Init, Shape, OneMessagePerStep
<1> QED
  BY <1>3, <1>4

LEMMA InitMessages == ASSUME Init PROVE Ahead /\ Ordered
<1>1. CASE learning > 0
  <2>1. /\ messages = [k \in 1 .. nb_proc_server |-> [push |-> 0, pull |-> k - 1]]
        /\ phase = "send" /\ nb_proc_server \in Nat
    BY <1>1, RedistributionAssumption DEF Init, OneToM
  <2>2. Len(messages) = nb_proc_server
    BY <2>1
  <2> QED
    BY <2>1, <2>2 DEF Ahead, Ordered
<1>2. CASE ~(learning > 0)
  BY <1>2 DEF Init, NToM, Ahead, Ordered
<1> QED
  BY <1>1, <1>2

-----------------------------------------------------------------------------

\* The next cell is on the same ranks or on later ones.
LEMMA NextRanks ==
    ASSUME Ranks, NextCell
    PROVE  /\ client_rank' \in Nat /\ server_rank' \in Nat
           /\ client_rank' >= client_rank /\ server_rank' >= server_rank
           /\ NewMessage => client_rank' > client_rank \/ server_rank' > server_rank
<1>1. /\ client_rank' = client_rank \/ client_rank' = client_rank + 1
      /\ NextClient => client_rank' = client_rank + 1
  BY DEF NextCell
<1>2. /\ server_rank' = server_rank \/ server_rank' = server_rank + 1
      /\ NextServer => server_rank' = server_rank + 1
  BY DEF NextCell
<1> HIDE DEF NextClient, NextServer
<1> QED
  BY <1>1, <1>2 DEF Ranks, NewMessage

\* Steps of the loops, which receive nothing.
LEMMA LoopsReceiveNothing ==
    ASSUME IInv, UNCHANGED <<confVars, timestamp, received>>
    PROVE  /\ Clients' = Clients /\ Servers' = Servers
           /\ Shape' /\ OneMessagePerStep'
<1>1. Clients' = Clients /\ Servers' = Servers
  BY DEF confVars, Clients, Servers
<1> QED
  BY <1>1 DEF IInv, Shape, OneMessagePerStep, Steps

LEMMA CountCellStep == ASSUME IInv, CountCell PROVE IInv'
<1>1. /\ UNCHANGED <<confVars, phase, timestamp, received, messages>>
      /\ phase = "count" /\ NextCell
  BY DEF CountCell, NextCell
<1>2. Clients' = Clients /\ Servers' = Servers /\ Shape' /\ OneMessagePerStep'
  BY <1>1, LoopsReceiveNothing
<1>3. client_rank' \in Nat /\ server_rank' \in Nat
  BY <1>1, NextRanks DEF IInv
<1>4. Ranks'
  BY <1>1, <1>2, <1>3 DEF IInv, Ranks, confVars
<1>5. Ahead' /\ Ordered'
  BY <1>1 DEF IInv, Ahead, Ordered
<1> QED
  BY <1>2, <1>4, <1>5 DEF IInv

LEMMA RewindStep == ASSUME IInv, Rewind PROVE IInv'
<1> DEFINE e == [push |-> 0, pull |-> 0]
<1>1. /\ UNCHANGED <<confVars, timestamp, received>>
      /\ phase' = "fill" /\ client_rank' = 0 /\ server_rank' = 0
      /\ messages' = <<e>>
  BY DEF Rewind
<1>2. Clients' = Clients /\ Servers' = Servers /\ Shape' /\ OneMessagePerStep'
  BY <1>1, LoopsReceiveNothing
<1>3. e \in [push : Nat, pull : Nat] /\ e.push = 0 /\ e.pull = 0
  OBVIOUS
<1> HIDE DEF e
<1>4. messages' \in Seq([push : Nat, pull : Nat]) /\ Len(messages') = 1 /\ messages'[1] = e
  BY <1>1, <1>3
<1>5. Ranks'
  BY <1>1, <1>2, <1>4 DEF IInv, Ranks, confVars
<1>6. Ahead' /\ Ordered'
  BY <1>1, <1>3, <1>4 DEF Ahead, Ordered
<1> QED
  BY <1>2, <1>5, <1>6 DEF IInv

LEMMA FillCellStep == ASSUME IInv, FillCell PROVE IInv'
<1>1. /\ UNCHANGED <<confVars, phase, timestamp, received>>
      /\ phase = "fill" /\ NextCell
  BY DEF FillCell, NextCell
<1>2. Clients' = Clients /\ Servers' = Servers /\ Shape' /\ OneMessagePerStep'
  BY <1>1, LoopsReceiveNothing
<1>3. /\ client_rank \in Nat /\ server_rank \in Nat
      /\ client_rank' \in Nat /\ server_rank' \in Nat
      /\ client_rank' >= client_rank /\ server_rank' >= server_rank
      /\ NewMessage => client_rank' > client_rank \/ server_rank' > server_rank
  BY <1>1, NextRanks DEF IInv, Ranks
<1>4. \A k \in 1 .. Len(messages) : messages[k].push \in Nat /\ messages[k].pull \in Nat
  BY MessageRanks DEF IInv, Ranks
<1>5. \A k \in 1 .. Len(messages) : /\ messages[k].push <= client_rank
                                     /\ messages[k].pull <= server_rank
  BY <1>1 DEF IInv, Ahead
<1>6. CASE ~NewMessage
  <2>1. messages' = messages
    BY <1>6 DEF FillCell
  <2>2. Ranks'
    BY <1>1, <1>2, <1>3, <2>1 DEF IInv, Ranks, confVars
  <2>3. Ahead'
    <3> SUFFICES ASSUME NEW k \in 1 .. Len(messages)
                 PROVE  messages[k].push <= client_rank' /\ messages[k].pull <= server_rank'
      BY <2>1 DEF Ahead
    <3> QED
      BY <1>3, <1>4, <1>5
  <2>4. Ordered'
    BY <2>1 DEF IInv, Ordered
  <2> QED
    BY <1>2, <2>2, <2>3, <2>4 DEF IInv
<1>7. CASE NewMessage
  <2> DEFINE e == [push |-> client_rank', pull |-> server_rank']
             n == Len(messages)
  <2>1. messages' = Append(messages, e)
    BY <1>7 DEF FillCell
  <2>2. /\ messages \in Seq([push : Nat, pull : Nat]) /\ e \in [push : Nat, pull : Nat]
        /\ n \in Nat
    BY <1>3 DEF IInv, Ranks
  <2>3. /\ messages' \in Seq([push : Nat, pull : Nat])
        /\ Len(messages') = n + 1 /\ DOMAIN messages' = 1 .. n + 1
        /\ \A k \in 1 .. n : messages'[k] = messages[k]
        /\ messages'[n + 1] = e
    BY <2>1, <2>2, AppendPlaces
  <2>4. e.push = client_rank' /\ e.pull = server_rank'
    OBVIOUS
  <2>5. Ranks'
    BY <1>1, <1>2, <1>3, <2>3 DEF IInv, Ranks, confVars
  <2>6. Ahead'
    <3> SUFFICES ASSUME NEW k \in 1 .. n + 1
                 PROVE  messages'[k].push <= client_rank' /\ messages'[k].pull <= server_rank'
      BY <2>3 DEF Ahead
    <3>1. CASE k = n + 1
      BY <3>1, <2>3, <2>4, <1>3
    <3>2. CASE k \in 1 .. n
      <4>1. messages'[k] = messages[k]
        BY <3>2, <2>3
      <4>2. /\ messages[k].push \in Nat /\ messages[k].pull \in Nat
            /\ messages[k].push <= client_rank /\ messages[k].pull <= server_rank
        BY <3>2, <1>4, <1>5
      <4> QED
        BY <4>1, <4>2, <1>3
    <3> QED
      BY <2>2, <3>1, <3>2
  <2>7. \A k \in 1 .. n : ~(messages[k].push = e.push /\ messages[k].pull = e.pull)
    <3> HIDE DEF e
    <3> QED
      BY <1>3, <1>4, <1>5, <1>7, <2>4
  <2>8. Ordered'
    <3> SUFFICES ASSUME NEW j \in 1 .. n + 1, NEW k \in 1 .. n + 1,
                        messages'[j].push = messages'[k].push,
                        messages'[j].pull = messages'[k].pull
                 PROVE  j = k
      BY <2>3 DEF Ordered
    <3>1. CASE j \in 1 .. n /\ k \in 1 .. n
      BY <3>1, <2>3 DEF IInv, Ordered
    <3>2. CASE j = n + 1 /\ k \in 1 .. n
      BY <3>2, <2>3, <2>7
    <3>3. CASE k = n + 1 /\ j \in 1 .. n
      BY <3>3, <2>3, <2>7
    <3> QED
      BY <2>2, <3>1, <3>2, <3>3
  <2> QED
    BY <1>2, <2>5, <2>6, <2>8 DEF IInv
<1> QED
  BY <1>6, <1>7

LEMMA ConnectStep == ASSUME IInv, Connect PROVE IInv'
<1>1. UNCHANGED <<confVars, loopVars, tableVars, timestamp, received>> /\ phase' = "send"
  BY DEF Connect
<1>2. Clients' = Clients /\ Servers' = Servers
  BY <1>1 DEF confVars, Clients, Servers
<1>3. Ranks'
  BY <1>1, <1>2 DEF IInv, Ranks, confVars, loopVars, tableVars
<1>4. Ahead'
  BY <1>1 DEF Ahead
<1>5. Ordered'
  BY <1>1 DEF IInv, Ordered, tableVars
<1>6. Shape' /\ OneMessagePerStep'
  BY <1>1, <1>2 DEF IInv, Shape, OneMessagePerStep, Steps
<1> QED
  BY <1>3, <1>4, <1>5, <1>6 DEF IInv

LEMMA SendStep == ASSUME IInv, NEW c \in Clients, Send(c) PROVE IInv'
<1> DEFINE t == timestamp[c]
           Sent(s) == IF learning < 2 THEN Classic(c, s) ELSE RoundRobin(c, s, t)
<1>1. UNCHANGED <<confVars, phase, loopVars, tableVars>>
  BY DEF Send
<1>2. Clients' = Clients /\ Servers' = Servers /\ Steps' = Steps
  BY <1>1 DEF confVars, Clients, Servers, Steps
<1>3. Ranks' /\ Ahead' /\ Ordered'
  BY <1>1, <1>2 DEF IInv, Ranks, Ahead, Ordered, confVars, loopVars, tableVars
<1>4. received' = [s \in Servers |-> [received[s] EXCEPT ![t][c] = Sent(s)]]
  BY DEF Send
<1>5. timestamp' = [timestamp EXCEPT ![c] = @ + 1]
  BY DEF Send
<1>6. \A s \in Servers : \A m1, m2 \in Sent(s) : m1 = m2
  <2> SUFFICES ASSUME NEW s \in Servers, NEW m1 \in Sent(s), NEW m2 \in Sent(s)
               PROVE  m1 = m2
    OBVIOUS
  <2>1. CASE learning < 2
    <3>1. PICK k1 \in DOMAIN messages : /\ messages[k1].push = c /\ messages[k1].pull = s
                                        /\ m1 = [nb |-> k1, cells |-> Arrives(c, send_counts[c][s], Chunk(c, s))]
      BY <2>1 DEF Classic
    <3>2. PICK k2 \in DOMAIN messages : /\ messages[k2].push = c /\ messages[k2].pull = s
                                        /\ m2 = [nb |-> k2, cells |-> Arrives(c, send_counts[c][s], Chunk(c, s))]
      BY <2>1 DEF Classic
    <3>3. DOMAIN messages = 1 .. Len(messages)
      BY DEF IInv, Ranks
    <3>4. k1 = k2
      BY <3>1, <3>2, <3>3 DEF IInv, Ordered
    <3> QED
      BY <3>1, <3>2, <3>4
  <2>2. CASE ~(learning < 2)
    BY <2>2 DEF RoundRobin
  <2> QED
    BY <2>1, <2>2
<1> HIDE DEF Sent, t
<1>7. Shape'
  BY <1>2, <1>4, <1>5 DEF IInv, Shape
<1>8. OneMessagePerStep'
  <2> SUFFICES ASSUME NEW s \in Servers, NEW u \in Steps, NEW d \in Clients,
                      NEW m1 \in received'[s][u][d], NEW m2 \in received'[s][u][d]
               PROVE  m1 = m2
    BY <1>2 DEF OneMessagePerStep
  <2>1. received'[s] = [received[s] EXCEPT ![t][c] = Sent(s)]
    BY <1>4
  <2>2. received'[s][u][d] = received[s][u][d] \/ received'[s][u][d] = Sent(s)
    BY <2>1 DEF IInv, Shape
  <2> QED
    BY <2>2, <1>6 DEF IInv, OneMessagePerStep
<1> QED
  BY <1>3, <1>7, <1>8 DEF IInv

-----------------------------------------------------------------------------

LEMMA IInvInductive == Spec => []IInv
<1>1. Init => IInv
  BY InitRanks, InitMessages DEF IInv
<1>2. IInv /\ [Next]_vars => IInv'
  <2> SUFFICES ASSUME IInv, [Next]_vars PROVE IInv'
    OBVIOUS
  <2>1. CASE CountCell
    BY <2>1, CountCellStep
  <2>2. CASE Rewind
    BY <2>2, RewindStep
  <2>3. CASE FillCell
    BY <2>3, FillCellStep
  <2>4. CASE Connect
    BY <2>4, ConnectStep
  <2>5. CASE \E c \in Clients : Send(c)
    BY <2>5, SendStep
  <2>6. CASE UNCHANGED vars
    BY <2>6 DEF IInv, Ranks, Ahead, Ordered, Shape, OneMessagePerStep,
                vars, confVars, loopVars, tableVars, Clients, Servers, Steps
  <2> QED
    BY <2>1, <2>2, <2>3, <2>4, <2>5, <2>6 DEF Next
<1> QED
  BY <1>1, <1>2, PTL DEF Spec

\* A server rank never gets two messages of one time step from one rank of a
\* simulation, for every partition of the field: it would drop the second one
\* (melissa_api.c 319-436, server.cxx 649).
THEOREM AtMostOneMessage == Spec => []OneMessagePerStep
<1>1. IInv => OneMessagePerStep
  BY DEF IInv
<1> QED
  BY <1>1, IInvInductive, PTL

-----------------------------------------------------------------------------
(* Learning 2: the server ranks take turns.                                  *)

LEMMA Remainder ==
    ASSUME NEW n \in Nat \ {0}, NEW q \in Int, NEW r \in 0 .. n - 1
    PROVE  (n * q + r) % n = r
<1> DEFINE a == n * q + r
           p == a \div n
           m == a % n
<1>1. a \in Int
  OBVIOUS
<1>2. p \in Int /\ m \in 0 .. n - 1 /\ a = n * p + m
  BY <1>1
<1>3. a = n * q + r
  OBVIOUS
<1> HIDE DEF a, p, m
<1>4. ~(p <= q - 1)
  <2>1. SUFFICES ASSUME p <= q - 1 PROVE FALSE
    OBVIOUS
  <2>2. n * p <= n * (q - 1)
    BY <1>2, <2>1
  <2>3. n * (q - 1) = n * q - n
    OBVIOUS
  <2> QED
    BY <1>2, <1>3, <2>2, <2>3
<1>5. ~(q <= p - 1)
  <2>1. SUFFICES ASSUME q <= p - 1 PROVE FALSE
    OBVIOUS
  <2>2. n * q <= n * (p - 1)
    BY <1>2, <2>1
  <2>3. n * (p - 1) = n * p - n
    BY <1>2
  <2> QED
    BY <1>2, <1>3, <2>2, <2>3
<1>6. p = q
  BY <1>2, <1>4, <1>5
<1>7. m = r
  BY <1>2, <1>3, <1>6
<1> QED
  BY <1>7 DEF m, a

\* n numbers in a row have every remainder
LEMMA EveryRemainder ==
    ASSUME NEW n \in Nat \ {0}, NEW b \in Nat, NEW s \in 0 .. n - 1
    PROVE  \E d \in 0 .. n - 1 : (b + d) % n = s
<1> DEFINE q == b \div n
           r == b % n
<1>1. q \in Int /\ r \in 0 .. n - 1 /\ b = n * q + r
  OBVIOUS
<1> HIDE DEF q, r
<1>2. CASE s >= r
  <2>1. s - r \in 0 .. n - 1 /\ b + (s - r) = n * q + s
    BY <1>1, <1>2
  <2>2. (n * q + s) % n = s
    BY <1>1, Remainder
  <2> QED
    BY <2>1, <2>2
<1>3. CASE s < r
  <2>1. s - r + n \in 0 .. n - 1
    BY <1>1, <1>3
  <2>2. n * (q + 1) = n * q + n
    BY <1>1
  <2>3. b + (s - r + n) = n * (q + 1) + s
    BY <1>1, <2>2
  <2>4. (n * (q + 1) + s) % n = s
    BY <1>1, Remainder
  <2> QED
    BY <2>1, <2>3, <2>4
<1> QED
  BY <1>1, <1>2, <1>3

\* what rank 0 has sent so far is as RoundRobin says
Taught ==
    /\ sample_id \in Nat
    /\ timestamp \in [Clients -> Nat]
    /\ learning = 2 => \A s \in Servers, u \in Steps :
                          u < timestamp[0] => received[s][u][0] = Turn(s, u)

LEMMA TaughtInit == ASSUME Init PROVE Taught
<1>1. 0 \in Clients
  BY InitRanks DEF Ranks
<1>2. timestamp = [c \in Clients |-> 0]
  BY DEF Init
<1>3. timestamp[0] = 0 /\ timestamp \in [Clients -> Nat]
  BY <1>1, <1>2
<1>4. sample_id \in Nat
  BY RedistributionAssumption DEF Init
<1>5. \A u \in Steps : ~(u < timestamp[0])
  BY <1>3, RedistributionAssumption DEF Steps
<1> QED
  BY <1>3, <1>4, <1>5 DEF Taught

LEMMA TaughtSend == ASSUME IInv, Taught, NEW c \in Clients, Send(c) PROVE Taught'
<1> DEFINE t == timestamp[c]
           Sent(s) == IF learning < 2 THEN Classic(c, s) ELSE RoundRobin(c, s, t)
<1>1. UNCHANGED confVars
  BY DEF Send
<1>2. /\ Clients' = Clients /\ Servers' = Servers /\ Steps' = Steps
      /\ \A s, u : Turn(s, u)' = Turn(s, u)
  BY <1>1 DEF confVars, Clients, Servers, Steps, Turn, Target, Vector,
              global_vect_size, gatherv_displs
<1>3. received' = [s \in Servers |-> [received[s] EXCEPT ![t][c] = Sent(s)]]
  BY DEF Send
<1>4. timestamp' = [timestamp EXCEPT ![c] = @ + 1] /\ t \in Nat /\ 0 \in Clients
  BY DEF Send, Taught, IInv, Ranks
<1>5. timestamp' \in [Clients -> Nat]
  BY <1>4 DEF Taught
<1>6. ASSUME learning = 2, NEW s \in Servers, NEW u \in Steps, u < timestamp'[0]
      PROVE  received'[s][u][0] = Turn(s, u)
  <2>1. Sent(s) = RoundRobin(c, s, t)
    BY <1>6
  <2> HIDE DEF Sent
  <2>2. received'[s] = [received[s] EXCEPT ![t][c] = Sent(s)]
    BY <1>3
  <2>3. /\ DOMAIN received[s] = Steps /\ DOMAIN received[s][u] = Clients
    BY DEF IInv, Shape
  <2>4. CASE c = 0 /\ u = t
    <3>1. received'[s][u][0] = Sent(s)
      BY <2>2, <2>3, <2>4
    <3>2. RoundRobin(0, s, u) = Turn(s, u)
      BY <1>6, FieldSize, RoundRobinCells
    <3> QED
      BY <2>1, <2>4, <3>1, <3>2
  <2>5. CASE ~(c = 0 /\ u = t)
    <3>1. received'[s][u][0] = received[s][u][0]
      BY <2>2, <2>3, <2>5
    <3>2. u < timestamp[0]
      BY <1>4, <1>6, <2>5, RedistributionAssumption DEF Taught, Steps
    <3> QED
      BY <1>6, <3>1, <3>2 DEF Taught
  <2> QED
    BY <2>4, <2>5
<1> QED
  BY <1>1, <1>2, <1>5, <1>6 DEF Taught, confVars

LEMMA TaughtInductive == Spec => [](IInv /\ Taught)
<1>1. Init => Taught
  BY TaughtInit
<1>2. IInv /\ Taught /\ [Next]_vars => Taught'
  <2> SUFFICES ASSUME IInv, Taught, [Next]_vars PROVE Taught'
    OBVIOUS
  <2>1. CASE \E c \in Clients : Send(c)
    BY <2>1, TaughtSend
  <2>2. CASE CountCell \/ Rewind \/ FillCell \/ Connect \/ UNCHANGED vars
    <3>1. UNCHANGED <<confVars, timestamp, received>>
      BY <2>2 DEF CountCell, Rewind, FillCell, NextCell, Connect, vars
    <3> QED
      BY <3>1 DEF Taught, confVars, Clients, Servers, Steps, Turn, Target, Vector,
                  global_vect_size, gatherv_displs
  <2> QED
    BY <2>1, <2>2 DEF Next
<1> QED
  BY <1>1, <1>2, IInvInductive, PTL DEF Spec

\* With learning 2 every server rank gets the whole field once in as many time
\* steps as there are server ranks, for any sample, number of ranks and partition
\* (melissa_api.c 1390-1466).
THEOREM ServersTakeTurns == Spec => []EachServerLearns
<1>1. IInv /\ Taught => EachServerLearns
  <2> SUFFICES ASSUME IInv, Taught, learning = 2, NEW t \in Steps, NEW s \in Servers,
                      t + nb_proc_server <= NbSteps, Complete(t + nb_proc_server - 1)
               PROVE  \E u \in t .. t + nb_proc_server - 1 : Part(s, u, 0) = Vector(0)
    BY DEF EachServerLearns
  <2>1. /\ nb_proc_server \in Nat \ {0} /\ 0 \in Clients
        /\ NbSteps \in Nat /\ t \in Nat /\ s \in 0 .. nb_proc_server - 1
    BY RedistributionAssumption DEF IInv, Ranks, Steps, Servers
  <2> DEFINE n == nb_proc_server
             b == t + (sample_id % n)
  <2>2. b \in Nat
    BY <2>1 DEF Taught
  <2> HIDE DEF b
  <2>3. PICK d \in 0 .. n - 1 : (b + d) % n = s
    BY <2>1, <2>2, EveryRemainder
  <2>4. Target(t + d) = s
    <3>1. sample_id % n \in Int
      BY <2>1 DEF Taught
    <3>2. (t + d) + (sample_id % n) = b + d
      BY <2>1, <3>1 DEF b
    <3> QED
      BY <2>3, <3>2 DEF Target
  <2>5. t + d \in Steps /\ t + d \in t .. t + n - 1 /\ t + d < timestamp[0]
    BY <2>1 DEF Steps, Complete, Taught
  <2>6. received[s][t + d][0] = {[nb |-> s + 1, cells |-> Vector(0)]}
    BY <2>4, <2>5 DEF Taught, Turn
  <2>7. Part(s, t + d, 0) = Vector(0)
    <3> DEFINE m == CHOOSE m \in received[s][t + d][0] : TRUE
    <3>1. received[s][t + d][0] # {}
      BY <2>6
    <3>2. m \in received[s][t + d][0]
      BY <3>1, Zenon
    <3>3. Part(s, t + d, 0) = m.cells
      BY <3>1 DEF Part
    <3> HIDE DEF m
    <3> QED
      BY <2>6, <3>2, <3>3
  <2> QED
    BY <2>5, <2>7
<1> QED
  BY <1>1, TaughtInductive, PTL

-----------------------------------------------------------------------------
(* Parts of a field that follow one another.                                 *)

\* The sum of the first terms, term by term.
LEMMA PrefixSums ==
    ASSUME NEW n \in Nat, NEW f, \A x \in 0 .. n - 1 : f[x] \in Nat
    PROVE  /\ SumFunctionOnSet(f, 0 .. 0 - 1) = 0
           /\ \A k \in 0 .. n : SumFunctionOnSet(f, 0 .. k - 1) \in Nat
           /\ \A k \in 0 .. n - 1 : SumFunctionOnSet(f, 0 .. (k + 1) - 1) =
                                        SumFunctionOnSet(f, 0 .. k - 1) + f[k]
<1>1. SumFunctionOnSet(f, 0 .. 0 - 1) = 0
  <2>1. 0 .. 0 - 1 = {}
    OBVIOUS
  <2> QED
    BY <2>1, SumEmpty
<1>2. ASSUME NEW k \in 0 .. n PROVE SumFunctionOnSet(f, 0 .. k - 1) \in Nat
  <2>1. 0 \in Int /\ k - 1 \in Int /\ \A x \in 0 .. k - 1 : x \in 0 .. n - 1
    OBVIOUS
  <2>2. IsFiniteSet(0 .. k - 1)
    BY <2>1, FS_Interval
  <2> QED
    BY <2>1, <2>2, SumIsNat
<1>3. ASSUME NEW k \in 0 .. n - 1
      PROVE  SumFunctionOnSet(f, 0 .. (k + 1) - 1) = SumFunctionOnSet(f, 0 .. k - 1) + f[k]
  <2>1. /\ 0 \in Int /\ k - 1 \in Int /\ k \notin 0 .. k - 1
        /\ 0 .. (k + 1) - 1 = (0 .. k - 1) \cup {k}
        /\ \A x \in (0 .. k - 1) \cup {k} : x \in 0 .. n - 1
    OBVIOUS
  <2>2. IsFiniteSet(0 .. k - 1)
    BY <2>1, FS_Interval
  <2>3. \A x \in (0 .. k - 1) \cup {k} : f[x] \in Nat
    BY <2>1
  <2>4. SumFunctionOnSet(f, (0 .. k - 1) \cup {k}) = SumFunctionOnSet(f, 0 .. k - 1) + f[k]
    BY <2>1, <2>2, <2>3, SumOneMoreNat
  <2> QED
    BY <2>1, <2>4
<1> QED
  BY <1>1, <1>2, <1>3

\* Where each of n parts begins, and the last one ends.
Edges(n) == {b \in [0 .. n -> Nat] : \A k \in 0 .. n - 1 : b[k] <= b[k + 1]}

LEMMA EdgesGrow ==
    ASSUME NEW n \in Nat, NEW b \in Edges(n), NEW j \in 0 .. n, NEW k \in 0 .. n, j <= k
    PROVE  b[j] <= b[k]
<1> DEFINE Bad == {m \in Nat : j <= m /\ m <= n /\ b[m] < b[j]}
<1>0. /\ b \in [0 .. n -> Nat] /\ \A m \in 0 .. n - 1 : b[m] <= b[m + 1]
  BY DEF Edges
<1> SUFFICES ASSUME Bad # {} PROVE FALSE
  BY <1>0
<1>1. PICK m \in Bad : \A x \in Bad : m <= x
  BY LeastNat
<1>2. m # j /\ m - 1 \in 0 .. n - 1 /\ j <= m - 1 /\ m - 1 \in Nat
  BY <1>0, <1>1
<1>3. m - 1 \notin Bad
  BY <1>1, <1>2
<1>4. b[m - 1] >= b[j] /\ b[m - 1] <= b[(m - 1) + 1] /\ (m - 1) + 1 = m
  BY <1>0, <1>2, <1>3
<1>5. b[m] \in Nat /\ b[m - 1] \in Nat /\ b[j] \in Nat
  BY <1>0, <1>1, <1>2
<1> QED
  BY <1>1, <1>4, <1>5

\* the cells from lo to hi of a field g
Slice(g, lo, hi) == [j \in 1 .. hi - lo |-> g[lo + j]]

LEMMA SlicesJoin ==
    ASSUME NEW g, NEW lo \in Nat, NEW mid \in Nat, NEW hi \in Nat, lo <= mid, mid <= hi
    PROVE  Slice(g, lo, mid) \o Slice(g, mid, hi) = Slice(g, lo, hi)
<1> DEFINE a == Slice(g, lo, mid)
           b == Slice(g, mid, hi)
           S == {g[k] : k \in Nat}
<1>1. /\ a \in [1 .. mid - lo -> S] /\ b \in [1 .. hi - mid -> S]
      /\ mid - lo \in Nat /\ hi - mid \in Nat
      /\ \A j \in 1 .. mid - lo : a[j] = g[lo + j]
      /\ \A j \in 1 .. hi - mid : b[j] = g[mid + j]
  BY DEF Slice
<1> HIDE DEF S, a, b
<1>2. a \in Seq(S) /\ b \in Seq(S) /\ Len(a) = mid - lo /\ Len(b) = hi - mid
  <2>1. \A n \in Nat : \A q \in [1 .. n -> S] : q \in Seq(S) /\ Len(q) = n
    OBVIOUS
  <2> QED
    BY <1>1, <2>1
<1>3. /\ Len(a \o b) = hi - lo /\ DOMAIN (a \o b) = 1 .. hi - lo
      /\ \A j \in 1 .. hi - lo : (a \o b)[j] = IF j <= mid - lo THEN a[j] ELSE b[j - (mid - lo)]
  BY <1>2
<1>4. ASSUME NEW j \in 1 .. hi - lo PROVE (a \o b)[j] = g[lo + j]
  <2>1. CASE j <= mid - lo
    BY <1>1, <1>3, <2>1
  <2>2. CASE ~(j <= mid - lo)
    <3>1. j - (mid - lo) \in 1 .. hi - mid /\ mid + (j - (mid - lo)) = lo + j
      BY <2>2
    <3> QED
      BY <1>1, <1>3, <2>2, <3>1
  <2> QED
    BY <2>1, <2>2
<1>5. a \o b \in Seq(S)
  BY <1>2
<1>6. a \o b = [j \in 1 .. hi - lo |-> (a \o b)[j]]
  <2>1. \A q \in Seq(S) : q = [j \in DOMAIN q |-> q[j]]
    OBVIOUS
  <2> QED
    BY <1>3, <1>5, <2>1
<1> QED
  BY <1>4, <1>6 DEF Slice, a, b

\* Parts that follow one another are together the field between the first edge
\* and the last.
LEMMA FlattenSlices ==
    ASSUME NEW n \in Nat \ {0}, NEW b \in Edges(n), NEW g, NEW F,
           F = [k \in 1 .. n |-> F[k]],
           \A k \in 1 .. n : F[k] = Slice(g, b[k - 1], b[k])
    PROVE  FlattenSeq(F) = Slice(g, b[0], b[n])
<1> DEFINE Solves(h) == h = [i_ \in 1 .. n |-> IF i_ = 1 THEN F[i_] ELSE h[i_ - 1] \o F[i_]]
           d == [k \in 1 .. n |-> Slice(g, b[0], b[k])]
<1>0. /\ b \in [0 .. n -> Nat] /\ \A k \in 0 .. n - 1 : b[k] <= b[k + 1]
  BY DEF Edges
<1>1. \A k \in 1 .. n : F[k] = Slice(g, b[k - 1], b[k])
  OBVIOUS
<1>2. Len(F) = n
  <2> DEFINE V == {F[k] : k \in 1 .. n}
  <2>1. \A k \in 1 .. n : F[k] \in V
    OBVIOUS
  <2> HIDE DEF V
  <2>2. F \in [1 .. n -> V]
    BY <2>1
  <2> QED
    BY <2>2
<1>3. ASSUME NEW k \in 2 .. n PROVE Slice(g, b[0], b[k]) = Slice(g, b[0], b[k - 1]) \o F[k]
  <2>1. /\ k \in 1 .. n /\ k - 1 \in 0 .. n /\ k \in 0 .. n /\ 0 \in 0 .. n
        /\ 0 <= k - 1 /\ k - 1 <= k
    OBVIOUS
  <2>2. b[0] <= b[k - 1] /\ b[k - 1] <= b[k] /\ b[0] \in Nat /\ b[k - 1] \in Nat /\ b[k] \in Nat
    BY <1>0, <2>1, EdgesGrow
  <2>3. F[k] = Slice(g, b[k - 1], b[k])
    BY <1>1, <2>1
  <2> DEFINE lo == b[0]
             mid == b[k - 1]
             hi == b[k]
  <2> HIDE DEF lo, mid, hi
  <2>4. Slice(g, lo, mid) \o Slice(g, mid, hi) = Slice(g, lo, hi)
    BY <2>2, SlicesJoin DEF lo, mid, hi
  <2> QED
    BY <2>3, <2>4 DEF lo, mid, hi
<1>4. Solves(d)
  <2>1. ASSUME NEW k \in 1 .. n
        PROVE  d[k] = IF k = 1 THEN F[k] ELSE d[k - 1] \o F[k]
    <3>1. CASE k = 1
      BY <1>1, <3>1
    <3>2. CASE k # 1
      <4>1. k \in 2 .. n /\ k - 1 \in 1 .. n
        BY <3>2
      <4> QED
        BY <1>3, <3>2, <4>1
    <3> QED
      BY <3>1, <3>2
  <2> DEFINE e == [k \in 1 .. n |-> IF k = 1 THEN F[k] ELSE d[k - 1] \o F[k]]
  <2>2. d = e
    <3> HIDE DEF d
    <3>1. d = [k \in 1 .. n |-> d[k]]
      BY DEF d
    <3> QED
      BY <2>1, <3>1
  <2> QED
    BY <2>2
<1> HIDE DEF Solves, d
<1>5. Solves(CHOOSE h : Solves(h))
  BY <1>4
<1> DEFINE c == CHOOSE h : Solves(h)
<1>6. FlattenSeq(F) = c[n]
  BY <1>2 DEF FlattenSeq, Solves
<1> HIDE DEF c
<1>7. c = [k \in 1 .. n |-> IF k = 1 THEN F[k] ELSE c[k - 1] \o F[k]]
  BY <1>5 DEF Solves, c
<1>8. \A k \in 1 .. n : c[k] = Slice(g, b[0], b[k])
  <2> DEFINE Bad == {k \in Nat : k \in 1 .. n /\ c[k] # Slice(g, b[0], b[k])}
  <2> SUFFICES ASSUME Bad # {} PROVE FALSE
    OBVIOUS
  <2>1. PICK k \in Bad : \A x \in Bad : k <= x
    BY LeastNat
  <2>2. k \in 1 .. n /\ c[k] # Slice(g, b[0], b[k])
    BY <2>1
  <2>3. c[k] = IF k = 1 THEN F[k] ELSE c[k - 1] \o F[k]
    BY <1>7, <2>2
  <2>4. CASE k = 1
    BY <1>1, <2>2, <2>3, <2>4
  <2>5. CASE k # 1
    <3>1. k - 1 \in 1 .. n /\ k \in 2 .. n /\ k - 1 \in Nat /\ ~(k <= k - 1)
      BY <2>2, <2>5
    <3>2. c[k - 1] = Slice(g, b[0], b[k - 1])
      BY <2>1, <3>1
    <3> QED
      BY <1>3, <2>2, <2>3, <2>5, <3>1, <3>2
  <2> QED
    BY <2>4, <2>5
<1> QED
  BY <1>6, <1>8

\* A sum whose terms are the steps of h.
Before(f, k) == SumFunctionOnSet(f, 0 .. k - 1)
LEMMA SumOfSteps ==
    ASSUME NEW n \in Nat, NEW f, NEW h \in [0 .. n -> Nat],
           \A k \in 0 .. n - 1 : f[k] \in Nat /\ h[k + 1] = h[k] + f[k]
    PROVE  /\ \A k \in 0 .. n : Before(f, k) \in Nat /\ Before(f, k) = h[k] - h[0]
           /\ h \in Edges(n)
<1> DEFINE S(k) == Before(f, k)
           Bad == {k \in Nat : k \in 0 .. n /\ S(k) # h[k] - h[0]}
<1>1. /\ S(0) = 0
      /\ \A k \in 0 .. n : S(k) \in Nat
      /\ \A k \in 0 .. n - 1 : S(k + 1) = S(k) + f[k]
  BY PrefixSums DEF Before
<1> HIDE DEF S
<1>2. Bad = {}
  <2> SUFFICES ASSUME Bad # {} PROVE FALSE
    OBVIOUS
  <2>1. PICK k \in Bad : \A x \in Bad : k <= x
    BY LeastNat
  <2>2. k \in 0 .. n /\ S(k) # h[k] - h[0] /\ k # 0
    BY <1>1, <2>1
  <2>3. k - 1 \in 0 .. n - 1 /\ k - 1 \in Nat /\ k - 1 \in 0 .. n /\ (k - 1) + 1 = k /\ ~(k <= k - 1)
    BY <2>2
  <2>4. S(k - 1) = h[k - 1] - h[0]
    BY <2>1, <2>3
  <2>5. S(k) = S(k - 1) + f[k - 1] /\ h[k] = h[k - 1] + f[k - 1] /\ f[k - 1] \in Nat
    BY <1>1, <2>3
  <2> QED
    BY <2>2, <2>3, <2>4, <2>5
<1>3. h \in Edges(n)
  <2>1. \A k \in 0 .. n - 1 : h[k] <= h[k + 1]
    <3> TAKE k \in 0 .. n - 1
    <3>1. k \in 0 .. n /\ h[k] \in Nat /\ f[k] \in Nat /\ h[k + 1] = h[k] + f[k]
      OBVIOUS
    <3> QED
      BY <3>1
  <2> QED
    BY <2>1 DEF Edges
<1>4. \A k \in 0 .. n : S(k) = h[k] - h[0]
  <2> TAKE k \in 0 .. n
  <2>0. k \in Nat
    OBVIOUS
  <2>1. k \notin Bad
    <3> HIDE DEF Bad
    <3> QED
      BY <1>2
  <2> QED
    BY <2>0, <2>1
<1> QED
  BY <1>1, <1>3, <1>4 DEF S

-----------------------------------------------------------------------------
(* The field, as the ranks of the simulation and those of the server have it. *)

LEMMA Division ==
    ASSUME NEW a \in Nat, NEW p \in Nat \ {0}
    PROVE  /\ a \div p \in Nat /\ a % p \in 0 .. p - 1
           /\ a = p * (a \div p) + (a % p)
  OBVIOUS

\* the first cell of server rank s
Sizes == [s \in Servers |-> server_vect_size(s)]
First(s) == SumFunctionOnSet(Sizes, 0 .. s - 1)

\* what both make of the field
Layout(n) ==
    /\ Clients = 0 .. n - 1 /\ n \in Nat \ {0}
    /\ nb_proc_server \in Nat \ {0} /\ global_vect_size \in Nat
    /\ [c \in 0 .. n |-> gatherv_displs(c)] \in Edges(n)
    /\ gatherv_displs(0) = 0 /\ gatherv_displs(n) = global_vect_size
    /\ \A c \in Clients : /\ local_vect_sizes[c] \in Nat
                          /\ gatherv_displs(c + 1) = gatherv_displs(c) + local_vect_sizes[c]
    /\ [s \in 0 .. nb_proc_server |-> First(s)] \in Edges(nb_proc_server)
    /\ First(0) = 0 /\ First(nb_proc_server) = global_vect_size
    /\ \A s \in Servers : /\ server_vect_size(s) \in Nat
                          /\ First(s + 1) = First(s) + server_vect_size(s)
                          /\ First(s) < global_vect_size => server_vect_size(s) > 0

LEMMA ServersShare ==
    ASSUME NEW p \in Nat \ {0}, p = nb_proc_server, global_vect_size \in Nat
    PROVE  /\ [s \in 0 .. p |-> First(s)] \in Edges(p)
           /\ First(0) = 0 /\ First(p) = global_vect_size
           /\ \A s \in Servers : /\ server_vect_size(s) \in Nat
                                 /\ First(s + 1) = First(s) + server_vect_size(s)
                                 /\ First(s) < global_vect_size => server_vect_size(s) > 0
<1> DEFINE N == global_vect_size
           q == N \div p
           r == N % p
           h == [s \in 0 .. p |-> s * q + (IF s < r THEN s ELSE r)]
<1>1. q \in Nat /\ r \in 0 .. p - 1 /\ N = p * q + r
  BY Division
<1>2. \A s : server_vect_size(s) = q + (IF s < r THEN 1 ELSE 0)
  BY DEF server_vect_size
<1> HIDE DEF q, r
<1>3. \A s \in 0 .. p : s * q \in Nat
  BY <1>1
<1>4. h \in [0 .. p -> Nat]
  BY <1>1, <1>3
<1>5. ASSUME NEW s \in 0 .. p - 1
      PROVE  Sizes[s] = q + (IF s < r THEN 1 ELSE 0) /\ h[s + 1] = h[s] + Sizes[s] /\ Sizes[s] \in Nat
  <2>1. s \in Servers /\ s \in 0 .. p /\ s + 1 \in 0 .. p
    BY DEF Servers
  <2>2. Sizes[s] = q + (IF s < r THEN 1 ELSE 0)
    BY <1>2, <2>1 DEF Sizes
  <2>3. (s + 1) * q = s * q + q /\ s * q \in Nat
    BY <1>1, <1>3
  <2>4. /\ h[s] = s * q + (IF s < r THEN s ELSE r)
        /\ h[s + 1] = s * q + q + (IF s + 1 < r THEN s + 1 ELSE r)
    BY <2>1, <2>3
  <2> HIDE DEF h
  <2> QED
    BY <1>1, <2>2, <2>3, <2>4
<1>6. /\ \A s \in 0 .. p : First(s) = h[s] - h[0]
      /\ h \in Edges(p)
  <2>1. \A s \in 0 .. p - 1 : Sizes[s] \in Nat /\ h[s + 1] = h[s] + Sizes[s]
    BY <1>5
  <2> DEFINE f == Sizes
  <2> HIDE DEF h, f
  <2>2. \A s \in 0 .. p - 1 : f[s] \in Nat /\ h[s + 1] = h[s] + f[s]
    BY <2>1 DEF f
  <2>3. /\ \A s \in 0 .. p : Before(f, s) \in Nat /\ Before(f, s) = h[s] - h[0]
        /\ h \in Edges(p)
    <3>1. p \in Nat /\ h \in [0 .. p -> Nat]
      BY <1>4
    <3>2. /\ \A k \in 0 .. p : Before(f, k) \in Nat /\ Before(f, k) = h[k] - h[0]
          /\ h \in Edges(p)
      BY <3>1, <2>2, SumOfSteps, ZenonT(30)
    <3> QED
      BY <3>2
  <2> QED
    BY <2>3 DEF First, Before, f
<1>7. h[0] = 0 /\ h[p] = N
  <2>1. h[0] = 0 * q + 0 /\ h[p] = p * q + r
    BY <1>1
  <2> HIDE DEF h
  <2> QED
    BY <1>1, <2>1
<1>8. \A s \in 0 .. p : First(s) = h[s]
  <2>1. \A s \in 0 .. p : h[s] \in Nat
    BY <1>4
  <2> HIDE DEF h
  <2> QED
    BY <1>6, <1>7, <2>1
<1>9. [s \in 0 .. p |-> First(s)] = h
  <2>1. h = [s \in 0 .. p |-> h[s]]
    OBVIOUS
  <2> HIDE DEF h
  <2> QED
    BY <1>8, <2>1
<1>10. ASSUME NEW s \in Servers
       PROVE  /\ server_vect_size(s) \in Nat
              /\ First(s + 1) = First(s) + server_vect_size(s)
              /\ First(s) < N => server_vect_size(s) > 0
  <2>1. s \in 0 .. p - 1 /\ s \in 0 .. p /\ s + 1 \in 0 .. p
    BY DEF Servers
  <2>2. server_vect_size(s) = Sizes[s]
    BY DEF Sizes
  <2>3. First(s) = s * q + (IF s < r THEN s ELSE r)
    BY <1>8, <2>1
  <2>4. First(s) < N => Sizes[s] > 0
    <3>0. Sizes[s] = q + (IF s < r THEN 1 ELSE 0)
      BY <1>5, <2>1
    <3> HIDE DEF h
    <3>1. CASE q = 0
      <4>1. s * q = 0 /\ p * q = 0
        BY <2>1, <3>1
      <4>2. N = r /\ First(s) = IF s < r THEN s ELSE r
        BY <1>1, <2>1, <2>3, <4>1
      <4> QED
        BY <1>1, <2>1, <3>0, <3>1, <4>2
    <3>2. CASE q # 0
      BY <1>1, <3>0, <3>2
    <3> QED
      BY <3>1, <3>2
  <2> HIDE DEF h
  <2> QED
    BY <1>5, <1>8, <2>1, <2>2, <2>4
<1> HIDE DEF h
<1> QED
  BY <1>6, <1>7, <1>8, <1>9, <1>10

LEMMA FieldLayout ==
    ASSUME Ranks
    PROVE  \E n \in Nat \ {0} : Layout(n)
<1>1. PICK m \in Nat : Clients = 0 .. m
  BY DEF Ranks
<1> DEFINE n == m + 1
           f == local_vect_sizes
           h == [c \in 0 .. n |-> gatherv_displs(c)]
<1>2. n \in Nat \ {0} /\ Clients = 0 .. n - 1 /\ 0 .. n - 1 = DOMAIN f
  BY <1>1 DEF Clients
<1> HIDE DEF n
<1>3. \A c \in 0 .. n - 1 : f[c] \in Nat
  BY <1>2 DEF Ranks
<1>4. /\ gatherv_displs(0) = 0
      /\ \A k \in 0 .. n : gatherv_displs(k) \in Nat
      /\ \A k \in 0 .. n - 1 : gatherv_displs(k + 1) = gatherv_displs(k) + f[k]
  BY <1>2, <1>3, PrefixSums DEF gatherv_displs
<1>5. h \in Edges(n)
  <2>1. h \in [0 .. n -> Nat]
    BY <1>4
  <2>2. \A k \in 0 .. n - 1 : f[k] \in Nat /\ h[k + 1] = h[k] + f[k]
    BY <1>2, <1>3, <1>4
  <2> HIDE DEF h, f
  <2> QED
    BY <1>2, <2>1, <2>2, SumOfSteps
<1>6. gatherv_displs(n) = global_vect_size /\ global_vect_size \in Nat
  <2>1. n \in 0 .. n
    BY <1>2
  <2>2. gatherv_displs(n) = global_vect_size
    BY <1>2 DEF gatherv_displs, global_vect_size, SumFunction
  <2> QED
    BY <1>4, <2>1, <2>2
<1>7. /\ [s \in 0 .. nb_proc_server |-> First(s)] \in Edges(nb_proc_server)
      /\ First(0) = 0 /\ First(nb_proc_server) = global_vect_size
      /\ \A s \in Servers : /\ server_vect_size(s) \in Nat
                            /\ First(s + 1) = First(s) + server_vect_size(s)
                            /\ First(s) < global_vect_size => server_vect_size(s) > 0
  BY <1>6, ServersShare DEF Ranks
<1> HIDE DEF h
<1>8. Layout(n)
  BY <1>2, <1>3, <1>4, <1>5, <1>6, <1>7 DEF Layout, h, Ranks
<1> QED
  BY <1>2, <1>8
-----------------------------------------------------------------------------
(* The loop over the cells.                                                  *)

\* The loop does not leave the ranks, for any sizes.
Within ==
    /\ learning \in Modes /\ sample_id \in Samples /\ nb_proc_server \in 1 .. MaxServers
    /\ local_vect_sizes \in [Clients -> PartSizes]
    /\ i \in 0 .. global_vect_size
    /\ client_rank \in Clients /\ client_count \in Nat
    /\ gatherv_displs(client_rank) + client_count <= i
    /\ server_rank \in Servers /\ server_count \in Nat
    /\ server_count <= server_vect_size(server_rank)
    /\ First(server_rank) + server_count = i
    /\ send_counts \in [Clients -> [Servers -> Nat]]
    /\ messages \in Seq([push : Clients, pull : Servers])
    /\ total_nb_messages \in Nat /\ local_nb_messages \in [Clients -> Nat]

LEMMA WithinInit == ASSUME Init PROVE Within
<1>1. Ranks
  BY InitRanks
<1>2. PICK n \in Nat \ {0} : Layout(n)
  BY <1>1, FieldLayout
<1>3. 0 \in Clients /\ 0 \in Servers
  BY <1>2 DEF Layout, Servers
<1>4. \A s \in Servers : server_vect_size(s) \in Nat
  BY <1>2 DEF Layout
<1>5. local_vect_sizes \in [Clients -> PartSizes]
  BY DEF Init, Clients
<1>6. /\ send_counts \in [Clients -> [Servers -> Nat]]
      /\ messages \in Seq([push : Clients, pull : Servers])
      /\ total_nb_messages \in Nat /\ local_nb_messages \in [Clients -> Nat]
  <2>1. CASE learning > 0
    <3>1. /\ send_counts = [c \in Clients |-> [s \in Servers |->
                               IF c = 0 THEN server_vect_size(s) ELSE 0]]
          /\ messages = [k \in 1 .. nb_proc_server |-> [push |-> 0, pull |-> k - 1]]
          /\ total_nb_messages = nb_proc_server
          /\ local_nb_messages = [c \in Clients |-> IF c = 0 THEN nb_proc_server ELSE 0]
          /\ nb_proc_server \in Nat
      BY <1>2, <2>1 DEF Init, OneToM, Layout
    <3>2. \A k \in 1 .. nb_proc_server : [push |-> 0, pull |-> k - 1] \in [push : Clients, pull : Servers]
      BY <1>3, <3>1 DEF Servers
    <3>3. messages \in [1 .. nb_proc_server -> [push : Clients, pull : Servers]]
      BY <3>1, <3>2
    <3>4. \A S : \A q \in [1 .. nb_proc_server -> S] : q \in Seq(S)
      BY <3>1
    <3>5. send_counts \in [Clients -> [Servers -> Nat]]
      BY <1>4, <3>1
    <3>6. total_nb_messages \in Nat /\ local_nb_messages \in [Clients -> Nat]
      BY <3>1
    <3> QED
      BY <3>3, <3>4, <3>5, <3>6
  <2>2. CASE ~(learning > 0)
    <3>1. /\ send_counts = [c \in Clients |-> [s \in Servers |-> 0]]
          /\ messages = <<>> /\ total_nb_messages = 1
          /\ local_nb_messages = [c \in Clients |-> IF c = 0 THEN 1 ELSE 0]
      BY <2>2 DEF Init, NToM
    <3> QED
      BY <3>1
  <2> QED
    BY <2>1, <2>2
<1>7. /\ client_rank = 0 /\ client_count = 0 /\ server_rank = 0 /\ server_count = 0 /\ i = 0
      /\ learning \in Modes /\ sample_id \in Samples /\ nb_proc_server \in 1 .. MaxServers
  BY DEF Init
<1>8. gatherv_displs(0) = 0 /\ First(0) = 0 /\ global_vect_size \in Nat
  BY <1>2 DEF Layout
<1> QED
  BY <1>3, <1>4, <1>5, <1>6, <1>7, <1>8 DEF Within

\* Where the next cell lies.
LEMMA WhereNextCell ==
    ASSUME Ranks, Within, NextCell
    PROVE  /\ client_rank' \in Clients /\ client_count' \in Nat \ {0}
           /\ gatherv_displs(client_rank') + client_count' <= i + 1
           /\ server_rank' \in Servers /\ server_count' \in Nat \ {0}
           /\ server_count' <= server_vect_size(server_rank')
           /\ First(server_rank') + server_count' = i + 1
           /\ i \in Nat /\ i < global_vect_size /\ global_vect_size \in Nat
<1>1. PICK n \in Nat \ {0} : Layout(n)
  BY FieldLayout
<1> DEFINE N == global_vect_size
           D(c) == gatherv_displs(c)
           p == nb_proc_server
<1>2. i \in Nat /\ N \in Nat /\ i < N /\ p \in Nat \ {0}
  BY <1>1 DEF NextCell, Within, Layout
<1>3. /\ client_rank \in 0 .. n - 1 /\ client_count \in Nat
      /\ D(client_rank) + client_count <= i
      /\ local_vect_sizes[client_rank] \in Nat
      /\ D(client_rank + 1) = D(client_rank) + local_vect_sizes[client_rank]
      /\ D(n) = N /\ D(client_rank) \in Nat
  <2>1. client_rank \in 0 .. n - 1 /\ client_rank \in Clients
    BY <1>1 DEF Within, Layout
  <2>2. [c \in 0 .. n |-> D(c)] \in [0 .. n -> Nat]
    BY <1>1 DEF Layout, Edges
  <2>3. \A c \in 0 .. n : D(c) \in Nat
    BY <2>2
  <2> QED
    BY <1>1, <2>1, <2>3 DEF Within, Layout
<1>4. /\ server_rank \in 0 .. p - 1 /\ server_count \in Nat
      /\ First(server_rank) + server_count = i
      /\ server_vect_size(server_rank) \in Nat
      /\ server_count <= server_vect_size(server_rank)
      /\ First(server_rank + 1) = First(server_rank) + server_vect_size(server_rank)
      /\ First(p) = N /\ First(server_rank) \in Nat
  <2>1. server_rank \in 0 .. p - 1 /\ server_rank \in Servers
    BY <1>1 DEF Within, Layout, Servers
  <2>2. [s \in 0 .. p |-> First(s)] \in [0 .. p -> Nat]
    BY <1>1 DEF Layout, Edges
  <2>3. \A s \in 0 .. p : First(s) \in Nat
    BY <2>2
  <2> QED
    BY <1>1, <2>1, <2>3 DEF Within, Layout
<1> HIDE DEF D
<1>5. /\ client_rank' \in 0 .. n - 1 /\ client_count' \in Nat \ {0}
      /\ D(client_rank') + client_count' <= i + 1
  <2>1. CASE NextClient
    <3>1. client_rank' = client_rank + 1 /\ client_count' = 1
      BY <2>1 DEF NextCell
    <3>2. D(client_rank + 1) <= i
      BY <1>2, <1>3, <2>1 DEF NextClient
    <3>3. client_rank + 1 # n
      <4> SUFFICES ASSUME client_rank + 1 = n PROVE FALSE
        OBVIOUS
      <4>1. N <= i
        BY <1>3, <3>2
      <4> QED
        BY <1>2, <4>1
    <3> QED
      BY <1>2, <1>3, <3>1, <3>2, <3>3
  <2>2. CASE ~NextClient
    <3>1. client_rank' = client_rank /\ client_count' = client_count + 1
      BY <2>2 DEF NextCell
    <3> QED
      BY <1>2, <1>3, <3>1
  <2> QED
    BY <2>1, <2>2
<1>6. /\ server_rank' \in 0 .. p - 1 /\ server_count' \in Nat \ {0}
      /\ server_count' <= server_vect_size(server_rank')
      /\ First(server_rank') + server_count' = i + 1
  <2>1. CASE NextServer
    <3>1. server_rank' = server_rank + 1 /\ server_count' = 1
      BY <2>1 DEF NextCell
    <3>2. First(server_rank + 1) = i
      BY <1>2, <1>4, <2>1 DEF NextServer
    <3>3. server_rank + 1 # p
      <4> SUFFICES ASSUME server_rank + 1 = p PROVE FALSE
        OBVIOUS
      <4>1. N = i
        BY <1>4, <3>2
      <4> QED
        BY <1>2, <4>1
    <3>4. server_rank + 1 \in Servers
      BY <1>2, <1>4, <3>3 DEF Servers
    <3>5. server_vect_size(server_rank + 1) \in Nat \ {0}
      BY <1>1, <1>2, <3>2, <3>4 DEF Layout
    <3> QED
      BY <1>2, <1>4, <3>1, <3>2, <3>3, <3>5
  <2>2. CASE ~NextServer
    <3>1. server_rank' = server_rank /\ server_count' = server_count + 1
      BY <2>2 DEF NextCell
    <3>2. server_count + 1 <= server_vect_size(server_rank)
      BY <1>4, <2>2 DEF NextServer
    <3> QED
      BY <1>2, <1>4, <3>1, <3>2
  <2> QED
    BY <2>1, <2>2
<1> QED
  BY <1>1, <1>2, <1>5, <1>6 DEF Layout, Servers, D

\* One cell more for a pair of ranks.
LEMMA OneMoreCell ==
    ASSUME NEW A, NEW B, NEW f \in [A -> [B -> Nat]], NEW a \in A, NEW b \in B
    PROVE  LET g == [f EXCEPT ![a][b] = @ + 1] IN
           /\ g \in [A -> [B -> Nat]]
           /\ \A x \in A, y \in B : g[x][y] = f[x][y] + (IF x = a /\ y = b THEN 1 ELSE 0)
<1> DEFINE g == [f EXCEPT ![a][b] = @ + 1]
<1>1. f[a] \in [B -> Nat]
  OBVIOUS
<1> DEFINE h == [f[a] EXCEPT ![b] = @ + 1]
<1>2. h \in [B -> Nat] /\ \A y \in B : h[y] = f[a][y] + (IF y = b THEN 1 ELSE 0)
  BY <1>1
<1>3. g = [f EXCEPT ![a] = h]
  BY <1>1
<1> HIDE DEF g, h
<1>4. g \in [A -> [B -> Nat]] /\ g[a] = h /\ \A x \in A : x # a => g[x] = f[x]
  BY <1>2, <1>3
<1>5. ASSUME NEW x \in A, NEW y \in B
      PROVE  g[x][y] = f[x][y] + (IF x = a /\ y = b THEN 1 ELSE 0)
  <2>1. f[x][y] \in Nat
    OBVIOUS
  <2> QED
    BY <1>2, <1>4, <2>1
<1> QED
  BY <1>4, <1>5 DEF g

\* A cell of either loop stays within the ranks, if what it does to the tables does.
LEMMA WithinNextCell ==
    ASSUME Ranks, Within, NextCell,
           send_counts' \in [Clients -> [Servers -> Nat]],
           messages' \in Seq([push : Clients, pull : Servers]),
           total_nb_messages' \in Nat, local_nb_messages' \in [Clients -> Nat]
    PROVE  Within'
<1>1. UNCHANGED confVars /\ i' = i + 1
  BY DEF NextCell
<1>2. /\ Clients' = Clients /\ Servers' = Servers
      /\ global_vect_size' = global_vect_size
      /\ gatherv_displs(client_rank)' = gatherv_displs(client_rank')
      /\ First(server_rank)' = First(server_rank')
      /\ server_vect_size(server_rank)' = server_vect_size(server_rank')
  BY <1>1 DEF confVars, Clients, Servers, global_vect_size, gatherv_displs, First, Sizes,
              server_vect_size
<1>3. /\ client_rank' \in Clients /\ client_count' \in Nat \ {0}
      /\ gatherv_displs(client_rank') + client_count' <= i + 1
      /\ server_rank' \in Servers /\ server_count' \in Nat \ {0}
      /\ server_count' <= server_vect_size(server_rank')
      /\ First(server_rank') + server_count' = i + 1
      /\ i \in Nat /\ i < global_vect_size /\ global_vect_size \in Nat
  BY WhereNextCell
<1>4. i' \in 0 .. global_vect_size
  BY <1>1, <1>3
<1> QED
  BY <1>1, <1>2, <1>3, <1>4 DEF Within, confVars

LEMMA WithinCountCell == ASSUME Ranks, Within, CountCell PROVE Within'
<1>1. NextCell /\ messages' = messages
  BY DEF CountCell
<1>2. send_counts' \in [Clients -> [Servers -> Nat]]
  <2>1. send_counts' = [send_counts EXCEPT ![client_rank'][server_rank'] = @ + 1]
    BY DEF CountCell
  <2>2. client_rank' \in Clients /\ server_rank' \in Servers
    BY <1>1, WhereNextCell
  <2>3. send_counts \in [Clients -> [Servers -> Nat]]
    BY DEF Within
  <2> QED
    BY <2>1, <2>2, <2>3, OneMoreCell
<1>3. total_nb_messages' \in Nat /\ local_nb_messages' \in [Clients -> Nat]
  <2>1. total_nb_messages \in Nat /\ local_nb_messages \in [Clients -> Nat]
    BY DEF Within
  <2>2. [local_nb_messages EXCEPT ![client_rank'] = @ + 1] \in [Clients -> Nat]
    BY <2>1, CounterType
  <2>3. CASE NewMessage
    BY <2>1, <2>2, <2>3 DEF CountCell
  <2>4. CASE ~NewMessage
    BY <2>1, <2>4 DEF CountCell
  <2> QED
    BY <2>3, <2>4
<1>4. messages' \in Seq([push : Clients, pull : Servers])
  BY <1>1 DEF Within
<1> QED
  BY <1>1, <1>2, <1>3, <1>4, WithinNextCell

LEMMA WithinFillCell == ASSUME Ranks, Within, FillCell PROVE Within'
<1>1. NextCell /\ UNCHANGED countVars
  BY DEF FillCell
<1>2. messages' \in Seq([push : Clients, pull : Servers])
  <2> DEFINE e == [push |-> client_rank', pull |-> server_rank']
             T == [push : Clients, pull : Servers]
  <2>1. messages' = messages \/ messages' = Append(messages, e)
    BY DEF FillCell
  <2>2. e \in T
    BY <1>1, WhereNextCell
  <2>3. messages \in Seq(T)
    BY DEF Within
  <2> HIDE DEF e, T
  <2>4. messages' \in Seq(T)
    BY <2>1, <2>2, <2>3
  <2> QED
    BY <2>4 DEF T
<1>3. /\ send_counts' \in [Clients -> [Servers -> Nat]]
      /\ total_nb_messages' \in Nat /\ local_nb_messages' \in [Clients -> Nat]
  BY <1>1 DEF countVars, Within
<1> QED
  BY <1>1, <1>2, <1>3, WithinNextCell

LEMMA WithinRewind == ASSUME Ranks, Within, Rewind PROVE Within'
<1>1. UNCHANGED <<confVars, countVars>>
  BY DEF Rewind
<1>2. PICK n \in Nat \ {0} : Layout(n)
  BY FieldLayout
<1>3. /\ 0 \in Clients /\ 0 \in Servers /\ server_vect_size(0) \in Nat
      /\ gatherv_displs(0) = 0 /\ First(0) = 0 /\ global_vect_size \in Nat
  BY <1>2 DEF Layout, Servers
<1>4. /\ client_rank' = 0 /\ client_count' = 0 /\ server_rank' = 0 /\ server_count' = 0
      /\ i' = 0
  BY DEF Rewind
<1>5. /\ Clients' = Clients /\ Servers' = Servers
      /\ global_vect_size' = global_vect_size
      /\ gatherv_displs(client_rank)' = gatherv_displs(client_rank')
      /\ First(server_rank)' = First(server_rank')
      /\ server_vect_size(server_rank)' = server_vect_size(server_rank')
  BY <1>1 DEF confVars, Clients, Servers, global_vect_size, gatherv_displs, First, Sizes,
              server_vect_size
<1>6. messages' \in Seq([push : Clients, pull : Servers])
  <2>1. [push |-> 0, pull |-> 0] \in [push : Clients, pull : Servers]
    BY <1>3
  <2> QED
    BY <2>1 DEF Rewind
<1>7. 0 \in Nat /\ 0 \in 0 .. global_vect_size /\ 0 + 0 = 0 /\ 0 <= 0 /\ 0 <= server_vect_size(0)
  BY <1>3
<1> QED
  BY <1>1, <1>3, <1>4, <1>5, <1>6, <1>7 DEF Within, confVars, countVars

LEMMA WithinStep == ASSUME Ranks, Within, [Next]_vars PROVE Within'
<1>1. CASE CountCell
  BY <1>1, WithinCountCell
<1>3. CASE Rewind
  BY <1>3, WithinRewind
<1>4. CASE FillCell
  BY <1>4, WithinFillCell
<1>2. CASE Connect \/ (\E c \in Clients : Send(c)) \/ UNCHANGED vars
  <2>1. UNCHANGED <<confVars, loopVars, tableVars>>
    BY <1>2 DEF Connect, Send, vars
  <2>2. /\ Clients' = Clients /\ Servers' = Servers
        /\ global_vect_size' = global_vect_size
        /\ gatherv_displs(client_rank)' = gatherv_displs(client_rank)
        /\ First(server_rank)' = First(server_rank)
        /\ server_vect_size(server_rank)' = server_vect_size(server_rank)
    BY <2>1 DEF confVars, loopVars, Clients, Servers, global_vect_size, gatherv_displs, First,
                Sizes, server_vect_size
  <2> QED
    BY <2>1, <2>2 DEF Within, confVars, loopVars, countVars, tableVars
<1> QED
  BY <1>1, <1>2, <1>3, <1>4 DEF Next

-----------------------------------------------------------------------------
(* What is sent.                                                             *)

Sent(c, s) == {[nb |-> k, cells |-> Chunk(c, s)] :
                  k \in {k \in DOMAIN messages : messages[k].push = c /\ messages[k].pull = s}}

\* A vector has cells of the field.
LEMMA VectorCells ==
    ASSUME Ranks, NEW c \in Clients
    PROVE  \E size \in Nat : Vector(c) \in [1 .. size -> Cells]
<1>1. PICK n \in Nat \ {0} : Layout(n)
  BY FieldLayout
<1>2. global_vect_size \in Nat
  BY <1>1 DEF Layout
<1>3. CASE learning > 0
  <2> DEFINE size == IF c = 0 THEN global_vect_size ELSE 0
  <2>1. size \in Nat
    BY <1>2
  <2>2. \A k \in 1 .. size : k \in Cells
    BY <1>2 DEF Cells
  <2> HIDE DEF size
  <2>3. [k \in 1 .. size |-> k] \in [1 .. size -> Cells]
    BY <2>2
  <2> QED
    BY <1>3, <2>1, <2>3 DEF Vector, size
<1>4. CASE ~(learning > 0)
  <2> DEFINE size == local_vect_sizes[c]
             d == gatherv_displs(c)
             b == [x \in 0 .. n |-> gatherv_displs(x)]
  <2>1. c \in 0 .. n /\ c + 1 \in 0 .. n /\ n \in 0 .. n /\ c + 1 <= n
    BY <1>1 DEF Layout
  <2>2. b \in Edges(n) /\ b \in [0 .. n -> Nat]
    BY <1>1 DEF Layout, Edges
  <2>3. size \in Nat /\ gatherv_displs(c + 1) = d + size /\ gatherv_displs(n) = global_vect_size
    BY <1>1 DEF Layout
  <2>4. b[c] = d /\ b[c + 1] = gatherv_displs(c + 1) /\ b[n] = gatherv_displs(n)
    BY <2>1
  <2> HIDE DEF b, d, size
  <2>5. d \in Nat /\ d + size <= global_vect_size
    <3>1. b[c + 1] <= b[n] /\ b[c] \in Nat
      BY <2>1, <2>2, EdgesGrow
    <3> QED
      BY <2>3, <2>4, <3>1
  <2>6. \A k \in 1 .. size : d + k \in Cells
    BY <1>2, <2>3, <2>5 DEF Cells
  <2>7. [k \in 1 .. size |-> d + k] \in [1 .. size -> Cells]
    BY <2>6
  <2> QED
    BY <1>4, <2>3, <2>7 DEF Vector, size, d
<1> QED
  BY <1>3, <1>4

LEMMA ChunkCells ==
    ASSUME Ranks, NEW c \in Clients, NEW s \in Servers, send_counts[c][s] \in Nat
    PROVE  /\ Chunk(c, s) \in [1 .. send_counts[c][s] -> Cells \cup {NoCell}]
           /\ Classic(c, s) = Sent(c, s)
<1>1. PICK size \in Nat : Vector(c) \in [1 .. size -> Cells]
  BY VectorCells
<1> DEFINE V == Vector(c)
           d == sdispls(c, s)
           m == send_counts[c][s]
<1>2. \A x \in DOMAIN V : V[x] \in Cells
  BY <1>1
<1>3. Chunk(c, s) = [k \in 1 .. m |-> IF d + k \in DOMAIN V THEN V[d + k] ELSE NoCell]
  BY DEF Chunk
<1> HIDE DEF V, d, m
<1>4. Chunk(c, s) \in [1 .. m -> Cells \cup {NoCell}]
  BY <1>2, <1>3
<1>5. Arrives(c, m, Chunk(c, s)) = Chunk(c, s)
  BY <1>4, VectorArrives DEF m
<1> QED
  BY <1>4, <1>5 DEF m, Classic, Sent

Received ==
    /\ timestamp \in [Clients -> 0 .. NbSteps]
    /\ \A s \in Servers, t \in Steps, c \in Clients :
          \A m \in received[s][t][c] :
              m.nb \in Nat /\ m.cells \in Seq(Cells \cup {NoCell})

\* Every message sent is of the type.
LEMMA SentTypes ==
    ASSUME IInv, Within, NEW c \in Clients, NEW s \in Servers, NEW t, NEW m,
           m \in (IF learning < 2 THEN Classic(c, s) ELSE RoundRobin(c, s, t))
    PROVE  m.nb \in Nat /\ m.cells \in Seq(Cells \cup {NoCell})
<1>0. /\ Ranks /\ s \in Nat /\ send_counts[c][s] \in Nat
      /\ \A size \in Nat : \A S : \A q \in [1 .. size -> S] : q \in Seq(S)
  <2>1. Ranks
    BY DEF IInv
  <2>2. s \in Nat
    BY DEF Servers
  <2>3. send_counts[c][s] \in Nat
    BY DEF Within
  <2>4. \A size \in Nat : \A S : \A q \in [1 .. size -> S] : q \in Seq(S)
    OBVIOUS
  <2> QED
    BY <2>1, <2>2, <2>3, <2>4
<1>1. CASE learning < 2
  <2>1. PICK k \in DOMAIN messages : m = [nb |-> k, cells |-> Chunk(c, s)]
    BY <1>0, <1>1, ChunkCells DEF Sent
  <2>2. k \in Nat
    BY DEF IInv, Ranks
  <2>3. Chunk(c, s) \in Seq(Cells \cup {NoCell})
    BY <1>0, ChunkCells
  <2> QED
    BY <2>1, <2>2, <2>3
<1>2. CASE ~(learning < 2)
  <2>1. c = 0 /\ learning > 0
    BY <1>2, RedistributionAssumption DEF RoundRobin, Within
  <2>2. m \in Turn(s, t)
    BY <1>2, <2>1, FieldSize, RoundRobinCells
  <2>3. PICK size \in Nat : Vector(0) \in [1 .. size -> Cells]
    BY <1>0, <2>1, VectorCells
  <2>4. Vector(0) \in Seq(Cells \cup {NoCell})
    <3>1. Vector(0) \in [1 .. size -> Cells \cup {NoCell}]
      BY <2>3
    <3> QED
      BY <1>0, <3>1
  <2>5. m = [nb |-> s + 1, cells |-> IF s = Target(t) THEN Vector(0) ELSE <<>>]
    BY <2>2 DEF Turn
  <2> QED
    BY <1>0, <2>4, <2>5
<1> QED
  BY <1>1, <1>2

LEMMA ReceivedInit == ASSUME Init PROVE Received
<1>1. timestamp = [c \in Clients |-> 0] /\ NbSteps \in Nat
  BY RedistributionAssumption DEF Init
<1>2. received = [s \in Servers |-> [t \in Steps |-> [c \in Clients |-> {}]]]
  BY DEF Init
<1> QED
  BY <1>1, <1>2 DEF Received

LEMMA ReceivedStep ==
    ASSUME IInv, Within, Received, [Next]_vars
    PROVE  Received'
<1>1. CASE \E c \in Clients : Send(c)
  <2>1. PICK c \in Clients : Send(c)
    BY <1>1
  <2> DEFINE t == timestamp[c]
             All(s) == IF learning < 2 THEN Classic(c, s) ELSE RoundRobin(c, s, t)
  <2>2. received' = [s \in Servers |-> [received[s] EXCEPT ![t][c] = All(s)]]
    BY <2>1 DEF Send
  <2>3. /\ UNCHANGED confVars /\ t < NbSteps /\ timestamp' = [timestamp EXCEPT ![c] = @ + 1]
    BY <2>1 DEF Send
  <2>4. Clients' = Clients /\ Servers' = Servers /\ Steps' = Steps /\ Cells' = Cells
    BY <2>3 DEF confVars, Clients, Servers, Steps, Cells, global_vect_size
  <2>5. timestamp' \in [Clients -> 0 .. NbSteps]
    <3>1. t \in 0 .. NbSteps /\ t + 1 \in 0 .. NbSteps
      BY <2>3, RedistributionAssumption DEF Received
    <3> QED
      BY <2>3, <3>1 DEF Received
  <2>6. ASSUME NEW s \in Servers, NEW m \in All(s)
        PROVE  m.nb \in Nat /\ m.cells \in Seq(Cells \cup {NoCell})
    BY <2>6, SentTypes
  <2> HIDE DEF All, t
  <2>7. ASSUME NEW s \in Servers, NEW u \in Steps, NEW d \in Clients, NEW m \in received'[s][u][d]
        PROVE  m.nb \in Nat /\ m.cells \in Seq(Cells \cup {NoCell})
    <3>1. received'[s] = [received[s] EXCEPT ![t][c] = All(s)]
      BY <2>2
    <3>2. received'[s][u][d] = received[s][u][d] \/ received'[s][u][d] = All(s)
      BY <3>1 DEF IInv, Shape
    <3> QED
      BY <2>6, <2>7, <3>2 DEF Received
  <2> QED
    BY <2>4, <2>5, <2>7 DEF Received
<1>2. CASE CountCell \/ Rewind \/ FillCell \/ Connect \/ UNCHANGED vars
  <2>1. UNCHANGED <<confVars, timestamp, received>>
    BY <1>2 DEF CountCell, Rewind, FillCell, NextCell, Connect, vars
  <2> QED
    BY <2>1 DEF Received, confVars, Clients, Servers, Steps, Cells, global_vect_size
<1> QED
  BY <1>1, <1>2 DEF Next

LEMMA TypesInductive == Spec => [](IInv /\ Within /\ Received)
<1>1. Init => Within /\ Received
  BY WithinInit, ReceivedInit
<1>2. IInv /\ Within /\ Received /\ [Next]_vars => Within' /\ Received'
  BY WithinStep, ReceivedStep DEF IInv
<1> QED
  BY <1>1, <1>2, IInvInductive, PTL DEF Spec

\* The loop over the cells stays within the ranks of both sides, and the messages
\* within the field, for every partition, those with empty parts too
\* (melissa_api.c 319-436 and 1290-1466).
THEOREM RedistributionTypeOK == Spec => []TypeOK
<1>1. IInv /\ Within /\ Received => TypeOK
  BY DEF IInv, Ranks, Within, Received, TypeOK
<1> QED
  BY <1>1, TypesInductive, PTL

-----------------------------------------------------------------------------
(* The two loops visit the same cells in the same way.                       *)

Mine(c) == {k \in DOMAIN messages : messages[k].push = c}

\* where a loop is, and where it goes from there
Start == [client |-> 0, ccount |-> 0, server |-> 0, scount |-> 0]
Position == [client |-> client_rank, ccount |-> client_count,
             server |-> server_rank, scount |-> server_count]
LeavesClient(p) == p.ccount >= local_vect_sizes[p.client]
LeavesServer(p) == p.scount >= server_vect_size(p.server)
After(p) ==
    [client |-> IF LeavesClient(p) THEN p.client + 1 ELSE p.client,
     ccount |-> IF LeavesClient(p) THEN 1 ELSE p.ccount + 1,
     server |-> IF LeavesServer(p) THEN p.server + 1 ELSE p.server,
     scount |-> IF LeavesServer(p) THEN 1 ELSE p.scount + 1]

\* the first n cells of a loop, those of them that begin a message, and a message of c
Path(h, n) == DOMAIN h = Nat /\ h[0] = Start /\ \A k \in 0 .. n - 1 : h[k + 1] = After(h[k])
Fresh(h, n) == {k \in 0 .. n - 1 : LeavesClient(h[k]) \/ LeavesServer(h[k])}
FreshOf(h, n, c) == {k \in Fresh(h, n) : h[k + 1].client = c}

FirstMessageOf(c) == IF c = 0 THEN 1 ELSE 0
CountedAlong(h, n) ==
    /\ total_nb_messages = 1 + Cardinality(Fresh(h, n))
    /\ \A c \in Clients : local_nb_messages[c] = FirstMessageOf(c) + Cardinality(FreshOf(h, n, c))
FilledAlong(h, n) ==
    /\ Len(messages) = 1 + Cardinality(Fresh(h, n))
    /\ \A c \in Clients : Cardinality(Mine(c)) = FirstMessageOf(c) + Cardinality(FreshOf(h, n, c))

Counting(h) == Path(h, i) /\ Position = h[i] /\ CountedAlong(h, i)
Filling(h) ==
    /\ Path(h, global_vect_size) /\ CountedAlong(h, global_vect_size)
    /\ Position = h[i] /\ FilledAlong(h, i)

TwoLoops ==
    /\ phase = "count" => \E h : Counting(h)
    /\ phase = "fill" => \E h : Filling(h)
    /\ PushersMatch

\* One cell more of a path begins a message or does not.
LEMMA OneMoreFresh ==
    ASSUME NEW h, NEW n \in Nat, NEW c
    PROVE  /\ Cardinality(Fresh(h, n)) \in Nat /\ Cardinality(FreshOf(h, n, c)) \in Nat
           /\ LeavesClient(h[n]) \/ LeavesServer(h[n]) =>
                 /\ Cardinality(Fresh(h, n + 1)) = Cardinality(Fresh(h, n)) + 1
                 /\ Cardinality(FreshOf(h, n + 1, c)) = Cardinality(FreshOf(h, n, c))
                        + (IF h[n + 1].client = c THEN 1 ELSE 0)
           /\ ~(LeavesClient(h[n]) \/ LeavesServer(h[n])) =>
                 /\ Fresh(h, n + 1) = Fresh(h, n)
                 /\ FreshOf(h, n + 1, c) = FreshOf(h, n, c)
<1> DEFINE New(k) == LeavesClient(h[k]) \/ LeavesServer(h[k])
           F == Fresh(h, n)
           G == FreshOf(h, n, c)
<1>1. 0 .. (n + 1) - 1 = (0 .. n - 1) \cup {n} /\ n \notin 0 .. n - 1
  OBVIOUS
<1>2. IsFiniteSet(F) /\ IsFiniteSet(G) /\ n \notin F /\ n \notin G
  <2>1. IsFiniteSet(0 .. n - 1)
    <3>1. 0 \in Int /\ n - 1 \in Int
      OBVIOUS
    <3> QED
      BY <3>1, FS_Interval
  <2>2. F \subseteq 0 .. n - 1 /\ G \subseteq 0 .. n - 1
    BY DEF Fresh, FreshOf
  <2> QED
    BY <1>1, <2>1, <2>2, FS_Subset
<1>3. Cardinality(F) \in Nat /\ Cardinality(G) \in Nat
  BY <1>2, FS_CardinalityType
<1>4. Fresh(h, n + 1) = {k \in (0 .. n - 1) \cup {n} : New(k)} /\ F = {k \in 0 .. n - 1 : New(k)}
  BY <1>1 DEF Fresh
<1> HIDE DEF New, F
<1>5. Fresh(h, n + 1) = IF New(n) THEN F \cup {n} ELSE F
  BY <1>4
<1>6. FreshOf(h, n + 1, c) = {k \in Fresh(h, n + 1) : h[k + 1].client = c}
      /\ G = {k \in F : h[k + 1].client = c}
  BY DEF FreshOf, F
<1> HIDE DEF G
<1>7. FreshOf(h, n + 1, c) = IF New(n) /\ h[n + 1].client = c THEN G \cup {n} ELSE G
  <2>1. CASE New(n)
    <3>1. Fresh(h, n + 1) = F \cup {n}
      BY <1>5, <2>1
    <3> QED
      BY <1>6, <2>1, <3>1
  <2>2. CASE ~New(n)
    BY <1>5, <1>6, <2>2
  <2> QED
    BY <2>1, <2>2
<1>8. Cardinality(F \cup {n}) = Cardinality(F) + 1 /\ Cardinality(G \cup {n}) = Cardinality(G) + 1
  BY <1>2, FS_AddElement
<1> QED
  BY <1>3, <1>5, <1>7, <1>8 DEF New, F, G

\* The loops move along the path, whichever they are.
LEMMA LoopFollows ==
    ASSUME NextCell, NEW h, NEW n, Position = h[n]
    PROVE  /\ Position' = After(h[n])
           /\ NewMessage <=> LeavesClient(h[n]) \/ LeavesServer(h[n])
<1>1. /\ h[n].client = client_rank /\ h[n].ccount = client_count
      /\ h[n].server = server_rank /\ h[n].scount = server_count
  BY DEF Position
<1>2. (LeavesClient(h[n]) <=> NextClient) /\ (LeavesServer(h[n]) <=> NextServer)
  BY <1>1 DEF LeavesClient, LeavesServer, NextClient, NextServer
<1>3. Position' = [client |-> client_rank', ccount |-> client_count',
                   server |-> server_rank', scount |-> server_count']
  BY DEF Position
<1>4. /\ client_rank' = IF NextClient THEN client_rank + 1 ELSE client_rank
      /\ client_count' = IF NextClient THEN 1 ELSE client_count + 1
      /\ server_rank' = IF NextServer THEN server_rank + 1 ELSE server_rank
      /\ server_count' = IF NextServer THEN 1 ELSE server_count + 1
  BY DEF NextCell
<1> HIDE DEF NextClient, NextServer
<1> QED
  BY <1>1, <1>2, <1>3, <1>4 DEF After, NewMessage

\* What the path is made of does not change.
LEMMA PathStays ==
    ASSUME UNCHANGED confVars
    PROVE  /\ Clients' = Clients /\ global_vect_size' = global_vect_size
           /\ \A h, n : /\ Path(h, n)' <=> Path(h, n)
                        /\ Fresh(h, n)' = Fresh(h, n)
                        /\ \A c : FreshOf(h, n, c)' = FreshOf(h, n, c)
BY DEF confVars, Clients, global_vect_size, Path, After, LeavesClient, LeavesServer, Fresh, FreshOf,
       server_vect_size

LEMMA PathGoesOn ==
    ASSUME UNCHANGED confVars, i' = i + 1, NEW h
    PROVE  /\ Path(h, i)' <=> Path(h, i + 1)
           /\ Fresh(h, i)' = Fresh(h, i + 1)
           /\ \A c : FreshOf(h, i, c)' = FreshOf(h, i + 1, c)
<1>1. \A p : /\ LeavesClient(p)' <=> LeavesClient(p)
             /\ LeavesServer(p)' <=> LeavesServer(p)
             /\ After(p)' = After(p)
  BY DEF confVars, After, LeavesClient, LeavesServer, server_vect_size, global_vect_size
<1>2. Path(h, i)' <=> Path(h, i + 1)
  BY <1>1 DEF Path
<1>3. Fresh(h, i)' = Fresh(h, i + 1)
  BY <1>1 DEF Fresh
<1> QED
  BY <1>2, <1>3 DEF FreshOf

LEMMA TwoLoopsInit == ASSUME Init PROVE TwoLoops
<1>1. /\ Ranks /\ Within
  BY InitRanks, WithinInit
<1>2. CASE learning > 0
  <2>1. /\ messages = [k \in 1 .. nb_proc_server |-> [push |-> 0, pull |-> k - 1]]
        /\ local_nb_messages = [c \in Clients |-> IF c = 0 THEN nb_proc_server ELSE 0]
        /\ total_nb_messages = nb_proc_server
        /\ phase = "send" /\ nb_proc_server \in Nat
    BY <1>1, <1>2 DEF Init, OneToM, Ranks
  <2>2. Len(messages) = nb_proc_server /\ DOMAIN messages = 1 .. nb_proc_server
    BY <2>1
  <2>3. {k \in DOMAIN messages : messages[k].push = 0} = 1 .. nb_proc_server
    BY <2>1, <2>2
  <2>4. \A c \in Clients : c # 0 => {k \in DOMAIN messages : messages[k].push = c} = {}
    BY <2>1, <2>2
  <2>5. Cardinality(1 .. nb_proc_server) = nb_proc_server /\ Cardinality({}) = 0
    BY <2>1, FS_Interval, FS_EmptySet
  <2> QED
    BY <2>1, <2>2, <2>3, <2>4, <2>5 DEF TwoLoops, PushersMatch
<1>3. CASE ~(learning > 0)
  <2> DEFINE h == [k \in Nat |-> Start]
  <2>1. /\ phase = "count" /\ total_nb_messages = 1 /\ i = 0
        /\ local_nb_messages = [c \in Clients |-> IF c = 0 THEN 1 ELSE 0]
    BY <1>3 DEF Init, NToM
  <2>2. h[0] = Start /\ DOMAIN h = Nat
    OBVIOUS
  <2>3. Position = Start
    BY DEF Init, Position, Start
  <2> HIDE DEF h
  <2>4. Path(h, 0)
    BY <2>2 DEF Path
  <2>5. Fresh(h, 0) = {} /\ \A c : FreshOf(h, 0, c) = {}
    BY DEF Fresh, FreshOf
  <2>6. CountedAlong(h, 0)
    BY <2>1, <2>5, FS_EmptySet DEF CountedAlong, FirstMessageOf
  <2>7. Counting(h)
    BY <2>1, <2>2, <2>3, <2>4, <2>6 DEF Counting
  <2> QED
    BY <2>1, <2>7 DEF TwoLoops, PushersMatch
<1> QED
  BY <1>2, <1>3

\* The first loop goes one cell further on its path, and counts a message where it begins.
LEMMA TwoLoopsCountCell == ASSUME IInv, Within, TwoLoops, CountCell PROVE TwoLoops'
<1>1. /\ phase = "count" /\ phase' = "count" /\ NextCell /\ UNCHANGED confVars
      /\ i' = i + 1
  BY DEF CountCell, NextCell
<1>2. PICK h : Counting(h)
  BY <1>1 DEF TwoLoops
<1>3. i \in Nat
  BY FieldSize DEF Within
<1>13. PICK g : g = [h EXCEPT ![i + 1] = After(h[i])]
  OBVIOUS
<1>4. /\ DOMAIN g = Nat /\ g[i + 1] = After(h[i])
      /\ \A k \in Nat : k # i + 1 => g[k] = h[k]
  BY <1>2, <1>3, <1>13 DEF Counting, Path
<1>5. \A k \in 0 .. i : g[k] = h[k]
  BY <1>3, <1>4
<1>6. Path(g, i + 1)
  <2>1. g[0] = Start
    BY <1>2, <1>3, <1>5 DEF Counting, Path
  <2>2. ASSUME NEW k \in 0 .. (i + 1) - 1
        PROVE  g[k + 1] = After(g[k])
    <3>1. CASE k = i
      BY <1>3, <1>4, <1>5, <3>1
    <3>2. CASE k # i
      <4>1. k \in 0 .. i - 1 /\ k \in 0 .. i /\ k + 1 \in 0 .. i
        BY <1>3, <3>2
      <4>2. h[k + 1] = After(h[k])
        BY <1>2, <4>1 DEF Counting, Path
      <4> QED
        BY <1>5, <4>1, <4>2
    <3> QED
      BY <3>1, <3>2
  <2> QED
    BY <1>4, <2>1, <2>2 DEF Path
<1>7. Fresh(g, i) = Fresh(h, i) /\ \A c : FreshOf(g, i, c) = FreshOf(h, i, c)
  <2>1. \A k \in 0 .. i - 1 : g[k] = h[k] /\ g[k + 1] = h[k + 1]
    BY <1>3, <1>5
  <2>2. Fresh(g, i) = Fresh(h, i)
    BY <2>1 DEF Fresh
  <2>3. \A k \in Fresh(h, i) : g[k + 1] = h[k + 1]
    BY <2>1 DEF Fresh
  <2> QED
    BY <2>2, <2>3 DEF FreshOf
<1>8. g[i] = h[i] /\ Position = g[i] /\ CountedAlong(g, i)
  BY <1>2, <1>3, <1>5, <1>7 DEF Counting, CountedAlong
<1>9. /\ Position' = g[i + 1]
      /\ NewMessage <=> LeavesClient(g[i]) \/ LeavesServer(g[i])
  BY <1>1, <1>4, <1>8, LoopFollows
<1>10. client_rank' = g[i + 1].client
  BY <1>9 DEF Position
<1>11. CountedAlong(g, i)'
  <2>1. CASE NewMessage
    <3>1. /\ total_nb_messages' = total_nb_messages + 1
          /\ local_nb_messages' = [local_nb_messages EXCEPT ![client_rank'] = @ + 1]
      BY <2>1 DEF CountCell
    <3>2. total_nb_messages' = 1 + Cardinality(Fresh(g, i + 1))
      BY <1>3, <1>8, <1>9, <2>1, <3>1, OneMoreFresh DEF CountedAlong
    <3>3. ASSUME NEW c \in Clients
          PROVE  local_nb_messages'[c] = FirstMessageOf(c) + Cardinality(FreshOf(g, i + 1, c))
      <4>1. local_nb_messages'[c] = local_nb_messages[c] + (IF client_rank' = c THEN 1 ELSE 0)
        <5>1. local_nb_messages \in [Clients -> Nat]
          BY DEF Within
        <5> QED
          BY <3>1, <5>1
      <4>2. local_nb_messages[c] = FirstMessageOf(c) + Cardinality(FreshOf(g, i, c))
        BY <1>8 DEF CountedAlong
      <4>3. /\ Cardinality(FreshOf(g, i, c)) \in Nat
            /\ Cardinality(FreshOf(g, i + 1, c)) = Cardinality(FreshOf(g, i, c))
                   + (IF g[i + 1].client = c THEN 1 ELSE 0)
        BY <1>3, <1>9, <2>1, OneMoreFresh
      <4> QED
        BY <1>10, <4>1, <4>2, <4>3 DEF FirstMessageOf
    <3> QED
      BY <1>1, <3>2, <3>3, PathStays, PathGoesOn DEF CountedAlong, FirstMessageOf
  <2>2. CASE ~NewMessage
    <3>1. UNCHANGED <<total_nb_messages, local_nb_messages>>
      BY <2>2 DEF CountCell
    <3>2. Fresh(g, i + 1) = Fresh(g, i) /\ \A c : FreshOf(g, i + 1, c) = FreshOf(g, i, c)
      BY <1>3, <1>9, <2>2, OneMoreFresh
    <3> QED
      BY <1>1, <1>8, <3>1, <3>2, PathStays, PathGoesOn DEF CountedAlong, FirstMessageOf
  <2> QED
    BY <2>1, <2>2
<1>12. Counting(g)'
  <2>1. Path(g, i)' /\ g[i + 1] = g[i']
    BY <1>1, <1>6, PathGoesOn
  <2> QED
    BY <1>9, <1>11, <2>1 DEF Counting
<1> QED
  BY <1>1, <1>12 DEF TwoLoops, PushersMatch

\* Between the loops everything is counted, and only the first message is filled in.
LEMMA TwoLoopsRewind == ASSUME IInv, TwoLoops, Rewind PROVE TwoLoops'
<1>1. /\ phase = "count" /\ phase' = "fill" /\ i = global_vect_size /\ i' = 0
      /\ UNCHANGED confVars /\ UNCHANGED countVars
      /\ messages' = <<[push |-> 0, pull |-> 0]>>
  BY DEF Rewind
<1>2. PICK h : Counting(h)
  BY <1>1 DEF TwoLoops
<1>3. Path(h, global_vect_size) /\ CountedAlong(h, global_vect_size)
  BY <1>1, <1>2 DEF Counting
<1>4. Path(h, global_vect_size)' /\ CountedAlong(h, global_vect_size)'
  BY <1>1, <1>3, PathStays DEF CountedAlong, countVars, FirstMessageOf
<1>5. Position' = h[0]
  BY <1>3 DEF Rewind, Position, Start, Path
<1>6. Fresh(h, 0)' = {} /\ \A c : FreshOf(h, 0, c)' = {}
  BY DEF Fresh, FreshOf
<1>7. /\ Len(messages') = 1 /\ DOMAIN messages' = {1} /\ messages'[1].push = 0
  BY <1>1
<1>8. Mine(0)' = {1} /\ \A c : c # 0 => Mine(c)' = {}
  BY <1>7 DEF Mine
<1>9. Cardinality({1}) = 1 /\ Cardinality({}) = 0
  BY FS_Singleton, FS_EmptySet
<1>10. FilledAlong(h, 0)'
  <2>1. Len(messages)' = 1 + Cardinality(Fresh(h, 0)')
    BY <1>6, <1>7, <1>9
  <2>2. ASSUME NEW c \in Clients'
        PROVE  Cardinality(Mine(c)') = FirstMessageOf(c) + Cardinality(FreshOf(h, 0, c)')
    <3>1. CASE c = 0
      BY <1>6, <1>8, <1>9, <3>1 DEF FirstMessageOf
    <3>2. CASE c # 0
      BY <1>6, <1>8, <1>9, <3>2 DEF FirstMessageOf
    <3> QED
      BY <3>1, <3>2
  <2> QED
    BY <2>1, <2>2 DEF FilledAlong, FirstMessageOf
<1>11. FilledAlong(h, i)'
  BY <1>1, <1>10 DEF FilledAlong, Fresh, FreshOf
<1>12. Filling(h)'
  BY <1>1, <1>4, <1>5, <1>11 DEF Filling
<1> QED
  BY <1>1, <1>12 DEF TwoLoops, PushersMatch

\* The second loop follows the path of the first, and fills in a message where the
\* first counted one.
LEMMA TwoLoopsFillCell == ASSUME IInv, TwoLoops, Within, FillCell PROVE TwoLoops'
<1>1. /\ phase = "fill" /\ phase' = "fill" /\ NextCell
      /\ UNCHANGED confVars /\ UNCHANGED countVars
      /\ i' = i + 1 /\ i < global_vect_size
  BY DEF FillCell, NextCell
<1>2. PICK h : Filling(h)
  BY <1>1 DEF TwoLoops
<1>3. i \in Nat /\ global_vect_size \in Nat /\ i \in 0 .. global_vect_size - 1
  BY <1>1, FieldSize DEF Within
<1>4. /\ Path(h, global_vect_size) /\ CountedAlong(h, global_vect_size)
      /\ Position = h[i] /\ FilledAlong(h, i)
  BY <1>2 DEF Filling
<1>5. Path(h, global_vect_size)' /\ CountedAlong(h, global_vect_size)'
  BY <1>1, <1>4, PathStays DEF CountedAlong, countVars, FirstMessageOf
<1>6. /\ Position' = h[i + 1]
      /\ NewMessage <=> LeavesClient(h[i]) \/ LeavesServer(h[i])
  BY <1>1, <1>3, <1>4, LoopFollows DEF Path
<1>7. client_rank' = h[i + 1].client
  BY <1>6 DEF Position
<1>8. /\ Clients' = Clients
      /\ Fresh(h, i)' = Fresh(h, i + 1)
      /\ \A c : FreshOf(h, i, c)' = FreshOf(h, i + 1, c)
  BY <1>1, PathGoesOn, PathStays
<1>9. FilledAlong(h, i)'
  <2>1. CASE ~NewMessage
    <3>1. messages' = messages
      BY <2>1 DEF FillCell
    <3>2. Fresh(h, i + 1) = Fresh(h, i) /\ \A c : FreshOf(h, i + 1, c) = FreshOf(h, i, c)
      BY <1>3, <1>6, <2>1, OneMoreFresh
    <3>3. \A c : Mine(c)' = Mine(c)
      BY <3>1 DEF Mine
    <3> QED
      BY <1>4, <1>8, <3>1, <3>2, <3>3 DEF FilledAlong, FirstMessageOf
  <2>2. CASE NewMessage
    <3> DEFINE e == [push |-> client_rank', pull |-> server_rank']
               T == [push : Clients, pull : Servers]
               n == Len(messages)
    <3>1. messages' = Append(messages, e)
      BY <2>2 DEF FillCell
    <3>2. messages \in Seq(T) /\ e \in T /\ e.push = client_rank'
      BY <1>1, WhereNextCell DEF Within, IInv
    <3> HIDE DEF e, T
    <3>3. /\ Len(messages') = n + 1 /\ DOMAIN messages' = 1 .. n + 1
          /\ \A k \in 1 .. n : messages'[k] = messages[k]
          /\ messages'[n + 1] = e
          /\ DOMAIN messages = 1 .. n /\ n \in Nat
      BY <3>1, <3>2, AppendPlaces
    <3> HIDE DEF n
    <3>4. /\ Cardinality(Fresh(h, i)) \in Nat
          /\ Cardinality(Fresh(h, i + 1)) = Cardinality(Fresh(h, i)) + 1
      BY <1>3, <1>6, <2>2, OneMoreFresh
    <3>5. Len(messages') = 1 + Cardinality(Fresh(h, i + 1))
      BY <1>4, <3>3, <3>4 DEF FilledAlong, n
    <3>6. ASSUME NEW c \in Clients
          PROVE  Cardinality(Mine(c)') = FirstMessageOf(c) + Cardinality(FreshOf(h, i + 1, c))
      <4>1. /\ Cardinality(FreshOf(h, i, c)) \in Nat
            /\ Cardinality(FreshOf(h, i + 1, c)) = Cardinality(FreshOf(h, i, c))
                   + (IF h[i + 1].client = c THEN 1 ELSE 0)
        BY <1>3, <1>6, <2>2, OneMoreFresh
      <4>2. IsFiniteSet(Mine(c)) /\ n + 1 \notin Mine(c)
        <5>1. IsFiniteSet(1 .. n)
          <6>1. 1 \in Int /\ n \in Int
            BY <3>3
          <6> QED
            BY <6>1, FS_Interval
        <5>2. Mine(c) \subseteq 1 .. n
          BY <3>3 DEF Mine
        <5>3. n + 1 \notin 1 .. n
          BY <3>3
        <5> QED
          BY <5>1, <5>2, <5>3, FS_Subset
      <4>3. Mine(c)' = {k \in 1 .. n + 1 : messages'[k].push = c}
        BY <3>3 DEF Mine
      <4>4. Mine(c) = {k \in 1 .. n : messages'[k].push = c}
        BY <3>3 DEF Mine
      <4>5. 1 .. n + 1 = (1 .. n) \cup {n + 1}
        BY <3>3
      <4>6. Mine(c)' = IF client_rank' = c THEN Mine(c) \cup {n + 1} ELSE Mine(c)
        BY <3>2, <3>3, <4>3, <4>4, <4>5
      <4>7. Cardinality(Mine(c) \cup {n + 1}) = Cardinality(Mine(c)) + 1
        BY <4>2, FS_AddElement
      <4>8. Cardinality(Mine(c)) = FirstMessageOf(c) + Cardinality(FreshOf(h, i, c))
        BY <1>4 DEF FilledAlong
      <4> QED
        BY <1>7, <4>1, <4>6, <4>7, <4>8 DEF FirstMessageOf
    <3> QED
      BY <1>8, <3>5, <3>6 DEF FilledAlong, FirstMessageOf
  <2> QED
    BY <2>1, <2>2
<1>10. Filling(h)'
  BY <1>1, <1>5, <1>6, <1>9 DEF Filling
<1> QED
  BY <1>1, <1>10 DEF TwoLoops, PushersMatch

\* At the end of the second loop what was counted is filled in.
LEMMA TwoLoopsConnect == ASSUME TwoLoops, Connect PROVE TwoLoops'
<1>1. /\ phase = "fill" /\ phase' = "send" /\ i = global_vect_size
      /\ UNCHANGED <<confVars, countVars, messages>>
  BY DEF Connect, tableVars
<1>2. PICK h : Filling(h)
  BY <1>1 DEF TwoLoops
<1>3. CountedAlong(h, i) /\ FilledAlong(h, i)
  BY <1>1, <1>2 DEF Filling
<1>4. /\ Len(messages) = total_nb_messages
      /\ \A c \in Clients : Cardinality(Mine(c)) = local_nb_messages[c]
  BY <1>3 DEF CountedAlong, FilledAlong
<1>5. Clients' = Clients
  BY <1>1 DEF confVars, Clients
<1> QED
  BY <1>1, <1>4, <1>5 DEF TwoLoops, PushersMatch, Mine, countVars

LEMMA TwoLoopsStay ==
    ASSUME TwoLoops, UNCHANGED <<confVars, phase, loopVars, tableVars>> PROVE TwoLoops'
<1>1. UNCHANGED countVars /\ UNCHANGED messages /\ UNCHANGED confVars
      /\ UNCHANGED loopVars /\ phase' = phase
  BY DEF tableVars
<1>2. /\ Clients' = Clients /\ i' = i /\ global_vect_size' = global_vect_size
      /\ Position' = Position
  BY <1>1 DEF confVars, loopVars, Clients, global_vect_size, Position
<1>3. \A c : Mine(c)' = Mine(c)
  BY <1>1 DEF Mine
<1>4. \A h, n : CountedAlong(h, n) => CountedAlong(h, n)'
  BY <1>1, <1>2, PathStays DEF CountedAlong, countVars, FirstMessageOf
<1>5. \A h, n : FilledAlong(h, n) => FilledAlong(h, n)'
  BY <1>1, <1>2, <1>3, PathStays DEF FilledAlong, FirstMessageOf
<1>6. ASSUME NEW h, Counting(h) PROVE Counting(h)'
  BY <1>1, <1>2, <1>4, <1>6, PathStays DEF Counting, CountedAlong, Path, Fresh, FreshOf
<1>7. ASSUME NEW h, Filling(h) PROVE Filling(h)'
  BY <1>1, <1>2, <1>4, <1>5, <1>7, PathStays DEF Filling
<1>8. PushersMatch => PushersMatch'
  BY <1>1, <1>2 DEF PushersMatch, countVars
<1> QED
  BY <1>1, <1>6, <1>7, <1>8 DEF TwoLoops

LEMMA TwoLoopsStep == ASSUME IInv, Within, TwoLoops, [Next]_vars PROVE TwoLoops'
<1>1. CASE CountCell
  BY <1>1, TwoLoopsCountCell
<1>2. CASE Rewind
  BY <1>2, TwoLoopsRewind
<1>3. CASE FillCell
  BY <1>3, TwoLoopsFillCell
<1>4. CASE Connect
  BY <1>4, TwoLoopsConnect
<1>5. CASE (\E c \in Clients : Send(c)) \/ UNCHANGED vars
  <2>1. UNCHANGED <<confVars, phase, loopVars, tableVars>>
    BY <1>5 DEF Send, vars
  <2> QED
    BY <2>1, TwoLoopsStay
<1> QED
  BY <1>1, <1>2, <1>3, <1>4, <1>5 DEF Next

\* The second loop fills in exactly the messages the first one counted, in all and
\* for each rank, whatever the sizes and the numbers of ranks, parts without cells
\* included: the lists are allocated with what the first loop counts, and the sockets
\* of a rank are opened from it (melissa_api.c 344-435 and 905-922).
THEOREM OneSocketPerMessage == Spec => []PushersMatch
<1>1. Init => TwoLoops
  BY TwoLoopsInit
<1>2. IInv /\ Within /\ TwoLoops /\ [Next]_vars => TwoLoops'
  BY TwoLoopsStep
<1>3. TwoLoops => PushersMatch
  BY DEF TwoLoops
<1> QED
  BY <1>1, <1>2, <1>3, TypesInductive, PTL DEF Spec

-----------------------------------------------------------------------------
(* The counts, when no rank of the simulation is without cells.              *)

\* how many of the first x cells are both from a0 to a1 and from b0 to b1
Common(a0, a1, b0, b1, x) ==
    LET lo == IF a0 < b0 THEN b0 ELSE a0
        hi == IF a1 < b1 THEN a1 ELSE b1
        up == IF x < hi THEN x ELSE hi
    IN IF lo < up THEN up - lo ELSE 0

Overlap(c, s, x) ==
    Common(gatherv_displs(c), gatherv_displs(c + 1), First(s), First(s + 1), x)

HasMessage(c, s) == \E k \in DOMAIN messages : messages[k].push = c /\ messages[k].pull = s

\* every cell is counted for the ranks it belongs to, and has a message of theirs
Counts ==
    /\ 0 \notin PartSizes
    /\ learning = 0 =>
          /\ gatherv_displs(client_rank) + client_count = i
          /\ client_count <= local_vect_sizes[client_rank]
          /\ \A c \in Clients, s \in Servers :
                send_counts[c][s] = Overlap(c, s, IF phase = "count" THEN i ELSE global_vect_size)
          /\ phase # "count" =>
                /\ \A c \in Clients, s \in Servers : Overlap(c, s, i) > 0 => HasMessage(c, s)
                /\ HasMessage(client_rank, server_rank)
          /\ phase = "send" => i = global_vect_size
    /\ learning > 0 =>
          /\ phase = "send"
          /\ \A c \in Clients, s \in Servers :
                send_counts[c][s] = IF c = 0 THEN server_vect_size(s) ELSE 0
          /\ \A c \in Clients, s \in Servers : HasMessage(c, s) <=> c = 0

LEMMA CountsInit == ASSUME 0 \notin PartSizes, Init PROVE Counts
<1>1. Ranks /\ Within
  BY InitRanks, WithinInit
<1>2. PICK n \in Nat \ {0} : Layout(n)
  BY <1>1, FieldLayout
<1>3. 0 \in Clients /\ 0 \in Servers
  BY <1>2 DEF Layout, Servers
<1>4. CASE learning > 0
  <2>1. /\ send_counts = [c \in Clients |-> [s \in Servers |->
                             IF c = 0 THEN server_vect_size(s) ELSE 0]]
        /\ messages = [k \in 1 .. nb_proc_server |-> [push |-> 0, pull |-> k - 1]]
        /\ phase = "send"
    BY <1>4 DEF Init, OneToM
  <2>2. \A c \in Clients, s \in Servers :
            send_counts[c][s] = IF c = 0 THEN server_vect_size(s) ELSE 0
    BY <2>1
  <2>3. ASSUME NEW c \in Clients, NEW s \in Servers PROVE HasMessage(c, s) <=> c = 0
    <3>1. \A k \in DOMAIN messages : messages[k].push = 0
      BY <2>1
    <3>2. s + 1 \in DOMAIN messages /\ messages[s + 1].push = 0 /\ messages[s + 1].pull = s
      BY <1>2, <2>1 DEF Servers, Layout
    <3> QED
      BY <3>1, <3>2 DEF HasMessage
  <2> QED
    BY <1>4, <2>1, <2>2, <2>3 DEF Counts
<1>5. CASE ~(learning > 0)
  <2>1. /\ send_counts = [c \in Clients |-> [s \in Servers |-> 0]]
        /\ phase = "count"
        /\ client_rank = 0 /\ client_count = 0 /\ server_rank = 0 /\ i = 0
    BY <1>5 DEF Init, NToM
  <2>3. ASSUME NEW c \in Clients, NEW s \in Servers PROVE send_counts[c][s] = Overlap(c, s, 0)
    <3>1. /\ c \in 0 .. n /\ c + 1 \in 0 .. n
          /\ s \in 0 .. nb_proc_server /\ s + 1 \in 0 .. nb_proc_server
      BY <1>2 DEF Layout, Servers
    <3>2. /\ \A x \in 0 .. n : gatherv_displs(x) \in Nat
          /\ \A x \in 0 .. nb_proc_server : First(x) \in Nat
      <4>1. /\ [x \in 0 .. n |-> gatherv_displs(x)] \in [0 .. n -> Nat]
            /\ [x \in 0 .. nb_proc_server |-> First(x)] \in [0 .. nb_proc_server -> Nat]
        BY <1>2 DEF Layout, Edges
      <4> QED
        BY <4>1
    <3>3. /\ gatherv_displs(c) \in Nat /\ gatherv_displs(c + 1) \in Nat
          /\ First(s) \in Nat /\ First(s + 1) \in Nat
      BY <3>1, <3>2
    <3>4. Overlap(c, s, 0) = 0
      BY <3>3 DEF Overlap, Common
    <3> QED
      BY <2>1, <3>4
  <2>4. local_vect_sizes[0] \in Nat /\ gatherv_displs(0) = 0
    BY <1>2, <1>3 DEF Layout
  <2> QED
    BY <1>5, <2>1, <2>3, <2>4 DEF Counts
<1> QED
  BY <1>4, <1>5

\* The part a cell lies in is the only one.
LEMMA OnePart ==
    ASSUME NEW n \in Nat, NEW b \in Edges(n), NEW k \in 0 .. n - 1, NEW x \in Nat,
           b[k] <= x, x < b[k + 1], NEW j \in 0 .. n - 1
    PROVE  b[j] <= x /\ x < b[j + 1] <=> j = k
<1>1. \A m \in 0 .. n : b[m] \in Nat
  BY DEF Edges
<1>2. k \in 0 .. n /\ k + 1 \in 0 .. n /\ j \in 0 .. n /\ j + 1 \in 0 .. n
  OBVIOUS
<1>3. b[j] \in Nat /\ b[j + 1] \in Nat /\ b[k] \in Nat /\ b[k + 1] \in Nat
  BY <1>1, <1>2
<1>4. CASE j < k
  <2>1. b[j + 1] <= b[k]
    BY <1>2, <1>4, EdgesGrow
  <2> QED
    BY <1>3, <1>4, <2>1
<1>5. CASE k < j
  <2>1. b[k + 1] <= b[j]
    BY <1>2, <1>5, EdgesGrow
  <2> QED
    BY <1>3, <1>5, <2>1
<1>6. CASE j = k
  BY <1>6
<1> QED
  BY <1>4, <1>5, <1>6

LEMMA OverlapInt ==
    ASSUME Ranks, Within, NEW c \in Clients, NEW s \in Servers
    PROVE  Overlap(c, s, i) \in Int
<1>1. PICK n \in Nat \ {0} : Layout(n)
  BY FieldLayout
<1>2. /\ c \in 0 .. n /\ c + 1 \in 0 .. n
      /\ s \in 0 .. nb_proc_server /\ s + 1 \in 0 .. nb_proc_server
  BY <1>1 DEF Layout, Servers
<1>3. /\ [x \in 0 .. n |-> gatherv_displs(x)] \in [0 .. n -> Nat]
      /\ [x \in 0 .. nb_proc_server |-> First(x)] \in [0 .. nb_proc_server -> Nat]
      /\ global_vect_size \in Nat
  BY <1>1 DEF Layout, Edges
<1>4. /\ \A x \in 0 .. n : gatherv_displs(x) \in Nat
      /\ \A x \in 0 .. nb_proc_server : First(x) \in Nat
  BY <1>3
<1>5. /\ gatherv_displs(c) \in Nat /\ gatherv_displs(c + 1) \in Nat
      /\ First(s) \in Nat /\ First(s + 1) \in Nat
  BY <1>2, <1>4
<1>6. i \in Nat
  BY <1>3 DEF Within
<1> QED
  BY <1>5, <1>6 DEF Overlap, Common

LEMMA OneMoreOverlap ==
    ASSUME NEW c, NEW s, NEW x \in Nat,
           gatherv_displs(c) \in Nat, gatherv_displs(c + 1) \in Nat,
           First(s) \in Nat, First(s + 1) \in Nat
    PROVE  Overlap(c, s, x + 1) = Overlap(c, s, x)
               + (IF (gatherv_displs(c) <= x /\ x < gatherv_displs(c + 1))
                     /\ (First(s) <= x /\ x < First(s + 1)) THEN 1 ELSE 0)
<1> DEFINE a0 == gatherv_displs(c)
           a1 == gatherv_displs(c + 1)
           b0 == First(s)
           b1 == First(s + 1)
<1>1. a0 \in Nat /\ a1 \in Nat /\ b0 \in Nat /\ b1 \in Nat
  OBVIOUS
<1>2. \A y : Overlap(c, s, y) = Common(a0, a1, b0, b1, y)
  BY DEF Overlap
<1> HIDE DEF a0, a1, b0, b1
<1>3. Common(a0, a1, b0, b1, x + 1) = Common(a0, a1, b0, b1, x)
          + (IF (a0 <= x /\ x < a1) /\ (b0 <= x /\ x < b1) THEN 1 ELSE 0)
  BY <1>1 DEF Common
<1> QED
  BY <1>2, <1>3 DEF a0, a1, b0, b1

\* Where the next cell lies, when every part has cells: it is one more for its
\* two ranks and for no others.
LEMMA CellPlace ==
    ASSUME Ranks, Within, Counts, learning = 0, NextCell
    PROVE  /\ gatherv_displs(client_rank') + client_count' = i + 1
           /\ client_count' <= local_vect_sizes[client_rank']
           /\ \A c \in Clients, s \in Servers :
                 Overlap(c, s, i + 1) = Overlap(c, s, i)
                     + (IF c = client_rank' /\ s = server_rank' THEN 1 ELSE 0)
<1> DEFINE D(c) == gatherv_displs(c)
           p == nb_proc_server
<1>0. PICK n \in Nat \ {0} : Layout(n)
  BY FieldLayout
<1>2. /\ client_rank' \in Clients /\ client_count' \in Nat \ {0}
      /\ server_rank' \in Servers /\ server_count' \in Nat \ {0}
      /\ server_count' <= server_vect_size(server_rank')
      /\ First(server_rank') + server_count' = i + 1
      /\ i \in Nat
  BY WhereNextCell
<1>3. /\ client_rank \in Clients /\ client_count \in Nat
      /\ D(client_rank) + client_count = i
      /\ client_count <= local_vect_sizes[client_rank]
      /\ \A c \in Clients : local_vect_sizes[c] \in Nat \ {0}
  BY DEF Within, Counts, Ranks
<1>4. /\ \A x \in 0 .. n : D(x) \in Nat
      /\ \A x \in 0 .. p : First(x) \in Nat
  <2>1. /\ [x \in 0 .. n |-> gatherv_displs(x)] \in [0 .. n -> Nat]
        /\ [x \in 0 .. p |-> First(x)] \in [0 .. p -> Nat]
    BY <1>0 DEF Layout, Edges
  <2> QED
    BY <2>1
<1>5. /\ p \in Nat /\ \A c \in Clients : c \in 0 .. n - 1 /\ c \in 0 .. n /\ c + 1 \in 0 .. n
      /\ \A s \in Servers : s \in 0 .. p - 1 /\ s \in 0 .. p /\ s + 1 \in 0 .. p
  BY <1>0 DEF Layout, Servers
<1>6. D(client_rank') + client_count' = i + 1 /\ client_count' <= local_vect_sizes[client_rank']
  <2>1. D(client_rank + 1) = D(client_rank) + local_vect_sizes[client_rank]
    BY <1>0, <1>3 DEF Layout
  <2>2. D(client_rank) \in Nat
    BY <1>3, <1>4, <1>5
  <2> HIDE DEF D
  <2>3. CASE NextClient
    <3>1. client_rank' = client_rank + 1 /\ client_count' = 1
      BY <2>3 DEF NextCell
    <3>2. client_count = local_vect_sizes[client_rank]
      BY <1>3, <2>3 DEF NextClient
    <3>3. D(client_rank + 1) = i
      BY <1>2, <1>3, <2>1, <2>2, <3>2
    <3>4. local_vect_sizes[client_rank'] \in Nat \ {0}
      BY <1>2, <1>3
    <3> QED
      BY <1>2, <3>1, <3>3, <3>4
  <2>4. CASE ~NextClient
    <3>1. client_rank' = client_rank /\ client_count' = client_count + 1
      BY <2>4 DEF NextCell
    <3>2. client_count + 1 <= local_vect_sizes[client_rank]
      BY <1>3, <2>4 DEF NextClient
    <3> QED
      BY <1>2, <1>3, <2>2, <3>1, <3>2
  <2> QED
    BY <2>3, <2>4
<1>7. /\ D(client_rank') <= i /\ i < D(client_rank' + 1)
      /\ First(server_rank') <= i /\ i < First(server_rank' + 1)
  <2>1. /\ D(client_rank' + 1) = D(client_rank') + local_vect_sizes[client_rank']
        /\ First(server_rank' + 1) = First(server_rank') + server_vect_size(server_rank')
        /\ local_vect_sizes[client_rank'] \in Nat /\ server_vect_size(server_rank') \in Nat
    BY <1>0, <1>2, <1>5 DEF Layout
  <2>2. D(client_rank') \in Nat /\ First(server_rank') \in Nat
    BY <1>2, <1>4, <1>5
  <2> HIDE DEF D
  <2> QED
    BY <1>2, <1>6, <2>1, <2>2
<1>8. ASSUME NEW c \in Clients
      PROVE  D(c) <= i /\ i < D(c + 1) <=> c = client_rank'
  <2> DEFINE b == [x \in 0 .. n |-> gatherv_displs(x)]
  <2>1. b \in Edges(n) /\ \A x \in 0 .. n : b[x] = D(x)
    BY <1>0 DEF Layout
  <2> HIDE DEF b, D
  <2>2. b[client_rank'] <= i /\ i < b[client_rank' + 1]
    BY <1>2, <1>5, <1>7, <2>1
  <2>3. b[c] <= i /\ i < b[c + 1] <=> c = client_rank'
    BY <1>2, <1>5, <2>1, <2>2, OnePart
  <2> QED
    BY <1>5, <2>1, <2>3
<1>9. ASSUME NEW s \in Servers
      PROVE  First(s) <= i /\ i < First(s + 1) <=> s = server_rank'
  <2> DEFINE b == [x \in 0 .. p |-> First(x)]
  <2>1. b \in Edges(p) /\ \A x \in 0 .. p : b[x] = First(x)
    BY <1>0 DEF Layout
  <2> HIDE DEF b
  <2>2. b[server_rank'] <= i /\ i < b[server_rank' + 1]
    BY <1>2, <1>5, <1>7, <2>1
  <2>3. b[s] <= i /\ i < b[s + 1] <=> s = server_rank'
    BY <1>2, <1>5, <2>1, <2>2, OnePart
  <2> QED
    BY <1>5, <2>1, <2>3
<1>10. ASSUME NEW c \in Clients, NEW s \in Servers
       PROVE  Overlap(c, s, i + 1) = Overlap(c, s, i)
                  + (IF c = client_rank' /\ s = server_rank' THEN 1 ELSE 0)
  <2>1. D(c) \in Nat /\ D(c + 1) \in Nat /\ First(s) \in Nat /\ First(s + 1) \in Nat
    BY <1>4, <1>5
  <2>2. Overlap(c, s, i + 1) = Overlap(c, s, i)
            + (IF (D(c) <= i /\ i < D(c + 1)) /\ (First(s) <= i /\ i < First(s + 1)) THEN 1 ELSE 0)
    BY <1>2, <2>1, OneMoreOverlap
  <2> QED
    BY <1>8, <1>9, <2>2
<1> QED
  BY <1>6, <1>10

\* The sizes are the same after a step of the loops.
LEMMA SizesStay ==
    ASSUME UNCHANGED confVars
    PROVE  /\ learning' = learning
           /\ Clients' = Clients /\ Servers' = Servers
           /\ local_vect_sizes' = local_vect_sizes /\ global_vect_size' = global_vect_size
           /\ \A c : gatherv_displs(c)' = gatherv_displs(c)
           /\ \A c, s, x : Overlap(c, s, x)' = Overlap(c, s, x)
BY DEF confVars, Clients, Servers, gatherv_displs, Overlap, First, Sizes, server_vect_size,
       global_vect_size

LEMMA CountsCountCell == ASSUME Ranks, Within, Counts, CountCell PROVE Counts'
<1>1. /\ learning = 0 /\ phase = "count" /\ phase' = phase /\ i' = i + 1
      /\ NextCell /\ UNCHANGED confVars
      /\ send_counts' = [send_counts EXCEPT ![client_rank'][server_rank'] = @ + 1]
  BY RedistributionAssumption DEF CountCell, NextCell, Counts, Within
<1>2. /\ client_rank' \in Clients /\ server_rank' \in Servers
  BY <1>1, WhereNextCell
<1>3. /\ gatherv_displs(client_rank') + client_count' = i + 1
      /\ client_count' <= local_vect_sizes[client_rank']
      /\ \A c \in Clients, s \in Servers :
            Overlap(c, s, i + 1) = Overlap(c, s, i)
                + (IF c = client_rank' /\ s = server_rank' THEN 1 ELSE 0)
  BY <1>1, CellPlace
<1>4. \A c \in Clients, s \in Servers : send_counts'[c][s] =
           send_counts[c][s] + (IF c = client_rank' /\ s = server_rank' THEN 1 ELSE 0)
  <2>1. send_counts \in [Clients -> [Servers -> Nat]]
    BY DEF Within
  <2> QED
    BY <1>1, <1>2, <2>1, OneMoreCell
<1>5. \A c \in Clients, s \in Servers : send_counts[c][s] = Overlap(c, s, i)
  BY <1>1 DEF Counts
<1>6. \A c \in Clients, s \in Servers : send_counts'[c][s] = Overlap(c, s, i + 1)
  BY <1>3, <1>4, <1>5
<1> QED
  BY <1>1, <1>3, <1>6, SizesStay DEF Counts

LEMMA CountsRewind == ASSUME Ranks, Within, Counts, Rewind PROVE Counts'
<1>1. /\ learning = 0 /\ phase = "count" /\ phase' = "fill" /\ i = global_vect_size /\ i' = 0
      /\ client_rank' = 0 /\ client_count' = 0 /\ server_rank' = 0
      /\ UNCHANGED confVars /\ send_counts' = send_counts
      /\ messages' = <<[push |-> 0, pull |-> 0]>>
  BY RedistributionAssumption DEF Rewind, Counts, Within, countVars
<1>2. PICK n \in Nat \ {0} : Layout(n)
  BY FieldLayout
<1>3. 0 \in Clients /\ gatherv_displs(0) = 0 /\ local_vect_sizes[0] \in Nat
  BY <1>2 DEF Layout, Servers
<1>4. HasMessage(client_rank, server_rank)'
  <2>1. 1 \in DOMAIN messages' /\ messages'[1] = [push |-> 0, pull |-> 0]
    BY <1>1
  <2> QED
    BY <1>1, <2>1 DEF HasMessage
<1>5. ASSUME NEW c \in Clients, NEW s \in Servers PROVE ~(Overlap(c, s, 0) > 0)
  <2>1. /\ c \in 0 .. n /\ c + 1 \in 0 .. n
        /\ s \in 0 .. nb_proc_server /\ s + 1 \in 0 .. nb_proc_server
    BY <1>2 DEF Layout, Servers
  <2>2. /\ \A x \in 0 .. n : gatherv_displs(x) \in Nat
        /\ \A x \in 0 .. nb_proc_server : First(x) \in Nat
    <3>1. /\ [x \in 0 .. n |-> gatherv_displs(x)] \in [0 .. n -> Nat]
          /\ [x \in 0 .. nb_proc_server |-> First(x)] \in [0 .. nb_proc_server -> Nat]
      BY <1>2 DEF Layout, Edges
    <3> QED
      BY <3>1
  <2>3. /\ gatherv_displs(c) \in Nat /\ gatherv_displs(c + 1) \in Nat
        /\ First(s) \in Nat /\ First(s + 1) \in Nat
    BY <2>1, <2>2
  <2> QED
    BY <2>3 DEF Overlap, Common
<1>6. /\ 0 \notin PartSizes
      /\ \A c \in Clients, s \in Servers : send_counts[c][s] = Overlap(c, s, global_vect_size)
  BY <1>1 DEF Counts
<1> QED
  BY <1>1, <1>3, <1>4, <1>5, <1>6, SizesStay DEF Counts

LEMMA CountsFillCell == ASSUME Ranks, Within, Counts, FillCell PROVE Counts'
<1>1. /\ learning = 0 /\ phase = "fill" /\ phase' = phase /\ i' = i + 1
      /\ NextCell /\ UNCHANGED confVars /\ send_counts' = send_counts
  BY RedistributionAssumption DEF FillCell, NextCell, Counts, Within, countVars
<1>2. client_rank' \in Clients /\ server_rank' \in Servers
  BY <1>1, WhereNextCell
<1>3. /\ gatherv_displs(client_rank') + client_count' = i + 1
      /\ client_count' <= local_vect_sizes[client_rank']
      /\ \A c \in Clients, s \in Servers :
            Overlap(c, s, i + 1) = Overlap(c, s, i)
                + (IF c = client_rank' /\ s = server_rank' THEN 1 ELSE 0)
  BY <1>1, CellPlace
<1>4. ASSUME NEW c \in Clients, NEW s \in Servers, HasMessage(c, s)
       PROVE  HasMessage(c, s)'
  <2>1. messages \in Seq([push : Clients, pull : Servers])
    BY DEF Within
  <2>2. \A k \in DOMAIN messages : k \in DOMAIN messages' /\ messages'[k] = messages[k]
    <3>1. CASE NewMessage
      <4> DEFINE e == [push |-> client_rank', pull |-> server_rank']
                 T == [push : Clients, pull : Servers]
      <4>1. messages' = Append(messages, e)
        BY <3>1 DEF FillCell
      <4>2. e \in T /\ messages \in Seq(T)
        BY <1>2, <2>1
      <4> HIDE DEF e, T
      <4> QED
        BY <4>1, <4>2
    <3>2. CASE ~NewMessage
      BY <3>2 DEF FillCell
    <3> QED
      BY <3>1, <3>2
  <2> QED
    BY <1>4, <2>2 DEF HasMessage
<1>5. HasMessage(client_rank, server_rank)'
  <2>1. CASE NewMessage
    <3> DEFINE e == [push |-> client_rank', pull |-> server_rank']
               T == [push : Clients, pull : Servers]
    <3>1. messages' = Append(messages, e)
      BY <2>1 DEF FillCell
    <3>2. e \in T /\ messages \in Seq(T)
      BY <1>2 DEF Within
    <3>3. e.push = client_rank' /\ e.pull = server_rank'
      OBVIOUS
    <3> HIDE DEF e, T
    <3>4. Len(messages) + 1 \in DOMAIN messages' /\ messages'[Len(messages) + 1] = e
      BY <3>1, <3>2
    <3> QED
      BY <3>3, <3>4 DEF HasMessage
  <2>2. CASE ~NewMessage
    <3>1. client_rank' = client_rank /\ server_rank' = server_rank /\ messages' = messages
      BY <2>2 DEF FillCell, NextCell, NewMessage
    <3> QED
      BY <1>1, <3>1 DEF Counts, HasMessage
  <2> QED
    BY <2>1, <2>2
<1>6. ASSUME NEW c \in Clients, NEW s \in Servers, Overlap(c, s, i + 1) > 0
      PROVE  HasMessage(c, s)'
  <2>1. CASE c = client_rank' /\ s = server_rank'
    BY <1>5, <2>1 DEF HasMessage
  <2>2. CASE ~(c = client_rank' /\ s = server_rank')
    <3>1. Overlap(c, s, i + 1) = Overlap(c, s, i) + 0
      BY <1>3, <2>2
    <3>2. Overlap(c, s, i) > 0
      BY <1>6, <3>1, OverlapInt
    <3>3. HasMessage(c, s)
      BY <1>1, <3>2 DEF Counts
    <3> QED
      BY <1>4, <3>3
  <2> QED
    BY <2>1, <2>2
<1>7. /\ 0 \notin PartSizes
      /\ \A c \in Clients, s \in Servers : send_counts[c][s] = Overlap(c, s, global_vect_size)
  BY <1>1 DEF Counts
<1> QED
  BY <1>1, <1>3, <1>5, <1>6, <1>7, SizesStay DEF Counts

LEMMA CountsStep == ASSUME Ranks, Within, Counts, [Next]_vars PROVE Counts'
<1>1. CASE CountCell
  BY <1>1, CountsCountCell
<1>4. CASE Rewind
  BY <1>4, CountsRewind
<1>5. CASE FillCell
  BY <1>5, CountsFillCell
<1>2. CASE Connect
  <2>1. /\ UNCHANGED <<confVars, loopVars, tableVars>>
        /\ phase = "fill" /\ i = global_vect_size /\ phase' = "send"
    BY <1>2 DEF Connect
  <2>2. learning = 0
    BY <2>1, RedistributionAssumption DEF Counts, Within
  <2>3. /\ UNCHANGED <<learning, nb_proc_server, local_vect_sizes, client_rank, client_count,
                       server_rank, i, send_counts, messages>>
    BY <2>1 DEF confVars, loopVars, countVars, tableVars
  <2>4. /\ Clients' = Clients /\ Servers' = Servers
        /\ global_vect_size' = global_vect_size
        /\ gatherv_displs(client_rank)' = gatherv_displs(client_rank)
        /\ \A c, s : Overlap(c, s, i)' = Overlap(c, s, i) /\ HasMessage(c, s)' = HasMessage(c, s)
        /\ HasMessage(client_rank, server_rank)' = HasMessage(client_rank, server_rank)
    BY <2>3 DEF Clients, Servers, gatherv_displs, Overlap, First, Sizes, server_vect_size,
                global_vect_size, HasMessage
  <2> QED
    BY <2>1, <2>2, <2>3, <2>4 DEF Counts
<1>3. CASE (\E c \in Clients : Send(c)) \/ UNCHANGED vars
  <2>1. UNCHANGED <<confVars, phase, loopVars, tableVars>>
    BY <1>3 DEF Send, vars
  <2> QED
    BY <2>1 DEF Counts, confVars, loopVars, countVars, tableVars, Clients, Servers, gatherv_displs, Overlap,
                First, Sizes, server_vect_size, global_vect_size, HasMessage
<1> QED
  BY <1>1, <1>2, <1>3, <1>4, <1>5 DEF Next

LEMMA CountsInductive ==
    ASSUME 0 \notin PartSizes PROVE Spec => [](IInv /\ Within /\ Received /\ Counts)
<1>1. Init => Counts
  BY CountsInit
<1>2. IInv /\ Within /\ Counts /\ [Next]_vars => Counts'
  BY CountsStep DEF IInv
<1> QED
  BY <1>1, <1>2, TypesInductive, PTL DEF Spec

-----------------------------------------------------------------------------
(* What a rank of the server gets of the field.                              *)

Field == [x \in Nat |-> x]

\* The cell nearest to x from lo to hi.
Clamp(x, lo, hi) == IF x < lo THEN lo ELSE IF hi < x THEN hi ELSE x

\* where the part of the field that rank c sends to server rank s begins
Edge(c, s) ==
    IF learning = 0 THEN Clamp(gatherv_displs(c), First(s), First(s + 1))
    ELSE IF c = 0 THEN First(s) ELSE First(s + 1)

LEMMA Places ==
    ASSUME NEW n \in Nat \ {0}, Layout(n)
    PROVE  /\ \A x \in 0 .. n : gatherv_displs(x) \in Nat /\ gatherv_displs(x) <= global_vect_size
           /\ \A x \in 0 .. nb_proc_server : First(x) \in Nat /\ First(x) <= global_vect_size
           /\ \A c \in Clients : /\ c \in 0 .. n - 1 /\ c \in 0 .. n /\ c + 1 \in 0 .. n
                                 /\ gatherv_displs(c) <= gatherv_displs(c + 1)
           /\ \A s \in Servers : /\ s \in 0 .. nb_proc_server - 1 /\ s \in 0 .. nb_proc_server
                                 /\ s + 1 \in 0 .. nb_proc_server
                                 /\ First(s) <= First(s + 1)
<1> DEFINE p == nb_proc_server
           N == global_vect_size
           D(x) == gatherv_displs(x)
           d == [x \in 0 .. n |-> D(x)]
           b == [x \in 0 .. p |-> First(x)]
<1>1. /\ d \in Edges(n) /\ b \in Edges(p) /\ p \in Nat \ {0} /\ N \in Nat
      /\ Clients = 0 .. n - 1 /\ Servers = 0 .. p - 1
      /\ D(n) = N /\ First(p) = N
  BY DEF Layout, Servers
<1>2. /\ \A x \in 0 .. n : d[x] = D(x)
      /\ \A x \in 0 .. p : b[x] = First(x)
  OBVIOUS
<1> HIDE DEF d, b, p, N, D
<1>3. ASSUME NEW x \in 0 .. n PROVE D(x) \in Nat /\ D(x) <= N
  <2>1. n \in 0 .. n /\ x <= n
    OBVIOUS
  <2>2. d[x] <= d[n] /\ d[x] \in Nat
    BY <1>1, <2>1, EdgesGrow DEF Edges
  <2> QED
    BY <1>1, <1>2, <2>1, <2>2
<1>4. ASSUME NEW x \in 0 .. p PROVE First(x) \in Nat /\ First(x) <= N
  <2>1. p \in 0 .. p /\ x <= p /\ p \in Nat
    BY <1>1
  <2>2. b[x] <= b[p] /\ b[x] \in Nat
    BY <1>1, <2>1, EdgesGrow DEF Edges
  <2> QED
    BY <1>1, <1>2, <2>1, <2>2
<1>5. ASSUME NEW c \in Clients
      PROVE  c \in 0 .. n - 1 /\ c \in 0 .. n /\ c + 1 \in 0 .. n /\ D(c) <= D(c + 1)
  <2>1. c \in 0 .. n - 1 /\ c \in 0 .. n /\ c + 1 \in 0 .. n
    BY <1>1
  <2> QED
    BY <1>1, <1>2, <2>1 DEF Edges
<1>6. ASSUME NEW s \in Servers
      PROVE  s \in 0 .. p - 1 /\ s \in 0 .. p /\ s + 1 \in 0 .. p /\ First(s) <= First(s + 1)
  <2>1. s \in 0 .. p - 1 /\ s \in 0 .. p /\ s + 1 \in 0 .. p
    BY <1>1
  <2> QED
    BY <1>1, <1>2, <2>1 DEF Edges
<1> QED
  BY <1>3, <1>4, <1>5, <1>6 DEF D, N, p

LEMMA CommonIsBetween ==
    ASSUME NEW a0 \in Nat, NEW a1 \in Nat, NEW b0 \in Nat, NEW b1 \in Nat, NEW x \in Nat,
           a0 <= a1, b0 <= b1, a1 <= x, b1 <= x
    PROVE  /\ Common(a0, a1, b0, b1, x) = Clamp(a1, b0, b1) - Clamp(a0, b0, b1)
           /\ Common(a0, a1, b0, b1, x) = Clamp(b1, a0, a1) - Clamp(b0, a0, a1)
           /\ 0 < Common(a0, a1, b0, b1, x) => Clamp(a0, b0, b1) = Clamp(b0, a0, a1)
           /\ Clamp(a0, b0, b1) <= Clamp(a1, b0, b1)
  BY DEF Common, Clamp

LEMMA ClampNat ==
    ASSUME NEW x \in Nat, NEW lo \in Nat, NEW hi \in Nat, lo <= hi
    PROVE  Clamp(x, lo, hi) \in lo .. hi /\ Clamp(x, lo, hi) \in Nat
  BY DEF Clamp

\* What a rank sends to a server rank is a part of the field, between two edges.
LEMMA ChunkIsSlice ==
    ASSUME Ranks, Within, Counts, phase = "send", NEW c \in Clients, NEW s \in Servers
    PROVE  /\ Chunk(c, s) = Slice(Field, Edge(c, s), Edge(c + 1, s))
           /\ Edge(c, s) \in Nat /\ Edge(c + 1, s) \in Nat /\ Edge(c, s) <= Edge(c + 1, s)
           /\ send_counts[c][s] = Edge(c + 1, s) - Edge(c, s)
<1>0. PICK n \in Nat \ {0} : Layout(n)
  BY FieldLayout
<1> DEFINE p == nb_proc_server
           N == global_vect_size
           D(x) == gatherv_displs(x)
           f == send_counts[c]
           m == send_counts[c][s]
           lo == Edge(c, s)
           hi == Edge(c + 1, s)
<1>1. /\ \A x \in 0 .. n : D(x) \in Nat /\ D(x) <= N
      /\ \A x \in 0 .. p : First(x) \in Nat /\ First(x) <= N
      /\ c \in 0 .. n - 1 /\ c \in 0 .. n /\ c + 1 \in 0 .. n /\ D(c) <= D(c + 1)
      /\ \A r \in Servers : /\ r \in 0 .. p - 1 /\ r \in 0 .. p /\ r + 1 \in 0 .. p
                            /\ First(r) <= First(r + 1)
  BY <1>0, Places
<1>2. /\ p \in Nat \ {0} /\ Servers = 0 .. p - 1 /\ N \in Nat /\ First(0) = 0
      /\ local_vect_sizes[c] \in Nat /\ D(c + 1) = D(c) + local_vect_sizes[c]
      /\ \A r \in Servers : server_vect_size(r) \in Nat /\ First(r + 1) = First(r) + server_vect_size(r)
  BY <1>0 DEF Layout, Servers
<1>3. /\ D(c) \in Nat /\ D(c + 1) \in Nat /\ First(s) \in Nat /\ First(s + 1) \in Nat
      /\ D(c + 1) <= N /\ First(s + 1) <= N /\ D(c) <= D(c + 1) /\ First(s) <= First(s + 1)
  BY <1>1
<1>4. Chunk(c, s) = [k \in 1 .. m |->
          IF Before(f, s) + k \in DOMAIN Vector(c) THEN Vector(c)[Before(f, s) + k] ELSE NoCell]
  BY DEF Chunk, sdispls, Before
<1>5. CASE learning = 0
  <2> DEFINE h == [r \in 0 .. p |-> Clamp(First(r), D(c), D(c + 1))]
  <2>1. h \in [0 .. p -> Nat]
    BY <1>1, <1>3, ClampNat
  <2>2. ASSUME NEW r \in 0 .. p - 1
        PROVE  /\ f[r] \in Nat /\ h[r + 1] = h[r] + f[r]
               /\ f[r] = Clamp(D(c + 1), First(r), First(r + 1)) - Clamp(D(c), First(r), First(r + 1))
               /\ 0 < f[r] => Clamp(D(c), First(r), First(r + 1)) = h[r]
    <3>1. /\ r \in Servers /\ r \in 0 .. p /\ r + 1 \in 0 .. p
          /\ First(r) \in Nat /\ First(r + 1) \in Nat /\ First(r + 1) <= N /\ First(r) <= First(r + 1)
      BY <1>1, <1>2
    <3>2. f[r] = Overlap(c, r, N) /\ f[r] \in Nat
      BY <1>5, <3>1 DEF Counts, Within
    <3>3. f[r] = Common(D(c), D(c + 1), First(r), First(r + 1), N)
      BY <3>2 DEF Overlap
    <3>4. h[r] = Clamp(First(r), D(c), D(c + 1)) /\ h[r + 1] = Clamp(First(r + 1), D(c), D(c + 1))
      BY <3>1
    <3>5. /\ Clamp(First(r), D(c), D(c + 1)) \in Nat /\ Clamp(First(r + 1), D(c), D(c + 1)) \in Nat
      BY <1>3, <3>1, ClampNat
    <3> DEFINE a0 == D(c)
               a1 == D(c + 1)
               b0 == First(r)
               b1 == First(r + 1)
               u == f[r]
    <3>6. /\ a0 \in Nat /\ a1 \in Nat /\ b0 \in Nat /\ b1 \in Nat
          /\ a0 <= a1 /\ b0 <= b1 /\ a1 <= N /\ b1 <= N
          /\ u = Common(a0, a1, b0, b1, N) /\ u \in Nat
          /\ Clamp(b0, a0, a1) \in Nat /\ Clamp(b1, a0, a1) \in Nat
      BY <1>3, <3>1, <3>2, <3>3, <3>5
    <3> HIDE DEF a0, a1, b0, b1, u, h, f, D, N
    <3>7. /\ u = Clamp(a1, b0, b1) - Clamp(a0, b0, b1)
          /\ u = Clamp(b1, a0, a1) - Clamp(b0, a0, a1)
          /\ 0 < u => Clamp(a0, b0, b1) = Clamp(b0, a0, a1)
      <4>1. N \in Nat
        BY <1>2 DEF N
      <4>2. /\ Common(a0, a1, b0, b1, N) = Clamp(a1, b0, b1) - Clamp(a0, b0, b1)
            /\ Common(a0, a1, b0, b1, N) = Clamp(b1, a0, a1) - Clamp(b0, a0, a1)
            /\ 0 < Common(a0, a1, b0, b1, N) => Clamp(a0, b0, b1) = Clamp(b0, a0, a1)
            /\ Clamp(a0, b0, b1) <= Clamp(a1, b0, b1)
        BY <3>6, <4>1, CommonIsBetween, ZenonT(30)
      <4> QED
        BY <3>6, <4>2
    <3>8. Clamp(b1, a0, a1) = Clamp(b0, a0, a1) + u
      BY <3>6, <3>7
    <3> QED
      BY <3>2, <3>4, <3>7, <3>8 DEF a0, a1, b0, b1, u
  <2>3. h[0] = D(c)
    <3>1. h[0] = Clamp(First(0), D(c), D(c + 1))
      BY <1>2
    <3>2. Clamp(0, D(c), D(c + 1)) = D(c)
      <4> DEFINE a0 == D(c)
                 a1 == D(c + 1)
      <4>1. a0 \in Nat /\ a1 \in Nat /\ a0 <= a1
        BY <1>3
      <4> HIDE DEF a0, a1
      <4>2. Clamp(0, a0, a1) = a0
        BY <4>1 DEF Clamp
      <4> QED
        BY <4>2 DEF a0, a1
    <3>3. First(0) = 0
      BY <1>2
    <3> QED
      BY <3>1, <3>2, <3>3
  <2>4. Before(f, s) = h[s] - D(c) /\ h[s] \in Nat /\ Before(f, s) \in Nat
    <3> HIDE DEF h, f, D
    <3>1. p \in Nat /\ \A r \in 0 .. p - 1 : f[r] \in Nat /\ h[r + 1] = h[r] + f[r]
      BY <1>2, <2>2
    <3>2. /\ \A k \in 0 .. p : Before(f, k) \in Nat /\ Before(f, k) = h[k] - h[0]
          /\ h \in Edges(p)
      BY <2>1, <3>1, SumOfSteps, ZenonT(30)
    <3> QED
      BY <1>1, <2>1, <2>3, <3>2
  <2>5. /\ lo = Clamp(D(c), First(s), First(s + 1)) /\ hi = Clamp(D(c + 1), First(s), First(s + 1))
        /\ lo \in Nat /\ hi \in Nat
    BY <1>3, <1>5, ClampNat DEF Edge
  <2>6. m = hi - lo /\ m \in Nat /\ (0 < m => lo = h[s]) /\ h[s + 1] = h[s] + m /\ lo <= hi
    <3>1. s \in 0 .. p - 1 /\ m = f[s]
      BY <1>1
    <3>2. /\ m \in Nat /\ h[s + 1] = h[s] + m /\ m = hi - lo /\ (0 < m => lo = h[s])
      BY <2>2, <2>5, <3>1
    <3> QED
      BY <2>5, <3>2
  <2>7. h[s + 1] <= D(c + 1)
    BY <1>1, <1>3, ClampNat
  <2>8. Vector(c) = [k \in 1 .. local_vect_sizes[c] |-> D(c) + k]
    BY <1>5 DEF Vector
  <2>9. ASSUME NEW k \in 1 .. m
        PROVE  /\ Before(f, s) + k \in DOMAIN Vector(c)
               /\ Vector(c)[Before(f, s) + k] = lo + k
               /\ lo + k \in Nat
    <3> DEFINE q == Before(f, s) + k
    <3>1. 0 < m /\ k \in Nat /\ k <= m /\ 1 <= k
      BY <2>6
    <3> HIDE DEF h, f, D, m, lo, hi
    <3>2. /\ lo = h[s] /\ h[s] \in Nat /\ h[s] + m <= D(c + 1)
          /\ Before(f, s) = h[s] - D(c) /\ Before(f, s) \in Nat
          /\ D(c + 1) = D(c) + local_vect_sizes[c] /\ D(c) \in Nat /\ m \in Nat
          /\ local_vect_sizes[c] \in Nat
      BY <1>2, <1>3, <2>4, <2>6, <2>7, <3>1
    <3>3. q \in 1 .. local_vect_sizes[c] /\ D(c) + q = lo + k
      BY <3>1, <3>2
    <3> QED
      BY <2>5, <2>8, <3>1, <3>3
  <2> HIDE DEF m, lo, hi, f
  <2>10. Chunk(c, s) = [k \in 1 .. m |-> lo + k]
    BY <1>4, <2>9
  <2>11. \A k \in 1 .. m : Field[lo + k] = lo + k
    BY <2>9 DEF Field
  <2>12. Slice(Field, lo, hi) = [k \in 1 .. m |-> lo + k]
    BY <2>6, <2>11 DEF Slice
  <2> QED
    BY <2>5, <2>6, <2>10, <2>12 DEF m, lo, hi
<1>6. CASE learning # 0
  <2>0. learning > 0
    BY <1>6, RedistributionAssumption DEF Within
  <2>1. \A r \in Servers : send_counts[c][r] = IF c = 0 THEN server_vect_size(r) ELSE 0
    BY <2>0 DEF Counts
  <2>2. hi = First(s + 1) /\ lo = IF c = 0 THEN First(s) ELSE First(s + 1)
    BY <1>1, <1>6 DEF Edge
  <2>3. lo \in Nat /\ hi \in Nat /\ lo <= hi
    BY <1>3, <2>2
  <2>4. m = hi - lo /\ m \in Nat
    BY <1>2, <1>3, <2>1, <2>2
  <2>5. ASSUME NEW k \in 1 .. m
        PROVE  /\ Before(f, s) + k \in DOMAIN Vector(c)
               /\ Vector(c)[Before(f, s) + k] = lo + k
               /\ lo + k \in Nat
    <3>1. c = 0 /\ k \in Nat /\ k <= m /\ 1 <= k
      BY <2>1, <2>4
    <3> DEFINE h == [r \in 0 .. p |-> First(r)]
    <3>2. h \in [0 .. p -> Nat]
      BY <1>1
    <3>3. \A r \in 0 .. p - 1 : f[r] \in Nat /\ h[r + 1] = h[r] + f[r]
      BY <1>1, <1>2, <2>1, <3>1
    <3>4. h[0] = 0 /\ h[s] = First(s)
      BY <1>1, <1>2
    <3> HIDE DEF h, f
    <3>5. Before(f, s) = First(s)
      <4>0. p \in Nat
        BY <1>2
      <4>1. /\ \A x \in 0 .. p : Before(f, x) \in Nat /\ Before(f, x) = h[x] - h[0]
            /\ h \in Edges(p)
        BY <3>2, <3>3, <4>0, SumOfSteps, ZenonT(30)
      <4> QED
        BY <1>1, <3>2, <3>4, <4>1
    <3>6. Vector(c) = [x \in 1 .. N |-> x]
      BY <2>0, <3>1 DEF Vector
    <3> HIDE DEF N, m, lo, hi
    <3>7. lo = First(s) /\ lo + k \in 1 .. N /\ lo + k \in Nat
      <4>1. hi <= N /\ N \in Nat /\ lo = First(s)
        BY <1>2, <1>3, <2>2, <3>1
      <4> QED
        BY <2>3, <2>4, <3>1, <4>1
    <3> QED
      BY <3>5, <3>6, <3>7
  <2> HIDE DEF m, lo, hi, f
  <2>6. Chunk(c, s) = [k \in 1 .. m |-> lo + k]
    BY <1>4, <2>5
  <2>7. \A k \in 1 .. m : Field[lo + k] = lo + k
    BY <2>5 DEF Field
  <2>8. Slice(Field, lo, hi) = [k \in 1 .. m |-> lo + k]
    BY <2>4, <2>7 DEF Slice
  <2> QED
    BY <2>3, <2>4, <2>6, <2>8 DEF m, lo, hi
<1> QED
  BY <1>5, <1>6

-----------------------------------------------------------------------------
(* What the server has of a time step.                                       *)

Message(s, u, c) ==
    IF learning < 2 THEN Sent(c, s) ELSE IF c = 0 THEN Turn(s, u) ELSE {}

\* what has been sent is there, and nothing is before the loops have ended
Held ==
    /\ phase # "send" => \A c \in Clients : timestamp[c] = 0
    /\ \A s \in Servers, u \in Steps, c \in Clients :
          u < timestamp[c] => received[s][u][c] = Message(s, u, c)

LEMMA HeldInit == ASSUME Init PROVE Held
<1>1. timestamp = [c \in Clients |-> 0]
  BY DEF Init
<1>2. \A c \in Clients, u \in Steps : ~(u < timestamp[c])
  BY <1>1, RedistributionAssumption DEF Steps
<1> QED
  BY <1>1, <1>2 DEF Held

LEMMA HeldSend ==
    ASSUME IInv, Within, Received, Held, NEW c \in Clients, Send(c) PROVE Held'
<1> DEFINE t == timestamp[c]
           All(s) == IF learning < 2 THEN Classic(c, s) ELSE RoundRobin(c, s, t)
<1>1. UNCHANGED <<confVars, phase, loopVars, tableVars>> /\ phase = "send"
  BY DEF Send
<1>2. /\ Clients' = Clients /\ Servers' = Servers /\ Steps' = Steps
      /\ \A s, u, d : Message(s, u, d)' = Message(s, u, d)
  BY <1>1 DEF confVars, countVars, tableVars, Clients, Servers, Steps, Message, Sent, Chunk, sdispls, Turn,
              Target, Vector, global_vect_size, gatherv_displs
<1>3. received' = [s \in Servers |-> [received[s] EXCEPT ![t][c] = All(s)]]
  BY DEF Send
<1>4. timestamp' = [timestamp EXCEPT ![c] = @ + 1] /\ t \in Nat
  BY DEF Send, Received
<1>5. ASSUME NEW s \in Servers PROVE All(s) = Message(s, t, c)
  <2>1. Ranks /\ send_counts[c][s] \in Nat
    BY DEF IInv, Within
  <2>2. CASE learning < 2
    BY <2>1, <2>2, ChunkCells DEF Message
  <2>3. CASE ~(learning < 2)
    <3>1. learning > 0 /\ (c # 0 => RoundRobin(c, s, t) = {})
      BY <2>3, RedistributionAssumption DEF Within, RoundRobin
    <3> QED
      BY <2>3, <3>1, FieldSize, RoundRobinCells DEF Message
  <2> QED
    BY <2>2, <2>3
<1>6. ASSUME NEW s \in Servers, NEW u \in Steps, NEW d \in Clients, u < timestamp'[d]
      PROVE  received'[s][u][d] = Message(s, u, d)
  <2> HIDE DEF All
  <2>1. received'[s] = [received[s] EXCEPT ![t][c] = All(s)]
    BY <1>3
  <2>2. DOMAIN received[s] = Steps /\ DOMAIN received[s][u] = Clients
    BY DEF IInv, Shape
  <2>3. CASE d = c /\ u = t
    <3>1. received'[s][u][d] = All(s)
      BY <2>1, <2>2, <2>3
    <3> QED
      BY <1>5, <2>3, <3>1
  <2>4. CASE ~(d = c /\ u = t)
    <3>1. received'[s][u][d] = received[s][u][d]
      BY <2>1, <2>2, <2>4
    <3>2. u < timestamp[d]
      BY <1>4, <1>6, <2>4, RedistributionAssumption DEF Received, Steps
    <3> QED
      BY <3>1, <3>2 DEF Held
  <2> QED
    BY <2>3, <2>4
<1> QED
  BY <1>1, <1>2, <1>6 DEF Held

LEMMA HeldInductive ==
    ASSUME 0 \notin PartSizes PROVE Spec => [](IInv /\ Within /\ Received /\ Counts /\ Held)
<1>1. Init => Held
  BY HeldInit
<1>2. IInv /\ Within /\ Received /\ Held /\ [Next]_vars => Held'
  <2> SUFFICES ASSUME IInv, Within, Received, Held, [Next]_vars PROVE Held'
    OBVIOUS
  <2>1. CASE \E c \in Clients : Send(c)
    BY <2>1, HeldSend
  <2>2. CASE CountCell \/ Rewind \/ FillCell
    <3>1. phase # "send" /\ UNCHANGED <<confVars, timestamp, received>>
      BY <2>2 DEF CountCell, Rewind, FillCell, NextCell
    <3>2. Clients' = Clients /\ Servers' = Servers /\ Steps' = Steps
      BY <3>1 DEF confVars, Clients, Servers, Steps
    <3>3. \A c \in Clients : timestamp'[c] = 0
      BY <3>1 DEF Held
    <3>4. \A c \in Clients, u \in Steps : ~(u < timestamp'[c])
      BY <3>3, RedistributionAssumption DEF Steps
    <3> QED
      BY <3>2, <3>3, <3>4 DEF Held
  <2>3. CASE Connect \/ UNCHANGED vars
    <3>1. /\ UNCHANGED <<confVars, loopVars, tableVars, timestamp, received>>
          /\ phase' = phase \/ phase' = "send"
      BY <2>3 DEF Connect, vars
    <3>2. /\ Clients' = Clients /\ Servers' = Servers /\ Steps' = Steps
          /\ \A s, u, d : Message(s, u, d)' = Message(s, u, d)
      BY <3>1 DEF confVars, countVars, tableVars, Clients, Servers, Steps, Message, Sent, Chunk, sdispls, Turn,
                  Target, Vector, global_vect_size, gatherv_displs
    <3> QED
      BY <3>1, <3>2 DEF Held
  <2> QED
    BY <2>1, <2>2, <2>3 DEF Next
<1> QED
  BY <1>1, <1>2, CountsInductive, PTL DEF Spec

-----------------------------------------------------------------------------
(* What the server writes.                                                   *)

LEMMA NbClients == ASSUME NEW n \in Nat \ {0}, Layout(n) PROVE Cardinality(Clients) = n
<1>1. 0 \in Int /\ n - 1 \in Int /\ (n - 1) - 0 + 1 = n /\ ~(0 > n - 1)
  OBVIOUS
<1>2. Cardinality(0 .. n - 1) = IF 0 > n - 1 THEN 0 ELSE (n - 1) - 0 + 1
  BY <1>1, FS_Interval
<1> QED
  BY <1>1, <1>2 DEF Layout

\* Parts that join, of each server rank and from one rank to the next, are the field.
LEMMA WrittenWhole ==
    ASSUME NEW n \in Nat \ {0}, Layout(n), NEW t, NEW O \in Edges(nb_proc_server), NEW E,
           O[0] = 0, O[nb_proc_server] = global_vect_size,
           \A s \in Servers : E[s] \in Edges(n) /\ E[s][0] = O[s] /\ E[s][n] = O[s + 1],
           \A s \in Servers, c \in Clients : Part(s, t, c) = Slice(Field, E[s][c], E[s][c + 1])
    PROVE  Written(t) = [k \in 1 .. global_vect_size |-> k]
<1> DEFINE p == nb_proc_server
           N == global_vect_size
           Row(s) == [c \in 1 .. n |-> Part(s, t, c - 1)]
           F == [s \in 1 .. p |-> FlattenSeq(Row(s - 1))]
<1>1. p \in Nat \ {0} /\ N \in Nat /\ Clients = 0 .. n - 1 /\ Servers = 0 .. p - 1
  BY DEF Layout, Servers
<1>2. Cardinality(Clients) = n
  BY NbClients
<1>3. Written(t) = FlattenSeq(F)
  BY <1>2 DEF Written
<1>4. ASSUME NEW s \in Servers PROVE FlattenSeq(Row(s)) = Slice(Field, O[s], O[s + 1])
  <2> DEFINE b == E[s]
             R == Row(s)
  <2>1. b \in Edges(n) /\ b[0] = O[s] /\ b[n] = O[s + 1]
    OBVIOUS
  <2>2. \A k \in 1 .. n : R[k] = Slice(Field, b[k - 1], b[k])
    <3> TAKE k \in 1 .. n
    <3>1. k - 1 \in Clients /\ (k - 1) + 1 = k
      BY <1>1
    <3>2. R[k] = Part(s, t, k - 1)
      OBVIOUS
    <3> QED
      BY <3>1, <3>2
  <2>3. R = [k \in 1 .. n |-> R[k]]
    OBVIOUS
  <2> HIDE DEF R, b
  <2>4. FlattenSeq(R) = Slice(Field, b[0], b[n])
    BY <2>1, <2>2, <2>3, FlattenSlices
  <2> QED
    BY <2>1, <2>4 DEF R
<1>5. \A k \in 1 .. p : F[k] = Slice(Field, O[k - 1], O[k])
  <2> TAKE k \in 1 .. p
  <2>1. k - 1 \in Servers /\ (k - 1) + 1 = k
    BY <1>1
  <2> HIDE DEF Row
  <2>2. F[k] = FlattenSeq(Row(k - 1))
    OBVIOUS
  <2> QED
    BY <1>4, <2>1, <2>2
<1>6. F = [k \in 1 .. p |-> F[k]]
  OBVIOUS
<1> HIDE DEF F, N
<1>7. FlattenSeq(F) = Slice(Field, O[0], O[p])
  <2>1. O \in Edges(p)
    OBVIOUS
  <2> HIDE DEF p
  <2> QED
    BY <1>1, <1>5, <1>6, <2>1, FlattenSlices
<1>8. Slice(Field, 0, N) = [k \in 1 .. N |-> k]
  BY <1>1 DEF Slice, Field
<1> QED
  BY <1>3, <1>7, <1>8 DEF N

\* Before learning 2, a server rank has the part between two edges from each rank.
LEMMA PartIsSlice ==
    ASSUME IInv, Within, Counts, Held, phase = "send", learning < 2,
           NEW s \in Servers, NEW c \in Clients, NEW t \in Steps, t < timestamp[c]
    PROVE  Part(s, t, c) = Slice(Field, Edge(c, s), Edge(c + 1, s))
<1>1. received[s][t][c] = Sent(c, s)
  BY DEF Held, Message
<1>2. /\ Chunk(c, s) = Slice(Field, Edge(c, s), Edge(c + 1, s))
      /\ Edge(c, s) \in Nat /\ Edge(c + 1, s) \in Nat /\ Edge(c, s) <= Edge(c + 1, s)
      /\ send_counts[c][s] = Edge(c + 1, s) - Edge(c, s)
  BY ChunkIsSlice DEF IInv
<1>3. CASE Sent(c, s) = {}
  <2>1. ~HasMessage(c, s)
    BY <1>3 DEF Sent, HasMessage
  <2>2. send_counts[c][s] = 0
    <3>1. CASE learning = 0
      BY <1>2, <2>1, <3>1 DEF Counts, Within
    <3>2. CASE learning > 0
      BY <2>1, <3>2 DEF Counts
    <3> QED
      BY <3>1, <3>2, RedistributionAssumption DEF Within
  <2>3. Slice(Field, Edge(c, s), Edge(c + 1, s)) = <<>>
    <3>1. 1 .. Edge(c + 1, s) - Edge(c, s) = {}
      BY <1>2, <2>2
    <3> QED
      BY <3>1 DEF Slice
  <2> QED
    BY <1>1, <1>3, <2>3 DEF Part
<1>4. CASE Sent(c, s) # {}
  <2> DEFINE m == CHOOSE m \in Sent(c, s) : TRUE
  <2>1. m \in Sent(c, s)
    BY <1>4
  <2>2. Part(s, t, c) = m.cells
    BY <1>1, <1>4 DEF Part
  <2> HIDE DEF m
  <2>3. m.cells = Chunk(c, s)
    BY <2>1 DEF Sent
  <2> QED
    BY <1>2, <2>2, <2>3
<1> QED
  BY <1>3, <1>4

\* With learning 2, it has the whole field or nothing.
LEMMA TurnIsSlice ==
    ASSUME IInv, Within, Held, ~(learning < 2),
           NEW s \in Servers, NEW c \in Clients, NEW t \in Steps, t < timestamp[c]
    PROVE  Part(s, t, c) = IF c = 0 /\ s = Target(t) THEN Slice(Field, 0, global_vect_size) ELSE <<>>
<1>1. received[s][t][c] = IF c = 0 THEN Turn(s, t) ELSE {}
  BY DEF Held, Message
<1>2. CASE c # 0
  BY <1>1, <1>2 DEF Part
<1>3. CASE c = 0
  <2> DEFINE x == [nb |-> s + 1, cells |-> IF s = Target(t) THEN Vector(0) ELSE <<>>]
  <2>1. received[s][t][c] = {x} /\ {x} # {}
    BY <1>1, <1>3 DEF Turn
  <2>2. (CHOOSE m \in {x} : TRUE) = x
    <3> HIDE DEF x
    <3> QED
      OBVIOUS
  <2>3. Part(s, t, c) = x.cells
    <3> HIDE DEF x
    <3> QED
      BY <2>1, <2>2 DEF Part
  <2>4. Vector(0) = Slice(Field, 0, global_vect_size)
    <3>1. learning > 0 /\ global_vect_size \in Nat
      BY RedistributionAssumption, FieldSize DEF Within
    <3> QED
      BY <3>1 DEF Vector, Slice, Field
  <2> QED
    BY <1>3, <2>3, <2>4
<1> QED
  BY <1>2, <1>3

LEMMA TargetIsServer ==
    ASSUME Ranks, Within, NEW t \in Steps PROVE Target(t) \in Servers
<1> DEFINE p == nb_proc_server
           r == sample_id % p
<1>1. p \in Nat \ {0} /\ sample_id \in Nat /\ t \in Nat
  BY RedistributionAssumption DEF Ranks, Within, Steps
<1>2. r \in Nat
  BY <1>1, Division
<1> HIDE DEF r
<1>3. (t + r) % p \in 0 .. p - 1
  BY <1>1, <1>2
<1> QED
  BY <1>3 DEF Target, Servers, r

\* The edges between what the ranks of the simulation send to a server rank.
LEMMA EdgesOfServer ==
    ASSUME IInv, Within, Counts, phase = "send", learning < 2,
           NEW n \in Nat \ {0}, Layout(n), NEW s \in Servers
    PROVE  /\ [c \in 0 .. n |-> Edge(c, s)] \in Edges(n)
           /\ Edge(0, s) = First(s) /\ Edge(n, s) = First(s + 1)
<1> DEFINE N == global_vect_size
<1>1. /\ Clients = 0 .. n - 1 /\ N \in Nat
      /\ gatherv_displs(0) = 0 /\ gatherv_displs(n) = N
  BY DEF Layout
<1>2. /\ s \in 0 .. nb_proc_server /\ s + 1 \in 0 .. nb_proc_server
      /\ First(s) \in Nat /\ First(s + 1) \in Nat /\ First(s) <= First(s + 1) /\ First(s + 1) <= N
  BY Places
<1>3. \A c \in 0 .. n - 1 :
          Edge(c, s) \in Nat /\ Edge(c + 1, s) \in Nat /\ Edge(c, s) <= Edge(c + 1, s)
  BY <1>1, ChunkIsSlice DEF IInv
<1>4. \A c \in 0 .. n : Edge(c, s) \in Nat
  <2> TAKE c \in 0 .. n
  <2>1. CASE c \in 0 .. n - 1
    BY <1>3, <2>1
  <2>2. CASE c \notin 0 .. n - 1
    <3>1. n - 1 \in 0 .. n - 1 /\ c = (n - 1) + 1
      BY <2>2
    <3> QED
      BY <1>3, <3>1
  <2> QED
    BY <2>1, <2>2
<1>5. Clamp(0, First(s), First(s + 1)) = First(s) /\ Clamp(N, First(s), First(s + 1)) = First(s + 1)
  <2> DEFINE lo == First(s)
             hi == First(s + 1)
  <2>1. lo \in Nat /\ hi \in Nat /\ lo <= hi /\ hi <= N /\ N \in Nat
    BY <1>1, <1>2
  <2> HIDE DEF lo, hi, N
  <2>2. Clamp(0, lo, hi) = lo /\ Clamp(N, lo, hi) = hi
    BY <2>1 DEF Clamp
  <2> QED
    BY <2>2 DEF lo, hi, N
<1>6. Edge(0, s) = First(s) /\ Edge(n, s) = First(s + 1)
  BY <1>1, <1>5 DEF Edge
<1> QED
  BY <1>3, <1>4, <1>6 DEF Edges

LEMMA FieldArrives ==
    ASSUME IInv, Within, Received, Counts, Held, NEW t \in Steps, Complete(t)
    PROVE  Written(t) = [k \in 1 .. global_vect_size |-> k]
<1>0. PICK n \in Nat \ {0} : Layout(n)
  BY FieldLayout DEF IInv
<1> DEFINE p == nb_proc_server
           N == global_vect_size
<1>1. /\ phase = "send" /\ \A c \in Clients : t < timestamp[c]
      /\ p \in Nat \ {0} /\ N \in Nat /\ Servers = 0 .. p - 1 /\ Clients = 0 .. n - 1
      /\ First(0) = 0 /\ First(p) = N /\ gatherv_displs(0) = 0 /\ gatherv_displs(n) = N
      /\ [s \in 0 .. p |-> First(s)] \in Edges(p)
  <2>1. phase = "send" /\ \A c \in Clients : timestamp[c] > t /\ timestamp[c] \in Int /\ t \in Int
    BY RedistributionAssumption DEF Complete, Received, Steps
  <2> QED
    BY <1>0, <2>1 DEF Layout, Servers
<1>2. /\ \A s \in Servers : /\ s \in 0 .. p /\ s + 1 \in 0 .. p
                            /\ First(s) \in Nat /\ First(s + 1) \in Nat
                            /\ First(s) <= First(s + 1) /\ First(s + 1) <= N
      /\ \A c \in Clients : c \in 0 .. n /\ c + 1 \in 0 .. n
  BY <1>0, Places
<1>3. CASE learning < 2
  <2> DEFINE O == [s \in 0 .. p |-> First(s)]
             E == [s \in Servers |-> [c \in 0 .. n |-> Edge(c, s)]]
  <2>1. O \in Edges(p) /\ O[0] = 0 /\ O[p] = N
    BY <1>1
  <2>2. ASSUME NEW s \in Servers
        PROVE  E[s] \in Edges(n) /\ E[s][0] = O[s] /\ E[s][n] = O[s + 1]
    <3>1. /\ [c \in 0 .. n |-> Edge(c, s)] \in Edges(n)
          /\ Edge(0, s) = First(s) /\ Edge(n, s) = First(s + 1)
      BY <1>0, <1>1, <1>3, EdgesOfServer
    <3>2. E[s] = [c \in 0 .. n |-> Edge(c, s)]
      OBVIOUS
    <3> QED
      BY <1>2, <3>1, <3>2
  <2>3. \A s \in Servers, c \in Clients : Part(s, t, c) = Slice(Field, E[s][c], E[s][c + 1])
    BY <1>1, <1>2, <1>3, PartIsSlice
  <2> HIDE DEF O, E
  <2> QED
    BY <1>0, <2>1, <2>2, <2>3, WrittenWhole
<1>4. CASE ~(learning < 2)
  <2> DEFINE O == [s \in 0 .. p |-> IF s <= Target(t) THEN 0 ELSE N]
             E == [s \in Servers |-> [c \in 0 .. n |-> IF c = 0 THEN O[s] ELSE O[s + 1]]]
  <2>0. Target(t) \in 0 .. p - 1
    BY <1>1, TargetIsServer DEF IInv
  <2>1. O \in Edges(p) /\ O[0] = 0 /\ O[p] = N
    <3>1. O \in [0 .. p -> Nat]
      BY <1>1
    <3>2. \A s \in 0 .. p - 1 : O[s] <= O[s + 1]
      BY <1>1, <2>0
    <3>3. O[0] = 0 /\ O[p] = N
      BY <1>1, <2>0
    <3> QED
      BY <3>1, <3>2, <3>3 DEF Edges
  <2>2. \A s \in Servers : O[s] \in Nat /\ O[s + 1] \in Nat /\ O[s] <= O[s + 1]
    BY <1>1, <1>2, <2>1 DEF Edges
  <2>3. ASSUME NEW s \in Servers
        PROVE  E[s] \in Edges(n) /\ E[s][0] = O[s] /\ E[s][n] = O[s + 1]
    <3> HIDE DEF O
    <3>1. E[s] = [c \in 0 .. n |-> IF c = 0 THEN O[s] ELSE O[s + 1]]
      OBVIOUS
    <3> HIDE DEF E
    <3> DEFINE b == E[s]
    <3>2. b = [c \in 0 .. n |-> IF c = 0 THEN O[s] ELSE O[s + 1]]
      BY <3>1
    <3> HIDE DEF b
    <3>3. b \in [0 .. n -> Nat] /\ \A c \in 0 .. n - 1 : b[c] <= b[c + 1]
      BY <2>2, <3>2
    <3>4. b[0] = O[s] /\ b[n] = O[s + 1]
      BY <3>2
    <3>5. b \in Edges(n)
      BY <3>3 DEF Edges
    <3> QED
      BY <3>4, <3>5 DEF b
  <2>4. ASSUME NEW s \in Servers, NEW c \in Clients
        PROVE  Part(s, t, c) = Slice(Field, E[s][c], E[s][c + 1])
    <3>1. Part(s, t, c) = IF c = 0 /\ s = Target(t) THEN Slice(Field, 0, N) ELSE <<>>
      BY <1>1, <1>4, TurnIsSlice
    <3>2. /\ E[s][c] = IF c = 0 THEN O[s] ELSE O[s + 1]
          /\ E[s][c + 1] = O[s + 1]
      BY <1>1, <1>2
    <3>3. /\ O[s] = IF s <= Target(t) THEN 0 ELSE N
          /\ O[s + 1] = IF s + 1 <= Target(t) THEN 0 ELSE N
      BY <1>2
    <3> HIDE DEF O, E, N
    <3>4. \A x \in Nat : Slice(Field, x, x) = <<>>
      <4> TAKE x \in Nat
      <4>1. 1 .. x - x = {}
        OBVIOUS
      <4> QED
        BY <4>1 DEF Slice
    <3>5. CASE c = 0 /\ s = Target(t)
      <4>1. O[s] = 0 /\ O[s + 1] = N
        BY <1>1, <2>0, <3>3, <3>5
      <4> QED
        BY <3>1, <3>2, <3>5, <4>1
    <3>6. CASE ~(c = 0 /\ s = Target(t))
      <4>1. E[s][c] = E[s][c + 1] /\ E[s][c] \in Nat
        <5>1. CASE c # 0
          BY <2>2, <3>2, <5>1
        <5>2. CASE c = 0
          <6>1. s # Target(t)
            BY <3>6, <5>2
          <6>2. O[s] = O[s + 1]
            BY <1>1, <2>0, <3>3, <6>1
          <6> QED
            BY <2>2, <3>2, <5>2, <6>2
        <5> QED
          BY <5>1, <5>2
      <4>2. Part(s, t, c) = <<>>
        BY <3>1, <3>6
      <4> QED
        BY <3>4, <4>1, <4>2
    <3> QED
      BY <3>5, <3>6
  <2> HIDE DEF O, E
  <2> QED
    BY <1>0, <2>1, <2>3, <2>4, WrittenWhole
<1> QED
  BY <1>3, <1>4

\* What the server writes of a time step is the field, every cell once and at its
\* place, for any number of ranks on both sides and any partition whose parts all
\* have cells (melissa_api.c 319-436, melissa_output.c 159-206).
THEOREM FieldArrivesWhole ==
    ASSUME 0 \notin PartSizes
    PROVE  Spec => []FieldIsWhole
<1>1. IInv /\ Within /\ Received /\ Counts /\ Held => FieldIsWhole
  BY FieldArrives DEF FieldIsWhole
<1> QED
  BY <1>1, HeldInductive, PTL
=============================================================================
