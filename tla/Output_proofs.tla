---------------------------- MODULE Output_proofs ----------------------------
(***************************************************************************)
(* melissa_write_stats_seq, for every number of ranks, partition of the     *)
(* field and list of statistics, whatever MPI buffers: the files, the       *)
(* messages on their way to rank 0 and the barriers. The parts of the field *)
(* are those of Redistribution_proofs.                                      *)
(***************************************************************************)
EXTENDS Output, Redistribution_proofs

-----------------------------------------------------------------------------
(* Sequences of any length.                                                  *)

\* Flattening puts every element of every sequence at one place, in order.
Laid(S, n, F, b) ==
    /\ b[0] = 0
    /\ FlattenSeq(F) \in [1 .. b[n] -> S]
    /\ \A k \in 1 .. n : b[k] = b[k - 1] + Len(F[k])
    /\ \A k \in 1 .. n : \A j \in 1 .. Len(F[k]) : FlattenSeq(F)[b[k - 1] + j] = F[k][j]

LEMMA Flattened ==
    ASSUME NEW S, NEW n \in Nat \ {0}, NEW F \in [1 .. n -> Seq(S)]
    PROVE  \E b \in Edges(n) : Laid(S, n, F, b)
<1> DEFINE f == [x \in 0 .. n - 1 |-> Len(F[x + 1])]
           b == [k \in 0 .. n |-> SumFunctionOnSet(f, 0 .. k - 1)]
<1>1. /\ \A q \in Seq(S) : Len(q) \in Nat /\ q = [j \in 1 .. Len(q) |-> q[j]]
      /\ \A q \in Seq(S) : \A j \in 1 .. Len(q) : q[j] \in S
  OBVIOUS
<1>2. \A k \in 1 .. n : F[k] \in Seq(S) /\ Len(F[k]) \in Nat
  BY <1>1
<1>3. \A x \in 0 .. n - 1 : f[x] \in Nat
  <2> TAKE x \in 0 .. n - 1
  <2>1. x + 1 \in 1 .. n /\ f[x] = Len(F[x + 1])
    OBVIOUS
  <2> QED
    BY <1>2, <2>1
<1>4. \A k \in 1 .. n : f[k - 1] = Len(F[k])
  <2> TAKE k \in 1 .. n
  <2>1. k - 1 \in 0 .. n - 1 /\ (k - 1) + 1 = k
    OBVIOUS
  <2> QED
    BY <2>1
<1> HIDE DEF f
<1>5. /\ SumFunctionOnSet(f, 0 .. 0 - 1) = 0
      /\ \A k \in 0 .. n : SumFunctionOnSet(f, 0 .. k - 1) \in Nat
      /\ \A k \in 0 .. n - 1 : SumFunctionOnSet(f, 0 .. (k + 1) - 1) =
                                   SumFunctionOnSet(f, 0 .. k - 1) + f[k]
  <2>1. n \in Nat
    OBVIOUS
  <2> QED
    BY <1>3, <2>1, PrefixSums, ZenonT(30)
<1>6. /\ b \in [0 .. n -> Nat] /\ b[0] = 0
      /\ \A k \in 0 .. n - 1 : b[k + 1] = b[k] + f[k]
  BY <1>5
<1> HIDE DEF b
<1>7. \A k \in 1 .. n : /\ k \in 0 .. n /\ k - 1 \in 0 .. n /\ b[k] \in Nat /\ b[k - 1] \in Nat
                        /\ b[k] = b[k - 1] + Len(F[k])
  <2> TAKE k \in 1 .. n
  <2>1. k - 1 \in 0 .. n - 1 /\ (k - 1) + 1 = k /\ k \in 0 .. n /\ k - 1 \in 0 .. n
    OBVIOUS
  <2> QED
    BY <1>4, <1>6, <2>1
<1>8. b \in Edges(n)
  <2>1. \A k \in 0 .. n - 1 : b[k] <= b[k + 1]
    <3> TAKE k \in 0 .. n - 1
    <3>1. k \in 0 .. n /\ b[k] \in Nat /\ f[k] \in Nat /\ b[k + 1] = b[k] + f[k]
      BY <1>3, <1>6
    <3> QED
      BY <3>1
  <2> QED
    BY <1>6, <2>1 DEF Edges
<1> DEFINE In(x, k) == b[k - 1] < x /\ x <= b[k]
           part(x) == CHOOSE k \in 1 .. n : In(x, k)
           g == [x \in Nat |-> F[part(x)][x - b[part(x) - 1]]]
<1>9. ASSUME NEW x \in Nat, NEW k \in 1 .. n, In(x, k) PROVE part(x) = k
  <2>1. ASSUME NEW m \in 1 .. n PROVE In(x, m) <=> m = k
    <3> DEFINE y == x - 1
    <3>1. /\ y \in Nat /\ k - 1 \in 0 .. n - 1 /\ m - 1 \in 0 .. n - 1
          /\ (k - 1) + 1 = k /\ (m - 1) + 1 = m
          /\ b[k - 1] <= y /\ y < b[k]
      BY <1>7, <1>9
    <3>2. b[m - 1] <= y /\ y < b[m] <=> m - 1 = k - 1
      BY <1>8, <3>1, OnePart
    <3>3. b[m - 1] <= y /\ y < b[m] <=> In(x, m)
      BY <1>7
    <3> QED
      BY <3>2, <3>3
  <2> HIDE DEF In
  <2> QED
    BY <1>9, <2>1
<1>10. ASSUME NEW k \in 1 .. n, NEW j \in 1 .. Len(F[k]) PROVE g[b[k - 1] + j] = F[k][j]
  <2> DEFINE x == b[k - 1] + j
  <2>1. x \in Nat /\ In(x, k) /\ x - b[k - 1] = j
    <3> DEFINE lo == b[k - 1]
               size == Len(F[k])
    <3>1. lo \in Nat /\ size \in Nat /\ b[k] = lo + size /\ j \in 1 .. size
      BY <1>2, <1>7
    <3> HIDE DEF lo, size
    <3>2. lo + j \in Nat /\ lo < lo + j /\ lo + j <= b[k] /\ (lo + j) - lo = j
      BY <3>1
    <3> QED
      BY <3>2 DEF lo
  <2>2. part(x) = k
    BY <1>9, <2>1
  <2>3. g[x] = F[part(x)][x - b[part(x) - 1]]
    BY <2>1
  <2> HIDE DEF x, part, g, In
  <2> QED
    BY <2>1, <2>2, <2>3 DEF x
<1>11. ASSUME NEW x \in 1 .. b[n] PROVE g[x] \in S
  <2> DEFINE T == {k \in Nat : k \in 0 .. n /\ x <= b[k]}
  <2>1. n \in T
    OBVIOUS
  <2>2. PICK k \in T : \A m \in T : k <= m
    BY <2>1, LeastNat
  <2>3. k \in 0 .. n /\ x <= b[k] /\ k # 0 /\ x \in Nat
    BY <1>6, <1>7, <2>2
  <2>4. k \in 1 .. n /\ ~(k <= k - 1)
    BY <2>3
  <2>5. ~(x <= b[k - 1])
    BY <1>7, <2>2, <2>4
  <2> HIDE DEF T
  <2>6. In(x, k)
    BY <1>7, <2>3, <2>4, <2>5
  <2> DEFINE j == x - b[k - 1]
  <2>7. j \in 1 .. Len(F[k]) /\ x = b[k - 1] + j
    BY <1>2, <1>7, <2>3, <2>4, <2>6
  <2> HIDE DEF j, g
  <2>8. g[x] = F[k][j]
    BY <1>10, <2>4, <2>7
  <2> QED
    BY <1>1, <1>2, <2>4, <2>7, <2>8
<1> HIDE DEF g, In, part
<1>12. \A k \in 1 .. n : F[k] = Slice(g, b[k - 1], b[k])
  <2> TAKE k \in 1 .. n
  <2>1. b[k] - b[k - 1] = Len(F[k])
    BY <1>2, <1>7
  <2>2. F[k] = [j \in 1 .. Len(F[k]) |-> F[k][j]]
    BY <1>1, <1>2
  <2>3. \A j \in 1 .. Len(F[k]) : g[b[k - 1] + j] = F[k][j]
    BY <1>10
  <2> QED
    BY <2>1, <2>2, <2>3 DEF Slice
<1>13. FlattenSeq(F) = Slice(g, b[0], b[n])
  <2>1. F = [k \in 1 .. n |-> F[k]]
    OBVIOUS
  <2> QED
    BY <1>8, <1>12, <2>1, FlattenSlices
<1>14. b[n] \in Nat /\ FlattenSeq(F) = [x \in 1 .. b[n] |-> g[x]]
  <2>1. b[n] \in Nat /\ b[n] - 0 = b[n] /\ \A x \in 1 .. b[n] : 0 + x = x
    BY <1>6
  <2>2. FlattenSeq(F) = [x \in 1 .. b[n] - 0 |-> g[0 + x]]
    BY <1>6, <1>13 DEF Slice
  <2> QED
    BY <2>1, <2>2
<1>15. FlattenSeq(F) \in [1 .. b[n] -> S]
  BY <1>11, <1>14
<1>16. ASSUME NEW k \in 1 .. n, NEW j \in 1 .. Len(F[k])
       PROVE  FlattenSeq(F)[b[k - 1] + j] = F[k][j]
  <2>1. b[k] <= b[n]
    <3>1. k \in 0 .. n /\ n \in 0 .. n /\ k <= n
      OBVIOUS
    <3> QED
      BY <1>8, <3>1, EdgesGrow
  <2>2. b[k - 1] + j \in 1 .. b[n]
    BY <1>2, <1>7, <1>14, <2>1
  <2> QED
    BY <1>10, <1>14, <2>2
<1> QED
  BY <1>6, <1>7, <1>8, <1>15, <1>16 DEF Laid

-----------------------------------------------------------------------------
(* The list of files.                                                        *)

FilesOf(op) == FlattenSeq([value \in 1 .. Loops[op] |->
                   [t \in 1 .. NbSteps |-> [op |-> op, value |-> value, step |-> t - 1]]])

LEMMA FilesOfOne ==
    ASSUME NEW op \in DOMAIN Loops
    PROVE  FilesOf(op) \in Seq([op : {op}, value : Nat, step : Steps])
<1> DEFINE S == [op : {op}, value : Nat, step : Steps]
           m == Loops[op]
           F == [value \in 1 .. m |->
                    [t \in 1 .. NbSteps |-> [op |-> op, value |-> value, step |-> t - 1]]]
<1>1. m \in Nat \ {0}
  BY LoopsAssumption
<1>2. \A A : \A k \in Nat : \A q \in [1 .. k -> A] : q \in Seq(A)
  OBVIOUS
<1>3. ASSUME NEW value \in 1 .. m PROVE F[value] \in Seq(S)
  <2>1. \A t \in 1 .. NbSteps : [op |-> op, value |-> value, step |-> t - 1] \in S
    BY RedistributionAssumption, <1>1 DEF Steps
  <2> HIDE DEF S
  <2>2. F[value] \in [1 .. NbSteps -> S]
    BY <2>1
  <2> QED
    BY <1>2, <2>2, RedistributionAssumption
<1>4. F \in [1 .. m -> Seq(S)]
  BY <1>3
<1>5. FilesOf(op) = FlattenSeq(F)
  BY DEF FilesOf
<1> HIDE DEF F, S, m
<1>6. PICK b \in Edges(m) : FlattenSeq(F) \in [1 .. b[m] -> S]
  BY <1>1, <1>4, Flattened DEF Laid
<1>7. b[m] \in Nat
  BY <1>1 DEF Edges
<1>8. FlattenSeq(F) \in Seq(S)
  BY <1>2, <1>6, <1>7
<1> QED
  BY <1>5, <1>8 DEF S

\* The files of a statistic come after those of the ones before.
LEMMA FilesInOrder ==
    /\ NbFiles \in Nat
    /\ Files \in [1 .. NbFiles -> [op : 1 .. Len(Loops), value : Nat, step : Steps]]
    /\ \A x, y \in 1 .. NbFiles : x <= y => Files[x].op <= Files[y].op
<1> DEFINE n == Len(Loops)
           S == [op : 1 .. n, value : Nat, step : Steps]
           F == [op \in 1 .. n |-> FilesOf(op)]
<1>1. n \in Nat /\ DOMAIN Loops = 1 .. n
  BY LoopsAssumption
<1>2. Files = FlattenSeq(F)
  <2>1. F = [op \in DOMAIN Loops |-> FilesOf(op)]
    BY <1>1
  <2> QED
    BY <2>1 DEF Files, FilesOf
<1>3. CASE n = 0
  <2>1. F = <<>>
    BY <1>3
  <2>2. Len(F) = 0
    BY <2>1
  <2>3. FlattenSeq(F) = F
    BY <2>2 DEF FlattenSeq
  <2>4. Files = <<>>
    BY <1>2, <2>1, <2>3
  <2>5. NbFiles = 0
    BY <2>4 DEF NbFiles
  <2>6. Files \in [1 .. 0 -> S] /\ 1 .. 0 = {}
    BY <2>4
  <2> QED
    BY <2>5, <2>6
<1>4. CASE n # 0
  <2>1. \A op \in 1 .. n : FilesOf(op) \in Seq([op : {op}, value : Nat, step : Steps])
    BY <1>1, FilesOfOne
  <2>2. ASSUME NEW op \in 1 .. n PROVE FilesOf(op) \in Seq(S)
    <3> DEFINE T == [op : {op}, value : Nat, step : Steps]
    <3>1. T \subseteq S
      OBVIOUS
    <3>2. FilesOf(op) \in Seq(T)
      BY <2>1
    <3> HIDE DEF S, T
    <3> QED
      BY <3>1, <3>2
  <2>3. F \in [1 .. n -> Seq(S)] /\ n \in Nat \ {0}
    BY <1>1, <1>4, <2>2
  <2>4. \A op \in 1 .. n : \A j \in 1 .. Len(F[op]) : F[op][j].op = op
    <3> TAKE op \in 1 .. n
    <3>1. F[op] \in Seq([op : {op}, value : Nat, step : Steps])
      BY <2>1
    <3>2. \A A : \A q \in Seq(A) : \A j \in 1 .. Len(q) : q[j] \in A
      OBVIOUS
    <3> HIDE DEF F
    <3>3. \A j \in 1 .. Len(F[op]) : F[op][j] \in [op : {op}, value : Nat, step : Steps]
      BY <3>1, <3>2
    <3> QED
      BY <3>3
  <2> HIDE DEF F, S, n
  <2>5. PICK b \in Edges(n) :
            /\ b[0] = 0
            /\ FlattenSeq(F) \in [1 .. b[n] -> S]
            /\ \A k \in 1 .. n : b[k] = b[k - 1] + Len(F[k])
            /\ \A k \in 1 .. n : \A j \in 1 .. Len(F[k]) : FlattenSeq(F)[b[k - 1] + j] = F[k][j]
    <3>1. \E b \in Edges(n) : Laid(S, n, F, b)
      BY <2>3, Flattened
    <3> QED
      BY <3>1 DEF Laid
  <2>6. /\ n \in Nat \ {0}
        /\ b[n] \in Nat
        /\ \A k \in 1 .. n : /\ k \in 0 .. n /\ k - 1 \in 0 .. n /\ k \in Nat
                             /\ b[k - 1] \in Nat /\ b[k] \in Nat
    <3>1. n \in 0 .. n /\ \A k \in 1 .. n : k \in 0 .. n /\ k - 1 \in 0 .. n /\ k \in Nat
      BY <1>1, <1>4
    <3> QED
      BY <2>3, <3>1 DEF Edges
  <2>7. /\ NbFiles = b[n] /\ Files \in [1 .. NbFiles -> S]
    <3>1. \A A : \A m \in Nat : \A q \in [1 .. m -> A] : Len(q) = m
      OBVIOUS
    <3> QED
      BY <1>2, <2>5, <2>6, <3>1 DEF NbFiles
  \* the statistic of a file is the part it lies in
  <2>8. ASSUME NEW x \in 1 .. NbFiles
        PROVE  \E k \in 1 .. n : b[k - 1] < x /\ x <= b[k] /\ Files[x].op = k
    <3> DEFINE T == {k \in Nat : k \in 0 .. n /\ x <= b[k]}
    <3>1. n \in T /\ x \in Nat /\ 1 <= x
      BY <2>6, <2>7
    <3>2. PICK k \in T : \A m \in T : k <= m
      BY <3>1, LeastNat
    <3>3. k \in 1 .. n /\ x <= b[k] /\ ~(k <= k - 1)
      BY <2>5, <3>1, <3>2
    <3>4. ~(x <= b[k - 1])
      BY <2>6, <3>2, <3>3
    <3> DEFINE lo == b[k - 1]
               size == Len(F[k])
               j == x - lo
    <3>5. lo \in Nat /\ b[k] \in Nat /\ b[k] = lo + size /\ lo < x
      BY <2>5, <2>6, <3>1, <3>3, <3>4
    <3>6. size \in Nat
      <4>1. \A q \in Seq(S) : Len(q) \in Nat
        OBVIOUS
      <4> QED
        BY <2>3, <3>3, <4>1
    <3> HIDE DEF T, lo, size
    <3>7. j \in 1 .. size /\ x = lo + j
      BY <3>1, <3>3, <3>5, <3>6
    <3> HIDE DEF j
    <3>8. Files[x] = F[k][j]
      BY <1>2, <2>5, <3>3, <3>7 DEF lo, size
    <3> QED
      BY <2>4, <3>3, <3>5, <3>7, <3>8 DEF lo, size
  <2>9. ASSUME NEW x \in 1 .. NbFiles, NEW y \in 1 .. NbFiles, x <= y
        PROVE  Files[x].op <= Files[y].op
    <3>1. PICK k \in 1 .. n : b[k - 1] < x /\ x <= b[k] /\ Files[x].op = k
      BY <2>8
    <3>2. PICK l \in 1 .. n : b[l - 1] < y /\ y <= b[l] /\ Files[y].op = l
      BY <2>8
    <3>3. ~(l < k)
      <4> SUFFICES ASSUME l < k PROVE FALSE
        OBVIOUS
      <4>1. l \in 0 .. n /\ k - 1 \in 0 .. n /\ l <= k - 1
        BY <2>6
      <4>2. b[l] <= b[k - 1]
        BY <2>6, <4>1, EdgesGrow
      <4> QED
        BY <2>6, <2>7, <2>9, <3>1, <3>2, <4>2
    <3> QED
      BY <2>6, <3>1, <3>2, <3>3
  <2> QED
    BY <2>6, <2>7, <2>9 DEF S, n
<1> QED
  BY <1>3, <1>4

\* So does what rank 0 has still to do.
LEMMA OpOfGrows ==
    ASSUME NEW x \in Nat \ {0}, NEW y \in Nat \ {0}, x <= y
    PROVE  /\ OpOf(x) \in Nat /\ OpOf(y) \in Nat /\ OpOf(x) <= OpOf(y)
           /\ OpOf(x) <= Len(Loops) + 1 /\ Len(Loops) \in Nat
           /\ x > NbFiles => OpOf(x) = Len(Loops) + 1
<1> DEFINE n == Len(Loops)
<1>1. n \in Nat
  BY LoopsAssumption
<1>2. \A z \in 1 .. NbFiles : Files[z].op \in 1 .. n
  BY FilesInOrder
<1>3. NbFiles \in Nat /\ \A v, z \in 1 .. NbFiles : v <= z => Files[v].op <= Files[z].op
  BY FilesInOrder
<1> HIDE DEF n
<1>4. \A z \in Nat \ {0} : OpOf(z) = IF z > NbFiles THEN n + 1 ELSE Files[z].op
  BY DEF OpOf, n
<1>5. \A z \in Nat \ {0} : z > NbFiles \/ z \in 1 .. NbFiles
  BY <1>3
<1>6. CASE y > NbFiles
  BY <1>1, <1>2, <1>3, <1>4, <1>5, <1>6 DEF n
<1>7. CASE y \in 1 .. NbFiles
  <2>1. x \in 1 .. NbFiles
    BY <1>3, <1>7
  <2>2. OpOf(x) = Files[x].op /\ OpOf(y) = Files[y].op /\ ~(x > NbFiles)
    BY <1>3, <1>4, <1>7, <2>1
  <2> QED
    BY <1>1, <1>2, <1>3, <1>7, <2>1, <2>2 DEF n
<1> QED
  BY <1>5, <1>6, <1>7

-----------------------------------------------------------------------------
(* The part of a rank of the server.                                         *)

Redistributed == IInv /\ Within /\ Received /\ Counts /\ Held

\* what rank s sends to rank 0 for file f
Piece(s, f) == [j \in 1 .. server_vect_size(s) |-> <<f, First(s) + j>>]

\* all it has to share
Ready == learning < 2 /\ NbSteps > 0 /\ Complete(NbSteps - 1)

LEMMA ReadyParts ==
    ASSUME Redistributed, Ready, NEW s \in Servers, NEW t \in Steps, NEW c \in Clients
    PROVE  phase = "send" /\ Part(s, t, c) = Slice(Field, Edge(c, s), Edge(c + 1, s))
<1>1. phase = "send" /\ timestamp[c] > NbSteps - 1 /\ timestamp[c] \in Nat
  BY RedistributionAssumption DEF Ready, Complete, Redistributed, Received
<1>2. t < timestamp[c]
  BY <1>1, RedistributionAssumption DEF Steps
<1> QED
  BY <1>1, <1>2, PartIsSlice DEF Redistributed, Ready

LEMMA PieceOfServer ==
    ASSUME Redistributed, Ready, NEW s \in Servers, NEW t \in Steps, NEW f
    PROVE  /\ FlattenSeq([c \in 1 .. Cardinality(Clients) |-> OfFile(f, Part(s, t, c - 1))]) = Piece(s, f)
           /\ SumFunction([c \in Clients |-> Len(Part(s, t, c))]) = server_vect_size(s)
<1>0. PICK n \in Nat \ {0} : Layout(n)
  BY FieldLayout DEF Redistributed, IInv
<1> DEFINE b == [c \in 0 .. n |-> Edge(c, s)]
           g == [x \in Nat |-> <<f, x>>]
           P(c) == Part(s, t, c)
           F == [c \in 1 .. n |-> OfFile(f, P(c - 1))]
           size == server_vect_size(s)
<1>1. /\ Clients = 0 .. n - 1 /\ size \in Nat /\ First(s + 1) = First(s) + size
      /\ Cardinality(Clients) = n
  BY <1>0, NbClients DEF Layout
<1>2. First(s) \in Nat /\ s \in 0 .. nb_proc_server /\ 0 \in Clients
  BY <1>0, <1>1, Places
<1>3. b \in Edges(n) /\ b[0] = First(s) /\ b[n] = First(s + 1)
  <2>1. phase = "send" /\ learning < 2
    BY <1>2, ReadyParts DEF Ready
  <2>2. b \in Edges(n) /\ Edge(0, s) = First(s) /\ Edge(n, s) = First(s + 1)
    BY <1>0, <2>1, EdgesOfServer DEF Redistributed
  <2> QED
    BY <2>2
<1>4. \A c \in Clients : P(c) = Slice(Field, b[c], b[c + 1])
  <2> TAKE c \in Clients
  <2>1. b[c] = Edge(c, s) /\ b[c + 1] = Edge(c + 1, s)
    BY <1>1
  <2> HIDE DEF b
  <2> QED
    BY <2>1, ReadyParts
<1>5. \A c \in 0 .. n - 1 : b[c] \in Nat /\ b[c + 1] \in Nat /\ b[c] <= b[c + 1]
  BY <1>3 DEF Edges
<1> HIDE DEF b, size
<1>6. ASSUME NEW c \in Clients
      PROVE  OfFile(f, P(c)) = Slice(g, b[c], b[c + 1]) /\ Len(P(c)) = b[c + 1] - b[c]
  <2> DEFINE lo == b[c]
             hi == b[c + 1]
             m == hi - lo
  <2>1. lo \in Nat /\ hi \in Nat /\ lo <= hi /\ P(c) = Slice(Field, lo, hi)
    BY <1>1, <1>4, <1>5
  <2> HIDE DEF lo, hi, P
  <2>2. P(c) = [j \in 1 .. m |-> Field[lo + j]] /\ m \in Nat
    BY <2>1 DEF Slice
  <2>3. \A j \in 1 .. m : lo + j \in Nat /\ Field[lo + j] = lo + j /\ g[lo + j] = <<f, lo + j>>
    BY <2>1 DEF Field
  <2> HIDE DEF m, g
  <2>4. P(c) = [j \in 1 .. m |-> lo + j]
    BY <2>2, <2>3
  <2>5. OfFile(f, P(c)) = [j \in 1 .. m |-> <<f, lo + j>>]
    BY <2>4 DEF OfFile
  <2>6. Slice(g, lo, hi) = [j \in 1 .. m |-> <<f, lo + j>>]
    BY <2>3 DEF Slice, m
  <2>7. P(c) \in [1 .. m -> Nat]
    BY <2>3, <2>4
  <2>8. \A S : \A q \in [1 .. m -> S] : Len(q) = m
    BY <2>2
  <2> QED
    BY <2>5, <2>6, <2>7, <2>8 DEF m, lo, hi
<1>7. FlattenSeq(F) = Slice(g, First(s), First(s + 1))
  <2>1. \A k \in 1 .. n : F[k] = Slice(g, b[k - 1], b[k])
    <3> TAKE k \in 1 .. n
    <3>1. k - 1 \in Clients /\ (k - 1) + 1 = k
      BY <1>1
    <3>2. F[k] = OfFile(f, P(k - 1))
      OBVIOUS
    <3> HIDE DEF F, P, g
    <3> QED
      BY <1>6, <3>1, <3>2
  <2>2. F = [k \in 1 .. n |-> F[k]]
    OBVIOUS
  <2> HIDE DEF F, g
  <2>3. FlattenSeq(F) = Slice(g, b[0], b[n])
    BY <1>3, <2>1, <2>2, FlattenSlices
  <2> QED
    BY <1>3, <2>3
<1>8. Slice(g, First(s), First(s + 1)) = Piece(s, f)
  <2> DEFINE lo == First(s)
  <2>1. lo \in Nat /\ First(s + 1) - lo = size
    BY <1>1, <1>2
  <2> HIDE DEF lo
  <2>2. \A j \in 1 .. size : g[lo + j] = <<f, lo + j>>
    BY <1>1, <2>1
  <2> HIDE DEF g
  <2>3. Slice(g, lo, First(s + 1)) = [j \in 1 .. size |-> <<f, lo + j>>]
    BY <2>1, <2>2 DEF Slice
  <2> QED
    BY <2>3 DEF lo, Piece, size
<1>9. SumFunction([c \in Clients |-> Len(P(c))]) = size
  <2> DEFINE w == [c \in Clients |-> Len(P(c))]
  <2>1. \A k \in 0 .. n - 1 : w[k] \in Nat /\ b[k + 1] = b[k] + w[k]
    <3> TAKE k \in 0 .. n - 1
    <3>1. w[k] = b[k + 1] - b[k]
      BY <1>1, <1>6
    <3> HIDE DEF w
    <3> QED
      BY <1>5, <3>1
  <2>2. DOMAIN w = 0 .. n - 1
    BY <1>1
  <2> HIDE DEF w
  <2>3. n \in Nat /\ b \in [0 .. n -> Nat] /\ n \in 0 .. n
    BY <1>3 DEF Edges
  <2>4. \A k \in 0 .. n : Before(w, k) \in Nat /\ Before(w, k) = b[k] - b[0]
    <3>1. /\ \A k \in 0 .. n : Before(w, k) \in Nat /\ Before(w, k) = b[k] - b[0]
          /\ b \in Edges(n)
      BY <2>1, <2>3, SumOfSteps, ZenonT(30)
    <3> QED
      BY <3>1
  <2>5. SumFunction(w) = Before(w, n)
    BY <2>2 DEF SumFunction, Before
  <2>6. Before(w, n) = b[n] - b[0]
    BY <2>3, <2>4
  <2>7. First(s + 1) - First(s) = size
    BY <1>1, <1>2
  <2> QED
    BY <1>3, <2>5, <2>6, <2>7 DEF w
<1> QED
  BY <1>1, <1>7, <1>8, <1>9 DEF size

\* The buffer of a rank begins with its part of the file.
LEMMA Copied ==
    ASSUME Redistributed, Ready, NEW s \in Servers, NEW f \in 1 .. NbFiles,
           DOMAIN buffer[s] = 1 .. global_vect_size
    PROVE  /\ memcpy(s, f) = [k \in 1 .. global_vect_size |->
                  IF k \in 1 .. server_vect_size(s) THEN <<f, First(s) + k>> ELSE buffer[s][k]]
           /\ SubSeq(memcpy(s, f), 1, server_vect_size(s)) = Piece(s, f)
<1> DEFINE N == global_vect_size
           t == Files[f].step
           size == server_vect_size(s)
           part == Piece(s, f)
<1>1. t \in Steps
  BY FilesInOrder
<1> HIDE DEF t
<1>2. FlattenSeq([c \in 1 .. Cardinality(Clients) |-> OfFile(f, Part(s, t, c - 1))]) = part
  BY <1>1, PieceOfServer
<1>3. memcpy(s, f) = [k \in 1 .. N |-> IF k \in DOMAIN part THEN part[k] ELSE buffer[s][k]]
  BY <1>2 DEF memcpy, t
<1>4. DOMAIN part = 1 .. size /\ \A k \in 1 .. size : part[k] = <<f, First(s) + k>>
  BY DEF Piece
<1>5. size \in Nat /\ size <= N /\ N \in Nat
  <2>1. PICK n \in Nat \ {0} : Layout(n)
    BY FieldLayout DEF Redistributed, IInv
  <2>2. /\ First(s) \in Nat /\ First(s + 1) \in Nat /\ First(s + 1) <= N
        /\ s \in 0 .. nb_proc_server /\ s + 1 \in 0 .. nb_proc_server
    BY <2>1, Places
  <2>3. size \in Nat /\ First(s + 1) = First(s) + size /\ N \in Nat
    BY <2>1 DEF Layout
  <2> QED
    BY <2>2, <2>3
<1> DEFINE m == memcpy(s, f)
<1>6. m = [k \in 1 .. N |-> IF k \in 1 .. size THEN <<f, First(s) + k>> ELSE buffer[s][k]]
  <2> HIDE DEF m, part
  <2>1. \A k \in 1 .. N : (IF k \in DOMAIN part THEN part[k] ELSE buffer[s][k])
                             = IF k \in 1 .. size THEN <<f, First(s) + k>> ELSE buffer[s][k]
    BY <1>4
  <2> QED
    BY <1>3, <2>1 DEF m
<1>7. SubSeq(m, 1, size) = part
  <2> DEFINE S == {m[k] : k \in 1 .. size}
             q == SubSeq(m, 1, size)
  <2>1. \A k \in 1 .. size : m[k] \in S
    OBVIOUS
  <2>2. \A k \in 1 .. size : m[k] = part[k]
    <3> HIDE DEF m, part
    <3> QED
      BY <1>4, <1>5, <1>6
  <2> HIDE DEF m, S, size
  <2>3. /\ q \in Seq(S)
        /\ Len(q) = IF 1 <= size THEN size - 1 + 1 ELSE 0
        /\ \A k \in 1 .. size - 1 + 1 : q[k] = m[1 + k - 1]
    BY <1>5, <2>1, SubSeqProperties
  <2> HIDE DEF q
  <2>4. Len(q) = size /\ \A k \in 1 .. size : q[k] = m[k]
    BY <1>5, <2>3
  <2>5. q = [k \in 1 .. size |-> q[k]]
    BY <2>3, <2>4
  <2>6. part = [k \in 1 .. size |-> part[k]]
    BY <1>4 DEF part, Piece, size
  <2> QED
    BY <2>2, <2>4, <2>5, <2>6 DEF q
<1> QED
  BY <1>6, <1>7

-----------------------------------------------------------------------------
(* The number of files written.                                              *)

\* What rank 0 has written is what it has gone through, and a rank that is out
\* has seen rank 0 at the last barrier.
Writes ==
    /\ nb_proc_server \in Nat \ {0}
    /\ next \in [Servers -> Nat]
    /\ from \in Nat
    /\ Len(files) \in Nat /\ files = [k \in 1 .. Len(files) |-> files[k]]
    /\ from > 0 => next[0] \in 1 .. NbFiles
    /\ next[0] = 0 => Len(files) = 0
    /\ next[0] \in 1 .. NbFiles + 1 => Len(files) = next[0] - 1
    /\ next[0] > NbFiles + 1 => Len(files) = NbFiles
    /\ (\E s \in Servers : next[s] > NbFiles + 1) => next[0] > NbFiles

LEMMA LongerByOne ==
    ASSUME NEW seq, NEW e, Len(seq) \in Nat, seq = [k \in 1 .. Len(seq) |-> seq[k]]
    PROVE  /\ Len(Append(seq, e)) = Len(seq) + 1
           /\ Append(seq, e) = [k \in 1 .. Len(seq) + 1 |-> Append(seq, e)[k]]
<1> DEFINE S == {seq[k] : k \in 1 .. Len(seq)} \cup {e}
<1>1. \A k \in 1 .. Len(seq) : seq[k] \in S
  OBVIOUS
<1>2. e \in S
  OBVIOUS
<1> HIDE DEF S
<1>3. seq \in [1 .. Len(seq) -> S]
  BY <1>1
<1>4. seq \in Seq(S)
  BY <1>3
<1>5. Append(seq, e) \in Seq(S) /\ Len(Append(seq, e)) = Len(seq) + 1
  BY <1>2, <1>4
<1> QED
  BY <1>5, LenProperties

LEMMA WritesInit == ASSUME OutputInit PROVE Writes
<1>1. nb_proc_server \in Nat \ {0} /\ 0 \in Servers
  BY RedistributionAssumption DEF OutputInit, Init, Servers
<1>2. next = [s \in Servers |-> 0] /\ from = 0 /\ files = <<>>
  BY DEF OutputInit
<1>3. next \in [Servers -> Nat] /\ next[0] = 0 /\ \A s \in Servers : next[s] = 0
  BY <1>1, <1>2
<1>4. Len(files) = 0 /\ files = [k \in 1 .. Len(files) |-> files[k]] /\ NbFiles \in Nat
  BY <1>2, FilesInOrder
<1> QED
  BY <1>1, <1>2, <1>3, <1>4 DEF Writes

LEMMA WritesStep == ASSUME Writes, [OutputNext]_allVars PROVE Writes'
<1>0. /\ 0 \in Servers /\ nb_proc_server \in Nat \ {0} /\ next \in [Servers -> Nat] /\ from \in Nat
      /\ NbFiles \in Nat
  BY FilesInOrder DEF Writes, Servers
<1>1. Servers' = Servers /\ nb_proc_server' = nb_proc_server
  BY DEF OutputNext, allVars, vars, Next, CountCell, Rewind, FillCell, NextCell, Connect, Send,
         melissa_write_stats_seq, confVars, Servers
<1>2. CASE (Next /\ UNCHANGED <<eager, writerVars>>) \/ UNCHANGED allVars
  <2>1. UNCHANGED <<next, from, files>>
    BY <1>2 DEF allVars, writerVars
  <2> QED
    BY <1>1, <2>1 DEF Writes
<1>3. ASSUME NEW s \in Servers, LeaveLoop(s) PROVE Writes'
  BY <1>0, <1>1, <1>3 DEF LeaveLoop, Writes
<1>4. ASSUME NEW s \in Servers, SendPart(s) PROVE Writes'
  BY <1>0, <1>1, <1>4 DEF SendPart, Writes
<1>5. CASE CopyPart
  BY <1>0, <1>1, <1>5 DEF CopyPart, Writes
<1>6. CASE ReceivePart
  BY <1>0, <1>1, <1>6 DEF ReceivePart, Writes
<1>7. CASE write_output
  <2>1. /\ files' = Append(files, buffer[0]) /\ from' = 0 /\ from > 0
        /\ next' = [next EXCEPT ![0] = @ + 1]
    BY <1>7 DEF write_output
  <2>2. Len(files') = Len(files) + 1 /\ files' = [k \in 1 .. Len(files) + 1 |-> files'[k]]
    BY <2>1, LongerByOne DEF Writes
  <2>3. next[0] \in 1 .. NbFiles /\ Len(files) = next[0] - 1
    BY <1>0, <2>1 DEF Writes
  <2>4. next' \in [Servers -> Nat] /\ next'[0] = next[0] + 1
    BY <1>0, <2>1
  <2>5. ~\E s \in Servers : next'[s] > NbFiles + 1
    BY <1>0, <2>1, <2>3, <2>4 DEF Writes
  <2> QED
    BY <1>0, <1>1, <2>1, <2>2, <2>3, <2>4, <2>5 DEF Writes
<1>8. ASSUME NEW s \in Servers, Leave(s) PROVE Writes'
  <2>1. /\ next[s] = NbFiles + 1 /\ next[0] > NbFiles
        /\ next' = [next EXCEPT ![s] = @ + 1] /\ UNCHANGED <<from, files>>
    BY <1>0, <1>8 DEF Leave, LastBarrier
  <2> QED
    BY <1>0, <1>1, <2>1 DEF Writes
<1> QED
  BY <1>2, <1>3, <1>4, <1>5, <1>6, <1>7, <1>8 DEF OutputNext, melissa_write_stats_seq

-----------------------------------------------------------------------------
(* Sequences whose elements are known.                                       *)

LEMMA AppendTo ==
    ASSUME NEW n \in Nat, NEW g, NEW q, q = [k \in 1 .. n |-> g[k]], NEW e
    PROVE  Append(q, e) = [k \in 1 .. n + 1 |-> IF k = n + 1 THEN e ELSE g[k]] /\ Len(q) = n
<1> DEFINE S == {g[k] : k \in 1 .. n} \cup {e}
<1>1. e \in S /\ \A k \in 1 .. n : g[k] \in S
  OBVIOUS
<1> HIDE DEF S
<1>2. q \in [1 .. n -> S]
  BY <1>1
<1>3. q \in Seq(S) /\ Len(q) = n /\ \A k \in 1 .. n : q[k] = g[k]
  BY <1>2
<1> DEFINE a == Append(q, e)
<1>4. /\ a \in Seq(S) /\ Len(a) = n + 1
      /\ \A k \in 1 .. n : a[k] = q[k]
      /\ a[n + 1] = e
  BY <1>1, <1>3, AppendPlaces
<1> HIDE DEF a
<1>5. a = [k \in 1 .. n + 1 |-> a[k]]
  BY <1>4
<1>6. \A k \in 1 .. n + 1 : a[k] = IF k = n + 1 THEN e ELSE g[k]
  BY <1>3, <1>4
<1> QED
  BY <1>3, <1>5, <1>6 DEF a

LEMMA TakeFrom ==
    ASSUME NEW n \in Nat \ {0}, NEW g, NEW q, q = [k \in 1 .. n |-> g[k]]
    PROVE  Head(q) = g[1] /\ Tail(q) = [k \in 1 .. n - 1 |-> g[k + 1]]
<1> DEFINE S == {g[k] : k \in 1 .. n}
<1>1. \A k \in 1 .. n : g[k] \in S
  OBVIOUS
<1> HIDE DEF S
<1>2. q \in [1 .. n -> S]
  BY <1>1
<1>3. q \in Seq(S) /\ Len(q) = n /\ q # <<>> /\ \A k \in 1 .. n : q[k] = g[k]
  BY <1>2
<1> DEFINE a == Tail(q)
<1>4. a \in Seq(S) /\ Len(a) = n - 1 /\ \A k \in 1 .. n - 1 : a[k] = q[k + 1]
  BY <1>3, HeadTailProperties
<1>5. Head(q) = g[1]
  BY <1>3
<1> HIDE DEF a
<1>6. a = [k \in 1 .. n - 1 |-> a[k]]
  BY <1>4
<1>7. \A k \in 1 .. n - 1 : k + 1 \in 1 .. n
  OBVIOUS
<1>8. \A k \in 1 .. n - 1 : a[k] = g[k + 1]
  BY <1>3, <1>4, <1>7
<1> QED
  BY <1>5, <1>6, <1>8 DEF a

-----------------------------------------------------------------------------
(* The writing of the files.                                                 *)

Cap(x) == IF x <= NbFiles THEN x ELSE NbFiles + 1

\* the file of the next message rank 0 takes from rank s, and how many wait
Awaited(s) == next[0] + (IF from > s THEN 1 ELSE 0)
NbWaiting(s) ==
    IF s > 0 /\ vect_size[s] > 0 /\ next[0] > 0 THEN Cap(next[s]) - Cap(Awaited(s)) ELSE 0

Types ==
    /\ eager \in BOOLEAN
    /\ next \in [Servers -> 0 .. NbFiles + 2]
    /\ vect_size \in [Servers -> Nat]
    /\ DOMAIN channel = Servers /\ DOMAIN buffer = Servers
    /\ \A s \in Servers : buffer[s] = [k \in 1 .. global_vect_size |-> buffer[s][k]]
    /\ from \in 0 .. nb_proc_server

\* the sizes are shared once all messages are there, and nothing is done before
\* they are
Shared ==
    /\ (\E s \in Servers : next[s] > 0) => Ready
    /\ \A s \in Servers : vect_size[s] = IF next[s] > 0 THEN server_vect_size(s) ELSE 0
    /\ (\E s \in Servers : next[s] = 0) => from = 0 /\ \A s \in Servers : next[s] <= 1

\* what waits for rank 0 is what it awaits
Waiting ==
    \A s \in Servers :
        /\ NbWaiting(s) \in Nat
        /\ channel[s] = [k \in 1 .. NbWaiting(s) |-> Piece(s, Awaited(s) + k - 1)]

\* the last file a rank took part in is not of a later statistic than that of rank 0
InStep == \A s \in Servers : next[s] >= 2 => OpOf(next[0]) >= OpOf(next[s] - 1)

\* the buffer of rank 0 is whole up to the offset, and so are the files
Whole(seq, f, n) == \A k \in 1 .. n : seq[k] = <<f, k>>
Gathered0 ==
    /\ from = 0 => temp_offset = 0
    /\ from > 0 => temp_offset = First(from - 1) /\ Whole(buffer[0], next[0], First(from))
    /\ FilesAreWhole

Writing == Writes /\ Types /\ Shared /\ Waiting /\ InStep /\ Gathered0

\* The ranks have shares of the field that follow one another.
LEMMA Shares ==
    ASSUME Redistributed
    PROVE  /\ nb_proc_server \in Nat \ {0} /\ global_vect_size \in Nat /\ 0 \in Servers
           /\ First(0) = 0 /\ First(nb_proc_server) = global_vect_size
           /\ \A s \in 0 .. nb_proc_server : First(s) \in Nat /\ First(s) <= global_vect_size
           /\ \A s \in Servers : /\ s \in 0 .. nb_proc_server - 1
                                 /\ First(s) \in Nat /\ First(s) <= global_vect_size
                                 /\ First(s + 1) \in Nat /\ First(s + 1) <= global_vect_size
                                 /\ server_vect_size(s) \in Nat
                                 /\ server_vect_size(s) <= global_vect_size
                                 /\ First(s + 1) = First(s) + server_vect_size(s)
<1>1. PICK n \in Nat \ {0} : Layout(n)
  BY FieldLayout DEF Redistributed, IInv
<1>2. /\ nb_proc_server \in Nat \ {0} /\ global_vect_size \in Nat
      /\ First(0) = 0 /\ First(nb_proc_server) = global_vect_size
      /\ \A s \in Servers : server_vect_size(s) \in Nat /\ First(s + 1) = First(s) + server_vect_size(s)
  BY <1>1 DEF Layout
<1>3. /\ \A s \in 0 .. nb_proc_server : First(s) \in Nat /\ First(s) <= global_vect_size
      /\ \A s \in Servers : /\ s \in 0 .. nb_proc_server - 1 /\ s \in 0 .. nb_proc_server
                            /\ s + 1 \in 0 .. nb_proc_server
  BY <1>1, Places
<1>4. ASSUME NEW s \in Servers
      PROVE  /\ First(s) \in Nat /\ First(s) <= global_vect_size
             /\ First(s + 1) \in Nat /\ First(s + 1) <= global_vect_size
             /\ server_vect_size(s) <= global_vect_size
  <2>1. /\ First(s) \in Nat /\ First(s) <= global_vect_size
        /\ First(s + 1) \in Nat /\ First(s + 1) <= global_vect_size
    BY <1>3
  <2> QED
    BY <1>2, <2>1
<1>5. 0 \in Servers
  BY <1>2 DEF Servers
<1> QED
  BY <1>2, <1>3, <1>4, <1>5

\* The shares do not change.
LEMMA SharesStay ==
    ASSUME UNCHANGED confVars
    PROVE  /\ Servers' = Servers /\ nb_proc_server' = nb_proc_server
           /\ global_vect_size' = global_vect_size
           /\ \A s : server_vect_size(s)' = server_vect_size(s) /\ First(s)' = First(s)
           /\ \A s, f : Piece(s, f)' = Piece(s, f)
<1>1. /\ Servers' = Servers /\ nb_proc_server' = nb_proc_server
      /\ global_vect_size' = global_vect_size
  BY DEF confVars, Servers, global_vect_size
<1>2. \A s : server_vect_size(s)' = server_vect_size(s)
  BY <1>1 DEF server_vect_size
<1>3. \A s : First(s)' = First(s)
  BY <1>1, <1>2 DEF First, Sizes
<1> QED
  BY <1>1, <1>2, <1>3 DEF Piece

LEMMA CapFacts ==
    ASSUME NEW x \in Nat
    PROVE  /\ Cap(x) \in Nat /\ Cap(x) <= NbFiles + 1 /\ NbFiles \in Nat
           /\ x <= NbFiles + 1 => Cap(x) = x
           /\ x > NbFiles => Cap(x) = NbFiles + 1
           /\ Cap(x) <= NbFiles => Cap(x) = x
  BY FilesInOrder DEF Cap

LEMMA WritingInit == ASSUME OutputInit, Redistributed PROVE Writing
<1>1. /\ nb_proc_server \in Nat \ {0} /\ 0 \in Servers
  BY Shares
<1>2. /\ next = [s \in Servers |-> 0] /\ vect_size = [s \in Servers |-> 0]
      /\ channel = [s \in Servers |-> <<>>]
      /\ buffer = [s \in Servers |-> [k \in 1 .. global_vect_size |-> Garbage]]
      /\ from = 0 /\ temp_offset = 0 /\ files = <<>> /\ eager \in BOOLEAN
  BY DEF OutputInit
<1>3. \A s \in Servers : next[s] = 0 /\ vect_size[s] = 0 /\ channel[s] = <<>>
  BY <1>2
<1>4. NbFiles \in Nat
  BY FilesInOrder
<1>5. Types
  BY <1>1, <1>2, <1>4 DEF Types
<1>6. Shared
  BY <1>2, <1>3 DEF Shared
<1>7. Waiting
  <2> SUFFICES ASSUME NEW s \in Servers
               PROVE  /\ NbWaiting(s) \in Nat
                      /\ channel[s] = [k \in 1 .. NbWaiting(s) |-> Piece(s, Awaited(s) + k - 1)]
    BY DEF Waiting
  <2>1. NbWaiting(s) = 0 /\ 1 .. 0 = {}
    BY <1>3 DEF NbWaiting
  <2> QED
    BY <1>3, <2>1
<1>8. InStep
  BY <1>3 DEF InStep
<1>9. Gathered0
  BY <1>2 DEF Gathered0, FilesAreWhole
<1>10. Writes
  BY WritesInit
<1> QED
  BY <1>5, <1>6, <1>7, <1>8, <1>9, <1>10 DEF Writing

\* While rank 0 is not past the first barrier nothing waits.
LEMMA NobodyWaits ==
    ASSUME Redistributed, Writing, \E s \in Servers : next[s] = 0
    PROVE  /\ from = 0 /\ \A s \in Servers : next[s] \in {0, 1} /\ NbWaiting(s) = 0 /\ channel[s] = <<>>
<1>1. from = 0 /\ \A s \in Servers : next[s] <= 1
  BY DEF Writing, Shared
<1>2. 0 \in Servers /\ NbFiles \in Nat /\ next \in [Servers -> Nat]
  BY Shares, FilesInOrder DEF Writing, Writes
<1>3. \A s \in Servers : next[s] \in {0, 1}
  BY <1>1, <1>2
<1>4. ASSUME NEW s \in Servers PROVE NbWaiting(s) = 0 /\ channel[s] = <<>>
  <2>1. Cap(1) = 1
    BY <1>2, CapFacts
  <2>2. vect_size[s] > 0 => next[s] = 1
    <3>1. vect_size[s] = IF next[s] > 0 THEN server_vect_size(s) ELSE 0
      BY DEF Writing, Shared
    <3> QED
      BY <1>3, <3>1
  <2>3. next[0] > 0 => Awaited(s) = 1
    <3>1. ~(from > s)
      BY <1>1, Shares
    <3>2. Awaited(s) = next[0] + 0
      BY <3>1 DEF Awaited
    <3> QED
      BY <1>2, <1>3, <3>2
  <2>4. NbWaiting(s) = 0
    <3>1. CASE s > 0 /\ vect_size[s] > 0 /\ next[0] > 0
      BY <2>1, <2>2, <2>3, <3>1 DEF NbWaiting
    <3>2. CASE ~(s > 0 /\ vect_size[s] > 0 /\ next[0] > 0)
      BY <3>2 DEF NbWaiting
    <3> QED
      BY <3>1, <3>2
  <2>5. channel[s] = [k \in 1 .. NbWaiting(s) |-> Piece(s, Awaited(s) + k - 1)]
    BY DEF Writing, Waiting
  <2>6. 1 .. 0 = {}
    OBVIOUS
  <2> QED
    BY <2>4, <2>5, <2>6
<1> QED
  BY <1>1, <1>3, <1>4

LEMMA FieldStays ==
    ASSUME UNCHANGED <<vars, eager>>
    PROVE  /\ Servers' = Servers /\ nb_proc_server' = nb_proc_server
           /\ global_vect_size' = global_vect_size
           /\ \A r : server_vect_size(r)' = server_vect_size(r) /\ First(r)' = First(r)
           /\ \A r, f : Piece(r, f)' = Piece(r, f)
           /\ Ready' = Ready
<1>1. UNCHANGED confVars /\ UNCHANGED vars
  BY DEF vars
<1> QED
  BY <1>1, SharesStay DEF Ready, Complete, vars, confVars, Clients

\* Once all ranks have shared their sizes, they are known.
LEMMA AllShared ==
    ASSUME Redistributed, Writing, \A r \in Servers : next[r] > 0
    PROVE  /\ Ready /\ NbFiles \in Nat
           /\ \A r \in Servers : /\ next[r] \in Nat \ {0} /\ next[r] <= NbFiles + 2
                                 /\ vect_size[r] = server_vect_size(r)
                                 /\ DOMAIN buffer[r] = 1 .. global_vect_size
<1>1. 0 \in Servers /\ NbFiles \in Nat
  BY Shares, FilesInOrder
<1>2. next \in [Servers -> 0 .. NbFiles + 2]
  BY DEF Writing, Types
<1>3. \A r \in Servers : next[r] \in Nat \ {0} /\ next[r] <= NbFiles + 2
  BY <1>1, <1>2
<1> QED
  BY <1>1, <1>3 DEF Writing, Types, Shared

\* A rank leaves the loop of the server.
LEMMA WritingLeaveLoop ==
    ASSUME Redistributed, Writing, UNCHANGED <<vars, eager>>, NEW s \in Servers, LeaveLoop(s)
    PROVE  (Types /\ Shared /\ Waiting /\ InStep /\ Gathered0)'
<1>0. /\ Servers' = Servers /\ nb_proc_server' = nb_proc_server
      /\ global_vect_size' = global_vect_size
      /\ \A r : server_vect_size(r)' = server_vect_size(r) /\ First(r)' = First(r)
      /\ \A r, f : Piece(r, f)' = Piece(r, f)
      /\ Ready' = Ready
  BY FieldStays
<1>1. /\ Ready /\ next[s] = 0 /\ next' = [next EXCEPT ![s] = 1]
      /\ UNCHANGED <<channel, buffer, from, temp_offset, files>>
  BY DEF LeaveLoop, Ready
<1>2. vect_size' = [vect_size EXCEPT ![s] = server_vect_size(s)]
  <2>1. 0 \in Steps
    BY <1>1, RedistributionAssumption DEF Steps, Ready
  <2>2. SumFunction([c \in Clients |-> Len(Part(s, 0, c))]) = server_vect_size(s)
    BY <1>1, <2>1, PieceOfServer
  <2> QED
    BY <2>2 DEF LeaveLoop
<1>3. /\ from = 0 /\ \A r \in Servers : next[r] \in {0, 1} /\ channel[r] = <<>>
  BY <1>1, NobodyWaits
<1>4. /\ 0 \in Servers /\ NbFiles \in Nat /\ \A r \in Servers : server_vect_size(r) \in Nat
      /\ next \in [Servers -> Nat] /\ vect_size \in [Servers -> Nat]
      /\ \A r \in Servers : vect_size[r] = IF next[r] > 0 THEN server_vect_size(r) ELSE 0
  BY Shares, FilesInOrder DEF Writing, Types, Shared, Writes
<1>5. \A r \in Servers : /\ next'[r] \in {0, 1}
                         /\ vect_size'[r] = IF next'[r] > 0 THEN server_vect_size(r) ELSE 0
  BY <1>1, <1>2, <1>3, <1>4
<1>6. Types'
  <2>1. next' \in [Servers -> 0 .. NbFiles + 2] /\ vect_size' \in [Servers -> Nat]
    BY <1>1, <1>2, <1>4 DEF Writing, Types
  <2> QED
    BY <1>0, <1>1, <2>1 DEF Writing, Types
<1>7. Shared'
  BY <1>0, <1>1, <1>3, <1>5 DEF Shared
<1>8. Waiting'
  <2> SUFFICES ASSUME NEW r \in Servers
               PROVE  /\ NbWaiting(r)' \in Nat
                      /\ channel'[r] = [k \in 1 .. NbWaiting(r)' |-> Piece(r, Awaited(r)' + k - 1)]
    BY <1>0 DEF Waiting
  <2>1. Cap(1) = 1
    BY <1>4, CapFacts
  <2>2. vect_size'[r] > 0 => next'[r] = 1
    BY <1>5
  <2>3. next'[0] > 0 => Awaited(r)' = 1
    <3>1. ~(from' > r)
      BY <1>1, <1>3, Shares
    <3>2. Awaited(r)' = next'[0] + 0
      BY <3>1 DEF Awaited
    <3> QED
      BY <1>4, <1>5, <3>2
  <2>4. NbWaiting(r)' = 0
    <3>1. CASE r > 0 /\ vect_size'[r] > 0 /\ next'[0] > 0
      <4>1. NbWaiting(r)' = Cap(1) - Cap(1)
        BY <2>2, <2>3, <3>1 DEF NbWaiting, Cap
      <4> QED
        BY <2>1, <4>1
    <3>2. CASE ~(r > 0 /\ vect_size'[r] > 0 /\ next'[0] > 0)
      BY <3>2 DEF NbWaiting
    <3> QED
      BY <3>1, <3>2
  <2>5. channel'[r] = <<>> /\ 1 .. 0 = {}
    BY <1>1, <1>3
  <2> QED
    BY <2>4, <2>5
<1>9. InStep'
  BY <1>0, <1>5 DEF InStep
<1>10. Gathered0'
  BY <1>0, <1>1, <1>3 DEF Writing, Gathered0, FilesAreWhole
<1> QED
  BY <1>6, <1>7, <1>8, <1>9, <1>10

\* A rank sends its part of a file.
LEMMA WritingSendPart ==
    ASSUME Redistributed, Writing, UNCHANGED <<vars, eager>>, NEW s \in Servers, SendPart(s)
    PROVE  (Types /\ Shared /\ Waiting /\ InStep /\ Gathered0)'
<1> DEFINE f == next[s]
           N == global_vect_size
<1>0. /\ Servers' = Servers /\ nb_proc_server' = nb_proc_server
      /\ global_vect_size' = global_vect_size
      /\ \A r : server_vect_size(r)' = server_vect_size(r) /\ First(r)' = First(r)
      /\ \A r, g : Piece(r, g)' = Piece(r, g)
      /\ Ready' = Ready
  BY FieldStays
<1>1. /\ s # 0 /\ f \in 1 .. NbFiles
      /\ \A r \in Servers : next[r] > 0 /\ OpOf(next[r]) >= OpOf(f)
      /\ next' = [next EXCEPT ![s] = @ + 1]
      /\ UNCHANGED <<vect_size, from, temp_offset, files>>
  BY DEF SendPart, Barrier
<1>2. /\ Ready /\ NbFiles \in Nat
      /\ \A r \in Servers : /\ next[r] \in Nat \ {0} /\ next[r] <= NbFiles + 2
                            /\ vect_size[r] = server_vect_size(r)
                            /\ DOMAIN buffer[r] = 1 .. N
  BY <1>1, AllShared
<1>3. /\ 0 \in Servers /\ N \in Nat /\ \A r \in Servers : server_vect_size(r) \in Nat /\ r \in Nat
  BY Shares DEF Servers
<1>4. /\ buffer' = [buffer EXCEPT ![s] = memcpy(s, f)]
      /\ channel' = [channel EXCEPT ![s] =
            IF Sends(s) THEN Append(@, SubSeq(buffer'[s], 1, vect_size[s])) ELSE @]
      /\ DOMAIN buffer = Servers /\ DOMAIN channel = Servers /\ next \in [Servers -> Nat]
  BY DEF SendPart, Writing, Types, Writes
<1>5. /\ memcpy(s, f) = [k \in 1 .. N |->
             IF k \in 1 .. server_vect_size(s) THEN <<f, First(s) + k>> ELSE buffer[s][k]]
      /\ SubSeq(memcpy(s, f), 1, server_vect_size(s)) = Piece(s, f)
  BY <1>1, <1>2, Copied
<1>6. /\ next'[s] = f + 1 /\ next'[0] = next[0]
      /\ \A r \in Servers : next'[r] > 0 /\ (r # s => next'[r] = next[r])
  BY <1>1, <1>2, <1>3, <1>4
<1>7. Types'
  <2> DEFINE m == memcpy(s, f)
  <2>1. m = [k \in 1 .. N |-> m[k]]
    <3> DEFINE e(k) == IF k \in 1 .. server_vect_size(s) THEN <<f, First(s) + k>> ELSE buffer[s][k]
    <3>1. m = [k \in 1 .. N |-> e(k)]
      BY <1>5
    <3> HIDE DEF m, e
    <3> QED
      BY <3>1
  <2> HIDE DEF m
  <2>2. buffer' = [buffer EXCEPT ![s] = m]
    BY <1>4 DEF m
  <2>3. \A r \in Servers : buffer'[r] = [k \in 1 .. N |-> buffer'[r][k]]
    <3> TAKE r \in Servers
    <3>1. CASE r = s
      BY <1>4, <2>1, <2>2, <3>1
    <3>2. CASE r # s
      <4>1. buffer'[r] = buffer[r]
        BY <1>4, <2>2, <3>2
      <4> QED
        BY <4>1 DEF Writing, Types
    <3> QED
      BY <3>1, <3>2
  <2>4. next' \in [Servers -> 0 .. NbFiles + 2]
    <3>1. next'[s] \in 0 .. NbFiles + 2
      BY <1>1, <1>2, <1>6
    <3> QED
      BY <1>1, <1>6, <3>1 DEF Writing, Types
  <2>5. DOMAIN channel' = Servers /\ DOMAIN buffer' = Servers
    BY <1>4
  <2> QED
    BY <1>0, <1>1, <2>3, <2>4, <2>5 DEF Writing, Types
<1>8. Shared'
  BY <1>0, <1>1, <1>2, <1>6 DEF Shared
<1>9. Waiting'
  <2> SUFFICES ASSUME NEW r \in Servers
               PROVE  /\ NbWaiting(r)' \in Nat
                      /\ channel'[r] = [k \in 1 .. NbWaiting(r)' |-> Piece(r, Awaited(r)' + k - 1)]
    BY <1>0 DEF Waiting
  <2>0. Awaited(r)' = Awaited(r) /\ Awaited(r) \in Nat
    <3>1. next'[0] = next[0] /\ next[0] \in Nat /\ from' = from
      BY <1>1, <1>2, <1>3, <1>6
    <3> QED
      BY <3>1 DEF Awaited
  <2>1. NbWaiting(r) \in Nat /\ channel[r] = [k \in 1 .. NbWaiting(r) |-> Piece(r, Awaited(r) + k - 1)]
    BY DEF Writing, Waiting
  <2>2. CASE r # s \/ vect_size[s] = 0
    <3>1. channel'[r] = channel[r]
      BY <1>4, <2>2 DEF Sends
    <3>2. NbWaiting(r)' = NbWaiting(r)
      <4>1. CASE r # s
        BY <1>1, <1>6, <2>0, <4>1 DEF NbWaiting, Cap
      <4>2. CASE r = s /\ vect_size[s] = 0
        BY <1>1, <4>2 DEF NbWaiting
      <4> QED
        BY <2>2, <4>1, <4>2
    <3> QED
      BY <2>0, <2>1, <3>1, <3>2
  <2>3. CASE r = s /\ vect_size[s] > 0
    <3> DEFINE A == Awaited(s)
               w == NbWaiting(s)
               g == [k \in 1 .. w |-> Piece(s, A + k - 1)]
    <3>1. w = Cap(f) - Cap(A) /\ w \in Nat
      BY <1>1, <1>2, <1>3, <2>1, <2>3 DEF NbWaiting
    <3>2. NbWaiting(s)' = Cap(f + 1) - Cap(A)
      <4>1. s > 0 /\ next'[0] > 0 /\ vect_size'[s] > 0
        BY <1>1, <1>3, <1>6, <2>3
      <4> QED
        BY <1>6, <2>0, <2>3, <4>1 DEF NbWaiting, Cap
    <3>3. Cap(f) = f /\ Cap(f + 1) = f + 1 /\ Cap(A) = A /\ A \in Nat /\ f \in Nat
      <4>1. f \in Nat /\ f + 1 \in Nat /\ f <= NbFiles + 1 /\ f + 1 <= NbFiles + 1 /\ A \in Nat
        BY <1>1, <1>2, <2>0, <2>3
      <4>2. Cap(f) = f /\ Cap(f + 1) = f + 1
        BY <4>1, CapFacts
      <4>3. Cap(A) \in Nat /\ (Cap(A) <= NbFiles => Cap(A) = A)
        BY <4>1, CapFacts
      <4>4. Cap(A) <= NbFiles
        BY <1>1, <1>2, <3>1, <4>2, <4>3
      <4> QED
        BY <4>1, <4>2, <4>3, <4>4
    <3> HIDE DEF A, w
    <3>4. NbWaiting(s)' = w + 1 /\ A + (w + 1) - 1 = f /\ w \in Nat
      BY <3>1, <3>2, <3>3
    <3>5. channel'[s] = Append(channel[s], Piece(s, f))
      <4>1. buffer'[s] = memcpy(s, f)
        BY <1>4
      <4>2. channel'[s] = Append(channel[s], SubSeq(buffer'[s], 1, vect_size[s]))
        BY <1>4, <2>3 DEF Sends
      <4> QED
        BY <1>2, <1>5, <4>1, <4>2
    <3>6. channel[s] = g
      BY <2>1, <2>3 DEF A, w
    <3>7. channel'[s] = [k \in 1 .. w + 1 |-> IF k = w + 1 THEN Piece(s, f) ELSE g[k]]
      <4>1. g = [k \in 1 .. w |-> g[k]]
        OBVIOUS
      <4> HIDE DEF g
      <4>2. channel[s] = [k \in 1 .. w |-> g[k]]
        BY <3>6, <4>1
      <4> QED
        BY <3>4, <3>5, <4>2, AppendTo
    <3>8. \A k \in 1 .. w + 1 : (IF k = w + 1 THEN Piece(s, f) ELSE g[k]) = Piece(s, A + k - 1)
      <4> TAKE k \in 1 .. w + 1
      <4>1. CASE k = w + 1
        BY <3>4, <4>1
      <4>2. CASE k # w + 1
        <5>1. k \in 1 .. w
          BY <3>4, <4>2
        <5> QED
          BY <4>2, <5>1
      <4> QED
        BY <4>1, <4>2
    <3>9. channel'[s] = [k \in 1 .. w + 1 |-> Piece(s, A + k - 1)]
      <4> HIDE DEF g
      <4> QED
        BY <3>7, <3>8
    <3> QED
      BY <2>0, <2>3, <3>4, <3>9 DEF A
  <2> QED
    BY <1>2, <1>3, <2>2, <2>3
<1>10. InStep'
  <2> SUFFICES ASSUME NEW r \in Servers, next'[r] >= 2
               PROVE  OpOf(next'[0]) >= OpOf(next'[r] - 1)
    BY <1>0 DEF InStep, OpOf
  <2>1. CASE r = s
    <3>1. next'[r] - 1 = f /\ OpOf(next[0]) >= OpOf(f)
      BY <1>1, <1>3, <1>6, <2>1
    <3> QED
      BY <1>6, <3>1
  <2>2. CASE r # s
    <3>1. next'[r] = next[r]
      BY <1>6, <2>2
    <3>2. OpOf(next[0]) >= OpOf(next[r] - 1)
      BY <3>1 DEF Writing, InStep
    <3> QED
      BY <1>6, <3>1, <3>2
  <2> QED
    BY <2>1, <2>2
<1>11. Gathered0'
  <2>1. buffer'[0] = buffer[0]
    BY <1>1, <1>3, <1>4
  <2> QED
    BY <1>0, <1>1, <1>6, <2>1 DEF Writing, Gathered0, FilesAreWhole, Whole
<1> QED
  BY <1>7, <1>8, <1>9, <1>10, <1>11

\* Rank 0 begins a file with its own part.
LEMMA WritingCopyPart ==
    ASSUME Redistributed, Writing, UNCHANGED <<vars, eager>>, CopyPart
    PROVE  (Types /\ Shared /\ Waiting /\ InStep /\ Gathered0)'
<1> DEFINE f == next[0]
           N == global_vect_size
           m == memcpy(0, f)
           e(k) == IF k \in 1 .. server_vect_size(0) THEN <<f, First(0) + k>> ELSE buffer[0][k]
<1>0. /\ Servers' = Servers /\ nb_proc_server' = nb_proc_server
      /\ global_vect_size' = global_vect_size
      /\ \A r : server_vect_size(r)' = server_vect_size(r) /\ First(r)' = First(r)
      /\ \A r, g : Piece(r, g)' = Piece(r, g)
      /\ Ready' = Ready
  BY FieldStays
<1>1. /\ f \in 1 .. NbFiles /\ from = 0
      /\ \A r \in Servers : next[r] > 0
      /\ buffer' = [buffer EXCEPT ![0] = m] /\ from' = 1
      /\ UNCHANGED <<next, vect_size, channel, temp_offset, files>>
  BY DEF CopyPart, Barrier
<1>2. /\ Ready /\ NbFiles \in Nat
      /\ \A r \in Servers : vect_size[r] = server_vect_size(r) /\ DOMAIN buffer[r] = 1 .. N
  BY <1>1, AllShared
<1>3. /\ 0 \in Servers /\ N \in Nat /\ nb_proc_server \in Nat \ {0} /\ First(0) = 0
      /\ First(1) = First(0) + server_vect_size(0) /\ First(1) <= N /\ server_vect_size(0) \in Nat
      /\ \A r \in Servers : r \in Nat
  <2>1. First(0 + 1) = First(0) + server_vect_size(0) /\ First(0 + 1) <= N /\ 0 + 1 = 1
    BY Shares
  <2> QED
    BY <2>1, Shares DEF Servers
<1>4. m = [k \in 1 .. N |-> e(k)]
  BY <1>1, <1>2, <1>3, Copied
<1> HIDE DEF m
<1>5. DOMAIN buffer = Servers /\ buffer'[0] = m /\ \A r \in Servers : r # 0 => buffer'[r] = buffer[r]
  BY <1>1, <1>3 DEF Writing, Types
<1>6. Types'
  <2>1. m = [k \in 1 .. N |-> m[k]]
    <3> HIDE DEF e
    <3> QED
      BY <1>4
  <2>2. \A r \in Servers : buffer'[r] = [k \in 1 .. N |-> buffer'[r][k]]
    <3> TAKE r \in Servers
    <3>1. CASE r = 0
      BY <1>5, <2>1, <3>1
    <3>2. CASE r # 0
      BY <1>5, <3>2 DEF Writing, Types
    <3> QED
      BY <3>1, <3>2
  <2>3. DOMAIN buffer' = Servers /\ from' \in 0 .. nb_proc_server
    BY <1>1, <1>3, <1>5
  <2> QED
    BY <1>0, <1>1, <2>2, <2>3 DEF Writing, Types
<1>7. Shared'
  BY <1>0, <1>1, <1>2 DEF Writing, Shared
<1>8. Waiting'
  <2> SUFFICES ASSUME NEW r \in Servers
               PROVE  /\ NbWaiting(r)' \in Nat
                      /\ channel'[r] = [k \in 1 .. NbWaiting(r)' |-> Piece(r, Awaited(r)' + k - 1)]
    BY <1>0 DEF Waiting
  <2>1. NbWaiting(r) \in Nat /\ channel[r] = [k \in 1 .. NbWaiting(r) |-> Piece(r, Awaited(r) + k - 1)]
    BY DEF Writing, Waiting
  <2>2. CASE r > 0
    <3>1. Awaited(r)' = Awaited(r)
      BY <1>1, <1>3, <2>2 DEF Awaited
    <3>2. NbWaiting(r)' = NbWaiting(r)
      BY <1>1, <3>1 DEF NbWaiting, Cap
    <3> QED
      BY <1>1, <2>1, <3>1, <3>2
  <2>3. CASE ~(r > 0)
    <3>1. NbWaiting(r)' = 0 /\ NbWaiting(r) = 0 /\ 1 .. 0 = {}
      BY <2>3 DEF NbWaiting
    <3> QED
      BY <1>1, <2>1, <3>1
  <2> QED
    BY <2>2, <2>3
<1>9. InStep'
  BY <1>0, <1>1 DEF Writing, InStep, OpOf
<1>10. Gathered0'
  <2>1. temp_offset' = 0
    BY <1>1 DEF Writing, Gathered0
  <2>2. \A k \in 1 .. First(1) : m[k] = <<f, k>>
    <3> TAKE k \in 1 .. First(1)
    <3>1. k \in 1 .. N /\ k \in 1 .. server_vect_size(0) /\ First(0) + k = k
      BY <1>3
    <3>2. m[k] = e(k) /\ e(k) = <<f, First(0) + k>>
      BY <1>4, <3>1
    <3> QED
      BY <3>1, <3>2
  <2>3. Whole(buffer'[0], f, First(1))
    BY <1>5, <2>2 DEF Whole
  <2>4. temp_offset' = First(1 - 1)
    BY <1>3, <2>1
  <2>5. FilesAreWhole'
    BY <1>0, <1>1 DEF Writing, Gathered0, FilesAreWhole
  <2> QED
    BY <1>0, <1>1, <2>3, <2>4, <2>5 DEF Gathered0, Whole
<1> QED
  BY <1>6, <1>7, <1>8, <1>9, <1>10

\* Rank 0 puts the part of the next rank behind those it has.
LEMMA WritingReceivePart ==
    ASSUME Redistributed, Writing, UNCHANGED <<vars, eager>>, ReceivePart
    PROVE  (Types /\ Shared /\ Waiting /\ InStep /\ Gathered0)'
<1> DEFINE f == next[0]
           N == global_vect_size
           s == from
           w == NbWaiting(from)
           size == server_vect_size(from)
<1>0. /\ Servers' = Servers /\ nb_proc_server' = nb_proc_server
      /\ global_vect_size' = global_vect_size
      /\ \A r : server_vect_size(r)' = server_vect_size(r) /\ First(r)' = First(r)
      /\ \A r, g : Piece(r, g)' = Piece(r, g)
      /\ Ready' = Ready
  BY FieldStays
<1>1. /\ s \in 1 .. nb_proc_server - 1
      /\ from' = s + 1 /\ temp_offset' = Offset
      /\ UNCHANGED <<next, vect_size, files>>
  BY DEF ReceivePart
<1>2. /\ nb_proc_server \in Nat \ {0} /\ 0 \in Servers /\ N \in Nat
      /\ s \in Servers /\ s - 1 \in Servers /\ s \in Nat \ {0} /\ (s - 1) + 1 = s
      /\ \A r \in Servers : r \in Nat
  BY <1>1, Shares DEF Servers
<1>3. f \in 1 .. NbFiles /\ \A r \in Servers : next[r] > 0
  <2>1. f \in 1 .. NbFiles
    BY <1>2 DEF Writing, Writes
  <2>2. \A r \in Servers : next[r] # 0 /\ next[r] \in Nat
    BY <1>2 DEF Writing, Shared, Writes
  <2> QED
    BY <2>1, <2>2
<1>4. /\ Ready /\ NbFiles \in Nat
      /\ \A r \in Servers : /\ next[r] \in Nat \ {0}
                            /\ vect_size[r] = server_vect_size(r) /\ DOMAIN buffer[r] = 1 .. N
  BY <1>3, AllShared
<1>5. /\ size \in Nat /\ First(s) \in Nat /\ First(s + 1) = First(s) + size /\ First(s + 1) <= N
      /\ First(s) = First(s - 1) + server_vect_size(s - 1)
      /\ vect_size[s] = size /\ vect_size[s - 1] = server_vect_size(s - 1)
  BY <1>2, <1>4, Shares
<1>6. Offset = First(s)
  <2>1. temp_offset = First(s - 1)
    BY <1>2 DEF Writing, Gathered0
  <2> QED
    BY <1>5, <2>1 DEF Offset
<1>7. w \in Nat /\ channel[s] = [k \in 1 .. w |-> Piece(s, f + k - 1)] /\ Awaited(s) = f
  <2>1. Awaited(s) = f + 0 /\ f + 0 = f
    BY <1>2, <1>4 DEF Awaited
  <2> QED
    BY <1>2, <2>1 DEF Writing, Waiting
<1>8. Whole(buffer'[0], f, First(s + 1)) => (Shared /\ InStep /\ Gathered0)'
  <2> SUFFICES ASSUME Whole(buffer'[0], f, First(s + 1)) PROVE (Shared /\ InStep /\ Gathered0)'
    OBVIOUS
  <2>1. Shared'
    BY <1>0, <1>1, <1>3, <1>4 DEF Writing, Shared
  <2>2. InStep'
    BY <1>0, <1>1 DEF Writing, InStep, OpOf
  <2>3. FilesAreWhole'
    BY <1>0, <1>1 DEF Writing, Gathered0, FilesAreWhole
  <2>4. from' > 0 /\ temp_offset' = First(from' - 1) /\ next'[0] = f
    BY <1>1, <1>2, <1>6
  <2>5. \A k \in 1 .. First(from') : buffer'[0][k] = <<next'[0], k>>
    BY <1>1 DEF Whole
  <2>6. Gathered0'
    BY <1>0, <2>3, <2>4, <2>5 DEF Gathered0, Whole
  <2> QED
    BY <2>1, <2>2, <2>6
<1>9. CASE size > 0
  <2> DEFINE g == [k \in 1 .. w |-> Piece(s, f + k - 1)]
  <2>1. /\ channel[s] # <<>>
        /\ buffer' = [buffer EXCEPT ![0] = [k \in DOMAIN @ |->
               IF k - First(s) \in 1 .. size THEN Head(channel[s])[k - First(s)] ELSE @[k]]]
        /\ channel' = [channel EXCEPT ![s] = Tail(@)]
    BY <1>5, <1>6, <1>9 DEF ReceivePart
  <2>2. w # 0 /\ w \in Nat \ {0}
    <3>1. w = 0 => channel[s] = <<>>
      <4>1. 1 .. 0 = {}
        OBVIOUS
      <4> QED
        BY <1>7, <4>1
    <3> QED
      BY <1>7, <2>1, <3>1
  <2>3. w = Cap(next[s]) - Cap(f)
    BY <1>2, <1>3, <1>5, <1>7, <1>9 DEF NbWaiting
  <2> HIDE DEF w
  <2>4. Head(channel[s]) = Piece(s, f) /\ Tail(channel[s]) = [k \in 1 .. w - 1 |-> Piece(s, f + k)]
    <3>1. channel[s] = [k \in 1 .. w |-> g[k]]
      BY <1>7
    <3>2. /\ g[1] = Piece(s, f)
          /\ \A k \in 1 .. w - 1 : g[k + 1] = Piece(s, f + k)
      <4>1. f + 1 - 1 = f /\ 1 \in 1 .. w
        BY <1>3, <1>4, <2>2
      <4>2. ASSUME NEW k \in 1 .. w - 1 PROVE g[k + 1] = Piece(s, f + k)
        <5>1. k + 1 \in 1 .. w /\ f + (k + 1) - 1 = f + k
          BY <1>3, <1>4, <2>2
        <5>2. g[k + 1] = Piece(s, f + (k + 1) - 1)
          BY <5>1
        <5> QED
          BY <5>1, <5>2
      <4> QED
        BY <4>1, <4>2
    <3> HIDE DEF g
    <3>3. Head(channel[s]) = g[1] /\ Tail(channel[s]) = [k \in 1 .. w - 1 |-> g[k + 1]]
      BY <2>2, <3>1, TakeFrom
    <3> QED
      BY <3>2, <3>3
  <2>5. /\ DOMAIN buffer = Servers /\ DOMAIN channel = Servers
        /\ buffer[0] = [k \in 1 .. N |-> buffer[0][k]]
    BY <1>2 DEF Writing, Types
  <2>6. /\ DOMAIN buffer' = Servers /\ DOMAIN channel' = Servers
        /\ buffer'[0] = [k \in 1 .. N |->
               IF k - First(s) \in 1 .. size THEN Piece(s, f)[k - First(s)] ELSE buffer[0][k]]
        /\ \A r \in Servers : r # 0 => buffer'[r] = buffer[r]
        /\ channel'[s] = [k \in 1 .. w - 1 |-> Piece(s, f + k)]
        /\ \A r \in Servers : r # s => channel'[r] = channel[r]
    <3> DEFINE new == [k \in DOMAIN buffer[0] |->
                  IF k - First(s) \in 1 .. size THEN Head(channel[s])[k - First(s)] ELSE buffer[0][k]]
               rest == Tail(channel[s])
    <3>1. /\ buffer' = [buffer EXCEPT ![0] = new] /\ channel' = [channel EXCEPT ![s] = rest]
      BY <2>1
    <3> HIDE DEF new, rest
    <3>2. /\ DOMAIN buffer' = Servers /\ buffer'[0] = new
          /\ \A r \in Servers : r # 0 => buffer'[r] = buffer[r]
          /\ DOMAIN channel' = Servers /\ channel'[s] = rest
          /\ \A r \in Servers : r # s => channel'[r] = channel[r]
      BY <1>2, <2>5, <3>1
    <3>3. new = [k \in 1 .. N |->
               IF k - First(s) \in 1 .. size THEN Piece(s, f)[k - First(s)] ELSE buffer[0][k]]
      BY <1>2, <1>4, <2>4 DEF new
    <3> QED
      BY <2>4, <3>2, <3>3 DEF rest
  <2>7. Types'
    <3>1. \A r \in Servers : buffer'[r] = [k \in 1 .. N |-> buffer'[r][k]]
      <4> TAKE r \in Servers
      <4>1. CASE r = 0
        <5> DEFINE e(k) == IF k - First(s) \in 1 .. size THEN Piece(s, f)[k - First(s)]
                           ELSE buffer[0][k]
        <5>1. buffer'[0] = [k \in 1 .. N |-> e(k)]
          BY <2>6
        <5> HIDE DEF e
        <5> QED
          BY <4>1, <5>1
      <4>2. CASE r # 0
        <5>1. buffer'[r] = buffer[r]
          BY <2>6, <4>2
        <5> QED
          BY <5>1 DEF Writing, Types
      <4> QED
        BY <4>1, <4>2
    <3>2. from' \in 0 .. nb_proc_server
      BY <1>1, <1>2
    <3> QED
      BY <1>0, <1>1, <2>6, <3>1, <3>2 DEF Writing, Types
  <2>8. Waiting'
    <3> SUFFICES ASSUME NEW r \in Servers
                 PROVE  /\ NbWaiting(r)' \in Nat
                        /\ channel'[r] = [k \in 1 .. NbWaiting(r)' |-> Piece(r, Awaited(r)' + k - 1)]
      BY <1>0 DEF Waiting
    <3>0. NbWaiting(r) \in Nat /\ channel[r] = [k \in 1 .. NbWaiting(r) |-> Piece(r, Awaited(r) + k - 1)]
      BY DEF Writing, Waiting
    <3>1. CASE r = s
      <4>1. Awaited(r)' = f + 1
        BY <1>1, <1>2, <1>4, <3>1 DEF Awaited
      <4>2. NbWaiting(r)' = Cap(next[r]) - Cap(f + 1)
        <5>1. r > 0 /\ vect_size'[r] > 0 /\ next'[0] > 0
          BY <1>1, <1>2, <1>3, <1>5, <1>9, <3>1
        <5> QED
          BY <1>1, <4>1, <5>1 DEF NbWaiting, Cap
      <4>3. Cap(f) = f /\ Cap(f + 1) = f + 1 /\ Cap(next[s]) \in Nat /\ f \in Nat
        <5>1. f \in Nat /\ f + 1 \in Nat /\ f <= NbFiles + 1 /\ f + 1 <= NbFiles + 1 /\ next[s] \in Nat
          BY <1>2, <1>3, <1>4
        <5> QED
          BY <5>1, CapFacts
      <4>4. NbWaiting(r)' = w - 1 /\ w - 1 \in Nat
        BY <2>2, <2>3, <3>1, <4>2, <4>3
      <4>5. \A k \in 1 .. w - 1 : (f + 1) + k - 1 = f + k
        BY <2>2, <4>3
      <4>6. [k \in 1 .. w - 1 |-> Piece(s, f + k)] = [k \in 1 .. w - 1 |-> Piece(s, (f + 1) + k - 1)]
        BY <4>5
      <4> QED
        BY <2>6, <3>1, <4>1, <4>4, <4>6
    <3>2. CASE r # s
      <4>1. Awaited(r)' = Awaited(r)
        BY <1>1, <1>2, <3>2 DEF Awaited
      <4>2. NbWaiting(r)' = NbWaiting(r)
        BY <1>1, <4>1 DEF NbWaiting, Cap
      <4> QED
        BY <2>6, <3>0, <3>2, <4>1, <4>2
    <3> QED
      BY <3>1, <3>2
  <2>9. Whole(buffer'[0], f, First(s + 1))
    <3> SUFFICES ASSUME NEW k \in 1 .. First(s + 1) PROVE buffer'[0][k] = <<f, k>>
      BY DEF Whole
    <3> DEFINE lo == First(s)
    <3>1. lo \in Nat /\ size \in Nat /\ k \in 1 .. lo + size /\ k \in 1 .. N
      BY <1>2, <1>5
    <3>2. buffer'[0][k] = IF k - lo \in 1 .. size THEN Piece(s, f)[k - lo] ELSE buffer[0][k]
      BY <2>6, <3>1
    <3>3. \A j \in 1 .. size : Piece(s, f)[j] = <<f, lo + j>>
      BY DEF Piece
    <3>4. \A j \in 1 .. lo : buffer[0][j] = <<f, j>>
      BY <1>2 DEF Writing, Gathered0, Whole
    <3> HIDE DEF lo, size
    <3>5. CASE k - lo \in 1 .. size
      <4>1. lo + (k - lo) = k
        BY <3>1
      <4> QED
        BY <3>2, <3>3, <3>5, <4>1
    <3>6. CASE k - lo \notin 1 .. size
      <4>1. k \in 1 .. lo
        BY <3>1, <3>6
      <4> QED
        BY <3>2, <3>4, <3>6, <4>1
    <3> QED
      BY <3>5, <3>6
  <2> QED
    BY <2>7, <2>8, <2>9, <1>8
<1>10. CASE size = 0
  <2>1. UNCHANGED <<buffer, channel>>
    BY <1>5, <1>10 DEF ReceivePart
  <2>2. Types'
    <3>1. from' \in 0 .. nb_proc_server
      BY <1>1, <1>2
    <3> QED
      BY <1>0, <1>1, <2>1, <3>1 DEF Writing, Types
  <2>3. Waiting'
    <3> SUFFICES ASSUME NEW r \in Servers
                 PROVE  /\ NbWaiting(r)' \in Nat
                        /\ channel'[r] = [k \in 1 .. NbWaiting(r)' |-> Piece(r, Awaited(r)' + k - 1)]
      BY <1>0 DEF Waiting
    <3>0. NbWaiting(r) \in Nat /\ channel[r] = [k \in 1 .. NbWaiting(r) |-> Piece(r, Awaited(r) + k - 1)]
      BY DEF Writing, Waiting
    <3>1. CASE r = s
      <4>1. NbWaiting(r)' = 0 /\ NbWaiting(r) = 0 /\ 1 .. 0 = {}
        BY <1>1, <1>5, <1>10, <3>1 DEF NbWaiting
      <4> QED
        BY <2>1, <3>0, <4>1
    <3>2. CASE r # s
      <4>1. Awaited(r)' = Awaited(r)
        BY <1>1, <1>2, <3>2 DEF Awaited
      <4>2. NbWaiting(r)' = NbWaiting(r)
        BY <1>1, <4>1 DEF NbWaiting, Cap
      <4> QED
        BY <2>1, <3>0, <4>1, <4>2
    <3> QED
      BY <3>1, <3>2
  <2>4. Whole(buffer'[0], f, First(s + 1))
    <3>1. First(s + 1) = First(s)
      BY <1>5, <1>10
    <3>2. Whole(buffer[0], f, First(s))
      BY <1>2 DEF Writing, Gathered0
    <3> QED
      BY <2>1, <3>1, <3>2
  <2> QED
    BY <2>2, <2>3, <2>4, <1>8
<1> QED
  BY <1>5, <1>9, <1>10

\* Rank 0 writes the file.
LEMMA WritingOutput ==
    ASSUME Redistributed, Writing, UNCHANGED <<vars, eager>>, write_output
    PROVE  (Types /\ Shared /\ Waiting /\ InStep /\ Gathered0)'
<1> DEFINE f == next[0]
           N == global_vect_size
<1>0. /\ Servers' = Servers /\ nb_proc_server' = nb_proc_server
      /\ global_vect_size' = global_vect_size
      /\ \A r : server_vect_size(r)' = server_vect_size(r) /\ First(r)' = First(r)
      /\ \A r, g : Piece(r, g)' = Piece(r, g)
      /\ Ready' = Ready
  BY FieldStays
<1>1. /\ from > 0 /\ from = nb_proc_server
      /\ files' = Append(files, buffer[0])
      /\ next' = [next EXCEPT ![0] = @ + 1]
      /\ from' = 0 /\ temp_offset' = 0
      /\ UNCHANGED <<vect_size, channel, buffer>>
  BY DEF write_output
<1>2. /\ nb_proc_server \in Nat \ {0} /\ 0 \in Servers /\ N \in Nat /\ First(nb_proc_server) = N
      /\ \A r \in Servers : r \in Nat /\ r < nb_proc_server
  BY Shares DEF Servers
<1>3. f \in 1 .. NbFiles /\ Len(files) = f - 1 /\ \A r \in Servers : next[r] > 0
  <2>1. NbFiles \in Nat
    BY FilesInOrder
  <2>2. f \in 1 .. NbFiles /\ Len(files) = f - 1
    BY <1>1, <2>1 DEF Writing, Writes
  <2>3. \A r \in Servers : next[r] # 0 /\ next[r] \in Nat
    BY <1>1 DEF Writing, Shared, Writes
  <2> QED
    BY <2>2, <2>3
<1>4. /\ Ready /\ NbFiles \in Nat
      /\ \A r \in Servers : /\ next[r] \in Nat \ {0} /\ vect_size[r] = server_vect_size(r)
  BY <1>3, AllShared
<1>5. /\ next'[0] = f + 1 /\ \A r \in Servers : next'[r] > 0 /\ (r # 0 => next'[r] = next[r])
  BY <1>1, <1>2, <1>4 DEF Writing, Writes
<1>6. Types'
  <2>1. next' \in [Servers -> 0 .. NbFiles + 2]
    <3>1. f + 1 \in 0 .. NbFiles + 2
      BY <1>3, <1>4
    <3> QED
      BY <1>1, <3>1 DEF Writing, Types
  <2>2. from' \in 0 .. nb_proc_server
    BY <1>1, <1>2
  <2> QED
    BY <1>0, <1>1, <2>1, <2>2 DEF Writing, Types
<1>7. Shared'
  BY <1>0, <1>1, <1>4, <1>5 DEF Shared
<1>8. Waiting'
  <2> SUFFICES ASSUME NEW r \in Servers
               PROVE  /\ NbWaiting(r)' \in Nat
                      /\ channel'[r] = [k \in 1 .. NbWaiting(r)' |-> Piece(r, Awaited(r)' + k - 1)]
    BY <1>0 DEF Waiting
  <2>0. NbWaiting(r) \in Nat /\ channel[r] = [k \in 1 .. NbWaiting(r) |-> Piece(r, Awaited(r) + k - 1)]
    BY DEF Writing, Waiting
  <2>1. CASE r = 0
    <3>1. NbWaiting(r)' = 0 /\ NbWaiting(r) = 0 /\ 1 .. 0 = {}
      BY <2>1 DEF NbWaiting
    <3> QED
      BY <1>1, <2>0, <3>1
  <2>2. CASE r # 0
    <3>1. Awaited(r) = f + 1
      BY <1>1, <1>2 DEF Awaited
    <3>2. Awaited(r)' = f + 1
      <4>1. ~(from' > r) /\ f + 1 + 0 = f + 1
        BY <1>1, <1>2, <1>4
      <4> QED
        BY <1>5, <4>1 DEF Awaited
    <3>3. NbWaiting(r)' = NbWaiting(r)
      BY <1>1, <1>2, <1>4, <1>5, <2>2, <3>1, <3>2 DEF NbWaiting, Cap
    <3> QED
      BY <1>1, <2>0, <3>1, <3>2, <3>3
  <2> QED
    BY <2>1, <2>2
<1>9. InStep'
  <2>1. OpOf(f) \in Nat /\ OpOf(f + 1) \in Nat /\ OpOf(f) <= OpOf(f + 1)
    <3>1. f \in Nat \ {0} /\ f + 1 \in Nat \ {0} /\ f <= f + 1
      BY <1>3, <1>4
    <3> QED
      BY <3>1, OpOfGrows
  <2> SUFFICES ASSUME NEW r \in Servers, next'[r] >= 2
               PROVE  OpOf(next'[0]) >= OpOf(next'[r] - 1)
    BY <1>0 DEF InStep, OpOf
  <2>2. CASE r = 0
    <3>1. next'[r] - 1 = f
      BY <1>3, <1>4, <1>5, <2>2
    <3> QED
      BY <1>5, <2>1, <3>1
  <2>3. CASE r # 0
    <3>1. next'[r] = next[r] /\ next[r] - 1 \in Nat \ {0}
      BY <1>4, <1>5, <2>3
    <3>2. OpOf(f) >= OpOf(next[r] - 1)
      BY <3>1 DEF Writing, InStep
    <3>3. OpOf(next[r] - 1) \in Nat
      <4> DEFINE x == next[r] - 1
      <4>1. x \in Nat \ {0} /\ x <= x
        BY <3>1
      <4> HIDE DEF x
      <4>2. OpOf(x) \in Nat
        BY <4>1, OpOfGrows
      <4> QED
        BY <4>2 DEF x
    <3> QED
      BY <1>5, <2>1, <3>1, <3>2, <3>3
  <2> QED
    BY <2>2, <2>3
<1>10. FilesAreWhole'
  <2>1. buffer[0] = [k \in 1 .. N |-> <<f, k>>]
    <3>1. buffer[0] = [k \in 1 .. N |-> buffer[0][k]]
      BY <1>2 DEF Writing, Types
    <3>2. \A k \in 1 .. N : buffer[0][k] = <<f, k>>
      BY <1>1, <1>2 DEF Writing, Gathered0, Whole
    <3> QED
      BY <3>1, <3>2
  <2> DEFINE e == buffer[0]
             n == f - 1
  <2>2. files = [k \in 1 .. n |-> files[k]] /\ n \in Nat /\ n + 1 = f
    BY <1>3, <1>4 DEF Writing, Writes
  <2>3. files' = [k \in 1 .. n + 1 |-> IF k = n + 1 THEN e ELSE files[k]]
    <3> HIDE DEF n, e
    <3>1. Append(files, e) = [k \in 1 .. n + 1 |-> IF k = n + 1 THEN e ELSE files[k]]
      BY <2>2, AppendTo
    <3> QED
      BY <1>1, <3>1 DEF e
  <2>4. \A k \in 1 .. n : files[k] = [x \in 1 .. N |-> <<k, x>>]
    <3>1. DOMAIN files = 1 .. n
      BY <2>2
    <3> QED
      BY <3>1 DEF Writing, Gathered0, FilesAreWhole
  <2>5. \A k \in DOMAIN files' : files'[k] = [x \in 1 .. N |-> <<k, x>>]
    <3> TAKE k \in DOMAIN files'
    <3> HIDE DEF n, e
    <3>1. k \in 1 .. n + 1 /\ files'[k] = IF k = n + 1 THEN e ELSE files[k]
      BY <2>3
    <3>2. CASE k = n + 1
      BY <2>1, <2>2, <3>1, <3>2 DEF e
    <3>3. CASE k # n + 1
      <4>1. k \in 1 .. n
        BY <2>2, <3>1, <3>3
      <4> QED
        BY <2>4, <3>1, <3>3, <4>1
    <3> QED
      BY <3>2, <3>3
  <2> QED
    BY <1>0, <2>5 DEF FilesAreWhole
<1>11. Gathered0'
  BY <1>1, <1>10 DEF Gathered0
<1> QED
  BY <1>6, <1>7, <1>8, <1>9, <1>11

\* A rank passes the last barrier.
LEMMA WritingLeave ==
    ASSUME Redistributed, Writing, UNCHANGED <<vars, eager>>, NEW s \in Servers, Leave(s)
    PROVE  (Types /\ Shared /\ Waiting /\ InStep /\ Gathered0)'
<1>0. /\ Servers' = Servers /\ nb_proc_server' = nb_proc_server
      /\ global_vect_size' = global_vect_size
      /\ \A r : server_vect_size(r)' = server_vect_size(r) /\ First(r)' = First(r)
      /\ \A r, g : Piece(r, g)' = Piece(r, g)
      /\ Ready' = Ready
  BY FieldStays
<1>1. /\ next[s] = NbFiles + 1 /\ \A r \in Servers : next[r] > NbFiles
      /\ next' = [next EXCEPT ![s] = @ + 1]
      /\ UNCHANGED <<vect_size, channel, buffer, from, temp_offset, files>>
  BY DEF Leave, LastBarrier
<1>2. 0 \in Servers /\ NbFiles \in Nat /\ next \in [Servers -> Nat] /\ from \in Nat
  BY Shares, FilesInOrder DEF Writing, Writes
<1>3. \A r \in Servers : next[r] > 0
  BY <1>1, <1>2
<1>4. /\ Ready
      /\ \A r \in Servers : next[r] \in Nat \ {0} /\ vect_size[r] = server_vect_size(r)
  BY <1>3, AllShared
<1>5. from = 0
  <2>1. from > 0 => next[0] \in 1 .. NbFiles
    BY DEF Writing, Writes
  <2>2. next[0] > NbFiles /\ next[0] \in Nat
    BY <1>1, <1>2
  <2> QED
    BY <1>2, <2>1, <2>2
<1>6. /\ next'[s] = NbFiles + 2
      /\ \A r \in Servers : next'[r] \in Nat /\ next'[r] > NbFiles /\ (r # s => next'[r] = next[r])
  BY <1>1, <1>2
<1>7. Types'
  <2>1. next' \in [Servers -> 0 .. NbFiles + 2]
    <3>1. NbFiles + 2 \in 0 .. NbFiles + 2 /\ (NbFiles + 1) + 1 = NbFiles + 2
      BY <1>2
    <3> QED
      BY <1>1, <3>1 DEF Writing, Types
  <2> QED
    BY <1>0, <1>1, <2>1 DEF Writing, Types
<1>8. Shared'
  <2>1. \A r \in Servers : next'[r] > 0
    BY <1>2, <1>6
  <2> QED
    BY <1>0, <1>1, <1>4, <2>1 DEF Shared
<1>9. Waiting'
  <2> SUFFICES ASSUME NEW r \in Servers
               PROVE  /\ NbWaiting(r)' \in Nat
                      /\ channel'[r] = [k \in 1 .. NbWaiting(r)' |-> Piece(r, Awaited(r)' + k - 1)]
    BY <1>0 DEF Waiting
  <2>1. NbWaiting(r) \in Nat /\ channel[r] = [k \in 1 .. NbWaiting(r) |-> Piece(r, Awaited(r) + k - 1)]
    BY DEF Writing, Waiting
  <2>2. ~(from > r) /\ ~(from' > r)
    BY <1>1, <1>5 DEF Servers
  <2>3. Awaited(r) = next[0] /\ Awaited(r)' = next'[0]
    BY <1>2, <1>6, <2>2 DEF Awaited
  <2>4. /\ \A x \in Nat : x > NbFiles => Cap(x) = NbFiles + 1
    BY CapFacts
  <2>5. NbWaiting(r) = 0
    <3>1. Cap(next[r]) = NbFiles + 1 /\ Cap(next[0]) = NbFiles + 1
      BY <1>1, <1>2, <2>4
    <3> QED
      BY <1>2, <2>3, <3>1 DEF NbWaiting
  <2>6. NbWaiting(r)' = 0
    <3>1. Cap(next'[r]) = NbFiles + 1 /\ Cap(next'[0]) = NbFiles + 1
      BY <1>2, <1>6, <2>4
    <3>2. CASE r > 0 /\ vect_size'[r] > 0 /\ next'[0] > 0
      <4>1. NbWaiting(r)' = Cap(next'[r]) - Cap(next'[0])
        BY <2>3, <3>2 DEF NbWaiting, Cap
      <4> QED
        BY <1>2, <3>1, <4>1
    <3>3. CASE ~(r > 0 /\ vect_size'[r] > 0 /\ next'[0] > 0)
      BY <3>3 DEF NbWaiting
    <3> QED
      BY <3>2, <3>3
  <2>7. 1 .. 0 = {}
    OBVIOUS
  <2> QED
    BY <1>1, <2>1, <2>5, <2>6, <2>7
<1>10. InStep'
  <2> SUFFICES ASSUME NEW r \in Servers, next'[r] >= 2
               PROVE  OpOf(next'[0]) >= OpOf(next'[r] - 1)
    BY <1>0 DEF InStep, OpOf
  <2>1. next'[0] \in Nat \ {0} /\ next'[0] > NbFiles /\ next'[r] - 1 \in Nat \ {0}
    BY <1>2, <1>6
  <2>2. OpOf(next'[0]) = Len(Loops) + 1 /\ Len(Loops) \in Nat
    <3> DEFINE x == next'[0]
    <3>1. x \in Nat \ {0} /\ x <= x /\ x > NbFiles
      BY <2>1
    <3> HIDE DEF x
    <3>2. OpOf(x) = Len(Loops) + 1 /\ Len(Loops) \in Nat
      BY <3>1, OpOfGrows
    <3> QED
      BY <3>2 DEF x
  <2>3. OpOf(next'[r] - 1) \in Nat /\ OpOf(next'[r] - 1) <= Len(Loops) + 1
    <3> DEFINE x == next'[r] - 1
    <3>1. x \in Nat \ {0} /\ x <= x
      BY <2>1
    <3> HIDE DEF x
    <3>2. OpOf(x) \in Nat /\ OpOf(x) <= Len(Loops) + 1
      BY <3>1, OpOfGrows
    <3> QED
      BY <3>2 DEF x
  <2> QED
    BY <2>2, <2>3
<1>11. Gathered0'
  BY <1>0, <1>1, <1>5 DEF Writing, Gathered0, FilesAreWhole
<1> QED
  BY <1>7, <1>8, <1>9, <1>10, <1>11

\* The simulation goes on, before the files are written.
LEMMA WritingField ==
    ASSUME Redistributed, Writing, [Next]_vars, UNCHANGED <<eager, writerVars>>
    PROVE  (Types /\ Shared /\ Waiting /\ InStep /\ Gathered0)'
<1>1. UNCHANGED <<eager, next, vect_size, channel, buffer, from, temp_offset, files>>
  BY DEF writerVars
<1>2. UNCHANGED confVars
  BY DEF Next, CountCell, Rewind, FillCell, NextCell, Connect, Send, vars
<1>3. /\ Servers' = Servers /\ nb_proc_server' = nb_proc_server
      /\ global_vect_size' = global_vect_size
      /\ \A r : server_vect_size(r)' = server_vect_size(r) /\ First(r)' = First(r)
      /\ \A r, g : Piece(r, g)' = Piece(r, g)
  BY <1>2, SharesStay
<1>4. Ready => Ready'
  <2> SUFFICES ASSUME Ready PROVE Ready'
    OBVIOUS
  <2>1. phase = "send" /\ \A c \in Clients : timestamp[c] > NbSteps - 1
    BY DEF Ready, Complete
  <2>2. learning' = learning /\ Clients' = Clients
    BY <1>2 DEF confVars, Clients
  <2>3. CASE UNCHANGED vars
    BY <2>1, <2>2, <2>3 DEF Ready, Complete, vars
  <2>4. CASE Next
    <3>1. PICK d \in Clients : Send(d)
      BY <2>1, <2>4 DEF Next, CountCell, Rewind, FillCell, Connect
    <3>2. phase' = phase /\ timestamp' = [timestamp EXCEPT ![d] = @ + 1]
      BY <3>1 DEF Send
    <3>3. \A c \in Clients : timestamp'[c] > NbSteps - 1
      <4> TAKE c \in Clients
      <4>1. /\ timestamp \in [Clients -> 0 .. NbSteps] /\ NbSteps \in Nat
            /\ timestamp[c] \in Nat /\ timestamp[c] > NbSteps - 1
        BY <2>1, RedistributionAssumption DEF Redistributed, Received
      <4>2. timestamp'[c] = timestamp[c] \/ timestamp'[c] = timestamp[c] + 1
        BY <3>2, <4>1
      <4> QED
        BY <4>1, <4>2
    <3> QED
      BY <2>1, <2>2, <3>2, <3>3 DEF Ready, Complete
  <2> QED
    BY <2>3, <2>4
<1>5. Types'
  BY <1>1, <1>3 DEF Writing, Types
<1>6. Shared'
  BY <1>1, <1>3, <1>4 DEF Writing, Shared
<1>7. Waiting'
  <2>1. \A r : NbWaiting(r)' = NbWaiting(r) /\ Awaited(r)' = Awaited(r)
    BY <1>1 DEF NbWaiting, Awaited, Cap
  <2> QED
    BY <1>1, <1>3, <2>1 DEF Writing, Waiting
<1>8. InStep'
  BY <1>1, <1>3 DEF Writing, InStep, OpOf
<1>9. Gathered0'
  BY <1>1, <1>3 DEF Writing, Gathered0, FilesAreWhole, Whole
<1> QED
  BY <1>5, <1>6, <1>7, <1>8, <1>9

-----------------------------------------------------------------------------
(* The theorems.                                                             *)

LEMMA FieldOfOutput == OutputSpec => Spec
<1>1. OutputInit => Init
  BY DEF OutputInit
<1>2. [OutputNext]_allVars => [Next]_vars
  BY DEF OutputNext, allVars, melissa_write_stats_seq
<1> QED
  BY <1>1, <1>2, PTL DEF OutputSpec, Spec

LEMMA WritingStep ==
    ASSUME Redistributed, Writing, [OutputNext]_allVars PROVE Writing'
<1>1. Writes'
  BY WritesStep DEF Writing
<1>2. (Types /\ Shared /\ Waiting /\ InStep /\ Gathered0)'
  <2>1. CASE (Next /\ UNCHANGED <<eager, writerVars>>) \/ UNCHANGED allVars
    <3>1. [Next]_vars /\ UNCHANGED <<eager, writerVars>>
      BY <2>1 DEF allVars
    <3> QED
      BY <3>1, WritingField
  <2>2. CASE melissa_write_stats_seq
    <3>1. UNCHANGED <<vars, eager>>
      BY <2>2 DEF melissa_write_stats_seq
    <3>2. CASE CopyPart
      BY <3>1, <3>2, WritingCopyPart
    <3>3. CASE ReceivePart
      BY <3>1, <3>3, WritingReceivePart
    <3>4. CASE write_output
      BY <3>1, <3>4, WritingOutput
    <3>5. CASE \E s \in Servers : LeaveLoop(s)
      BY <3>1, <3>5, WritingLeaveLoop
    <3>6. CASE \E s \in Servers : SendPart(s)
      BY <3>1, <3>6, WritingSendPart
    <3>7. CASE \E s \in Servers : Leave(s)
      BY <3>1, <3>7, WritingLeave
    <3> QED
      BY <2>2, <3>2, <3>3, <3>4, <3>5, <3>6, <3>7 DEF melissa_write_stats_seq
  <2> QED
    BY <2>1, <2>2 DEF OutputNext
<1> QED
  BY <1>1, <1>2 DEF Writing

LEMMA WritingInductive ==
    ASSUME 0 \notin PartSizes PROVE OutputSpec => [](Redistributed /\ Writing)
<1>1. OutputSpec => []Redistributed
  <2>1. Spec => []Redistributed
    BY HeldInductive DEF Redistributed
  <2> QED
    BY <2>1, FieldOfOutput, PTL
<1>2. OutputInit /\ Redistributed => Writing
  BY WritingInit
<1>3. Redistributed /\ Writing /\ [OutputNext]_allVars => Writing'
  BY WritingStep
<1> QED
  BY <1>1, <1>2, <1>3, PTL DEF OutputSpec

\* The offset of rank 0 and the sizes of the parts stay within the field
\* (melissa_output.c 38-105), for every partition whose parts all have cells.
THEOREM OutputTypes ==
    ASSUME 0 \notin PartSizes
    PROVE  OutputSpec => []OutputTypeOK
<1>1. Redistributed /\ Writing => OutputTypeOK
  <2> SUFFICES ASSUME Redistributed, Writing PROVE OutputTypeOK
    OBVIOUS
  <2>1. /\ global_vect_size \in Nat /\ nb_proc_server \in Nat \ {0}
        /\ \A s \in 0 .. nb_proc_server : First(s) \in Nat /\ First(s) <= global_vect_size
        /\ \A s \in Servers : server_vect_size(s) \in Nat /\ server_vect_size(s) <= global_vect_size
    BY Shares
  <2>2. \A s \in Servers : vect_size[s] \in 0 .. global_vect_size
    <3>1. \A s \in Servers : vect_size[s] = IF next[s] > 0 THEN server_vect_size(s) ELSE 0
      BY DEF Writing, Shared
    <3> QED
      BY <2>1, <3>1
  <2>3. temp_offset \in 0 .. global_vect_size
    <3>1. from \in 0 .. nb_proc_server /\ (from = 0 => temp_offset = 0)
          /\ (from > 0 => temp_offset = First(from - 1))
      BY DEF Writing, Types, Gathered0
    <3>2. CASE from = 0
      BY <2>1, <3>1, <3>2
    <3>3. CASE from > 0
      <4>1. from - 1 \in 0 .. nb_proc_server
        BY <2>1, <3>1, <3>3
      <4> QED
        BY <2>1, <3>1, <3>3, <4>1
    <3> QED
      BY <2>1, <3>1, <3>2, <3>3
  <2>4. vect_size \in [Servers -> 0 .. global_vect_size]
    BY <2>2 DEF Writing, Types
  <2> QED
    BY <2>3, <2>4 DEF Writing, Types, OutputTypeOK
<1> QED
  BY <1>1, WritingInductive, PTL

\* Every file holds the field, whatever the number of ranks, the partition and the
\* statistics asked for, and however far MPI lets the ranks run ahead
\* (melissa_output.c 38-105, 184-545).
THEOREM EveryFileIsWhole ==
    ASSUME 0 \notin PartSizes
    PROVE  OutputSpec => []FilesAreWhole
<1>1. Writing => FilesAreWhole
  BY DEF Writing, Gathered0
<1> QED
  BY <1>1, WritingInductive, PTL

\* What waits for rank 0 from a rank.
LEMMA WaitingPieces ==
    ASSUME Redistributed, Writing, NEW s \in Servers \ {0}, vect_size[s] > 0, next[0] > 0
    PROVE  /\ next[0] \in Nat /\ next[s] \in Nat /\ NbFiles \in Nat /\ Awaited(s) \in Nat
           /\ Awaited(s) >= next[0]
           /\ NbWaiting(s) \in Nat /\ NbWaiting(s) = Cap(next[s]) - Cap(Awaited(s))
           /\ DOMAIN channel[s] = 1 .. NbWaiting(s) /\ Len(channel[s]) = NbWaiting(s)
           /\ \A k \in 1 .. NbWaiting(s) : channel[s][k][1][1] = Awaited(s) + k - 1
<1>1. /\ next[0] \in Nat /\ next[s] \in Nat /\ NbFiles \in Nat /\ s \in Nat /\ s > 0
  <2>1. 0 \in Servers /\ s \in 0 .. nb_proc_server - 1 /\ NbFiles \in Nat
    BY Shares, FilesInOrder
  <2> QED
    BY <2>1 DEF Writing, Writes
<1>2. Awaited(s) \in Nat /\ Awaited(s) >= next[0]
  BY <1>1 DEF Awaited
<1>3. /\ NbWaiting(s) \in Nat
      /\ channel[s] = [k \in 1 .. NbWaiting(s) |-> Piece(s, Awaited(s) + k - 1)]
  BY DEF Writing, Waiting
<1>4. NbWaiting(s) = Cap(next[s]) - Cap(Awaited(s))
  BY <1>1 DEF NbWaiting
<1>5. Len(channel[s]) = NbWaiting(s)
  <2> DEFINE g == [k \in Nat |-> Piece(s, Awaited(s) + k - 1)]
             n == NbWaiting(s)
             q == channel[s]
  <2>1. n \in Nat /\ q = [k \in 1 .. n |-> g[k]]
    BY <1>3
  <2> HIDE DEF g, n, q
  <2>2. Len(q) = n
    BY <2>1, AppendTo
  <2> QED
    BY <2>2 DEF q, n
<1>6. 1 \in 1 .. server_vect_size(s)
  <2>1. vect_size[s] = (IF next[s] > 0 THEN server_vect_size(s) ELSE 0) /\ server_vect_size(s) \in Nat
    BY Shares DEF Writing, Shared
  <2> QED
    BY <2>1
<1>7. \A f : Piece(s, f)[1][1] = f
  BY <1>6 DEF Piece
<1> HIDE DEF NbWaiting
<1>8. \A k \in 1 .. NbWaiting(s) : channel[s][k][1][1] = Awaited(s) + k - 1
  <2> TAKE k \in 1 .. NbWaiting(s)
  <2>1. channel[s][k] = Piece(s, Awaited(s) + k - 1)
    BY <1>3
  <2> QED
    BY <1>7, <2>1
<1> QED
  BY <1>1, <1>2, <1>3, <1>4, <1>5, <1>8

\* Every receive of rank 0 has its send and every send its receive, in order, for
\* any number of files and ranks (melissa_output.c 43-73).
THEOREM EveryMessageHasItsReceive ==
    ASSUME 0 \notin PartSizes
    PROVE  OutputSpec => []EveryMessageIsAwaited
<1>1. Redistributed /\ Writing => EveryMessageIsAwaited
  <2> SUFFICES ASSUME Redistributed, Writing, NEW s \in Servers \ {0}, vect_size[s] > 0, next[0] > 0
               PROVE  /\ Len(channel[s]) = Min({next[s], NbFiles + 1}) - Min({Awaited(s), NbFiles + 1})
                      /\ \A k \in DOMAIN channel[s] : channel[s][k][1][1] = Awaited(s) + k - 1
    BY DEF EveryMessageIsAwaited, Awaited
  <2>1. \A x \in Nat : Min({x, NbFiles + 1}) = Cap(x)
    <3>1. TAKE x \in Nat
    <3>2. NbFiles \in Nat
      BY FilesInOrder
    <3>3. Cap(x) \in {x, NbFiles + 1} /\ \A y \in {x, NbFiles + 1} : Cap(x) <= y
      BY <3>2 DEF Cap
    <3>4. \A z \in {x, NbFiles + 1} : (\A y \in {x, NbFiles + 1} : z <= y) => z = Cap(x)
      BY <3>2, <3>3
    <3> QED
      BY <3>3, <3>4 DEF Min
  <2> QED
    BY <2>1, WaitingPieces
<1> QED
  BY <1>1, WritingInductive, PTL

\* What waits for rank 0 is of the statistic it works on, however many files the
\* statistics have (melissa_output.c 184-545: the barrier of each statistic).
THEOREM MessagesOfOneStatistic ==
    ASSUME 0 \notin PartSizes
    PROVE  OutputSpec => []OneStatisticWaits
<1>1. Redistributed /\ Writing => OneStatisticWaits
  <2> SUFFICES ASSUME Redistributed, Writing, NEW s \in Servers, NEW k \in 1 .. NbFiles,
                      k \in DOMAIN channel[s]
               PROVE  next[0] <= NbFiles /\ OpOf(channel[s][k][1][1]) = OpOf(next[0])
    BY DEF OneStatisticWaits
  <2>1. /\ NbWaiting(s) \in Nat
        /\ channel[s] = [x \in 1 .. NbWaiting(s) |-> Piece(s, Awaited(s) + x - 1)]
    BY DEF Writing, Waiting
  <2>2. NbWaiting(s) >= k /\ k >= 1 /\ k \in Nat
    BY <2>1
  <2>3. s > 0 /\ vect_size[s] > 0 /\ next[0] > 0
    BY <2>2 DEF NbWaiting
  <2>4. /\ next[0] \in Nat /\ next[s] \in Nat /\ NbFiles \in Nat /\ Awaited(s) \in Nat
        /\ Awaited(s) >= next[0] /\ NbWaiting(s) = Cap(next[s]) - Cap(Awaited(s))
        /\ channel[s][k][1][1] = Awaited(s) + k - 1
    <3>1. s \in Servers \ {0}
      BY <2>3
    <3> QED
      BY <2>2, <2>3, <3>1, WaitingPieces
  <2> DEFINE a == Awaited(s)
             f == a + k - 1
  <2>5. Cap(a) <= NbFiles /\ Cap(a) = a /\ a + k <= Cap(next[s])
    BY <2>2, <2>4, CapFacts
  <2>6. Cap(next[s]) <= next[s] /\ Cap(next[s]) <= NbFiles + 1
    BY <2>4, CapFacts
  <2>7. /\ f \in Nat \ {0} /\ next[0] \in Nat \ {0} /\ next[s] - 1 \in Nat \ {0}
        /\ next[0] <= f /\ f <= next[s] - 1 /\ f <= NbFiles /\ next[0] <= NbFiles
        /\ next[s] >= 2
    <3>1. /\ a \in Nat /\ k \in Nat /\ k >= 1 /\ a >= next[0]
          /\ next[0] \in Nat /\ next[0] > 0 /\ next[s] \in Nat /\ NbFiles \in Nat
      BY <2>2, <2>3, <2>4
    <3>2. Cap(next[s]) \in Nat /\ a + k <= Cap(next[s])
      BY <2>4, <2>5, CapFacts
    <3>3. a + k <= next[s] /\ a + k <= NbFiles + 1
      BY <2>6, <3>1, <3>2
    <3> HIDE DEF a
    <3>4. f \in Nat \ {0} /\ next[0] <= f /\ f <= next[s] - 1 /\ f <= NbFiles
      BY <3>1, <3>3
    <3> QED
      BY <3>1, <3>3, <3>4
  <2>8. OpOf(next[0]) >= OpOf(next[s] - 1)
    BY <2>7 DEF Writing, InStep
  <2> DEFINE y == next[s] - 1
             x == next[0]
  <2>9. /\ f \in Nat \ {0} /\ x \in Nat \ {0} /\ y \in Nat \ {0} /\ x <= f /\ f <= y
        /\ OpOf(x) >= OpOf(y)
    BY <2>7, <2>8
  <2> HIDE DEF f, x, y
  <2>10. /\ OpOf(x) \in Nat /\ OpOf(f) \in Nat /\ OpOf(y) \in Nat
         /\ OpOf(x) <= OpOf(f) /\ OpOf(f) <= OpOf(y)
    BY <2>9, OpOfGrows
  <2>11. OpOf(f) = OpOf(x)
    BY <2>9, <2>10
  <2> QED
    BY <2>4, <2>7, <2>11 DEF f, x
<1> QED
  BY <1>1, WritingInductive, PTL

\* No rank leaves before rank 0 has written the last file (melissa_output.c 545-556),
\* however far MPI lets the ranks run ahead, whatever the partition.
THEOREM RankZeroIsWaitedFor == OutputSpec => []NobodyLeavesEarly
<1>1. OutputInit => Writes
  BY WritesInit
<1>2. Writes /\ [OutputNext]_allVars => Writes'
  BY WritesStep
<1>3. Writes => NobodyLeavesEarly
  <2> SUFFICES ASSUME Writes, NEW s \in Servers, next[s] > NbFiles + 1
               PROVE  Len(files) = NbFiles
    BY DEF NobodyLeavesEarly
  <2>1. next[0] \in Nat /\ next[0] > NbFiles /\ NbFiles \in Nat
    BY FilesInOrder DEF Writes, Servers
  <2>2. next[0] = NbFiles + 1 \/ next[0] > NbFiles + 1
    BY <2>1
  <2> QED
    BY <2>1, <2>2 DEF Writes
<1> QED
  BY <1>1, <1>2, <1>3, PTL DEF OutputSpec
=============================================================================
