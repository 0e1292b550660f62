--------------------------- MODULE PyServer_proofs ---------------------------
(***************************************************************************)
(* Theorems about PyServer, for every number of ranks, simulations, fields  *)
(* and time steps, both modes and all faults (StopMeansReturned: all but    *)
(* late data).                                                              *)
(***************************************************************************)
EXTENDS PyServer, FiniteSetTheorems, TLAPS

Report == {"NOTHING", "RUNNING", "FINISHED"}
Record == [timesteps : SUBSET Messages, silent : BOOLEAN]
TextMessage == {"JOB", "DROP"} \X Samples

DropWaits(r, s) == <<"DROP", s>> \in Range(text_puller[r])
RemovedBy(r) == {s \in Samples : Removed(r, s)}

-----------------------------------------------------------------------------
(* The inductive invariant. A rank knows only its own messages, so all of it   *)
(* but the last part is about one rank.                                      *)

\* one DROP message for a simulation, after all of its JOB messages
QueueInOrder(r) ==
    \A i \in DOMAIN text_puller[r], s \in Samples :
        /\ text_puller[r][i] = <<"DROP", s>> =>
              /\ s \in dropped /\ <<r, s>> \notin lost
              /\ \A j \in DOMAIN text_puller[r] :
                    text_puller[r][j] = <<"DROP", s>> => i = j
        /\ text_puller[r][i] = <<"JOB", s>> /\ s \in dropped /\ <<r, s>> \notin lost =>
              \E j \in DOMAIN text_puller[r] : i < j /\ text_puller[r][j] = <<"DROP", s>>

\* what was returned of a time step that is not marked as received, at most
Before(r, s) == IF Removed(r, s) THEN 1 ELSE 0
Marked(r, s, m) == s \in Known(r) /\ m \in simulations[r][s].timesteps
ReturnsAreMarked(r) ==
    \A s \in Samples, m \in Messages :
        /\ returned[r][s][m] <= Before(r, s) + (IF Marked(r, s, m) THEN 1 ELSE 0)
        /\ Marked(r, s, m) /\ DataSize(r, s, m) > 0 => returned[r][s][m] > 0

ReportsFollow(r) ==
    \A s \in Samples : ~Removed(r, s) =>
        IF s \in Known(r)
        THEN reported[r][s] = "FINISHED" <=> finished(simulations[r][s])
        ELSE reported[r][s] = "NOTHING"

\* a rank asks for fewer simulations only when it knows them to be removed
SampleShrinks(r) == sample_size[r] >= NbSamples - Cardinality(RemovedBy(r))

RemovedAreGone(r) ==
    "late_data" \notin Faults => \A s \in Samples : Removed(r, s) => s \notin Known(r)

Ended(r) == pc[r] \in {"barrier", "stopped"}

RankInv(r) ==
    /\ QueueInOrder(r)
    /\ ReturnsAreMarked(r)
    /\ ReportsFollow(r)
    /\ SampleShrinks(r)
    /\ RemovedAreGone(r)
    /\ Ended(r) => all_done(r)

EndIsCommon ==
    stop_sent \/ (\E r \in Ranks : pc[r] = "stopped") => \A r \in Ranks : Ended(r)

LostAreDropped == \A r \in Ranks, s \in Samples : <<r, s>> \in lost => s \in dropped

Inv ==
    /\ TypeOK
    /\ \A r \in Ranks : RankInv(r)
    /\ EndIsCommon
    /\ LostAreDropped

-----------------------------------------------------------------------------
(* Facts about sizes and queues.                                             *)

LEMMA SamplesFinite == IsFiniteSet(Samples) /\ Cardinality(Samples) = NbSamples
  BY FS_Interval, PyServerAssumption DEF Samples

LEMMA RanksFinite == IsFiniteSet(Ranks) /\ 0 \in Ranks
  BY FS_Interval, PyServerAssumption DEF Ranks

LEMMA SomeMessage == Messages # {}
  <1>1. PICK f \in Fields : TRUE
    BY PyServerAssumption
  <1>2. <<f, 0>> \in Messages
    BY PyServerAssumption DEF Messages
  <1> QED BY <1>2

LEMMA RemovedCount ==
    ASSUME NEW r \in Ranks
    PROVE  /\ IsFiniteSet(RemovedBy(r))
           /\ Cardinality(RemovedBy(r)) \in 0 .. NbSamples
  <1>1. RemovedBy(r) \subseteq Samples
    BY DEF RemovedBy
  <1> QED BY <1>1, SamplesFinite, FS_Subset, FS_CardinalityType

LEMMA NoMoreToDo ==
    ASSUME NEW r \in Ranks, Known(r) \subseteq Samples,
           \A s \in Samples : Removed(r, s) => s \notin Known(r),
           SampleShrinks(r), sample_size[r] \in 0 .. NbSamples, all_done(r),
           NEW s \in Samples, ~Removed(r, s)
    PROVE  s \in Known(r)
  <1> DEFINE U == Known(r) \cup RemovedBy(r)
  <1>1. RemovedBy(r) \subseteq Samples /\ Known(r) \cap RemovedBy(r) = {}
    BY DEF RemovedBy
  <1>2. IsFiniteSet(Known(r)) /\ IsFiniteSet(RemovedBy(r)) /\ IsFiniteSet(Samples)
    BY <1>1, SamplesFinite, FS_Subset
  <1>3. /\ Cardinality(Known(r)) \in Nat /\ Cardinality(RemovedBy(r)) \in Nat
        /\ Cardinality(U) = Cardinality(Known(r)) + Cardinality(RemovedBy(r))
                            - Cardinality(Known(r) \cap RemovedBy(r))
    BY <1>2, FS_CardinalityType, FS_Union
  <1>4. Cardinality(U) = Cardinality(Known(r)) + Cardinality(RemovedBy(r))
    BY <1>1, <1>3, FS_EmptySet
  <1>5. Cardinality(U) >= Cardinality(Samples)
    BY <1>3, <1>4, SamplesFinite, PyServerAssumption DEF all_done, SampleShrinks
  <1>6. U \subseteq Samples
    BY <1>1
  <1>7. U = Samples
    <2>1. Cardinality(U) <= Cardinality(Samples)
      BY <1>2, <1>6, FS_Subset
    <2>2. Cardinality(U) \in Nat /\ Cardinality(Samples) \in Nat
      BY <1>2, <1>6, FS_Subset, FS_CardinalityType
    <2>3. Cardinality(U) = Cardinality(Samples)
      BY <1>5, <2>1, <2>2
    <2> QED BY <1>2, <1>6, <2>3, FS_Subset
  <1> QED BY <1>7 DEF RemovedBy

\* The queue without its first message.
LEMMA QueueTail ==
    ASSUME NEW S, NEW q \in Seq(S), q # <<>>
    PROVE  /\ Tail(q) \in Seq(S) /\ Head(q) \in S /\ 1 \in DOMAIN q /\ q[1] = Head(q)
           /\ \A i \in DOMAIN Tail(q) : i + 1 \in DOMAIN q /\ Tail(q)[i] = q[i + 1]
           /\ \A i \in DOMAIN q : i # 1 => i - 1 \in DOMAIN Tail(q) /\ Tail(q)[i - 1] = q[i]
           /\ \A x : x \in Range(q) <=> x = Head(q) \/ x \in Range(Tail(q))
  <1>1. /\ Tail(q) \in Seq(S) /\ Head(q) \in S /\ 1 \in DOMAIN q /\ q[1] = Head(q)
        /\ \A i \in DOMAIN Tail(q) : i + 1 \in DOMAIN q /\ Tail(q)[i] = q[i + 1]
        /\ \A i \in DOMAIN q : i # 1 => i - 1 \in DOMAIN Tail(q) /\ Tail(q)[i - 1] = q[i]
    OBVIOUS
  <1>2. ASSUME NEW x PROVE x \in Range(q) <=> x = Head(q) \/ x \in Range(Tail(q))
    <2>1. CASE x \in Range(q)
      <3>1. PICK i \in DOMAIN q : q[i] = x
        BY <2>1 DEF Range
      <3> QED BY <1>1, <3>1 DEF Range
    <2>2. CASE x = Head(q)
      BY <1>1, <2>2 DEF Range
    <2>3. CASE x \in Range(Tail(q))
      <3>1. PICK i \in DOMAIN Tail(q) : Tail(q)[i] = x
        BY <2>3 DEF Range
      <3> QED BY <1>1, <3>1 DEF Range
    <2> QED BY <2>1, <2>2, <2>3
  <1> QED BY <1>1, <1>2

\* The queue with one message more.
LEMMA QueueAppend ==
    ASSUME NEW S, NEW q \in Seq(S), NEW m \in S
    PROVE  /\ Append(q, m) \in Seq(S)
           /\ \A i \in DOMAIN q : i \in DOMAIN Append(q, m) /\ Append(q, m)[i] = q[i]
                                  /\ i < Len(q) + 1
           /\ Len(q) + 1 \in DOMAIN Append(q, m) /\ Append(q, m)[Len(q) + 1] = m
           /\ \A i \in DOMAIN Append(q, m) : i \in DOMAIN q \/ i = Len(q) + 1
           /\ \A x : x \in Range(Append(q, m)) <=> x \in Range(q) \/ x = m
  <1>1. /\ Append(q, m) \in Seq(S)
        /\ \A i \in DOMAIN q : i \in DOMAIN Append(q, m) /\ Append(q, m)[i] = q[i]
                               /\ i < Len(q) + 1
        /\ Len(q) + 1 \in DOMAIN Append(q, m) /\ Append(q, m)[Len(q) + 1] = m
        /\ \A i \in DOMAIN Append(q, m) : i \in DOMAIN q \/ i = Len(q) + 1
    OBVIOUS
  <1>2. ASSUME NEW x PROVE x \in Range(Append(q, m)) <=> x \in Range(q) \/ x = m
    BY <1>1 DEF Range
  <1> QED BY <1>1, <1>2

\* A rank whose record is the same, and for which the same are removed.
LEMMA Kept ==
    ASSUME NEW r \in Ranks, RankInv(r),
           simulations'[r] = simulations[r], sample_size'[r] = sample_size[r],
           returned'[r] = returned[r], reported'[r] = reported[r],
           \A s \in Samples : Removed(r, s)' <=> Removed(r, s),
           QueueInOrder(r)',
           Ended(r)' => all_done(r)
    PROVE  RankInv(r)'
  <1>1. Known(r)' = Known(r)
    BY DEF Known
  <1>2. ReturnsAreMarked(r)'
    BY <1>1 DEF RankInv, ReturnsAreMarked, Marked, Before
  <1>3. ReportsFollow(r)'
    BY <1>1 DEF RankInv, ReportsFollow, finished
  <1>4. RemovedBy(r)' = RemovedBy(r)
    BY DEF RemovedBy
  <1>5. SampleShrinks(r)'
    BY <1>4 DEF RankInv, SampleShrinks
  <1>6. RemovedAreGone(r)'
    BY <1>1 DEF RankInv, RemovedAreGone
  <1>7. all_done(r)' <=> all_done(r)
    BY <1>1 DEF all_done, finished, crashed
  <1> QED BY <1>2, <1>3, <1>5, <1>6, <1>7 DEF RankInv

\* A rank an action has nothing to do with.
LEMMA Untouched ==
    ASSUME NEW r \in Ranks, RankInv(r),
           simulations'[r] = simulations[r], sample_size'[r] = sample_size[r],
           returned'[r] = returned[r], reported'[r] = reported[r],
           text_puller'[r] = text_puller[r], dropped' = dropped, lost' = lost,
           Ended(r)' => all_done(r)
    PROVE  RankInv(r)'
  <1>1. \A s \in Samples : Removed(r, s)' <=> Removed(r, s)
    BY DEF Removed
  <1>2. QueueInOrder(r)'
    BY DEF RankInv, QueueInOrder
  <1> QED BY <1>1, <1>2, Kept

LEMMA InitInv == Init => Inv
  <1> SUFFICES ASSUME Init PROVE Inv
    OBVIOUS
  <1>1. DOMAIN <<>> = {} /\ <<>> \in Seq({"JOB", "DROP"} \X Samples)
    OBVIOUS
  <1>2. \A r \in Ranks : Known(r) = {} /\ text_puller[r] = <<>> /\ Range(text_puller[r]) = {}
    BY <1>1 DEF Init, Known, Range
  <1>3. TypeOK
    <2>1. \A r \in Ranks : Known(r) \subseteq Samples
      BY <1>2
    <2>2. returned \in [Ranks -> [Samples -> [Messages -> Nat]]]
      BY DEF Init
    <2>3. sample_size \in [Ranks -> 0 .. NbSamples]
      BY PyServerAssumption DEF Init
    <2>4. text_puller \in [Ranks -> Seq({"JOB", "DROP"} \X Samples)]
      BY <1>1 DEF Init
    <2>5. launches \in [Samples -> 0 .. MaxLaunches]
      BY PyServerAssumption DEF Init
    <2>6. faults <= MaxFaults /\ silences \in Nat /\ missed \in Nat /\ crashes \in Nat
      BY PyServerAssumption DEF Init, faults
    <2> QED BY <1>2, <2>1, <2>2, <2>3, <2>4, <2>5, <2>6 DEF Init, TypeOK
  <1>4. ASSUME NEW r \in Ranks PROVE RankInv(r)
    <2>1. QueueInOrder(r)
      BY <1>1, <1>2 DEF QueueInOrder
    <2>2. ReturnsAreMarked(r)
      BY <1>2 DEF Init, ReturnsAreMarked, Marked, Before
    <2>3. ReportsFollow(r)
      BY <1>2 DEF Init, ReportsFollow
    <2>4. SampleShrinks(r)
      BY RemovedCount, PyServerAssumption DEF Init, SampleShrinks
    <2>5. RemovedAreGone(r)
      BY <1>2 DEF RemovedAreGone
    <2>6. ~Ended(r)
      BY DEF Init, Ended
    <2> QED BY <2>1, <2>2, <2>3, <2>4, <2>5, <2>6 DEF RankInv
  <1>5. EndIsCommon /\ LostAreDropped
    BY DEF Init, EndIsCommon, LostAreDropped
  <1> QED BY <1>3, <1>4, <1>5 DEF Inv

-----------------------------------------------------------------------------
(* The steps.                                                               *)

\* The rest of a queue in order is in order.
LEMMA TailInOrder ==
    ASSUME NEW r \in Ranks, QueueInOrder(r),
           text_puller[r] \in Seq(TextMessage), text_puller[r] # <<>>,
           text_puller'[r] = Tail(text_puller[r]), dropped' = dropped, lost' = lost
    PROVE  QueueInOrder(r)'
  <1> DEFINE q == text_puller[r]
  <1>q. /\ \A i \in DOMAIN Tail(q) : i + 1 \in DOMAIN q /\ Tail(q)[i] = q[i + 1] /\ i \in Nat
        /\ \A i \in DOMAIN q : i # 1 => i - 1 \in DOMAIN Tail(q) /\ Tail(q)[i - 1] = q[i]
        /\ \A i \in DOMAIN q : i \in Nat
    BY QueueTail
  <1> SUFFICES ASSUME NEW i \in DOMAIN Tail(q), NEW x \in Samples
               PROVE  /\ Tail(q)[i] = <<"DROP", x>> =>
                            /\ x \in dropped /\ <<r, x>> \notin lost
                            /\ \A j \in DOMAIN Tail(q) :
                                  Tail(q)[j] = <<"DROP", x>> => i = j
                      /\ Tail(q)[i] = <<"JOB", x>> /\ x \in dropped /\ <<r, x>> \notin lost =>
                            \E j \in DOMAIN Tail(q) : i < j /\ Tail(q)[j] = <<"DROP", x>>
    <2> HIDE DEF q
    <2> SUFFICES ASSUME NEW i \in DOMAIN text_puller'[r], NEW x \in Samples
                 PROVE  /\ text_puller'[r][i] = <<"DROP", x>> =>
                              /\ x \in dropped' /\ <<r, x>> \notin lost'
                              /\ \A j \in DOMAIN text_puller'[r] :
                                    text_puller'[r][j] = <<"DROP", x>> => i = j
                        /\ text_puller'[r][i] = <<"JOB", x>> /\ x \in dropped'
                           /\ <<r, x>> \notin lost' =>
                              \E j \in DOMAIN text_puller'[r] :
                                 i < j /\ text_puller'[r][j] = <<"DROP", x>>
      BY Zenon DEF QueueInOrder
    <2> QED BY DEF q
  <1>1. i + 1 \in DOMAIN q /\ q[i + 1] = Tail(q)[i] /\ i \in Nat
    BY <1>q
  <1>2. ASSUME Tail(q)[i] = <<"DROP", x>>
        PROVE  /\ x \in dropped /\ <<r, x>> \notin lost
               /\ \A j \in DOMAIN Tail(q) : Tail(q)[j] = <<"DROP", x>> => i = j
    <2>1. /\ x \in dropped /\ <<r, x>> \notin lost
          /\ \A j \in DOMAIN q : q[j] = <<"DROP", x>> => i + 1 = j
      BY <1>1, <1>2 DEF QueueInOrder
    <2>2. ASSUME NEW j \in DOMAIN Tail(q), Tail(q)[j] = <<"DROP", x>> PROVE i = j
      <3>1. j + 1 \in DOMAIN q /\ q[j + 1] = <<"DROP", x>> /\ j \in Nat
        BY <1>q, <2>2
      <3>2. i + 1 = j + 1
        BY <2>1, <3>1
      <3> QED BY <1>1, <3>1, <3>2
    <2> QED BY <2>1, <2>2
  <1>3. ASSUME Tail(q)[i] = <<"JOB", x>>, x \in dropped, <<r, x>> \notin lost
        PROVE  \E j \in DOMAIN Tail(q) : i < j /\ Tail(q)[j] = <<"DROP", x>>
    <2>1. PICK j \in DOMAIN q : i + 1 < j /\ q[j] = <<"DROP", x>>
      BY <1>1, <1>3 DEF QueueInOrder
    <2>2. j - 1 \in DOMAIN Tail(q) /\ Tail(q)[j - 1] = q[j] /\ i < j - 1
      BY <2>1, <1>q, <1>1
    <2> QED BY <2>1, <2>2
  <1> QED BY <1>2, <1>3

LEMMA JobStep ==
    ASSUME Inv, NEW r \in Ranks, handle_launcher_message(r), NEW s \in Samples,
           Head(text_puller[r]) = <<"JOB", s>>
    PROVE  RankInv(r)'
  <1> DEFINE q == text_puller[r]
  <1>1. /\ q \in Seq(TextMessage) /\ q # <<>> /\ text_puller'[r] = Tail(q)
        /\ dropped' = dropped /\ lost' = lost /\ pc' = pc
        /\ returned' = returned /\ reported' = reported
        /\ sample_size' = sample_size
        /\ DOMAIN simulations = Ranks
        /\ simulations'[r] = IF s \in Known(r) THEN simulations[r]
                             ELSE WithSimulation(simulations[r], s, NewSimulation)
        /\ pc[r] = "run"
    BY DEF Inv, TypeOK, TextMessage, handle_launcher_message, Job, Drop, envVars, Running
  <1>q. /\ Head(q) = q[1] /\ 1 \in DOMAIN q
        /\ \A x : x \in Range(q) <=> x = Head(q) \/ x \in Range(Tail(q))
    BY <1>1, QueueTail
  <1>2. \A x \in Samples : Removed(r, x)' <=> Removed(r, x)
    BY <1>1, <1>q DEF Removed
  <1>3. QueueInOrder(r)'
    BY <1>1, TailInOrder DEF Inv, RankInv
  <1>4. CASE s \in Known(r)
    <2>1. simulations'[r] = simulations[r]
      BY <1>1, <1>4
    <2> QED BY <2>1, <1>1, <1>2, <1>3, Kept DEF Inv, Ended, RankInv
  <1>5. CASE s \notin Known(r)
    <2>1. simulations'[r] = [x \in Known(r) \cup {s} |->
                                IF x = s THEN NewSimulation ELSE simulations[r][x]]
      BY <1>1, <1>5 DEF WithSimulation, Known
    <2>2. /\ Known(r)' = Known(r) \cup {s}
          /\ simulations'[r][s] = NewSimulation
          /\ \A x \in Known(r) : simulations'[r][x] = simulations[r][x]
      BY <2>1, <1>5 DEF Known
    \* its DROP message, if there is one, comes later or never
    <2>3. ~Removed(r, s)
      <3> SUFFICES ASSUME s \in dropped, <<r, s>> \notin lost
                   PROVE  <<"DROP", s>> \in Range(q)
        BY DEF Removed
      <3>0. QueueInOrder(r) /\ q[1] = <<"JOB", s>> /\ 1 \in DOMAIN q
        BY <1>q DEF Inv, RankInv
      <3>1. \E j \in DOMAIN q : 1 < j /\ q[j] = <<"DROP", s>>
        BY <3>0 DEF QueueInOrder
      <3> QED BY <3>1 DEF Range
    <2>4. NewSimulation.timesteps = {} /\ ~finished(NewSimulation)
      BY SomeMessage DEF NewSimulation, Simulation, finished
    <2>5. \A x \in Samples, m \in Messages : Marked(r, x, m)' <=> Marked(r, x, m)
      BY <2>2, <2>4, <1>5 DEF Marked
    <2>6. ReturnsAreMarked(r)'
      BY <1>1, <1>2, <2>5 DEF Inv, RankInv, ReturnsAreMarked, Before
    <2>7. ReportsFollow(r)'
      BY <1>1, <1>2, <2>2, <2>4, <1>5 DEF Inv, RankInv, ReportsFollow, finished
    <2>8. SampleShrinks(r)'
      <3>1. RemovedBy(r)' = RemovedBy(r)
        BY <1>2 DEF RemovedBy
      <3> QED BY <3>1, <1>1 DEF Inv, RankInv, SampleShrinks
    <2>9. RemovedAreGone(r)'
      BY <1>2, <2>2, <2>3 DEF Inv, RankInv, RemovedAreGone
    <2>10. ~Ended(r)'
      BY <1>1 DEF Ended
    <2> QED BY <1>3, <2>6, <2>7, <2>8, <2>9, <2>10 DEF RankInv
  <1> QED BY <1>4, <1>5


LEMMA DropStep ==
    ASSUME Inv, NEW r \in Ranks, handle_launcher_message(r), NEW s \in Samples,
           Head(text_puller[r]) = <<"DROP", s>>
    PROVE  RankInv(r)' /\ sample_size'[r] \in 0 .. NbSamples
  <1> DEFINE q == text_puller[r]
  <1>1. /\ q \in Seq(TextMessage) /\ q # <<>> /\ text_puller'[r] = Tail(q)
        /\ dropped' = dropped /\ lost' = lost /\ pc' = pc
        /\ returned' = returned /\ reported' = reported
        /\ sample_size[r] \in 0 .. NbSamples /\ sample_size'[r] = sample_size[r] - 1
        /\ simulations'[r] = Without(simulations[r], s)
        /\ pc[r] = "run"
    BY DEF Inv, TypeOK, TextMessage, handle_launcher_message, Job, Drop, envVars, Running
  <1>q. /\ Head(q) = q[1] /\ 1 \in DOMAIN q
        /\ \A x : x \in Range(q) <=> x = Head(q) \/ x \in Range(Tail(q))
    BY <1>1, QueueTail
  <1>2. QueueInOrder(r)'
    BY <1>1, TailInOrder DEF Inv, RankInv
  <1>3. QueueInOrder(r) /\ q[1] = <<"DROP", s>>
    BY <1>q DEF Inv, RankInv
  \* the only DROP message of s is handled
  <1>4. ~Removed(r, s) /\ Removed(r, s)'
    <2>1. <<"DROP", s>> \in Range(q)
      BY <1>q
    <2>2. s \in dropped /\ <<r, s>> \notin lost
      BY <1>q, <1>3 DEF QueueInOrder
    <2>3. <<"DROP", s>> \notin Range(Tail(q))
      <3> SUFFICES ASSUME NEW i \in DOMAIN Tail(q), Tail(q)[i] = <<"DROP", s>> PROVE FALSE
        BY DEF Range
      <3>1. i + 1 \in DOMAIN q /\ q[i + 1] = <<"DROP", s>> /\ i \in Nat /\ i # 0
        BY <1>1, QueueTail
      <3>2. i + 1 = 1
        BY <3>1, <1>q, <1>3 DEF QueueInOrder
      <3> QED BY <3>1, <3>2
    <2> QED BY <1>1, <2>1, <2>2, <2>3 DEF Removed
  <1>5. \A x \in Samples : x # s => (Removed(r, x)' <=> Removed(r, x))
    BY <1>1, <1>q DEF Removed
  <1>6. /\ Known(r)' = Known(r) \ {s}
        /\ \A x \in Known(r)' : simulations'[r][x] = simulations[r][x]
    BY <1>1 DEF Without, Known
  <1>7. ReturnsAreMarked(r)'
    <2> SUFFICES ASSUME NEW x \in Samples, NEW m \in Messages
                 PROVE  /\ returned[r][x][m] <= Before(r, x)'
                                                + (IF Marked(r, x, m)' THEN 1 ELSE 0)
                        /\ Marked(r, x, m)' /\ DataSize(r, x, m) > 0 => returned[r][x][m] > 0
      BY <1>1 DEF ReturnsAreMarked, DataSize
    <2>0. /\ returned[r][x][m] <= Before(r, x) + (IF Marked(r, x, m) THEN 1 ELSE 0)
          /\ Marked(r, x, m) /\ DataSize(r, x, m) > 0 => returned[r][x][m] > 0
          /\ returned[r][x][m] \in Nat
      BY DEF Inv, TypeOK, RankInv, ReturnsAreMarked
    <2>1. CASE x = s
      BY <1>4, <1>6, <2>0, <2>1 DEF Before, Marked
    <2>2. CASE x # s
      BY <1>5, <1>6, <2>0, <2>2 DEF Before, Marked
    <2> QED BY <2>1, <2>2
  <1>8. ReportsFollow(r)'
    BY <1>1, <1>4, <1>5, <1>6 DEF Inv, RankInv, ReportsFollow, finished
  <1>9. SampleShrinks(r)' /\ sample_size'[r] \in 0 .. NbSamples
    <2>1. RemovedBy(r)' = RemovedBy(r) \cup {s} /\ s \notin RemovedBy(r)
      BY <1>4, <1>5 DEF RemovedBy
    <2>2. IsFiniteSet(RemovedBy(r)) /\ Cardinality(RemovedBy(r)) \in 0 .. NbSamples
      BY RemovedCount
    <2>3. Cardinality(RemovedBy(r)') = Cardinality(RemovedBy(r)) + 1
      BY <2>1, <2>2, FS_AddElement
    <2>4. RemovedBy(r) \cup {s} \subseteq Samples
      BY DEF RemovedBy
    <2>5. Cardinality(RemovedBy(r)) + 1 <= NbSamples
      BY <2>1, <2>3, <2>4, SamplesFinite, FS_Subset
    <2> QED BY <1>1, <2>2, <2>3, <2>5, PyServerAssumption DEF Inv, RankInv, SampleShrinks
  <1>10. RemovedAreGone(r)'
    BY <1>4, <1>5, <1>6 DEF Inv, RankInv, RemovedAreGone
  <1>11. ~Ended(r)'
    BY <1>1 DEF Ended
  <1> QED BY <1>2, <1>7, <1>8, <1>9, <1>10, <1>11 DEF RankInv

LEMMA DataStep ==
    ASSUME Inv, NEW r \in Ranks, NEW s \in Samples, NEW m \in Messages,
           handle_simulation_data(r, s, m)
    PROVE  RankInv(r)'
  <1> DEFINE before == IF s \in Known(r) THEN simulations[r][s] ELSE NewSimulation
             after  == mark_message_recieved(before, m)
  <1>1. /\ text_puller' = text_puller /\ dropped' = dropped /\ lost' = lost /\ pc' = pc
        /\ sample_size' = sample_size
        /\ DOMAIN simulations = Ranks
        /\ simulations' = [simulations EXCEPT ![r] = WithSimulation(simulations[r], s, after)]
        /\ pc[r] = "run"
        /\ m \notin before.timesteps
        /\ "late_data" \notin Faults => ~Removed(r, s)
    BY DEF Inv, TypeOK, handle_simulation_data, envVars, Running, Duplicate
  <1>2. \A x \in Samples : Removed(r, x)' <=> Removed(r, x)
    BY <1>1 DEF Removed
  <1>3. QueueInOrder(r)'
    <2>1. text_puller' = text_puller /\ dropped' = dropped /\ lost' = lost
      BY <1>1
    <2>2. QueueInOrder(r)
      BY DEF Inv, RankInv
    <2> QED BY <2>1, <2>2 DEF QueueInOrder
  <1>4. /\ Known(r)' = Known(r) \cup {s}
        /\ simulations'[r][s] = after
        /\ \A x \in Known(r) : x # s => simulations'[r][x] = simulations[r][x]
    <2>1. simulations'[r] = [x \in Known(r) \cup {s} |->
                                IF x = s THEN after ELSE simulations[r][x]]
      BY <1>1 DEF WithSimulation, Known
    <2> HIDE DEF after
    <2> QED BY <2>1 DEF Known
  <1>5. before \in Record
    BY DEF Inv, TypeOK, Record, NewSimulation, Simulation
  <1>6. after.timesteps = before.timesteps \cup {m}
    BY <1>5 DEF mark_message_recieved, Record
  <1>7. \A x \in Samples, n \in Messages :
            Marked(r, x, n)' <=> Marked(r, x, n) \/ (x = s /\ n = m)
    <2> TAKE x \in Samples, n \in Messages
    <2>1. CASE x = s /\ s \in Known(r)
      BY <1>4, <1>6, <2>1 DEF Marked
    <2>2. CASE x = s /\ s \notin Known(r)
      <3>1. before.timesteps = {}
        BY <2>2 DEF NewSimulation, Simulation
      <3> HIDE DEF before, after
      <3> QED BY <1>4, <1>6, <2>2, <3>1 DEF Marked
    <2>3. CASE x # s
      BY <1>4, <2>3 DEF Marked
    <2> QED BY <2>1, <2>2, <2>3
  <1>8. ~Marked(r, s, m)
    BY <1>1 DEF Marked
  <1>9. /\ DataSize(r, s, m) > 0 => returned'[r][s][m] = returned[r][s][m] + 1
        /\ returned'[r][s][m] <= returned[r][s][m] + 1
        /\ \A x \in Samples, n \in Messages :
              x # s \/ n # m => returned'[r][x][n] = returned[r][x][n]
    <2>1. returned \in [Ranks -> [Samples -> [Messages -> Nat]]]
      BY DEF Inv, TypeOK
    <2>2. CASE DataSize(r, s, m) > 0
      <3>1. returned' = [returned EXCEPT ![r] = [returned[r] EXCEPT ![s] =
                            [returned[r][s] EXCEPT ![m] = returned[r][s][m] + 1]]]
        BY <2>2 DEF handle_simulation_data
      <3>2. returned[r] \in [Samples -> [Messages -> Nat]]
        BY <2>1
      <3>3. returned[r][s] \in [Messages -> Nat]
        BY <3>2
      <3>4. returned'[r] = [returned[r] EXCEPT ![s] =
                            [returned[r][s] EXCEPT ![m] = returned[r][s][m] + 1]]
        BY <2>1, <3>1
      <3>5. returned'[r][s] = [returned[r][s] EXCEPT ![m] = returned[r][s][m] + 1]
        BY <3>2, <3>4
      <3>6. returned'[r][s][m] = returned[r][s][m] + 1 /\ returned[r][s][m] \in Nat
        BY <3>3, <3>5
      <3>7. ASSUME NEW x \in Samples, NEW n \in Messages, x # s \/ n # m
            PROVE  returned'[r][x][n] = returned[r][x][n]
        BY <3>2, <3>3, <3>4, <3>5, <3>7
      <3> QED BY <3>6, <3>7
    <2>3. CASE ~(DataSize(r, s, m) > 0)
      <3>1. returned' = returned
        BY <2>3 DEF handle_simulation_data
      <3> QED BY <3>1, <2>1, <2>3
    <2> QED BY <2>2, <2>3
  <1>10. ReturnsAreMarked(r)'
    <2> SUFFICES ASSUME NEW x \in Samples, NEW n \in Messages
                 PROVE  /\ returned'[r][x][n] <= Before(r, x)
                                                + (IF Marked(r, x, n)' THEN 1 ELSE 0)
                        /\ Marked(r, x, n)' /\ DataSize(r, x, n) > 0 => returned'[r][x][n] > 0
      BY <1>2 DEF ReturnsAreMarked, DataSize, Before
    <2>0. /\ returned[r][x][n] <= Before(r, x) + (IF Marked(r, x, n) THEN 1 ELSE 0)
          /\ Marked(r, x, n) /\ DataSize(r, x, n) > 0 => returned[r][x][n] > 0
          /\ returned[r][x][n] \in Nat
      BY DEF Inv, TypeOK, RankInv, ReturnsAreMarked
    <2>1. Before(r, x) \in {0, 1}
      BY DEF Before
    <2>t. returned'[r][x][n] \in Int
      BY <1>9, <2>0 DEF handle_simulation_data, Inv, TypeOK
    <2>2. CASE x = s /\ n = m
      <3>1. Marked(r, x, n)' /\ ~Marked(r, x, n)
        BY <1>7, <1>8, <2>2
      <3>2. returned'[r][x][n] <= returned[r][x][n] + 1
        BY <1>9, <2>2
      <3>3. DataSize(r, x, n) > 0 => returned'[r][x][n] = returned[r][x][n] + 1
        BY <1>9, <2>2
      <3> QED BY <2>0, <2>1, <2>t, <3>1, <3>2, <3>3
    <2>3. CASE x # s \/ n # m
      <3>1. Marked(r, x, n)' <=> Marked(r, x, n)
        BY <1>7, <2>3
      <3>2. returned'[r][x][n] = returned[r][x][n]
        BY <1>9, <2>3
      <3> QED BY <2>0, <3>1, <3>2
    <2> QED BY <2>2, <2>3
  <1>11. ReportsFollow(r)'
    <2> SUFFICES ASSUME NEW x \in Samples, ~Removed(r, x)
                 PROVE  IF x \in Known(r)'
                        THEN reported'[r][x] = "FINISHED" <=> finished(simulations'[r][x])
                        ELSE reported'[r][x] = "NOTHING"
      BY <1>2 DEF ReportsFollow, finished
    <2>0. IF x \in Known(r)
          THEN reported[r][x] = "FINISHED" <=> finished(simulations[r][x])
          ELSE reported[r][x] = "NOTHING"
      BY DEF Inv, RankInv, ReportsFollow
    <2>1. /\ reported'[r][s] = IF finished(after) THEN "FINISHED"
                               ELSE IF s \notin Known(r) THEN "RUNNING" ELSE reported[r][s]
          /\ \A y \in Samples : y # s => reported'[r][y] = reported[r][y]
      BY DEF handle_simulation_data, NowFinished, Inv, TypeOK
    <2>2. CASE x = s
      <3>1. ~finished(before)
        BY <1>1 DEF finished
      <3>2. s \in Known(r) => reported[r][s] # "FINISHED"
        BY <2>0, <2>2, <3>1
      <3> HIDE DEF before, after
      <3> QED BY <1>4, <2>1, <2>2, <3>2
    <2>3. CASE x # s
      BY <1>4, <2>0, <2>1, <2>3
    <2> QED BY <2>2, <2>3
  <1>12. SampleShrinks(r)'
    <2>1. RemovedBy(r)' = RemovedBy(r)
      BY <1>2 DEF RemovedBy
    <2> QED BY <2>1, <1>1 DEF Inv, RankInv, SampleShrinks
  <1>13. RemovedAreGone(r)'
    BY <1>1, <1>2, <1>4 DEF Inv, RankInv, RemovedAreGone
  <1>14. ~Ended(r)'
    BY <1>1 DEF Ended
  <1> QED BY <1>3, <1>10, <1>11, <1>12, <1>13, <1>14 DEF RankInv

LEMMA SilenceStep ==
    ASSUME Inv, NEW r \in Ranks, NEW s \in Samples, Silence(r, s)
    PROVE  RankInv(r)'
  <1> DEFINE new == [simulations[r][s] EXCEPT !.silent = TRUE]
  <1>1. /\ text_puller' = text_puller /\ dropped' = dropped /\ lost' = lost /\ pc' = pc
        /\ sample_size' = sample_size /\ returned' = returned /\ reported' = reported
        /\ DOMAIN simulations = Ranks
        /\ simulations'[r] = [simulations[r] EXCEPT ![s] = new]
        /\ pc[r] = "run"
        /\ s \in Known(r)
        /\ simulations[r][s] \in Record
    BY DEF Inv, TypeOK, Silence, Record
  <1>2. \A x \in Samples : Removed(r, x)' <=> Removed(r, x)
    BY <1>1 DEF Removed
  <1>3. QueueInOrder(r)'
    BY <1>1 DEF Inv, RankInv, QueueInOrder
  <1>4. new.timesteps = simulations[r][s].timesteps
    BY <1>1 DEF Record
  <1> HIDE DEF new
  <1>5. /\ Known(r)' = Known(r)
        /\ \A x \in Known(r) : simulations'[r][x].timesteps = simulations[r][x].timesteps
    BY <1>1, <1>4 DEF Known
  <1>6. ReturnsAreMarked(r)'
    BY <1>1, <1>2, <1>5 DEF Inv, RankInv, ReturnsAreMarked, Marked, Before
  <1>7. ReportsFollow(r)'
    BY <1>1, <1>2, <1>5 DEF Inv, RankInv, ReportsFollow, finished
  <1>8. SampleShrinks(r)'
    <2>1. RemovedBy(r)' = RemovedBy(r)
      BY <1>2 DEF RemovedBy
    <2> QED BY <2>1, <1>1 DEF Inv, RankInv, SampleShrinks
  <1>9. RemovedAreGone(r)'
    BY <1>2, <1>5 DEF Inv, RankInv, RemovedAreGone
  <1>10. ~Ended(r)'
    BY <1>1 DEF Ended
  <1> QED BY <1>3, <1>6, <1>7, <1>8, <1>9, <1>10 DEF RankInv


LEMMA EndStep ==
    ASSUME Inv, NEW r \in Ranks, EnterStop(r) \/ LeaveStop(r), NEW q \in Ranks
    PROVE  RankInv(q)'
  <1>1. /\ simulations' = simulations /\ sample_size' = sample_size
        /\ returned' = returned /\ reported' = reported /\ text_puller' = text_puller
        /\ dropped' = dropped /\ lost' = lost
    BY DEF EnterStop, LeaveStop, envVars
  <1>2. pc \in [Ranks -> {"init", "run", "barrier", "stopped"}]
    BY DEF Inv, TypeOK
  <1>3. Ended(q)' => all_done(q)
    <2>0. Ended(q) => all_done(q)
      BY DEF Inv, RankInv
    <2>1. CASE q # r
      BY <1>2, <2>0, <2>1 DEF EnterStop, LeaveStop, Ended
    <2>2. CASE q = r /\ EnterStop(r)
      BY <2>2 DEF EnterStop
    <2>3. CASE q = r /\ LeaveStop(r)
      BY <2>0, <2>3 DEF LeaveStop, Ended
    <2> QED BY <2>1, <2>2, <2>3
  <1> QED BY <1>1, <1>3, Untouched DEF Inv

LEMMA ConnectionStep ==
    ASSUME Inv, NEW s \in Samples, handle_simulation_connection(s), NEW q \in Ranks
    PROVE  RankInv(q)'
  <1>1. /\ simulations' = simulations /\ sample_size' = sample_size
        /\ returned' = returned /\ reported' = reported /\ text_puller' = text_puller
        /\ dropped' = dropped /\ lost' = lost
        /\ Ended(q)' <=> Ended(q)
    BY DEF handle_simulation_connection, Ended
  <1> QED BY <1>1, Untouched DEF Inv, RankInv

\* A message of the launcher, to the ranks that do not miss it.
LEMMA PublishStep ==
    ASSUME Inv, NEW kind \in {"JOB", "DROP"}, NEW s \in Samples, NEW away \in SUBSET Ranks,
           Publish(<<kind, s>>, away), s \notin dropped,
           IF kind = "JOB" THEN dropped' = dropped /\ lost' = lost
           ELSE dropped' = dropped \cup {s} /\ lost' = lost \cup (away \X {s}),
           UNCHANGED <<pc, simulations, sample_size, returned, reported>>,
           NEW r \in Ranks
    PROVE  RankInv(r)'
  <1> DEFINE q == text_puller[r]
             msg == <<kind, s>>
  <1>1. /\ q \in Seq(TextMessage) /\ msg \in TextMessage
        /\ text_puller'[r] = IF r \in away THEN q ELSE Append(q, msg)
    BY DEF Inv, TypeOK, TextMessage, Publish
  <1>2. QueueInOrder(r)
    BY DEF Inv, RankInv
  \* nothing of a simulation that is not dropped is lost, nor is its DROP waiting
  <1>3. \A i \in DOMAIN q : q[i] # <<"DROP", s>>
    BY <1>2 DEF QueueInOrder
  <1>4. \A x : x \in Range(text_puller'[r]) <=> x \in Range(q) \/ (r \notin away /\ x = msg)
    BY <1>1, QueueAppend
  <1>5. \A x \in Samples : Removed(r, x)' <=> Removed(r, x)
    <2> TAKE x \in Samples
    <2>1. CASE x # s
      BY <1>4, <2>1 DEF Removed
    <2>2. CASE x = s /\ kind = "JOB"
      BY <2>2 DEF Removed
    <2>3. CASE x = s /\ kind = "DROP"
      <3>1. r \in away => <<r, s>> \in lost'
        BY <2>3
      <3>2. r \notin away => <<"DROP", s>> \in Range(text_puller'[r])
        BY <1>4, <2>3
      <3> QED BY <2>3, <3>1, <3>2 DEF Removed
    <2> QED BY <2>1, <2>2, <2>3
  <1>6. QueueInOrder(r)'
    <2> DEFINE p == text_puller'[r]
    <2>1. /\ \A i \in DOMAIN q : i \in DOMAIN p /\ p[i] = q[i] /\ i < Len(q) + 1
          /\ \A i \in DOMAIN p : i \in DOMAIN q \/ (i = Len(q) + 1 /\ p[i] = msg /\ r \notin away)
          /\ r \notin away => Len(q) + 1 \in DOMAIN p /\ p[Len(q) + 1] = msg
          /\ \A i \in DOMAIN q : i < Len(q) + 1
      <3>1. CASE r \in away
        BY <1>1, <3>1
      <3>2. CASE r \notin away
        <4>1. p = Append(q, msg)
          BY <1>1, <3>2
        <4> HIDE DEF p, q, msg
        <4> QED BY <1>1, <4>1, <3>2, QueueAppend
      <3> QED BY <3>1, <3>2
    <2> HIDE DEF p
    <2> SUFFICES ASSUME NEW i \in DOMAIN p, NEW x \in Samples
                 PROVE  /\ p[i] = <<"DROP", x>> =>
                              /\ x \in dropped' /\ <<r, x>> \notin lost'
                              /\ \A j \in DOMAIN p : p[j] = <<"DROP", x>> => i = j
                        /\ p[i] = <<"JOB", x>> /\ x \in dropped' /\ <<r, x>> \notin lost' =>
                              \E j \in DOMAIN p : i < j /\ p[j] = <<"DROP", x>>
      BY Zenon DEF QueueInOrder, p
    <2>2. CASE x # s
      <3>1. /\ i \in DOMAIN q \/ p[i] = msg
            /\ x \in dropped' <=> x \in dropped
            /\ <<r, x>> \in lost' <=> <<r, x>> \in lost
        BY <2>1, <2>2
      <3>2. ASSUME p[i] = <<"DROP", x>>
            PROVE  /\ x \in dropped' /\ <<r, x>> \notin lost'
                   /\ \A j \in DOMAIN p : p[j] = <<"DROP", x>> => i = j
        <4>1. i \in DOMAIN q /\ q[i] = <<"DROP", x>>
          BY <2>1, <2>2, <3>2
        <4>2. \A j \in DOMAIN p : p[j] = <<"DROP", x>> => j \in DOMAIN q /\ q[j] = p[j]
          BY <2>1, <2>2
        <4> QED BY <1>2, <3>1, <4>1, <4>2 DEF QueueInOrder
      <3>3. ASSUME p[i] = <<"JOB", x>>, x \in dropped', <<r, x>> \notin lost'
            PROVE  \E j \in DOMAIN p : i < j /\ p[j] = <<"DROP", x>>
        <4>1. i \in DOMAIN q /\ q[i] = <<"JOB", x>>
          BY <2>1, <2>2, <3>3
        <4>2. PICK j \in DOMAIN q : i < j /\ q[j] = <<"DROP", x>>
          BY <1>2, <3>1, <3>3, <4>1 DEF QueueInOrder
        <4> QED BY <2>1, <4>2
      <3> QED BY <3>2, <3>3
    <2>3. CASE x = s /\ kind = "JOB"
      <3>1. p[i] # <<"DROP", s>>
        BY <1>3, <2>1, <2>3
      <3>2. s \notin dropped'
        BY <2>3
      <3> QED BY <2>3, <3>1, <3>2
    <2>4. CASE x = s /\ kind = "DROP"
      <3>1. \A j \in DOMAIN p : p[j] = <<"DROP", s>> => j = Len(q) + 1 /\ r \notin away
        BY <1>3, <2>1
      <3>2. \A j \in DOMAIN p : p[j] = <<"JOB", s>> => j < Len(q) + 1
        BY <2>1, <2>4
      <3>3. r \notin away => s \in dropped' /\ <<r, s>> \notin lost'
        BY <2>4 DEF Inv, LostAreDropped
      <3>4. r \in away => <<r, s>> \in lost'
        BY <2>4
      <3>5. ASSUME p[i] = <<"DROP", x>>
            PROVE  /\ x \in dropped' /\ <<r, x>> \notin lost'
                   /\ \A j \in DOMAIN p : p[j] = <<"DROP", x>> => i = j
        BY <2>4, <3>1, <3>3, <3>5
      <3>6. ASSUME p[i] = <<"JOB", x>>, x \in dropped', <<r, x>> \notin lost'
            PROVE  \E j \in DOMAIN p : i < j /\ p[j] = <<"DROP", x>>
        <4>1. r \notin away
          BY <2>4, <3>4, <3>6
        <4>2. Len(q) + 1 \in DOMAIN p /\ p[Len(q) + 1] = <<"DROP", x>> /\ i < Len(q) + 1
          BY <2>1, <2>4, <3>2, <3>6, <4>1
        <4> QED BY <4>2
      <3> QED BY <3>5, <3>6
    <2> QED BY <2>2, <2>3, <2>4
  <1>7. Ended(r)' => all_done(r)
    BY DEF Inv, RankInv, Ended
  <1> QED BY <1>5, <1>6, <1>7, Kept DEF Inv

\* The server starts again, its ranks know nothing.
LEMMA CrashStep ==
    ASSUME Inv, CrashAndRestart, NEW r \in Ranks
    PROVE  RankInv(r)'
  <1>1. /\ simulations'[r] = <<>> /\ text_puller'[r] = <<>> /\ sample_size'[r] = NbSamples
        /\ pc'[r] \in {"init", "run"}
        /\ \A s \in Samples : reported'[r][s] = "NOTHING"
        /\ \A s \in Samples, m \in Messages : returned'[r][s][m] = 0
    BY DEF CrashAndRestart, Started
  <1>2. DOMAIN <<>> = {}
    OBVIOUS
  <1>3. Known(r)' = {}
    BY <1>1, <1>2 DEF Known
  <1>4. QueueInOrder(r)'
    BY <1>1, <1>2 DEF QueueInOrder
  <1>5. ReturnsAreMarked(r)'
    <2> SUFFICES ASSUME NEW s \in Samples, NEW m \in Messages
                 PROVE  /\ returned'[r][s][m] <= Before(r, s)'
                                                + (IF Marked(r, s, m)' THEN 1 ELSE 0)
                        /\ ~Marked(r, s, m)'
      BY DEF ReturnsAreMarked
    <2>1. Before(r, s)' \in {0, 1} /\ ~Marked(r, s, m)'
      BY <1>3 DEF Marked, Before
    <2> QED BY <1>1, <2>1
  <1>6. ReportsFollow(r)'
    BY <1>1, <1>3 DEF ReportsFollow
  <1>7. SampleShrinks(r)'
    <2>1. RemovedBy(r)' \subseteq Samples
      BY DEF RemovedBy
    <2>2. Cardinality(RemovedBy(r)') \in Nat
      BY <2>1, SamplesFinite, FS_Subset, FS_CardinalityType
    <2> QED BY <1>1, <2>2, PyServerAssumption DEF SampleShrinks
  <1>8. RemovedAreGone(r)'
    BY <1>3 DEF RemovedAreGone
  <1>9. ~Ended(r)'
    BY <1>1 DEF Ended
  <1> QED BY <1>4, <1>5, <1>6, <1>7, <1>8, <1>9 DEF RankInv

-----------------------------------------------------------------------------
(* Types, and what is not about one rank.                                    *)

\* What handle_launcher_message does, with the lemma its message calls for.
LEMMA TextStep ==
    ASSUME Inv, NEW r \in Ranks, handle_launcher_message(r)
    PROVE  /\ RankInv(r)'
           /\ sample_size'[r] \in 0 .. NbSamples
           /\ text_puller'[r] \in Seq(TextMessage)
           /\ Known(r)' \subseteq Samples
           /\ \A s \in Known(r)' : simulations'[r][s] \in Record
  <1>1. /\ text_puller[r] \in Seq(TextMessage) /\ text_puller[r] # <<>>
        /\ text_puller'[r] = Tail(text_puller[r])
        /\ sample_size[r] \in 0 .. NbSamples
        /\ DOMAIN simulations = Ranks /\ DOMAIN sample_size = Ranks
        /\ Known(r) \subseteq Samples
        /\ \A s \in Known(r) : simulations[r][s] \in Record
    BY DEF Inv, TypeOK, TextMessage, Record, handle_launcher_message
  <1>2. text_puller'[r] \in Seq(TextMessage) /\ Head(text_puller[r]) \in TextMessage
    BY <1>1, QueueTail
  <1>3. PICK kind \in {"JOB", "DROP"}, s \in Samples : Head(text_puller[r]) = <<kind, s>>
    BY <1>2 DEF TextMessage
  <1>4. CASE kind = "JOB"
    <2>1. RankInv(r)'
      BY <1>3, <1>4, JobStep
    <2>2. /\ sample_size' = sample_size
          /\ simulations'[r] = IF s \in Known(r) THEN simulations[r]
                               ELSE WithSimulation(simulations[r], s, NewSimulation)
      BY <1>1, <1>3, <1>4 DEF handle_launcher_message, Job
    <2>3. NewSimulation \in Record
      BY DEF NewSimulation, Simulation, Record
    <2>4. Known(r)' \subseteq Samples /\ \A x \in Known(r)' : simulations'[r][x] \in Record
      <3>1. CASE s \in Known(r)
        BY <1>1, <2>2, <3>1 DEF Known
      <3>2. CASE s \notin Known(r)
        <4> HIDE DEF NewSimulation, Record
        <4>1. simulations'[r] = [x \in Known(r) \cup {s} |->
                                    IF x = s THEN NewSimulation ELSE simulations[r][x]]
          BY <2>2, <3>2 DEF WithSimulation, Known
        <4> QED BY <1>1, <2>3, <4>1 DEF Known
      <3> QED BY <3>1, <3>2
    <2> QED BY <1>1, <1>2, <2>1, <2>2, <2>4
  <1>5. CASE kind = "DROP"
    <2>1. RankInv(r)' /\ sample_size'[r] \in 0 .. NbSamples
      BY <1>3, <1>5, DropStep
    <2>2. simulations'[r] = [x \in Known(r) \ {s} |-> simulations[r][x]]
      BY <1>1, <1>3, <1>5 DEF handle_launcher_message, Drop, Without, Known
    <2>3. Known(r)' \subseteq Samples /\ \A x \in Known(r)' : simulations'[r][x] \in Record
      BY <1>1, <2>2 DEF Known
    <2> QED BY <1>2, <2>1, <2>3
  <1> QED BY <1>4, <1>5

LEMMA DataTypes ==
    ASSUME Inv, NEW r \in Ranks, NEW s \in Samples, NEW m \in Messages,
           handle_simulation_data(r, s, m)
    PROVE  /\ Known(r)' \subseteq Samples
           /\ \A x \in Known(r)' : simulations'[r][x] \in Record
           /\ returned' \in [Ranks -> [Samples -> [Messages -> Nat]]]
           /\ reported' \in [Ranks -> [Samples -> Report]]
  <1> DEFINE before == IF s \in Known(r) THEN simulations[r][s] ELSE NewSimulation
             after  == mark_message_recieved(before, m)
  <1>1. before \in Record
    BY DEF Inv, TypeOK, Record, NewSimulation, Simulation
  <1>2. after \in Record
    <2> HIDE DEF before
    <2> QED BY <1>1 DEF mark_message_recieved, Record
  <1>3. simulations'[r] = [x \in Known(r) \cup {s} |-> IF x = s THEN after ELSE simulations[r][x]]
    BY DEF handle_simulation_data, WithSimulation, Known, Inv, TypeOK
  <1>4. /\ Known(r) \subseteq Samples /\ \A x \in Known(r) : simulations[r][x] \in Record
        /\ returned \in [Ranks -> [Samples -> [Messages -> Nat]]]
        /\ reported \in [Ranks -> [Samples -> Report]]
    BY DEF Inv, TypeOK, Record, Report
  <1>5. returned' \in [Ranks -> [Samples -> [Messages -> Nat]]]
    BY <1>4 DEF handle_simulation_data
  <1>6. reported' \in [Ranks -> [Samples -> Report]]
    <2>1. PICK x \in Report : reported' = [reported EXCEPT ![r] = [reported[r] EXCEPT ![s] = x]]
      <3> HIDE DEF before, after
      <3>1. reported' = [reported EXCEPT ![r] = [reported[r] EXCEPT ![s] =
                IF NowFinished(before, after) THEN "FINISHED"
                ELSE IF s \notin Known(r) THEN "RUNNING" ELSE reported[r][s]]]
        BY DEF handle_simulation_data, before, after
      <3>2. reported[r][s] \in Report /\ "FINISHED" \in Report /\ "RUNNING" \in Report
        BY <1>4 DEF Report
      <3> QED BY <3>1, <3>2
    <2> QED BY <1>4, <2>1
  <1> HIDE DEF after
  <1> QED BY <1>2, <1>3, <1>4, <1>5, <1>6 DEF Known

LEMMA TypeStep ==
    ASSUME Inv, [Next]_vars
    PROVE  TypeOK'
  <1>t. TypeOK
    BY DEF Inv
  <1>1. ASSUME NEW r \in Ranks, handle_launcher_message(r)
        PROVE  TypeOK'
    <2>1. /\ sample_size'[r] \in 0 .. NbSamples /\ text_puller'[r] \in Seq(TextMessage)
          /\ Known(r)' \subseteq Samples /\ \A s \in Known(r)' : simulations'[r][s] \in Record
      BY <1>1, TextStep
    <2>2. /\ DOMAIN simulations' = Ranks /\ DOMAIN sample_size' = Ranks
          /\ \A q \in Ranks : q # r => /\ simulations'[q] = simulations[q]
                                       /\ sample_size'[q] = sample_size[q]
      BY <1>1, <1>t DEF handle_launcher_message, Job, Drop, TypeOK
    <2>3. sample_size' \in [Ranks -> 0 .. NbSamples]
      <3>1. \A q \in Ranks : sample_size'[q] \in 0 .. NbSamples
        BY <1>t, <2>1, <2>2 DEF TypeOK
      <3>2. sample_size' = [q \in Ranks |-> sample_size'[q]]
        BY <1>1, <1>t DEF handle_launcher_message, Job, Drop, TypeOK
      <3> QED BY <3>1, <3>2
    <2>4. text_puller' \in [Ranks -> Seq(TextMessage)]
      BY <1>1, <1>t, <2>1 DEF handle_launcher_message, TypeOK, TextMessage
    <2>5. \A q \in Ranks : /\ Known(q)' \subseteq Samples
                           /\ \A s \in Known(q)' : simulations'[q][s] \in Record
      <3> TAKE q \in Ranks
      <3>1. CASE q = r
        BY <2>1, <3>1
      <3>2. CASE q # r
        BY <1>t, <2>2, <3>2 DEF TypeOK, Known, Record
      <3> QED BY <3>1, <3>2
    <2> QED BY <1>1, <1>t, <2>2, <2>3, <2>4, <2>5
         DEF handle_launcher_message, TypeOK, TextMessage, Record, rootVars, envVars, faults
  <1>2. ASSUME NEW r \in Ranks, EnterStop(r) \/ LeaveStop(r)
        PROVE  TypeOK'
    BY <1>2, <1>t DEF EnterStop, LeaveStop, TypeOK, envVars, faults, Known
  <1>3. ASSUME NEW r \in Ranks, NEW s \in Samples, Silence(r, s)
        PROVE  TypeOK'
    <2>1. /\ DOMAIN simulations' = Ranks
          /\ \A q \in Ranks : /\ Known(q)' \subseteq Samples
                               /\ \A x \in Known(q)' : simulations'[q][x] \in Record
      <3>1. simulations' = [simulations EXCEPT ![r] =
                 [simulations[r] EXCEPT ![s] = [simulations[r][s] EXCEPT !.silent = TRUE]]]
        BY <1>3 DEF Silence
      <3>2. /\ DOMAIN simulations = Ranks
            /\ \A q \in Ranks : /\ DOMAIN simulations[q] \subseteq Samples
                                 /\ \A x \in DOMAIN simulations[q] : simulations[q][x] \in Record
            /\ s \in DOMAIN simulations[r]
        BY <1>3, <1>t DEF Silence, TypeOK, Known, Record
      <3>3. [simulations[r][s] EXCEPT !.silent = TRUE] \in Record
        BY <3>2 DEF Record
      <3> QED BY <3>1, <3>2, <3>3 DEF Known
    <2>2. silences' \in Nat /\ faults' <= MaxFaults
      BY <1>3, <1>t, PyServerAssumption DEF Silence, TypeOK, faults
    <2> QED BY <1>3, <1>t, <2>1, <2>2 DEF Silence, TypeOK, Record, rootVars
  <1>4. ASSUME NEW r \in Ranks, NEW s \in Samples, NEW m \in Messages,
               handle_simulation_data(r, s, m)
        PROVE  TypeOK'
    <2>1. /\ Known(r)' \subseteq Samples
          /\ \A x \in Known(r)' : simulations'[r][x] \in Record
          /\ returned' \in [Ranks -> [Samples -> [Messages -> Nat]]]
          /\ reported' \in [Ranks -> [Samples -> Report]]
      BY <1>4, DataTypes
    <2>2. /\ DOMAIN simulations' = Ranks
          /\ \A q \in Ranks : q # r => simulations'[q] = simulations[q]
      BY <1>4, <1>t DEF handle_simulation_data, TypeOK
    <2>3. \A q \in Ranks : /\ Known(q)' \subseteq Samples
                           /\ \A x \in Known(q)' : simulations'[q][x] \in Record
      <3> TAKE q \in Ranks
      <3>1. CASE q = r
        BY <2>1, <3>1
      <3>2. CASE q # r
        BY <1>t, <2>2, <3>2 DEF TypeOK, Known, Record
      <3> QED BY <3>1, <3>2
    <2>4. UNCHANGED <<pc, sample_size, text_puller, rootVars, envVars>>
      BY <1>4 DEF handle_simulation_data
    <2> QED BY <1>t, <2>1, <2>2, <2>3, <2>4
         DEF TypeOK, Record, Report, rootVars, envVars, faults
  <1>5. ASSUME NEW s \in Samples, handle_simulation_connection(s)
        PROVE  TypeOK'
    BY <1>5, <1>t DEF handle_simulation_connection, TypeOK, faults, Known
  <1>6. ASSUME NEW s \in Samples, NEW kind \in {"JOB", "DROP"}, NEW away \in SUBSET Ranks,
               Publish(<<kind, s>>, away)
        PROVE  /\ text_puller' \in [Ranks -> Seq(TextMessage)]
               /\ missed' \in Nat /\ missed' = missed + Cardinality(away)
               /\ faults + Cardinality(away) <= MaxFaults
    <2>1. Cardinality(away) \in Nat
      BY RanksFinite, FS_Subset, FS_CardinalityType
    <2>2. <<kind, s>> \in TextMessage
      BY DEF TextMessage
    <2>3. text_puller' \in [Ranks -> Seq(TextMessage)]
      <3>1. ASSUME NEW r \in Ranks
            PROVE  Append(text_puller[r], <<kind, s>>) \in Seq(TextMessage)
        BY <1>t, <2>2 DEF TypeOK, TextMessage
      <3> QED BY <1>6, <1>t, <3>1 DEF Publish, TypeOK, TextMessage
    <2>4. /\ missed' = missed + Cardinality(away)
          /\ faults + Cardinality(away) <= MaxFaults
      BY <1>6 DEF Publish
    <2>5. missed \in Nat
      BY <1>t DEF TypeOK
    <2> QED BY <2>1, <2>3, <2>4, <2>5
  <1>7. ASSUME NEW s \in Samples, Submit(s)
        PROVE  TypeOK'
    <2>1. PICK away \in SUBSET Ranks : Publish(<<"JOB", s>>, away)
      BY <1>7 DEF Submit
    <2>2. /\ text_puller' \in [Ranks -> Seq(TextMessage)] /\ missed' \in Nat
          /\ silences' = silences /\ crashes' = crashes /\ faults' <= MaxFaults
      <3>1. /\ text_puller' \in [Ranks -> Seq(TextMessage)] /\ missed' \in Nat
            /\ missed' = missed + Cardinality(away)
            /\ faults + Cardinality(away) <= MaxFaults
        BY <1>6, <2>1
      <3>2. Cardinality(away) \in Nat
        BY RanksFinite, FS_Subset, FS_CardinalityType
      <3> QED BY <1>7, <1>t, <3>1, <3>2 DEF Submit, faults, TypeOK
    <2>3. launches' \in [Samples -> 0 .. MaxLaunches]
      BY <1>7, <1>t, PyServerAssumption DEF Submit, TypeOK
    <2> QED BY <1>7, <1>t, <2>2, <2>3 DEF Submit, TypeOK, TextMessage, rootVars, Known
  <1>8. ASSUME NEW s \in Samples, GiveUp(s)
        PROVE  TypeOK'
    <2>1. PICK away \in SUBSET Ranks : /\ Publish(<<"DROP", s>>, away)
                                       /\ lost' = lost \cup (away \X {s})
      BY <1>8 DEF GiveUp
    <2>2. /\ text_puller' \in [Ranks -> Seq(TextMessage)] /\ missed' \in Nat
          /\ silences' = silences /\ crashes' = crashes /\ faults' <= MaxFaults
      <3>1. /\ text_puller' \in [Ranks -> Seq(TextMessage)] /\ missed' \in Nat
            /\ missed' = missed + Cardinality(away)
            /\ faults + Cardinality(away) <= MaxFaults
        BY <1>6, <2>1
      <3>2. Cardinality(away) \in Nat
        BY RanksFinite, FS_Subset, FS_CardinalityType
      <3> QED BY <1>8, <1>t, <3>1, <3>2 DEF GiveUp, faults, TypeOK
    <2>3. lost' \subseteq Ranks \X Samples
      BY <1>t, <2>1 DEF TypeOK
    <2> QED BY <1>8, <1>t, <2>2, <2>3 DEF GiveUp, TypeOK, TextMessage, rootVars, Known
  <1>9. ASSUME CrashAndRestart
        PROVE  TypeOK'
    <2>1. PICK restart \in BOOLEAN : Started(restart)
      BY <1>9 DEF CrashAndRestart
    <2>2. DOMAIN <<>> = {} /\ <<>> \in Seq({"JOB", "DROP"} \X Samples)
      OBVIOUS
    <2>3. /\ DOMAIN simulations' = Ranks
          /\ \A r \in Ranks : Known(r)' = {}
      BY <2>1, <2>2 DEF Started, Known
    <2>4. sample_size' \in [Ranks -> 0 .. NbSamples]
      BY <2>1, PyServerAssumption DEF Started
    <2>5. returned' \in [Ranks -> [Samples -> [Messages -> Nat]]]
      BY <2>1 DEF Started
    <2>6. reported' \in [Ranks -> [Samples -> {"NOTHING", "RUNNING", "FINISHED"}]]
      BY <2>1 DEF Started
    <2>7. /\ text_puller' \in [Ranks -> Seq({"JOB", "DROP"} \X Samples)]
          /\ pc' \in [Ranks -> {"init", "run", "barrier", "stopped"}]
          /\ first_connection_recieved' \in BOOLEAN /\ stopping' \in BOOLEAN
      BY <2>1, <2>2 DEF Started
    <2>8. /\ silences' \in Nat /\ missed' \in Nat /\ crashes' \in Nat /\ faults' <= MaxFaults
      BY <1>9, <1>t, PyServerAssumption DEF CrashAndRestart, TypeOK, faults
    <2> QED BY <1>9, <1>t, <2>3, <2>4, <2>5, <2>6, <2>7, <2>8 DEF CrashAndRestart, TypeOK
  <1>10. CASE UNCHANGED vars
    BY <1>10, <1>t DEF vars, rankVars, rootVars, envVars, TypeOK, Known, faults
  <1> QED BY <1>1, <1>2, <1>3, <1>4, <1>5, <1>7, <1>8, <1>9, <1>10 DEF Next

LEMMA CommonStep ==
    ASSUME Inv, [Next]_vars
    PROVE  EndIsCommon' /\ LostAreDropped'
  <1>0. /\ EndIsCommon /\ LostAreDropped
        /\ pc \in [Ranks -> {"init", "run", "barrier", "stopped"}]
    BY DEF Inv, TypeOK
  <1>1. CASE UNCHANGED <<pc, stop_sent, dropped, lost>>
    BY <1>0, <1>1 DEF EndIsCommon, LostAreDropped, Ended
  <1>2. ASSUME NEW r \in Ranks, EnterStop(r)
        PROVE  EndIsCommon' /\ LostAreDropped'
    <2>1. ~Ended(r) /\ ~stop_sent /\ \A q \in Ranks : pc[q] # "stopped"
      BY <1>0, <1>2 DEF EnterStop, EndIsCommon, Ended
    <2>2. ~stop_sent' /\ \A q \in Ranks : pc'[q] # "stopped"
      BY <1>0, <1>2, <2>1 DEF EnterStop
    <2> QED BY <1>0, <1>2, <2>2 DEF EnterStop, EndIsCommon, LostAreDropped, envVars
  <1>3. ASSUME NEW r \in Ranks, LeaveStop(r)
        PROVE  EndIsCommon' /\ LostAreDropped'
    <2>1. \A q \in Ranks : pc'[q] \in {"barrier", "stopped"}
      BY <1>0, <1>3 DEF LeaveStop, Barrier
    <2> QED BY <1>0, <1>3, <2>1 DEF LeaveStop, EndIsCommon, LostAreDropped, Ended, envVars
  <1>4. ASSUME NEW s \in Samples, handle_simulation_connection(s)
        PROVE  EndIsCommon' /\ LostAreDropped'
    BY <1>0, <1>4 DEF handle_simulation_connection, EndIsCommon, LostAreDropped, Ended
  <1>5. ASSUME NEW s \in Samples, GiveUp(s)
        PROVE  EndIsCommon' /\ LostAreDropped'
    BY <1>0, <1>5 DEF GiveUp, EndIsCommon, LostAreDropped, Ended, rootVars
  <1>6. ASSUME CrashAndRestart
        PROVE  EndIsCommon' /\ LostAreDropped'
    <2>1. ~stop_sent' /\ \A q \in Ranks : pc'[q] \in {"init", "run"}
      BY <1>6 DEF CrashAndRestart, Started
    <2> QED BY <1>0, <1>6, <2>1 DEF CrashAndRestart, EndIsCommon, LostAreDropped
  <1>7. ASSUME NEW r \in Ranks,
               \/ handle_launcher_message(r) \/ \E s \in Samples : Silence(r, s)
               \/ \E s \in Samples, m \in Messages : handle_simulation_data(r, s, m)
        PROVE  UNCHANGED <<pc, stop_sent, dropped, lost>>
    BY <1>7 DEF handle_launcher_message, Silence, handle_simulation_data, rootVars, envVars
  <1>8. ASSUME NEW s \in Samples, Submit(s)
        PROVE  UNCHANGED <<pc, stop_sent, dropped, lost>>
    BY <1>8 DEF Submit, rootVars
  <1>9. UNCHANGED vars => UNCHANGED <<pc, stop_sent, dropped, lost>>
    BY DEF vars, rankVars, rootVars, envVars
  <1> QED BY <1>1, <1>2, <1>3, <1>4, <1>5, <1>6, <1>7, <1>8, <1>9 DEF Next

\* What a rank does to itself is no matter to the others.
LEMMA OthersStep ==
    ASSUME Inv, NEW r \in Ranks, NEW q \in Ranks, q # r,
           \/ handle_launcher_message(r) \/ \E s \in Samples : Silence(r, s)
           \/ \E s \in Samples, m \in Messages : handle_simulation_data(r, s, m)
    PROVE  RankInv(q)'
  <1>1. /\ DOMAIN simulations = Ranks /\ DOMAIN sample_size = Ranks
        /\ DOMAIN text_puller = Ranks /\ DOMAIN returned = Ranks /\ DOMAIN reported = Ranks
    BY DEF Inv, TypeOK
  <1>2. /\ simulations'[q] = simulations[q] /\ sample_size'[q] = sample_size[q]
        /\ returned'[q] = returned[q] /\ reported'[q] = reported[q]
        /\ text_puller'[q] = text_puller[q] /\ dropped' = dropped /\ lost' = lost /\ pc' = pc
    <2>1. CASE handle_launcher_message(r)
      BY <1>1, <2>1 DEF handle_launcher_message, Job, Drop, envVars
    <2>2. CASE \E s \in Samples : Silence(r, s)
      BY <1>1, <2>2 DEF Silence
    <2>3. CASE \E s \in Samples, m \in Messages : handle_simulation_data(r, s, m)
      BY <1>1, <2>3 DEF handle_simulation_data, envVars
    <2> QED BY <2>1, <2>2, <2>3
  <1> QED BY <1>2, Untouched DEF Inv, RankInv, Ended

LEMMA RankStep ==
    ASSUME Inv, [Next]_vars, NEW q \in Ranks
    PROVE  RankInv(q)'
  <1>1. ASSUME NEW r \in Ranks, handle_launcher_message(r)
        PROVE  RankInv(q)'
    BY <1>1, TextStep, OthersStep
  <1>2. ASSUME NEW r \in Ranks, EnterStop(r) \/ LeaveStop(r)
        PROVE  RankInv(q)'
    BY <1>2, EndStep
  <1>3. ASSUME NEW r \in Ranks, NEW s \in Samples, Silence(r, s)
        PROVE  RankInv(q)'
    BY <1>3, SilenceStep, OthersStep
  <1>4. ASSUME NEW r \in Ranks, NEW s \in Samples, NEW m \in Messages,
               handle_simulation_data(r, s, m)
        PROVE  RankInv(q)'
    BY <1>4, DataStep, OthersStep
  <1>5. ASSUME NEW s \in Samples, handle_simulation_connection(s)
        PROVE  RankInv(q)'
    BY <1>5, ConnectionStep
  <1>6. ASSUME NEW s \in Samples, Submit(s)
        PROVE  RankInv(q)'
    <2>1. PICK away \in SUBSET Ranks : Publish(<<"JOB", s>>, away)
      BY <1>6 DEF Submit
    <2>2. /\ s \notin dropped /\ dropped' = dropped /\ lost' = lost
          /\ UNCHANGED <<pc, simulations, sample_size, returned, reported>>
      BY <1>6 DEF Submit
    <2> QED BY <2>1, <2>2, PublishStep
  <1>7. ASSUME NEW s \in Samples, GiveUp(s)
        PROVE  RankInv(q)'
    <2>1. PICK away \in SUBSET Ranks : /\ Publish(<<"DROP", s>>, away)
                                       /\ lost' = lost \cup (away \X {s})
      BY <1>7 DEF GiveUp
    <2>2. /\ s \notin dropped /\ dropped' = dropped \cup {s}
          /\ UNCHANGED <<pc, simulations, sample_size, returned, reported>>
      BY <1>7 DEF GiveUp
    <2>3. "DROP" # "JOB"
      OBVIOUS
    <2> QED BY <2>1, <2>2, <2>3, PublishStep
  <1>8. CASE CrashAndRestart
    BY <1>8, CrashStep
  <1>9. CASE UNCHANGED vars
    BY <1>9, Untouched DEF Inv, RankInv, Ended, vars, rankVars, envVars
  <1> QED BY <1>1, <1>2, <1>3, <1>4, <1>5, <1>6, <1>7, <1>8, <1>9 DEF Next

LEMMA InvStep == Inv /\ [Next]_vars => Inv'
  BY TypeStep, CommonStep, RankStep DEF Inv

LEMMA InvHolds == Spec => []Inv
  BY InitInv, InvStep, PTL DEF Spec

-----------------------------------------------------------------------------
(* The theorems.                                                            *)

\* The variables keep their types: no rank counts its sample_size below zero,
\* and nothing is known but the simulations of the study.
THEOREM TypesAreKept == Spec => []TypeOK
  <1>1. Inv => TypeOK
    BY DEF Inv
  <1> QED BY InvHolds, <1>1, PTL

\* A time step is returned to the user once (server.py 368-375), whatever is
\* launched again, lost or restarted; twice if the simulation was removed.
THEOREM NothingTwice == Spec => []ReturnedOnce
  <1>1. Inv => ReturnedOnce
    <2> SUFFICES ASSUME Inv, NEW r \in Ranks, NEW s \in Samples, NEW m \in Messages
                 PROVE  returned[r][s][m] <= IF Removed(r, s) THEN 2 ELSE 1
      BY DEF ReturnedOnce
    <2>1. /\ returned[r][s][m] <= Before(r, s) + (IF Marked(r, s, m) THEN 1 ELSE 0)
          /\ returned[r][s][m] \in Nat
      BY DEF Inv, TypeOK, RankInv, ReturnsAreMarked
    <2> QED BY <2>1 DEF Before
  <1> QED BY InvHolds, <1>1, PTL

\* A rank reports a simulation as finished exactly when all its messages have
\* come (server.py 381-386).
THEOREM ReportsAreTrue == Spec => []FinishedReported
  <1>1. Inv => FinishedReported
    BY DEF Inv, TypeOK, RankInv, ReportsFollow, FinishedReported
  <1> QED BY InvHolds, <1>1, PTL

\* If no data comes after the removal of a simulation, the launcher is told to
\* stop only when every rank has returned what there was to return of every
\* simulation not given up, or has found it silent (server.py 275-291, 393-401).
THEOREM NothingIsMissing ==
    ASSUME "late_data" \notin Faults
    PROVE  Spec => []StopMeansReturned
  <1>1. Inv => StopMeansReturned
    <2> SUFFICES ASSUME Inv, stop_sent, NEW r \in Ranks, NEW s \in Samples, s \notin dropped
                 PROVE  Collected(r, s)
      BY DEF StopMeansReturned
    <2>1. RankInv(r) /\ all_done(r)
      BY DEF Inv, EndIsCommon, RankInv
    <2>2. s \in Known(r)
      <3>1. /\ Known(r) \subseteq Samples /\ sample_size[r] \in 0 .. NbSamples
            /\ \A x \in Samples : Removed(r, x) => x \notin Known(r)
            /\ SampleShrinks(r) /\ ~Removed(r, s)
        BY <2>1 DEF Inv, TypeOK, RankInv, RemovedAreGone, Removed
      <3> QED BY <2>1, <3>1, NoMoreToDo
    <2>3. finished(simulations[r][s]) \/ crashed(simulations[r][s])
      BY <2>1, <2>2 DEF all_done
    <2>4. CASE finished(simulations[r][s])
      <3>1. \A m \in Messages : Marked(r, s, m)
        BY <2>2, <2>4 DEF finished, Marked
      <3> QED BY <2>1, <2>2, <3>1 DEF RankInv, ReturnsAreMarked, Collected
    <2>5. CASE crashed(simulations[r][s])
      BY <2>2, <2>5 DEF crashed, Collected
    <2> QED BY <2>3, <2>4, <2>5
  <1> QED BY InvHolds, <1>1, PTL

=============================================================================
