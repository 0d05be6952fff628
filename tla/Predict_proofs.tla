--------------------------- MODULE Predict_proofs ---------------------------
(***************************************************************************)
(* Prediction for every table, test set and number of threads: what the    *)
(* loops of PredictBurst look at, the barrier of Predict, and that the     *)
(* answers, cache and all, are those of NearestOracle.                     *)
(***************************************************************************)
EXTENDS Predict, FiniteSetTheorems, TLAPS

-----------------------------------------------------------------------------
(* The window *)

(* The cast to uint8_t of line 358 loses nothing for a validated burst.     *)
LEMMA CastKeeps ==
    ASSUME NEW test, Sized(test)
    PROVE  iMax(test) = Least(test.uniPktNum + UNISIG_RANGE, BURST_MAX_UNISIG)
<1>1. test.uniPktNum + UNISIG_RANGE \in 0 .. UINT8 - 1
    BY WindowAssumption DEF Sized
<1>2. \A n \in 0 .. UINT8 - 1 : n % UINT8 = n
    BY WindowAssumption
<1>3. QED  BY <1>1, <1>2 DEF iMax

(* The window of the table and the comparable sizes of the oracle are the   *)
(* same: the loops skip no training burst they should compare, and compare  *)
(* none they should skip.                                                   *)
THEOREM WindowIsComparable ==
    ASSUME NEW test, NEW b, Sized(test), Sized(b)
    PROVE  InWindow(test, b) <=> Oracle!Comparable(test, b)
<1>1. Row(b) \in iMin(test) .. iMax(test) - 1
      <=> /\ b.uniPktNum > test.uniPktNum - UNISIG_RANGE
          /\ b.uniPktNum <= test.uniPktNum + UNISIG_RANGE
    BY CastKeeps, WindowAssumption DEF Row, iMin, Least, Greatest, Sized
<1>2. Column(b) \in jMin(test) .. jMax(test) - 1
      <=> /\ \/ Oracle!Capped(b.pktNum) > test.pktNum - PACKETNUM_RANGE
             \/ Oracle!Capped(b.pktNum) = BURST_MAX_PACKET_INDEX
          /\ \/ b.pktNum <= test.pktNum + PACKETNUM_RANGE
             \/ test.pktNum + PACKETNUM_RANGE >= BURST_MAX_PACKET_INDEX
    BY WindowAssumption DEF Column, jMin, jMax, Least, Greatest, Sized, Oracle!Capped
<1>3. QED  BY <1>1, <1>2 DEF InWindow, Oracle!Comparable

(* A training burst with the size of the test burst is always looked at, so *)
(* an identical one, at distance 0, is always found.                        *)
THEOREM OwnSizeInWindow ==
    ASSUME NEW test, NEW b, Sized(test), Sized(b),
           b.uniPktNum = test.uniPktNum, b.pktNum = test.pktNum
    PROVE  InWindow(test, b)
BY WindowIsComparable, WindowAssumption DEF Sized, Oracle!Comparable, Oracle!Capped

-----------------------------------------------------------------------------
(* The inductive invariant *)

Busy == {t \in Threads : at[t] # "idle"}

InPredictBurst(t) == at[t] \in {"query", "scan", "return"}

Types ==
    /\ pc \in {"train", "count", "start", "clear"}
    /\ experiment \in 1 .. Len(Experiments) + 1
    /\ pc # "train" => experiment <= Len(Experiments)
    /\ device \in Nat \ {0}
    /\ taskNum \in Seq(Nat)
    /\ tasks \in Seq(Seq(Group))
    /\ queue \in Seq(Seq(Group))
    /\ waitPrediction \in [nleft : Int, live : BOOLEAN]
    /\ at \in [Threads -> {"idle", "group", "lock", "query", "scan", "return"}]
    /\ groups \in [Threads -> Seq(Group)]
    /\ todo \in [Threads -> Seq(Tests)]
    /\ window \in [Threads -> SUBSET Nat]
    /\ min_distance \in [Threads -> Int]
    /\ train \in Seq(TrainBursts)
    /\ lockMap \in [Tests -> Threads \cup {NoThread}]

CacheTypes ==
    /\ cache = [b \in DOMAIN cache |-> cache[b]]
    /\ DOMAIN cache \subseteq Tests
    /\ \A b \in DOMAIN cache : cache[b] \in [distance : Int, nearest : SUBSET TrainBursts]

(* Where a thread is says whether it has a burst to ask about.              *)
HasTest ==
    \A t \in Threads :
        /\ at[t] \in {"idle", "group"} <=> todo[t] = <<>>
        /\ at[t] \notin {"scan", "return"} => min_distance[t] = FAR

Mutex ==
    \A b \in Tests, t \in Threads :
        lockMap[b] = t <=> InPredictBurst(t) /\ Test(t) = b

(* The values of taskNum in the first loop: sums over the devices so far.   *)
Sums ==
    /\ \A j, k \in 1 .. Len(taskNum) : j <= k => taskNum[j] <= taskNum[k]
    /\ \A k \in 1 .. Len(taskNum) - 1 :
          taskNum[k + 1] = taskNum[k] + TasksOf(Testset[k], Experiment.epochSlotNum)

AllIdle == tasks = <<>> /\ queue = <<>> /\ Busy = {}

(* The tasks expected of the devices the second loop has not come to.       *)
ToCome == taskNum[Len(Testset) + 1] - taskNum[device]

(* In the second loop the WaitGroup has what is expected of the devices to  *)
(* come, and one for every task that has not ended.                         *)
Outstanding ==
    \/ waitPrediction.nleft = ToCome + Len(tasks) + Len(queue) + Cardinality(Busy)
    \/ waitPrediction.nleft = -1 /\ taskNum[Len(Testset) + 1] = 0 /\ AllIdle

Barrier ==
    /\ waitPrediction.live <=> pc = "start"
    /\ pc # "start" => AllIdle
    /\ pc = "train" => device = 1 /\ taskNum = <<0>> /\ DOMAIN cache = {}
    /\ pc = "count" => /\ device = Len(taskNum)
                       /\ device <= Len(Testset) + 1
                       /\ taskNum[1] = 0
                       /\ Sums
    /\ pc = "start" => /\ Len(taskNum) = Len(Testset) + 1
                       /\ device <= Len(taskNum)
                       /\ taskNum[1] = 0
                       /\ Sums
                       /\ Outstanding

(* The training bursts of the window, the least distance to some of them    *)
(* (or FAR), and those at a distance.                                       *)
WindowOf(tr, b) == {i \in DOMAIN tr : InWindow(b, tr[i])}

Best(tr, b, places, min) ==
    /\ min \in {FAR} \cup {Distance(b, tr[i]) : i \in places}
    /\ min <= FAR
    /\ \A i \in places : min <= Distance(b, tr[i])

NearestOf(tr, b, places, min) == {tr[i] : i \in {j \in places : Distance(b, tr[j]) = min}}

EntryRight(b) ==
    \/ cache[b].nearest = {}
    \/ /\ Best(train, b, WindowOf(train, b), cache[b].distance)
       /\ cache[b].nearest = NearestOf(train, b, WindowOf(train, b), cache[b].distance)

FillingRight(t) ==
    LET b == Test(t)
        seen == WindowOf(train, b) \ window[t]
    IN  /\ b \in DOMAIN cache
        /\ window[t] \subseteq WindowOf(train, b)
        /\ Best(train, b, seen, min_distance[t])
        /\ cache[b].nearest = NearestOf(train, b, seen, min_distance[t])

FoundRight(t) ==
    LET b == Test(t)
    IN  /\ b \in DOMAIN cache
        /\ Best(train, b, WindowOf(train, b), min_distance[t])
        /\ cache[b].nearest = NearestOf(train, b, WindowOf(train, b), min_distance[t])

(* An entry nobody is filling is empty or complete; one that is being       *)
(* filled has the nearest of what has been scanned; what is about to be     *)
(* returned is right.                                                       *)
CacheRight ==
    \A b \in DOMAIN cache :
        (\E t \in Threads : at[t] = "scan" /\ Test(t) = b) \/ EntryRight(b)

ScanRight == \A t \in Threads : at[t] = "scan" => FillingRight(t)

ReturnRight == \A t \in Threads : at[t] = "return" => FoundRight(t)

AnswersTyped == answers \in Seq(Answer)

IInv ==
    /\ Types /\ CacheTypes /\ HasTest /\ Mutex /\ Barrier
    /\ CacheRight /\ ScanRight /\ ReturnRight /\ AnswersTyped

-----------------------------------------------------------------------------
(* Facts about numbers and sequences *)

LEMMA DivisionFacts ==
  ASSUME NEW n \in Nat, NEW s \in Nat \ {0}
  PROVE  n \div s \in Nat /\ n % s \in 0 .. s - 1 /\ n = (s * (n \div s)) + (n % s)
<1>1. n \div s \in Int OBVIOUS
<1>2. n % s \in 0 .. s - 1 OBVIOUS
<1>3. n = (s * (n \div s)) + (n % s) OBVIOUS
<1>4. n \div s \in Nat BY <1>1, <1>2, <1>3
<1> QED BY <1>2, <1>3, <1>4

LEMMA QuotientUnique ==
  ASSUME NEW s \in Nat \ {0}, NEW q \in Nat, NEW r \in 0 .. s - 1
  PROVE  (s * q + r) \div s = q
OBVIOUS

(* Rounding up by the remainder is what cutting into chunks does.           *)
LEMMA RoundedUp ==
  ASSUME NEW n \in Nat, NEW s \in Nat \ {0}
  PROVE  (n + s - 1) \div s = n \div s + (IF n % s > 0 THEN 1 ELSE 0)
<1> DEFINE q == n \div s
           r == n % s
<1>1. q \in Nat /\ r \in 0 .. s - 1 /\ n = s * q + r
  BY DivisionFacts
<1> HIDE DEF q, r
<1>2. CASE r > 0
  <2>1. n + s - 1 = s * (q + 1) + (r - 1) BY <1>1
  <2>2. (n + s - 1) \div s = q + 1 BY <1>1, <1>2, <2>1, QuotientUnique
  <2> QED BY <1>2, <2>2 DEF q, r
<1>3. CASE ~(r > 0)
  <2>1. n + s - 1 = s * q + (s - 1) BY <1>1, <1>3
  <2>2. (n + s - 1) \div s = q BY <1>1, <2>1, QuotientUnique
  <2> QED BY <1>1, <1>3, <2>2 DEF q, r
<1> QED BY <1>2, <1>3

(* splitVector makes as many tasks as Predict has counted.                  *)
LEMMA ChunksAsCounted ==
  ASSUME NEW all \in Seq(Group), NEW size \in Nat \ {0}
  PROVE  /\ Chunks(all, size) \in Seq(Seq(Group))
         /\ Len(Chunks(all, size)) = TasksOf(all, size)
         /\ TasksOf(all, size) \in Nat
<1>0. PICK len \in Nat : len = Len(all) OBVIOUS
<1>1. (len + size - 1) \div size = len \div size + (IF len % size > 0 THEN 1 ELSE 0)
  BY RoundedUp
<1>2. len \div size + (IF len % size > 0 THEN 1 ELSE 0) = TasksOf(all, size)
  BY <1>0 DEF TasksOf
<1>3. TasksOf(all, size) \in Nat
  <2>1. len \div size \in Nat BY DivisionFacts
  <2> QED BY <1>2, <2>1
<1>4. ASSUME NEW k \in 1 .. TasksOf(all, size)
      PROVE  SubSeq(all, (k - 1) * size + 1, Least(k * size, Len(all))) \in Seq(Group)
  <2>1. (k - 1) * size + 1 \in Nat \ {0} /\ k * size \in Nat BY <1>3, <1>4
  <2> DEFINE first == (k - 1) * size + 1
             last == Least(k * size, Len(all))
  <2>2. first \in Nat \ {0} /\ last \in Nat /\ last <= Len(all) BY <2>1 DEF Least
  <2> HIDE DEF first, last
  <2>3. SubSeq(all, first, last) \in Seq(Group) BY <2>2
  <2> QED BY <2>3 DEF first, last
<1>5. Chunks(all, size) = [k \in 1 .. TasksOf(all, size) |->
                              SubSeq(all, (k - 1) * size + 1, Least(k * size, Len(all)))]
  BY <1>0, <1>1, <1>2 DEF Chunks
<1>6. Chunks(all, size) \in Seq(Seq(Group)) /\ Len(Chunks(all, size)) = TasksOf(all, size)
  <2> DEFINE Piece(k) == SubSeq(all, (k - 1) * size + 1, Least(k * size, Len(all)))
  <2>1. \A k \in 1 .. TasksOf(all, size) : Piece(k) \in Seq(Group) BY <1>4
  <2>2. Chunks(all, size) = [k \in 1 .. TasksOf(all, size) |-> Piece(k)] BY <1>5
  <2> HIDE DEF Piece
  <2> QED BY <1>3, <2>1, <2>2
<1> QED BY <1>3, <1>6

(* What the experiments consist of.                                         *)
LEMMA ExperimentFacts ==
  ASSUME NEW e \in 1 .. Len(Experiments)
  PROVE  /\ Experiments[e] \in ToSet(Experiments)
         /\ Experiments[e].epochSlotNum \in Nat \ {0}
         /\ Experiments[e].testset \in Seq(Seq(Group))
         /\ Experiments[e].train \in Seq(TrainBursts)
<1>1. Experiments[e] \in ToSet(Experiments) BY ExperimentsAssumption DEF ToSet
<1>2. ToSet(Experiments[e].train) \subseteq TrainBursts BY <1>1 DEF TrainBursts
<1>3. Experiments[e].train \in Seq(TrainBursts) BY <1>1, <1>2, ExperimentsAssumption
<1> QED BY <1>1, <1>3, ExperimentsAssumption

LEMMA DistanceTyped ==
  ASSUME NEW b \in Tests, NEW c \in TrainBursts
  PROVE  Distance(b, c) \in Int /\ Sized(b) /\ Sized(c)
BY ExperimentsAssumption, DistanceAssumption DEF TrainBursts, Tests

LEMMA TestsetFacts ==
  ASSUME Types, experiment <= Len(Experiments)
  PROVE  /\ Testset \in Seq(Seq(Group))
         /\ Experiment.epochSlotNum \in Nat \ {0}
         /\ Experiment.train \in Seq(TrainBursts)
         /\ Experiment.train \in {e.train : e \in ToSet(Experiments)}
<1>1. experiment \in 1 .. Len(Experiments) BY DEF Types
<1> QED BY <1>1, ExperimentFacts DEF Testset, Experiment

LEMMA TestTyped ==
  ASSUME Types, HasTest, NEW t \in Threads, at[t] \notin {"idle", "group"}
  PROVE  Test(t) \in Tests /\ todo[t] # <<>>
BY DEF Types, HasTest, Test

LEMMA BusyFinite == IsFiniteSet(Busy) /\ Cardinality(Busy) \in Nat
<1>1. Busy \subseteq Threads BY DEF Busy
<1> QED BY <1>1, ThreadsAssumption, FS_Subset, FS_CardinalityType

-----------------------------------------------------------------------------
(* Types *)

LEMMA MainTypes ==
  ASSUME IInv, Main
  PROVE  Types'
<1> USE DEF IInv, Types, pool
<1>1. CASE Train
  <2>1. Experiment.train \in Seq(TrainBursts) BY <1>1, TestsetFacts DEF Train
  <2> QED BY <1>1, <2>1 DEF Train
<1>2. CASE CountTasks
  <2>1. experiment <= Len(Experiments) BY <1>2 DEF CountTasks
  <2>2. Testset[device] \in Seq(Group) BY <1>2, <2>1, TestsetFacts DEF CountTasks
  <2>3. TasksOf(Testset[device], Experiment.epochSlotNum) \in Nat
    BY <2>1, <2>2, TestsetFacts, ChunksAsCounted
  <2>4. device = Len(taskNum) BY <1>2 DEF CountTasks, Barrier
  <2>5. taskNum[device] \in Nat BY <2>4
  <2>6. taskNum[device] + TasksOf(Testset[device], Experiment.epochSlotNum) \in Nat
    BY <2>3, <2>5
  <2>7. taskNum' \in Seq(Nat) BY <1>2, <2>6 DEF CountTasks
  <2> QED BY <1>2, <2>7 DEF CountTasks
<1>3. CASE NewWaitGroup
  <2>1. device = Len(taskNum) BY <1>3 DEF NewWaitGroup, Barrier
  <2>2. taskNum[device] \in Nat BY <2>1
  <2>3. waitPrediction' \in [nleft : Int, live : BOOLEAN] BY <1>3, <2>2 DEF NewWaitGroup
  <2> QED BY <1>3, <2>3 DEF NewWaitGroup
<1>4. CASE SplitDevice
  <2>1. experiment <= Len(Experiments) BY <1>4 DEF SplitDevice
  <2>2. Testset[device] \in Seq(Group) BY <1>4, <2>1, TestsetFacts DEF SplitDevice
  <2>3. tasks' \in Seq(Seq(Group))
    BY <1>4, <2>1, <2>2, TestsetFacts, ChunksAsCounted DEF SplitDevice
  <2> QED BY <1>4, <2>3 DEF SplitDevice
<1>5. CASE StartTask BY <1>5 DEF StartTask
<1>6. CASE Wait BY <1>6 DEF Wait
<1>7. CASE Clear
  <2>1. experiment' \in 1 .. Len(Experiments) + 1 BY <1>7 DEF Clear
  <2> QED BY <1>7, <2>1 DEF Clear
<1> QED BY <1>1, <1>2, <1>3, <1>4, <1>5, <1>6, <1>7 DEF Main

LEMMA WorkerTypes ==
  ASSUME IInv, NEW t \in Threads, Worker(t)
  PROVE  Types'
<1> USE DEF IInv, Types, loop
<1>1. CASE Dispatch(t) BY <1>1 DEF Dispatch
<1>2. CASE NextGroup(t)
  <2>1. Head(groups[t]) \in Group /\ Tail(groups[t]) \in Seq(Group) BY <1>2 DEF NextGroup
  <2>2. Head(groups[t]) \in Seq(Tests) BY <2>1 DEF Group
  <2>3. todo' \in [Threads -> Seq(Tests)] BY <1>2, <2>2 DEF NextGroup
  <2>4. groups' \in [Threads -> Seq(Group)] BY <1>2, <2>1 DEF NextGroup
  <2>5. at' = at \/ at' = [at EXCEPT ![t] = "lock"] BY <1>2 DEF NextGroup
  <2> QED BY <1>2, <2>3, <2>4, <2>5 DEF NextGroup
<1>3. CASE Lock(t) BY <1>3 DEF Lock
<1>4. CASE QueryHit(t)
  <2>1. Test(t) \in DOMAIN cache BY <1>4 DEF QueryHit, Entry
  <2>2. Entry(Test(t)).distance \in Int BY <2>1 DEF CacheTypes, Entry
  <2> QED BY <1>4, <2>2 DEF QueryHit
<1>5. CASE QueryMiss(t)
  <2>1. Window(Test(t)) \subseteq Nat BY DEF Window
  <2> QED BY <1>5, <2>1 DEF QueryMiss
<1>6. CASE Scan(t)
  <2>1. PICK i \in window[t] :
            /\ min_distance' = [min_distance EXCEPT
                   ![t] = Least(min_distance[t], Distance(Test(t), train[i]))]
            /\ window' = [window EXCEPT ![t] = window[t] \ {i}]
    BY <1>6 DEF Scan
  <2>2. i \in DOMAIN train
    BY <1>6 DEF Scan, ScanRight, FillingRight, WindowOf
  <2>3. Distance(Test(t), train[i]) \in Int
    <3>1. Test(t) \in Tests BY <1>6, TestTyped DEF Scan
    <3>2. train[i] \in TrainBursts BY <2>2
    <3> QED BY <3>1, <3>2, DistanceTyped
  <2>4. min_distance' \in [Threads -> Int] BY <2>1, <2>3 DEF Least
  <2>5. window' \in [Threads -> SUBSET Nat] BY <2>1
  <2> QED BY <1>6, <2>4, <2>5 DEF Scan
<1>7. CASE EndScan(t) BY <1>7 DEF EndScan
<1>8. CASE Return(t)
  <2>1. FAR \in Int BY DistanceAssumption
  <2>2. min_distance' \in [Threads -> Int] BY <1>8, <2>1 DEF Return
  <2>3. todo' \in [Threads -> Seq(Tests)]
    <3>1. todo[t] \in Seq(Tests) /\ todo[t] # <<>> BY <1>8, TestTyped DEF Return
    <3>2. Tail(todo[t]) \in Seq(Tests) BY <3>1
    <3> QED BY <1>8, <3>2 DEF Return
  <2>4. lockMap' \in [Tests -> Threads \cup {NoThread}] BY <1>8 DEF Return
  <2> QED BY <1>8, <2>2, <2>3, <2>4 DEF Return
<1>9. CASE TaskDone(t) BY <1>9 DEF TaskDone
<1> QED BY <1>1, <1>2, <1>3, <1>4, <1>5, <1>6, <1>7, <1>8, <1>9 DEF Worker

-----------------------------------------------------------------------------
(* Who has a burst, and who holds its mutex *)

LEMMA HasTestStep ==
  ASSUME IInv, NEW t \in Threads, Worker(t)
  PROVE  HasTest'
<1> USE DEF IInv, Types, HasTest
<1>1. CASE Dispatch(t) BY <1>1 DEF Dispatch
<1>2. CASE NextGroup(t)
  <2>1. groups[t] \in Seq(Group) /\ groups[t] # <<>> BY <1>2 DEF NextGroup
  <2>2. Head(groups[t]) \in Group BY <2>1
  <2>3. Head(groups[t]) # <<>> BY <2>2 DEF Group
  <2> QED BY <1>2, <2>3 DEF NextGroup
<1>3. CASE Lock(t) BY <1>3 DEF Lock
<1>4. CASE QueryHit(t) BY <1>4 DEF QueryHit
<1>5. CASE QueryMiss(t) BY <1>5 DEF QueryMiss
<1>6. CASE Scan(t)
  <2>1. PICK m : min_distance' = [min_distance EXCEPT ![t] = m] BY <1>6 DEF Scan
  <2> QED BY <1>6, <2>1 DEF Scan
<1>7. CASE EndScan(t) BY <1>7 DEF EndScan
<1>8. CASE Return(t) BY <1>8 DEF Return
<1>9. CASE TaskDone(t) BY <1>9 DEF TaskDone
<1> QED BY <1>1, <1>2, <1>3, <1>4, <1>5, <1>6, <1>7, <1>8, <1>9 DEF Worker

LEMMA MutexStep ==
  ASSUME IInv, NEW t \in Threads, Worker(t)
  PROVE  Mutex'
<1> USE DEF IInv, Types, Mutex, InPredictBurst, Test
<1>1. CASE Dispatch(t) BY <1>1 DEF Dispatch
<1>2. CASE NextGroup(t)
  <2>1. lockMap' = lockMap /\ ~InPredictBurst(t) BY <1>2 DEF NextGroup
  <2>2. at' = at \/ at' = [at EXCEPT ![t] = "lock"] BY <1>2 DEF NextGroup
  <2>3. ~InPredictBurst(t)' BY <2>1, <2>2
  <2>4. \A u \in Threads \ {t} : at'[u] = at[u] /\ todo'[u] = todo[u] BY <1>2 DEF NextGroup
  <2>5. ASSUME NEW b \in Tests, NEW u \in Threads
        PROVE  lockMap'[b] = u <=> InPredictBurst(u)' /\ Test(u)' = b
    <3>1. CASE u = t BY <2>1, <2>3, <3>1
    <3>2. CASE u # t BY <2>1, <2>4, <3>2
    <3> QED BY <3>1, <3>2
  <2> QED BY <2>5
<1>3. CASE Lock(t)
  <2>1. Test(t) \in Tests BY <1>3, TestTyped DEF Lock
  <2>2. lockMap' = [lockMap EXCEPT ![Test(t)] = t] /\ lockMap[Test(t)] = NoThread
    BY <1>3 DEF Lock
  <2>3. ~InPredictBurst(t) /\ InPredictBurst(t)' BY <1>3 DEF Lock
  <2>4. \A u \in Threads \ {t} : at'[u] = at[u] BY <1>3 DEF Lock
  <2>5. todo' = todo BY <1>3 DEF Lock
  <2>6. ASSUME NEW b \in Tests, NEW u \in Threads
        PROVE  lockMap'[b] = u <=> InPredictBurst(u)' /\ Test(u)' = b
    <3>1. CASE u = t BY <2>1, <2>2, <2>3, <2>5, <3>1
    <3>2. CASE u # t BY <2>1, <2>2, <2>4, <2>5, <3>2, ThreadsAssumption
    <3> QED BY <3>1, <3>2
  <2> QED BY <2>6
<1>4. CASE QueryHit(t) BY <1>4 DEF QueryHit
<1>5. CASE QueryMiss(t) BY <1>5 DEF QueryMiss
<1>6. CASE Scan(t) BY <1>6 DEF Scan
<1>7. CASE EndScan(t) BY <1>7 DEF EndScan
<1>8. CASE Return(t)
  <2>1. Test(t) \in Tests BY <1>8, TestTyped DEF Return
  <2>2. lockMap' = [lockMap EXCEPT ![Test(t)] = NoThread] /\ InPredictBurst(t)
    BY <1>8 DEF Return
  <2>3. ~InPredictBurst(t)' BY <1>8 DEF Return
  <2>4. \A u \in Threads \ {t} : at'[u] = at[u] /\ todo'[u] = todo[u] BY <1>8 DEF Return
  <2>5. ASSUME NEW b \in Tests, NEW u \in Threads
        PROVE  lockMap'[b] = u <=> InPredictBurst(u)' /\ Test(u)' = b
    <3>1. CASE u = t BY <2>1, <2>2, <2>3, <3>1, ThreadsAssumption
    <3>2. CASE u # t BY <2>1, <2>2, <2>4, <3>2, ThreadsAssumption
    <3> QED BY <3>1, <3>2
  <2> QED BY <2>5
<1>9. CASE TaskDone(t) BY <1>9 DEF TaskDone
<1> QED BY <1>1, <1>2, <1>3, <1>4, <1>5, <1>6, <1>7, <1>8, <1>9 DEF Worker

-----------------------------------------------------------------------------
(* The barrier *)

LEMMA ToComeTyped ==
  ASSUME IInv, pc = "start"
  PROVE  /\ Len(Testset) \in Nat
         /\ taskNum[Len(Testset) + 1] \in Nat /\ taskNum[device] \in Nat
         /\ ToCome \in Nat
         /\ device > Len(Testset) => ToCome = 0
<1>1. /\ Len(taskNum) = Len(Testset) + 1 /\ device \in Nat \ {0} /\ device <= Len(taskNum)
      /\ taskNum \in Seq(Nat) /\ Sums
  BY DEF IInv, Types, Barrier
<1>2. PICK n \in Nat \ {0} : n = Len(taskNum) BY <1>1
<1>3. Testset \in Seq(Seq(Group)) BY TestsetFacts DEF IInv, Types
<1>4. Len(Testset) \in Nat /\ Len(Testset) + 1 = n BY <1>1, <1>2, <1>3
<1>5. taskNum[n] \in Nat /\ taskNum[device] \in Nat /\ taskNum[device] <= taskNum[n]
  BY <1>1, <1>2 DEF Sums
<1>6. device > Len(Testset) => device = n BY <1>1, <1>2, <1>4
<1> QED BY <1>4, <1>5, <1>6 DEF ToCome

(* A step of a task that neither begins nor ends it.                        *)
LEMMA ContinuesBarrier ==
  ASSUME IInv, NEW t \in Threads, at[t] # "idle", at'[t] # "idle",
         \A u \in Threads \ {t} : at'[u] = at[u],
         UNCHANGED <<loop, waitPrediction, queue>>
  PROVE  Barrier'
<1>1. Busy' = Busy /\ Busy # {} BY DEF Busy
<1>2. pc = "start" BY <1>1 DEF IInv, Barrier, AllIdle
<1> QED BY <1>1, <1>2
    DEF IInv, Barrier, AllIdle, Outstanding, ToCome, Sums, loop, Testset, Experiment

LEMMA DispatchBarrier ==
  ASSUME IInv, NEW t \in Threads, Dispatch(t)
  PROVE  Barrier'
<1>1. queue \in Seq(Seq(Group)) /\ queue # <<>> /\ queue' = Tail(queue)
  BY DEF IInv, Types, Dispatch
<1>2. Len(queue') = Len(queue) - 1 /\ Len(queue) \in Nat BY <1>1
<1>3. t \notin Busy /\ Busy' = Busy \cup {t}
  BY DEF Dispatch, Busy, IInv, Types
<1>4. Cardinality(Busy') = Cardinality(Busy) + 1
  BY <1>3, BusyFinite, FS_AddElement
<1>5. pc = "start" /\ Outstanding BY <1>1 DEF IInv, Barrier, AllIdle
<1>6. UNCHANGED <<loop, waitPrediction>> BY DEF Dispatch
<1>7. waitPrediction.nleft = ToCome + Len(tasks) + Len(queue) + Cardinality(Busy)
  BY <1>1, <1>5 DEF Outstanding, AllIdle
<1>8. ToCome \in Nat /\ Len(tasks) \in Nat BY <1>5, ToComeTyped DEF IInv, Types
<1>9. ToCome' = ToCome /\ tasks' = tasks BY <1>6 DEF ToCome, loop, Testset, Experiment
<1>10. Outstanding' BY <1>2, <1>4, <1>6, <1>7, <1>8, <1>9, BusyFinite DEF Outstanding
<1> QED BY <1>5, <1>6, <1>10 DEF IInv, Barrier, Sums, loop, Testset, Experiment

LEMMA TaskDoneBarrier ==
  ASSUME IInv, NEW t \in Threads, TaskDone(t)
  PROVE  Barrier'
<1>1. t \in Busy /\ Busy' = Busy \ {t}
  BY DEF TaskDone, Busy, IInv, Types
<1>2. Cardinality(Busy') = Cardinality(Busy) - 1
  BY <1>1, BusyFinite, FS_RemoveElement
<1>3. pc = "start" /\ Outstanding BY <1>1 DEF IInv, Barrier, AllIdle
<1>4. UNCHANGED <<loop, queue>> BY DEF TaskDone
<1>5. waitPrediction'.nleft = waitPrediction.nleft - 1 /\ waitPrediction'.live = waitPrediction.live
  BY DEF TaskDone
<1>6. waitPrediction.nleft = ToCome + Len(tasks) + Len(queue) + Cardinality(Busy)
  BY <1>1, <1>3 DEF Outstanding, AllIdle
<1>7. ToCome \in Nat /\ Len(tasks) \in Nat /\ Len(queue) \in Nat
  <2>1. ToCome \in Nat BY <1>3, ToComeTyped
  <2>2. tasks \in Seq(Seq(Group)) /\ queue \in Seq(Seq(Group)) BY DEF IInv, Types
  <2> QED BY <2>1, <2>2
<1>8. ToCome' = ToCome /\ tasks' = tasks BY <1>4 DEF ToCome, loop, Testset, Experiment
<1>9. Outstanding' BY <1>2, <1>4, <1>5, <1>6, <1>7, <1>8, BusyFinite DEF Outstanding
<1> QED BY <1>3, <1>4, <1>5, <1>9 DEF IInv, Barrier, Sums, loop, Testset, Experiment

LEMMA WorkerBarrier ==
  ASSUME IInv, NEW t \in Threads, Worker(t)
  PROVE  Barrier'
<1> USE DEF IInv, Types, loop
<1>1. CASE Dispatch(t) BY <1>1, DispatchBarrier
<1>2. CASE NextGroup(t)
  <2>1. at' = at \/ at' = [at EXCEPT ![t] = "lock"] BY <1>2 DEF NextGroup
  <2>2. at[t] # "idle" /\ at'[t] # "idle" /\ \A u \in Threads \ {t} : at'[u] = at[u]
    BY <1>2, <2>1 DEF NextGroup
  <2> QED BY <1>2, <2>2, ContinuesBarrier DEF NextGroup
<1>3. CASE Lock(t) BY <1>3, ContinuesBarrier DEF Lock
<1>4. CASE QueryHit(t) BY <1>4, ContinuesBarrier DEF QueryHit
<1>5. CASE QueryMiss(t) BY <1>5, ContinuesBarrier DEF QueryMiss
<1>6. CASE Scan(t) BY <1>6, ContinuesBarrier DEF Scan
<1>7. CASE EndScan(t) BY <1>7, ContinuesBarrier DEF EndScan
<1>8. CASE Return(t) BY <1>8, ContinuesBarrier DEF Return
<1>9. CASE TaskDone(t) BY <1>9, TaskDoneBarrier
<1> QED BY <1>1, <1>2, <1>3, <1>4, <1>5, <1>6, <1>7, <1>8, <1>9 DEF Worker

LEMMA CountTasksBarrier == IInv /\ CountTasks => Barrier'
<1> SUFFICES ASSUME IInv, CountTasks PROVE Barrier' OBVIOUS
<1>1. /\ device = Len(taskNum) /\ device <= Len(Testset)
      /\ experiment <= Len(Experiments) /\ taskNum \in Seq(Nat) /\ taskNum[1] = 0
  BY DEF CountTasks, IInv, Barrier, Types
<1>2. Testset[device] \in Seq(Group) /\ device \in Nat \ {0}
  BY <1>1, TestsetFacts DEF IInv, Types
<1>3. PICK c \in Nat : c = TasksOf(Testset[device], Experiment.epochSlotNum)
  BY <1>1, <1>2, TestsetFacts, ChunksAsCounted DEF IInv
<1>4. taskNum' = Append(taskNum, taskNum[device] + c) /\ taskNum[device] \in Nat
  BY <1>1, <1>2, <1>3 DEF CountTasks
<1>5. /\ Len(taskNum') = device + 1
      /\ \A k \in 1 .. device : taskNum'[k] = taskNum[k] /\ taskNum[k] \in Nat
      /\ taskNum'[device + 1] = taskNum[device] + c
  <2>1. PICK n \in Nat : n = taskNum[device] + c BY <1>3, <1>4
  <2>2. taskNum' = Append(taskNum, n) /\ n \in Nat BY <1>4, <2>1
  <2>3. Len(taskNum') = device + 1 BY <1>1, <2>2
  <2>4. \A k \in 1 .. device : taskNum'[k] = taskNum[k] /\ taskNum[k] \in Nat BY <1>1, <2>2
  <2>5. taskNum'[device + 1] = n BY <1>1, <2>2
  <2> QED BY <2>1, <2>3, <2>4, <2>5
<1>6. \A j, k \in 1 .. device + 1 : j <= k => taskNum'[j] <= taskNum'[k]
  <2> SUFFICES ASSUME NEW j \in 1 .. device + 1, NEW k \in 1 .. device + 1, j <= k
               PROVE  taskNum'[j] <= taskNum'[k]
    OBVIOUS
  <2>1. \A i \in 1 .. device : taskNum[i] <= taskNum[device]
    BY <1>1, <1>2 DEF IInv, Barrier, Sums, CountTasks
  <2>2. CASE k <= device
    <3>1. taskNum[j] <= taskNum[k] BY <1>1, <2>2 DEF IInv, Barrier, Sums, CountTasks
    <3> QED BY <1>2, <1>5, <2>2, <3>1
  <2>3. CASE k = device + 1 /\ j <= device BY <1>2, <1>5, <2>1, <2>3
  <2>4. CASE k = device + 1 /\ j = device + 1 BY <1>2, <1>4, <1>5, <2>4
  <2> QED BY <1>2, <2>2, <2>3, <2>4
<1>7. UNCHANGED <<pc, experiment, tasks, queue, at, waitPrediction>> /\ device' = device + 1
  BY DEF CountTasks, pool
<1>8. \A k \in 1 .. device : taskNum'[k + 1] = taskNum'[k] + TasksOf(Testset[k], Experiment.epochSlotNum)
  <2> SUFFICES ASSUME NEW k \in 1 .. device
               PROVE  taskNum'[k + 1] = taskNum'[k] + TasksOf(Testset[k], Experiment.epochSlotNum)
    OBVIOUS
  <2>1. CASE k = device BY <1>3, <1>5, <2>1
  <2>2. CASE k < device
    <3>1. taskNum[k + 1] = taskNum[k] + TasksOf(Testset[k], Experiment.epochSlotNum)
      BY <1>1, <2>2 DEF IInv, Barrier, Sums, CountTasks
    <3> QED BY <1>2, <1>5, <2>2, <3>1
  <2> QED BY <1>2, <2>1, <2>2
<1>9. Sums' BY <1>2, <1>5, <1>6, <1>7, <1>8 DEF Sums, Testset, Experiment
<1>10. AllIdle' BY <1>7 DEF CountTasks, IInv, Barrier, AllIdle, Busy
<1>11. taskNum'[1] = 0 BY <1>1, <1>2, <1>5
<1> QED BY <1>1, <1>2, <1>5, <1>7, <1>9, <1>10, <1>11
    DEF CountTasks, IInv, Barrier, Testset, Experiment

LEMMA NewWaitGroupBarrier == IInv /\ NewWaitGroup => Barrier'
<1> SUFFICES ASSUME IInv, NewWaitGroup PROVE Barrier' OBVIOUS
<1>1. /\ device = Len(taskNum) /\ device = Len(Testset) + 1
      /\ taskNum \in Seq(Nat) /\ taskNum[1] = 0 /\ AllIdle /\ Sums
  <2>1. Len(Testset) \in Nat BY TestsetFacts DEF NewWaitGroup, IInv, Types
  <2> QED BY <2>1 DEF NewWaitGroup, IInv, Barrier, Types
<1>2. UNCHANGED <<experiment, taskNum, tasks, queue, at>> /\ device' = 1 /\ pc' = "start"
  BY DEF NewWaitGroup, pool
<1>3. AllIdle' BY <1>1, <1>2 DEF AllIdle, Busy
<1>4. taskNum[device] \in Nat /\ device \in Nat \ {0}
  <2>1. taskNum \in Seq(Nat) /\ device \in Nat \ {0} /\ device = Len(taskNum)
    BY <1>1 DEF IInv, Types
  <2> QED BY <2>1
<1>5. /\ waitPrediction'.nleft = (IF taskNum[device] = 0 THEN -1 ELSE taskNum[device])
      /\ waitPrediction'.live
  BY DEF NewWaitGroup
<1>6. Len(tasks') = 0 /\ Len(queue') = 0 /\ Cardinality(Busy') = 0
  BY <1>3, FS_EmptySet DEF AllIdle
<1>7. Testset' = Testset /\ Experiment' = Experiment BY <1>2 DEF Testset, Experiment
<1>8. Outstanding'
  <2>1. ToCome' = taskNum[device] /\ taskNum'[Len(Testset') + 1] = taskNum[device]
    BY <1>1, <1>2, <1>4, <1>7 DEF ToCome
  <2> QED BY <1>3, <1>4, <1>5, <1>6, <2>1 DEF Outstanding
<1>9. Sums' BY <1>1, <1>2, <1>7 DEF Sums
<1>10. Len(taskNum') = Len(Testset') + 1 /\ device' <= Len(taskNum') /\ taskNum'[1] = 0
  <2>1. PICK n \in Nat \ {0} : n = Len(taskNum) /\ n = Len(Testset) + 1 BY <1>1, <1>4
  <2>2. 1 <= n BY <2>1
  <2> QED BY <1>1, <1>2, <1>7, <2>1, <2>2
<1> QED BY <1>2, <1>5, <1>8, <1>9, <1>10 DEF Barrier

LEMMA SplitDeviceBarrier == IInv /\ SplitDevice => Barrier'
<1> SUFFICES ASSUME IInv, SplitDevice PROVE Barrier' OBVIOUS
<1>1. /\ pc = "start" /\ Len(taskNum) = Len(Testset) + 1 /\ device <= Len(Testset)
      /\ taskNum \in Seq(Nat) /\ taskNum[1] = 0 /\ Sums /\ Outstanding /\ waitPrediction.live
      /\ experiment <= Len(Experiments) /\ device \in Nat \ {0} /\ tasks = <<>>
      /\ queue \in Seq(Seq(Group))
  BY DEF SplitDevice, IInv, Barrier, Types
<1>2. Testset[device] \in Seq(Group) /\ Len(Testset) \in Nat
  BY <1>1, TestsetFacts DEF IInv
<1>3. /\ tasks' \in Seq(Seq(Group))
      /\ Len(tasks') = TasksOf(Testset[device], Experiment.epochSlotNum)
      /\ Len(tasks') \in Nat
  BY <1>1, <1>2, TestsetFacts, ChunksAsCounted DEF IInv, SplitDevice
<1>4. UNCHANGED <<pc, experiment, taskNum, queue, at, waitPrediction>> /\ device' = device + 1
  BY DEF SplitDevice, pool
<1>5. Testset' = Testset /\ Experiment' = Experiment /\ Busy' = Busy
  BY <1>4 DEF Testset, Experiment, Busy
<1>6. /\ taskNum[device + 1] = taskNum[device] + Len(tasks')
      /\ taskNum[device + 1] <= taskNum[Len(Testset) + 1]
      /\ taskNum[device] \in Nat /\ taskNum[device + 1] \in Nat
      /\ taskNum[Len(Testset) + 1] \in Nat
  <2>1. PICK n \in Nat : n = Len(taskNum) BY <1>1
  <2>2. device \in 1 .. n - 1 /\ device + 1 \in 1 .. n /\ Len(Testset) + 1 = n
    BY <1>1, <1>2, <2>1
  <2>3. \A k \in 1 .. n : taskNum[k] \in Nat BY <1>1, <2>1
  <2>4. taskNum[device + 1] <= taskNum[n]
    <3>1. \A j, k \in 1 .. n : j <= k => taskNum[j] <= taskNum[k] BY <1>1, <2>1 DEF Sums
    <3>2. n \in 1 .. n /\ device + 1 <= n BY <2>1, <2>2
    <3> QED BY <2>2, <3>1, <3>2
  <2>5. taskNum[device + 1] = taskNum[device] + Len(tasks') BY <1>1, <1>3, <2>1, <2>2 DEF Sums
  <2> QED BY <2>2, <2>3, <2>4, <2>5
<1>7. Outstanding'
  <2>0. ToCome = ToCome' + Len(tasks') /\ ToCome' \in Nat
    <3>1. ToCome' = taskNum[Len(Testset) + 1] - taskNum[device + 1]
      BY <1>4, <1>5 DEF ToCome
    <3>2. ToCome = taskNum[Len(Testset) + 1] - taskNum[device] BY DEF ToCome
    <3>3. \A total, a, b, l \in Nat :
              b = a + l /\ b <= total => total - a = (total - b) + l /\ total - b \in Nat
      OBVIOUS
    <3>4. /\ taskNum[Len(Testset) + 1] - taskNum[device]
               = (taskNum[Len(Testset) + 1] - taskNum[device + 1]) + Len(tasks')
          /\ taskNum[Len(Testset) + 1] - taskNum[device + 1] \in Nat
      <4>1. PICK total \in Nat : total = taskNum[Len(Testset) + 1] BY <1>6
      <4>2. PICK a \in Nat : a = taskNum[device] BY <1>6
      <4>3. PICK b \in Nat : b = taskNum[device + 1] BY <1>6
      <4>4. PICK l \in Nat : l = Len(tasks') BY <1>3
      <4>5. b = a + l /\ b <= total BY <1>6, <4>1, <4>2, <4>3, <4>4
      <4>6. total - a = (total - b) + l /\ total - b \in Nat BY <3>3, <4>5
      <4> QED BY <4>1, <4>2, <4>3, <4>4, <4>6
    <3> QED BY <3>1, <3>2, <3>4
  <2>1. CASE waitPrediction.nleft = ToCome + Len(tasks) + Len(queue) + Cardinality(Busy)
    <3>1. Len(tasks) = 0 /\ Len(queue) \in Nat BY <1>1
    <3> QED BY <1>3, <1>4, <1>5, <2>0, <2>1, <3>1, BusyFinite DEF Outstanding
  <2>2. CASE waitPrediction.nleft = -1 /\ taskNum[Len(Testset) + 1] = 0 /\ AllIdle
    <3>1. Len(tasks') = 0 BY <1>3, <1>6, <2>2
    <3>2. tasks' = <<>> BY <1>3, <3>1
    <3> QED BY <1>4, <1>5, <2>2, <3>2 DEF Outstanding, AllIdle
  <2> QED BY <1>1, <2>1, <2>2 DEF Outstanding
<1>8. Sums' BY <1>1, <1>4, <1>5 DEF Sums
<1> QED BY <1>1, <1>2, <1>4, <1>5, <1>7, <1>8 DEF Barrier

LEMMA StartTaskBarrier == IInv /\ StartTask => Barrier'
<1> SUFFICES ASSUME IInv, StartTask PROVE Barrier' OBVIOUS
<1>1. /\ pc = "start" /\ Outstanding /\ tasks # <<>>
      /\ tasks \in Seq(Seq(Group)) /\ queue \in Seq(Seq(Group))
      /\ taskNum \in Seq(Nat) /\ Len(taskNum) = Len(Testset) + 1
      /\ device \in Nat \ {0} /\ device <= Len(taskNum)
  BY DEF StartTask, IInv, Barrier, Types
<1>2. tasks' = Tail(tasks) /\ queue' = Append(queue, Head(tasks)) BY DEF StartTask
<1>3. /\ Len(tasks') = Len(tasks) - 1 /\ Len(queue') = Len(queue) + 1
      /\ Len(tasks) \in Nat /\ Len(queue) \in Nat
  BY <1>1, <1>2
<1>4. UNCHANGED <<pc, experiment, device, taskNum, at, waitPrediction>>
  BY DEF StartTask, pool
<1>5. Testset' = Testset /\ Experiment' = Experiment /\ Busy' = Busy
  BY <1>4 DEF Testset, Experiment, Busy
<1>6. waitPrediction.nleft = ToCome + Len(tasks) + Len(queue) + Cardinality(Busy)
  BY <1>1 DEF Outstanding, AllIdle
<1>7. ToCome \in Nat /\ ToCome' = ToCome
  BY <1>1, <1>4, <1>5, ToComeTyped DEF ToCome
<1>8. Outstanding' BY <1>3, <1>4, <1>5, <1>6, <1>7, BusyFinite DEF Outstanding
<1> QED BY <1>1, <1>4, <1>5, <1>8 DEF IInv, Barrier, Sums

(* wait() returns at zero or below: then nobody is left.                    *)
LEMMA WaitBarrier == IInv /\ Wait => Barrier'
<1> SUFFICES ASSUME IInv, Wait PROVE Barrier' OBVIOUS
<1>1. /\ pc = "start" /\ Outstanding /\ tasks = <<>> /\ waitPrediction.nleft <= 0
      /\ queue \in Seq(Seq(Group)) /\ taskNum \in Seq(Nat)
      /\ Len(taskNum) = Len(Testset) + 1 /\ device > Len(Testset)
      /\ device \in Nat \ {0} /\ device <= Len(taskNum)
  BY DEF Wait, IInv, Barrier, Types
<1>2. AllIdle
  <2>1. CASE waitPrediction.nleft = ToCome + Len(tasks) + Len(queue) + Cardinality(Busy)
    <3>1. ToCome = 0 /\ Len(tasks) = 0 /\ Len(queue) \in Nat BY <1>1, ToComeTyped
    <3>2. Len(queue) = 0 /\ Cardinality(Busy) = 0 BY <1>1, <2>1, <3>1, BusyFinite
    <3>3. Busy = {} BY <3>2, BusyFinite, FS_EmptySet
    <3>4. queue = <<>> BY <1>1, <3>2
    <3> QED BY <1>1, <3>3, <3>4 DEF AllIdle
  <2>2. CASE AllIdle BY <2>2
  <2> QED BY <1>1, <2>1, <2>2 DEF Outstanding
<1>3. UNCHANGED <<tasks, queue, at>> /\ pc' = "clear" /\ ~waitPrediction'.live
  BY DEF Wait, pool
<1> QED BY <1>2, <1>3 DEF Barrier, AllIdle, Busy

LEMMA MainBarrier ==
  ASSUME IInv, Main
  PROVE  Barrier'
<1>1. CASE Train
  <2>1. /\ pc = "train" /\ experiment <= Len(Experiments)
        /\ device = 1 /\ taskNum = <<0>> /\ AllIdle /\ ~waitPrediction.live
    BY <1>1 DEF Train, IInv, Barrier
  <2>2. UNCHANGED <<experiment, device, taskNum, tasks, waitPrediction, queue, at>> /\ pc' = "count"
    BY <1>1 DEF Train, pool
  <2>3. AllIdle' BY <2>1, <2>2 DEF AllIdle, Busy
  <2>4. Testset' = Testset /\ Len(Testset) \in Nat
    BY <2>1, <2>2, TestsetFacts DEF IInv, Testset, Experiment
  <2>5. Len(taskNum) = 1 /\ taskNum[1] = 0 BY <2>1
  <2>6. Sums' BY <2>2, <2>5 DEF Sums
  <2> QED BY <2>1, <2>2, <2>3, <2>4, <2>5, <2>6 DEF Barrier
<1>2. CASE CountTasks BY <1>2, CountTasksBarrier
<1>3. CASE NewWaitGroup BY <1>3, NewWaitGroupBarrier
<1>4. CASE SplitDevice BY <1>4, SplitDeviceBarrier
<1>5. CASE StartTask BY <1>5, StartTaskBarrier
<1>6. CASE Wait BY <1>6, WaitBarrier
<1>7. CASE Clear
  <2>1. AllIdle /\ ~waitPrediction.live BY <1>7 DEF Clear, IInv, Barrier
  <2>2. AllIdle' /\ ~waitPrediction'.live BY <1>7, <2>1 DEF Clear, AllIdle, Busy, pool
  <2>3. DOMAIN cache' = {} BY <1>7 DEF Clear, EmptyCache
  <2> QED BY <1>7, <2>2, <2>3 DEF Clear, Barrier
<1> QED BY <1>1, <1>2, <1>3, <1>4, <1>5, <1>6, <1>7 DEF Main

-----------------------------------------------------------------------------
(* The cache *)

(* The mutex of the contents: nobody else is at the same entry.             *)
LEMMA OwnEntry ==
  ASSUME IInv, NEW t \in Threads, NEW u \in Threads,
         InPredictBurst(t), InPredictBurst(u), Test(t) = Test(u)
  PROVE  t = u
<1>1. Test(t) \in Tests BY TestTyped DEF IInv, InPredictBurst
<1>2. lockMap[Test(t)] = t /\ lockMap[Test(t)] = u BY <1>1 DEF IInv, Mutex
<1> QED BY <1>2

(* What one more training burst does to the nearest of those before it.     *)
WithOne(tr, b, i, min, nearest) ==
    IF Distance(b, tr[i]) < min THEN {tr[i]}
    ELSE IF Distance(b, tr[i]) = min THEN nearest \cup {tr[i]}
    ELSE nearest

LEMMA OneMore ==
  ASSUME NEW tr, NEW b, NEW places, NEW i, NEW more, more = places \cup {i},
         NEW min \in Int, FAR \in Int,
         Best(tr, b, places, min),
         \A j \in more : Distance(b, tr[j]) \in Int
  PROVE  /\ Best(tr, b, more, Least(min, Distance(b, tr[i])))
         /\ NearestOf(tr, b, more, Least(min, Distance(b, tr[i])))
              = WithOne(tr, b, i, min, NearestOf(tr, b, places, min))
<1> USE DEF WithOne
<1> DEFINE d == Distance(b, tr[i])
<1>1. d \in Int /\ Least(min, d) \in Int BY DEF Least
<1>2. Best(tr, b, places \cup {i}, Least(min, d))
  <2>1. Least(min, d) <= min /\ Least(min, d) <= d BY <1>1 DEF Least
  <2>2. Least(min, d) \in {FAR} \cup {Distance(b, tr[j]) : j \in places \cup {i}}
    BY DEF Best, Least
  <2>3. Least(min, d) <= FAR BY <1>1, <2>1 DEF Best
  <2>4. ASSUME NEW j \in places \cup {i} PROVE Least(min, d) <= Distance(b, tr[j])
    <3>1. CASE j = i BY <2>1, <3>1
    <3>2. CASE j \in places
      <4>1. min <= Distance(b, tr[j]) BY <3>2 DEF Best
      <4> QED BY <1>1, <2>1, <4>1
    <3> QED BY <3>1, <3>2
  <2> QED BY <2>2, <2>3, <2>4 DEF Best
<1>3. CASE d < min
  <2>1. Least(min, d) = d BY <1>1, <1>3 DEF Least
  <2>2. \A j \in places : Distance(b, tr[j]) # d BY <1>1, <1>3 DEF Best
  <2>3. NearestOf(tr, b, places \cup {i}, d) = {tr[i]} BY <2>2 DEF NearestOf
  <2> QED BY <1>2, <1>3, <2>1, <2>3
<1>4. CASE d = min
  <2>1. Least(min, d) = min BY <1>1, <1>4 DEF Least
  <2>2. NearestOf(tr, b, places \cup {i}, min) = NearestOf(tr, b, places, min) \cup {tr[i]}
    BY <1>4 DEF NearestOf
  <2>3. ~(d < min) BY <1>1, <1>4
  <2> QED BY <1>2, <1>4, <2>1, <2>2, <2>3
<1>5. CASE d > min
  <2>1. Least(min, d) = min /\ d # min /\ ~(d < min) BY <1>1, <1>5 DEF Least
  <2>2. NearestOf(tr, b, places \cup {i}, min) = NearestOf(tr, b, places, min)
    BY <2>1 DEF NearestOf
  <2> QED BY <1>2, <2>1, <2>2
<1> QED BY <1>1, <1>3, <1>4, <1>5

OthersKept(t) ==
    /\ train' = train
    /\ \A u \in Threads \ {t} :
          UNCHANGED <<at[u], todo[u], window[u], min_distance[u]>>

EntriesKept(t) ==
    \A b \in DOMAIN cache \ {Test(t)} : b \in DOMAIN cache' /\ cache'[b] = cache[b]

(* What the others know is not disturbed by a thread that changes at most   *)
(* the entry whose mutex it holds.                                          *)
LEMMA OthersRight ==
  ASSUME IInv, NEW t \in Threads, OthersKept(t),
         cache' = cache \/ (InPredictBurst(t) /\ EntriesKept(t)),
         NEW u \in Threads \ {t}
  PROVE  /\ at'[u] = "scan" => FillingRight(u)'
         /\ at'[u] = "return" => FoundRight(u)'
<1>1. /\ train' = train /\ at'[u] = at[u] /\ todo'[u] = todo[u]
      /\ window'[u] = window[u] /\ min_distance'[u] = min_distance[u]
  BY DEF OthersKept
<1>2. Test(u)' = Test(u) BY <1>1 DEF Test
<1>3. ASSUME InPredictBurst(u), Test(u) \in DOMAIN cache
      PROVE  Test(u) \in DOMAIN cache' /\ cache'[Test(u)] = cache[Test(u)]
  <2>1. CASE cache' = cache BY <1>3, <2>1
  <2>2. CASE InPredictBurst(t) /\ EntriesKept(t)
    <3>1. Test(u) # Test(t) BY <1>3, <2>2, OwnEntry
    <3> QED BY <1>3, <2>2, <3>1 DEF EntriesKept
  <2> QED BY <2>1, <2>2
<1>4. ASSUME at'[u] = "scan" PROVE FillingRight(u)'
  <2>1. FillingRight(u) /\ InPredictBurst(u)
    BY <1>1, <1>4 DEF IInv, ScanRight, InPredictBurst
  <2>2. Test(u) \in DOMAIN cache' /\ cache'[Test(u)] = cache[Test(u)]
    BY <1>3, <2>1 DEF FillingRight
  <2> QED BY <1>1, <1>2, <2>1, <2>2 DEF FillingRight
<1>5. ASSUME at'[u] = "return" PROVE FoundRight(u)'
  <2>1. FoundRight(u) /\ InPredictBurst(u)
    BY <1>1, <1>5 DEF IInv, ReturnRight, InPredictBurst
  <2>2. Test(u) \in DOMAIN cache' /\ cache'[Test(u)] = cache[Test(u)]
    BY <1>3, <2>1 DEF FoundRight
  <2> QED BY <1>1, <1>2, <2>1, <2>2 DEF FoundRight
<1> QED BY <1>4, <1>5

(* A step of a task that leaves the cache alone and neither scans before it *)
(* nor scans or returns after it.                                           *)
LEMMA AwayFromCache ==
  ASSUME IInv, NEW t \in Threads, OthersKept(t), cache' = cache,
         at[t] # "scan", at'[t] \notin {"scan", "return"}
  PROVE  CacheRight' /\ ScanRight' /\ ReturnRight'
<1>1. ScanRight' /\ ReturnRight' BY OthersRight DEF ScanRight, ReturnRight
<1>2. ASSUME NEW b \in DOMAIN cache
      PROVE  (\E u \in Threads : at'[u] = "scan" /\ Test(u)' = b) \/ EntryRight(b)'
  <2>1. CASE EntryRight(b) BY <2>1 DEF EntryRight, OthersKept
  <2>2. CASE \E u \in Threads : at[u] = "scan" /\ Test(u) = b
    <3>1. PICK u \in Threads : at[u] = "scan" /\ Test(u) = b BY <2>2
    <3>2. at'[u] = "scan" /\ Test(u)' = b BY <3>1 DEF OthersKept, Test
    <3> QED BY <3>2
  <2> QED BY <1>2, <2>1, <2>2 DEF IInv, CacheRight
<1>3. CacheRight' BY <1>2 DEF CacheRight
<1> QED BY <1>1, <1>3

(* A hit: the entry is not empty and nobody is filling it, so it is         *)
(* complete.                                                                *)
LEMMA QueryHitRight ==
  ASSUME IInv, NEW t \in Threads, QueryHit(t)
  PROVE  CacheRight' /\ ScanRight' /\ ReturnRight'
<1>1. /\ at[t] = "query" /\ at' = [at EXCEPT ![t] = "return"]
      /\ todo' = todo /\ window' = window /\ train' = train /\ cache' = cache
      /\ Entry(Test(t)).nearest # {}
      /\ min_distance' = [min_distance EXCEPT ![t] = Entry(Test(t)).distance]
  BY DEF QueryHit
<1>2. OthersKept(t) BY <1>1 DEF OthersKept, IInv, Types
<1>3. at'[t] = "return" /\ min_distance'[t] = Entry(Test(t)).distance /\ Test(t)' = Test(t)
  BY <1>1 DEF IInv, Types, Test
<1>4. Test(t) \in DOMAIN cache /\ Entry(Test(t)) = cache[Test(t)] BY <1>1 DEF Entry
<1>5. ~ \E u \in Threads : at[u] = "scan" /\ Test(u) = Test(t)
  BY <1>1, OwnEntry DEF InPredictBurst
<1>6. EntryRight(Test(t)) BY <1>4, <1>5 DEF IInv, CacheRight
<1>7. FoundRight(t)'
  BY <1>1, <1>3, <1>4, <1>6 DEF EntryRight, FoundRight
<1>8. ScanRight' /\ ReturnRight'
  BY <1>1, <1>2, <1>3, <1>7, OthersRight DEF ScanRight, ReturnRight
<1>9. ASSUME NEW b \in DOMAIN cache
      PROVE  (\E u \in Threads : at'[u] = "scan" /\ Test(u)' = b) \/ EntryRight(b)'
  <2>1. CASE EntryRight(b) BY <1>1, <2>1 DEF EntryRight
  <2>2. CASE \E u \in Threads : at[u] = "scan" /\ Test(u) = b
    <3>1. PICK u \in Threads : at[u] = "scan" /\ Test(u) = b BY <2>2
    <3>2. at'[u] = "scan" /\ Test(u)' = b BY <1>1, <1>2, <3>1 DEF OthersKept, Test
    <3> QED BY <3>2
  <2> QED BY <1>9, <2>1, <2>2 DEF IInv, CacheRight
<1>10. CacheRight' BY <1>1, <1>9 DEF CacheRight
<1> QED BY <1>8, <1>10

LEMMA QueryMissRight ==
  ASSUME IInv, NEW t \in Threads, QueryMiss(t)
  PROVE  CacheRight' /\ ScanRight' /\ ReturnRight'
<1>1. /\ at[t] = "query" /\ at' = [at EXCEPT ![t] = "scan"]
      /\ todo' = todo /\ train' = train /\ min_distance' = min_distance
      /\ Entry(Test(t)).nearest = {}
      /\ cache' = [b \in DOMAIN cache \cup {Test(t)} |-> Entry(b)]
      /\ window' = [window EXCEPT ![t] = Window(Test(t))]
  BY DEF QueryMiss
<1>2. OthersKept(t) BY <1>1 DEF OthersKept, IInv, Types
<1>3. /\ at'[t] = "scan" /\ Test(t)' = Test(t) /\ min_distance'[t] = FAR
      /\ window'[t] = WindowOf(train, Test(t))
  BY <1>1 DEF IInv, Types, HasTest, Test, Window, WindowOf
<1>4. InPredictBurst(t) /\ EntriesKept(t)
  BY <1>1 DEF InPredictBurst, EntriesKept, Entry
<1>5. Test(t) \in DOMAIN cache' /\ cache'[Test(t)].nearest = {} BY <1>1
<1>6. FillingRight(t)'
  <2>1. WindowOf(train', Test(t)') \ window'[t] = {} BY <1>1, <1>3
  <2>2. FAR <= FAR BY DistanceAssumption
  <2>3. Best(train', Test(t)', {}, FAR) BY <2>2 DEF Best
  <2>4. NearestOf(train', Test(t)', {}, FAR) = {} BY DEF NearestOf
  <2> QED BY <1>1, <1>3, <1>5, <2>1, <2>3, <2>4 DEF FillingRight
<1>7. ScanRight' /\ ReturnRight'
  BY <1>2, <1>3, <1>4, <1>6, OthersRight DEF ScanRight, ReturnRight
<1>8. ASSUME NEW b \in DOMAIN cache'
      PROVE  (\E u \in Threads : at'[u] = "scan" /\ Test(u)' = b) \/ EntryRight(b)'
  <2>1. CASE b = Test(t) BY <1>3, <2>1
  <2>2. CASE b # Test(t)
    <3>1. b \in DOMAIN cache /\ cache'[b] = cache[b] BY <1>1, <1>8, <2>2 DEF Entry
    <3>2. CASE EntryRight(b) BY <1>1, <3>1, <3>2 DEF EntryRight
    <3>3. CASE \E u \in Threads : at[u] = "scan" /\ Test(u) = b
      <4>1. PICK u \in Threads : at[u] = "scan" /\ Test(u) = b BY <3>3
      <4>2. at'[u] = "scan" /\ Test(u)' = b BY <1>1, <1>2, <4>1 DEF OthersKept, Test
      <4> QED BY <4>2
    <3> QED BY <3>1, <3>2, <3>3 DEF IInv, CacheRight
  <2> QED BY <2>1, <2>2
<1>9. CacheRight' BY <1>8 DEF CacheRight
<1> QED BY <1>7, <1>9

LEMMA ScanStepRight ==
  ASSUME IInv, NEW t \in Threads, Scan(t)
  PROVE  CacheRight' /\ ScanRight' /\ ReturnRight'
<1> DEFINE b == Test(t)
           d(i) == Distance(b, train[i])
           found(i) == IF d(i) < min_distance[t] THEN {train[i]}
                       ELSE IF d(i) = min_distance[t] THEN cache[b].nearest \cup {train[i]}
                       ELSE cache[b].nearest
<1>1. /\ at[t] = "scan" /\ at' = at /\ todo' = todo /\ train' = train
  BY DEF Scan
<1>2. PICK i \in window[t] :
        /\ cache' = [cache EXCEPT ![b] = [distance |-> cache[b].distance, nearest |-> found(i)]]
        /\ min_distance' = [min_distance EXCEPT ![t] = Least(min_distance[t], d(i))]
        /\ window' = [window EXCEPT ![t] = window[t] \ {i}]
  BY DEF Scan
<1>3. OthersKept(t) BY <1>1, <1>2 DEF OthersKept, IInv, Types
<1>4. FillingRight(t) BY <1>1 DEF IInv, ScanRight
<1>5. /\ b \in DOMAIN cache /\ DOMAIN cache' = DOMAIN cache
      /\ cache'[b].nearest = found(i)
      /\ \A c \in DOMAIN cache \ {b} : cache'[c] = cache[c]
  BY <1>2, <1>4 DEF IInv, CacheTypes, FillingRight
<1>6. InPredictBurst(t) /\ EntriesKept(t)
  BY <1>1, <1>5 DEF InPredictBurst, EntriesKept
<1>7. /\ window'[t] = window[t] \ {i}
      /\ min_distance'[t] = Least(min_distance[t], d(i))
      /\ Test(t)' = b
  BY <1>1, <1>2 DEF IInv, Types, Test
<1>8. FillingRight(t)'
  <2> DEFINE seen == WindowOf(train, b) \ window[t]
             m == min_distance[t]
  <2>1. window[t] \subseteq WindowOf(train, b) /\ Best(train, b, seen, m)
        /\ cache[b].nearest = NearestOf(train, b, seen, m)
    BY <1>4 DEF FillingRight
  <2>2. WindowOf(train', Test(t)') \ window'[t] = seen \cup {i}
    BY <1>1, <1>2, <1>7, <2>1
  <2>3. m \in Int /\ FAR \in Int BY DistanceAssumption DEF IInv, Types
  <2>4. \A j \in seen \cup {i} : Distance(b, train[j]) \in Int
    <3> SUFFICES ASSUME NEW j \in seen \cup {i} PROVE Distance(b, train[j]) \in Int
      OBVIOUS
    <3>1. j \in DOMAIN train BY <2>1 DEF WindowOf
    <3>2. train[j] \in TrainBursts BY <3>1 DEF IInv, Types
    <3>3. b \in Tests BY <1>1, TestTyped DEF IInv
    <3> QED BY <3>2, <3>3, DistanceTyped
  <2> HIDE DEF seen, m, b
  <2>5. /\ Best(train, b, seen \cup {i}, Least(m, Distance(b, train[i])))
        /\ NearestOf(train, b, seen \cup {i}, Least(m, Distance(b, train[i])))
             = WithOne(train, b, i, m, NearestOf(train, b, seen, m))
    <3> DEFINE more == seen \cup {i}
    <3>1. more = seen \cup {i} OBVIOUS
    <3>2. \A j \in more : Distance(b, train[j]) \in Int BY <2>4
    <3> HIDE DEF more
    <3>3. /\ Best(train, b, more, Least(m, Distance(b, train[i])))
          /\ NearestOf(train, b, more, Least(m, Distance(b, train[i])))
               = WithOne(train, b, i, m, NearestOf(train, b, seen, m))
      BY <2>1, <2>3, <3>1, <3>2, OneMore
    <3> QED BY <3>3 DEF more
  <2>6. NearestOf(train, b, seen \cup {i}, Least(m, d(i))) = found(i)
    BY <2>1, <2>5 DEF m, WithOne
  <2>7. window'[t] \subseteq WindowOf(train', Test(t)') BY <1>1, <1>7, <2>1
  <2> QED BY <1>1, <1>5, <1>7, <2>2, <2>5, <2>6, <2>7 DEF FillingRight, m
<1>9. ScanRight' /\ ReturnRight'
  BY <1>1, <1>3, <1>6, <1>8, OthersRight DEF ScanRight, ReturnRight
<1>10. ASSUME NEW c \in DOMAIN cache
       PROVE  (\E u \in Threads : at'[u] = "scan" /\ Test(u)' = c) \/ EntryRight(c)'
  <2>1. CASE c = b BY <1>1, <1>7, <2>1
  <2>2. CASE c # b
    <3>1. cache'[c] = cache[c] BY <1>5, <1>10, <2>2
    <3>2. CASE EntryRight(c) BY <1>1, <3>1, <3>2 DEF EntryRight
    <3>3. CASE \E u \in Threads : at[u] = "scan" /\ Test(u) = c BY <1>1, <3>3 DEF Test
    <3> QED BY <1>10, <3>2, <3>3 DEF IInv, CacheRight
  <2> QED BY <2>1, <2>2
<1>11. CacheRight' BY <1>5, <1>10 DEF CacheRight
<1> QED BY <1>9, <1>11

LEMMA EndScanRight ==
  ASSUME IInv, NEW t \in Threads, EndScan(t)
  PROVE  CacheRight' /\ ScanRight' /\ ReturnRight'
<1> DEFINE b == Test(t)
<1>1. /\ at[t] = "scan" /\ at' = [at EXCEPT ![t] = "return"] /\ window[t] = {}
      /\ todo' = todo /\ train' = train /\ window' = window /\ min_distance' = min_distance
      /\ cache' = [cache EXCEPT ![b] = [distance |-> min_distance[t],
                                        nearest  |-> cache[b].nearest]]
  BY DEF EndScan
<1>2. OthersKept(t) BY <1>1 DEF OthersKept, IInv, Types
<1>3. FillingRight(t) BY <1>1 DEF IInv, ScanRight
<1>4. /\ b \in DOMAIN cache /\ DOMAIN cache' = DOMAIN cache
      /\ cache'[b].nearest = cache[b].nearest /\ cache'[b].distance = min_distance[t]
      /\ \A c \in DOMAIN cache \ {b} : cache'[c] = cache[c]
  BY <1>1, <1>3 DEF IInv, CacheTypes, FillingRight
<1>5. InPredictBurst(t) /\ EntriesKept(t)
  BY <1>1, <1>4 DEF InPredictBurst, EntriesKept
<1>6. at'[t] = "return" /\ Test(t)' = b BY <1>1 DEF IInv, Types, Test
<1>7. /\ Best(train, b, WindowOf(train, b), min_distance[t])
      /\ cache[b].nearest = NearestOf(train, b, WindowOf(train, b), min_distance[t])
  <2>1. WindowOf(train, b) \ window[t] = WindowOf(train, b) BY <1>1
  <2> QED BY <1>3, <2>1 DEF FillingRight
<1>8. FoundRight(t)' BY <1>1, <1>4, <1>6, <1>7 DEF FoundRight
<1>9. ScanRight' /\ ReturnRight'
  BY <1>2, <1>5, <1>6, <1>8, OthersRight DEF ScanRight, ReturnRight
<1>10. ASSUME NEW c \in DOMAIN cache
       PROVE  (\E u \in Threads : at'[u] = "scan" /\ Test(u)' = c) \/ EntryRight(c)'
  <2>1. CASE c = b BY <1>1, <1>4, <1>7, <2>1 DEF EntryRight
  <2>2. CASE c # b
    <3>1. cache'[c] = cache[c] BY <1>4, <1>10, <2>2
    <3>2. CASE EntryRight(c) BY <1>1, <3>1, <3>2 DEF EntryRight
    <3>3. CASE \E u \in Threads : at[u] = "scan" /\ Test(u) = c
      <4>1. PICK u \in Threads : at[u] = "scan" /\ Test(u) = c BY <3>3
      <4>2. u # t BY <2>2, <4>1
      <4>3. at'[u] = "scan" /\ Test(u)' = c BY <1>1, <1>2, <4>1, <4>2 DEF OthersKept, Test
      <4> QED BY <4>3
    <3> QED BY <1>10, <3>2, <3>3 DEF IInv, CacheRight
  <2> QED BY <2>1, <2>2
<1>11. CacheRight' BY <1>4, <1>10 DEF CacheRight
<1> QED BY <1>9, <1>11

LEMMA WorkerRight ==
  ASSUME IInv, NEW t \in Threads, Worker(t)
  PROVE  CacheRight' /\ ScanRight' /\ ReturnRight'
<1> USE DEF IInv, Types, OthersKept
<1>1. CASE Dispatch(t) BY <1>1, AwayFromCache DEF Dispatch
<1>2. CASE NextGroup(t)
  <2>1. OthersKept(t) /\ cache' = cache /\ at[t] # "scan" BY <1>2 DEF NextGroup
  <2>2. at' = at \/ at' = [at EXCEPT ![t] = "lock"] BY <1>2 DEF NextGroup
  <2>3. at'[t] \notin {"scan", "return"} BY <1>2, <2>2 DEF NextGroup
  <2> QED BY <2>1, <2>3, AwayFromCache
<1>3. CASE Lock(t) BY <1>3, AwayFromCache DEF Lock
<1>4. CASE QueryHit(t) BY <1>4, QueryHitRight
<1>5. CASE QueryMiss(t) BY <1>5, QueryMissRight
<1>6. CASE Scan(t) BY <1>6, ScanStepRight
<1>7. CASE EndScan(t) BY <1>7, EndScanRight
<1>8. CASE Return(t) BY <1>8, AwayFromCache DEF Return
<1>9. CASE TaskDone(t) BY <1>9, AwayFromCache DEF TaskDone
<1> QED BY <1>1, <1>2, <1>3, <1>4, <1>5, <1>6, <1>7, <1>8, <1>9 DEF Worker

LEMMA WorkerCacheTypes ==
  ASSUME IInv, NEW t \in Threads, Worker(t)
  PROVE  CacheTypes'
<1>1. ASSUME cache' = cache PROVE CacheTypes' BY <1>1 DEF IInv, CacheTypes
<1>2. CASE QueryMiss(t)
  <2>1. Test(t) \in Tests BY <1>2, TestTyped DEF IInv, QueryMiss
  <2>2. cache' = [b \in DOMAIN cache \cup {Test(t)} |-> Entry(b)] BY <1>2 DEF QueryMiss
  <2>3. \A b : Entry(b) \in [distance : Int, nearest : SUBSET TrainBursts]
    BY DEF Entry, IInv, CacheTypes
  <2> QED BY <2>1, <2>2, <2>3 DEF IInv, CacheTypes
<1>3. CASE Scan(t)
  <2>1. FillingRight(t) /\ Test(t) \in Tests
    BY <1>3, TestTyped DEF IInv, ScanRight, Scan
  <2>2. Test(t) \in DOMAIN cache /\ window[t] \subseteq DOMAIN train
    BY <2>1 DEF FillingRight, WindowOf
  <2>3. PICK nearest \in SUBSET TrainBursts :
            cache' = [cache EXCEPT ![Test(t)] = [distance |-> cache[Test(t)].distance,
                                                 nearest  |-> nearest]]
    <3>1. PICK i \in window[t] : \E set :
            /\ cache' = [cache EXCEPT ![Test(t)] = [distance |-> cache[Test(t)].distance,
                                                    nearest  |-> set]]
            /\ set \in {{train[i]}, cache[Test(t)].nearest \cup {train[i]},
                        cache[Test(t)].nearest}
      BY <1>3 DEF Scan
    <3>2. train[i] \in TrainBursts BY <2>2, <3>1 DEF IInv, Types
    <3>3. cache[Test(t)].nearest \in SUBSET TrainBursts BY <2>2 DEF IInv, CacheTypes
    <3> QED BY <3>1, <3>2, <3>3
  <2> DEFINE new == [distance |-> cache[Test(t)].distance, nearest |-> nearest]
  <2>4. cache[Test(t)].distance \in Int BY <2>2 DEF IInv, CacheTypes
  <2>5. new \in [distance : Int, nearest : SUBSET TrainBursts] BY <2>4
  <2>6. cache' = [cache EXCEPT ![Test(t)] = new] BY <2>3
  <2> HIDE DEF new
  <2> QED BY <2>2, <2>5, <2>6 DEF IInv, CacheTypes
<1>4. CASE EndScan(t)
  <2>1. FillingRight(t) BY <1>4 DEF IInv, ScanRight, EndScan
  <2>2. Test(t) \in DOMAIN cache BY <2>1 DEF FillingRight
  <2> DEFINE new == [distance |-> min_distance[t], nearest |-> cache[Test(t)].nearest]
  <2>3. new \in [distance : Int, nearest : SUBSET TrainBursts]
    BY <2>2 DEF IInv, CacheTypes, Types
  <2>4. cache' = [cache EXCEPT ![Test(t)] = new] BY <1>4 DEF EndScan
  <2> HIDE DEF new
  <2> QED BY <2>2, <2>3, <2>4 DEF IInv, CacheTypes
<1> QED BY <1>1, <1>2, <1>3, <1>4
    DEF Worker, Dispatch, NextGroup, Lock, QueryHit, Return, TaskDone

LEMMA WorkerAnswersTyped ==
  ASSUME IInv, NEW t \in Threads, Worker(t)
  PROVE  AnswersTyped'
<1>1. ASSUME answers' = answers PROVE AnswersTyped' BY <1>1 DEF IInv, AnswersTyped
<1>2. CASE Return(t)
  <2>1. Test(t) \in Tests /\ FoundRight(t)
    BY <1>2, TestTyped DEF IInv, ReturnRight, Return
  <2>2. Test(t) \in DOMAIN cache BY <2>1 DEF FoundRight
  <2>3. PredictedAs(t) \in Answer
    BY <2>1, <2>2 DEF PredictedAs, Answer, IInv, CacheTypes, Types
  <2>4. answers' = Append(answers, PredictedAs(t)) BY <1>2 DEF Return
  <2> QED BY <2>3, <2>4 DEF IInv, AnswersTyped
<1> QED BY <1>1, <1>2
    DEF Worker, Dispatch, NextGroup, Lock, QueryHit, QueryMiss, Scan, EndScan, TaskDone

(* The main thread touches the table and the cache only when all are idle.  *)
LEMMA MainRight ==
  ASSUME IInv, Main
  PROVE  /\ HasTest' /\ Mutex' /\ CacheTypes' /\ AnswersTyped'
         /\ CacheRight' /\ ScanRight' /\ ReturnRight'
<1>1. UNCHANGED <<at, groups, todo, window, min_distance, lockMap>>
  BY DEF Main, Train, CountTasks, NewWaitGroup, SplitDevice, StartTask, Wait, Clear, pool
<1>2. HasTest' BY <1>1 DEF IInv, HasTest
<1>3. Mutex' BY <1>1 DEF IInv, Mutex, InPredictBurst, Test
<1>4. AnswersTyped'
  <2>1. answers' = answers \/ answers' = <<>>
    BY DEF Main, Train, CountTasks, NewWaitGroup, SplitDevice, StartTask, Wait, Clear
  <2>2. <<>> \in Seq(Answer) OBVIOUS
  <2>3. answers' \in Seq(Answer) BY <2>1, <2>2 DEF IInv, AnswersTyped
  <2> QED BY <2>3 DEF AnswersTyped
<1>5. CASE cache' = cache /\ train' = train
  <2>1. \A t \in Threads : Test(t)' = Test(t) BY <1>1 DEF Test
  <2>2. CacheTypes' BY <1>5 DEF IInv, CacheTypes
  <2>3. ScanRight' BY <1>1, <1>5, <2>1 DEF IInv, ScanRight, FillingRight
  <2>4. ReturnRight' BY <1>1, <1>5, <2>1 DEF IInv, ReturnRight, FoundRight
  <2>5. CacheRight' BY <1>1, <1>5, <2>1 DEF IInv, CacheRight, EntryRight
  <2> QED BY <1>2, <1>3, <1>4, <2>2, <2>3, <2>4, <2>5
<1>6. CASE Train \/ Clear
  <2>1. AllIdle /\ DOMAIN cache' = {}
    BY <1>6 DEF Train, Clear, EmptyCache, IInv, Barrier
  <2>2. \A t \in Threads : at'[t] = "idle" BY <1>1, <2>1 DEF AllIdle, Busy
  <2>3. CacheRight' /\ ScanRight' /\ ReturnRight'
    BY <2>1, <2>2 DEF CacheRight, ScanRight, ReturnRight
  <2>4. CacheTypes' BY <1>6, <2>1 DEF Train, Clear, EmptyCache, IInv, CacheTypes
  <2> QED BY <1>2, <1>3, <1>4, <2>3, <2>4
<1> QED BY <1>5, <1>6 DEF Main, CountTasks, NewWaitGroup, SplitDevice, StartTask, Wait

-----------------------------------------------------------------------------
(* The theorems *)

LEMMA Initially == Init => IInv
<1> SUFFICES ASSUME Init PROVE IInv OBVIOUS
<1> USE DEF Init
<1>1. Types BY ExperimentsAssumption, DistanceAssumption DEF Types
<1>2. CacheTypes BY DEF CacheTypes, EmptyCache
<1>3. HasTest BY DEF HasTest
<1>4. Mutex BY ThreadsAssumption DEF Mutex, InPredictBurst
<1>5. Barrier BY DEF Barrier, AllIdle, Busy, EmptyCache
<1>6. CacheRight /\ ScanRight /\ ReturnRight BY DEF CacheRight, ScanRight, ReturnRight, EmptyCache
<1>7. AnswersTyped BY DEF AnswersTyped
<1> QED BY <1>1, <1>2, <1>3, <1>4, <1>5, <1>6, <1>7 DEF IInv

LEMMA Stutter == IInv /\ UNCHANGED vars => IInv'
<1> SUFFICES ASSUME IInv, UNCHANGED vars PROVE IInv' OBVIOUS
<1> USE DEF IInv, vars, loop, pool
<1>1. \A t \in Threads : Test(t)' = Test(t) BY DEF Test
<1>2. Types' BY DEF Types
<1>3. CacheTypes' BY DEF CacheTypes
<1>4. HasTest' BY DEF HasTest
<1>5. Mutex' BY <1>1 DEF Mutex, InPredictBurst
<1>6. Barrier' BY DEF Barrier, AllIdle, Busy, Outstanding, ToCome, Sums, Testset, Experiment
<1>7. CacheRight' BY <1>1 DEF CacheRight, EntryRight
<1>8. ScanRight' BY <1>1 DEF ScanRight, FillingRight
<1>9. ReturnRight' BY <1>1 DEF ReturnRight, FoundRight
<1>10. AnswersTyped' BY DEF AnswersTyped
<1> QED BY <1>2, <1>3, <1>4, <1>5, <1>6, <1>7, <1>8, <1>9, <1>10

(* The invariant holds whatever the table, the distances, the test sets and *)
(* the number of compute threads.                                           *)
THEOREM Invariance == Spec => []IInv
<1>1. IInv /\ [Next]_vars => IInv'
  <2> SUFFICES ASSUME IInv, [Next]_vars PROVE IInv' OBVIOUS
  <2>1. CASE Main BY <2>1, MainTypes, MainBarrier, MainRight DEF IInv
  <2>2. CASE \E t \in Threads : Worker(t)
    <3>1. PICK t \in Threads : Worker(t) BY <2>2
    <3>2. Types' /\ CacheTypes' BY <3>1, WorkerTypes, WorkerCacheTypes
    <3>3. HasTest' /\ Mutex' /\ Barrier' BY <3>1, HasTestStep, MutexStep, WorkerBarrier
    <3>4. CacheRight' /\ ScanRight' /\ ReturnRight' BY <3>1, WorkerRight
    <3>5. AnswersTyped' BY <3>1, WorkerAnswersTyped
    <3> QED BY <3>2, <3>3, <3>4, <3>5 DEF IInv
  <2>3. CASE UNCHANGED vars BY <2>3, Stutter
  <2> QED BY <2>1, <2>2, <2>3 DEF Next, Terminating
<1> QED BY Initially, <1>1, PTL DEF Spec

(* All variables have their types, and a mutex of the lock map is held by   *)
(* exactly the thread that is in PredictBurst with the same contents.       *)
THEOREM TypeCorrect == Spec => []TypeOK
<1>1. IInv => TypeOK
  BY DEF IInv, Types, CacheTypes, Mutex, InPredictBurst, AnswersTyped, TypeOK
<1> QED BY <1>1, Invariance, PTL

(* No task is waiting or running when Predict has deleted its WaitGroup:    *)
(* the count of the first loop and the cuts of the second agree for every   *)
(* length of the test set and every epochSlotNum.                           *)
THEOREM NoTaskAfterWaitCorrect == Spec => []NoTaskAfterWait
<1>1. IInv => NoTaskAfterWait
  BY DEF IInv, Barrier, AllIdle, Busy, NoTaskAfterWait
<1> QED BY <1>1, Invariance, PTL

(* The nearest of the window are the answer of the oracle.                  *)
LEMMA AnswerOfBest ==
  ASSUME Types, NEW b \in Tests, NEW min, Best(train, b, WindowOf(train, b), min)
  PROVE  Oracle!Answer(b) = [test |-> b, distance |-> min,
                             nearest |-> NearestOf(train, b, WindowOf(train, b), min)]
<1> DEFINE near == {i \in DOMAIN train : Oracle!Comparable(b, train[i])}
           dist == {FAR} \cup {Distance(b, train[i]) : i \in near}
           least == CHOOSE d \in dist : \A e \in dist : d <= e
<1>1. \A i \in DOMAIN train : train[i] \in TrainBursts BY DEF Types
<1>2. near = WindowOf(train, b)
  BY <1>1, DistanceTyped, WindowIsComparable DEF WindowOf
<1>3. \A d \in dist : d \in Int
  <2>1. \A i \in near : Distance(b, train[i]) \in Int BY <1>1, DistanceTyped
  <2> QED BY <2>1, DistanceAssumption
<1>4. min \in dist /\ \A e \in dist : min <= e
  <2>1. min \in dist BY <1>2 DEF Best
  <2>2. min <= FAR /\ \A i \in near : min <= Distance(b, train[i]) BY <1>2 DEF Best
  <2> QED BY <2>1, <2>2
<1>5. least \in dist /\ \A e \in dist : least <= e
  <2> HIDE DEF dist
  <2> QED BY <1>4
<1>6. least = min
  <2>1. least <= min /\ min <= least BY <1>4, <1>5
  <2>2. least \in Int /\ min \in Int BY <1>3, <1>4, <1>5
  <2> HIDE DEF least
  <2> QED BY <2>1, <2>2
<1>7. Oracle!Answer(b) = [test |-> b, distance |-> least,
                          nearest |-> {train[i] : i \in {j \in near : Distance(b, train[j]) = least}}]
  BY DEF Oracle!Answer
<1>8. {train[i] : i \in {j \in near : Distance(b, train[j]) = least}}
        = NearestOf(train, b, WindowOf(train, b), min)
  <2> HIDE DEF near, least
  <2> QED BY <1>2, <1>6 DEF NearestOf
<1> HIDE DEF near, dist, least
<1> QED BY <1>6, <1>7, <1>8

(* Prediction with its cache, its locks and its threads implements the      *)
(* oracle: each return answers, atomically, what a search through all       *)
(* comparable training bursts of this experiment would answer.              *)
THEOREM Refinement == Spec => OracleSpec
<1>1. Init => Oracle!Init BY DEF Init, Oracle!Init
<1>2. IInv /\ [Next]_vars => [Oracle!Next]_(Oracle!vars)
  <2> SUFFICES ASSUME IInv, [Next]_vars PROVE [Oracle!Next]_(Oracle!vars) OBVIOUS
  <2>1. CASE Train
    <3>1. train' \in {e.train : e \in ToSet(Experiments)} /\ answers' = <<>>
      BY <2>1, TestsetFacts DEF Train, IInv
    <3> QED BY <3>1 DEF Oracle!Next, Oracle!Retrain
  <2>2. ASSUME NEW t \in Threads, Return(t) PROVE Oracle!Next
    <3>1. Test(t) \in Tests /\ FoundRight(t)
      BY <2>2, TestTyped DEF IInv, ReturnRight, Return
    <3>2. Oracle!Answer(Test(t)) = PredictedAs(t)
      BY <3>1, AnswerOfBest DEF IInv, FoundRight, PredictedAs
    <3>3. Oracle!Ask(Test(t)) BY <2>2, <3>2 DEF Return, Oracle!Ask
    <3> QED BY <3>1, <3>3 DEF Oracle!Next
  <2>3. CASE UNCHANGED <<train, answers>> BY <2>3 DEF Oracle!vars
  <2> QED BY <2>1, <2>2, <2>3
      DEF Next, Main, CountTasks, NewWaitGroup, SplitDevice, StartTask, Wait, Clear, Worker,
          Dispatch, NextGroup, Lock, QueryHit, QueryMiss, Scan, EndScan, TaskDone,
          Terminating, vars
<1> QED BY <1>1, <1>2, Invariance, PTL DEF Spec, OracleSpec, Oracle!Spec
=============================================================================
