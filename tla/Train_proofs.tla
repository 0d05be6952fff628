---------------------------- MODULE Train_proofs ----------------------------
(***************************************************************************)
(* Every invariant of Train, for any experiments, threads and parameters,  *)
(* from four inductive invariants:                                         *)
(*   IInv: the WaitGroup counts the devices not started, the ones in the   *)
(*     queue and the ones a thread runs;                                   *)
(*   Trained: a device of the training set is in one of these places or    *)
(*     done; a task that merges has each first burst before it or one that *)
(*     stands for it kept; what of the device is in the table is what its  *)
(*     task has filed so far, each burst once and in the cell of its size; *)
(*   MapsOK: the static maps have of a device, in order, the merged bursts *)
(*     of its first groups, those left being the rest of its task, and the *)
(*     average of the first experiment that knew it;                       *)
(*   TypesOK: what is counted occurs.                                      *)
(***************************************************************************)
EXTENDS Train, FiniteSetTheorems, SequenceTheorems, WellFoundedInduction, NaturalsInduction, TLAPS

Busy == {t \in Threads : pool[t] # Idle}

(* Every thread runs a task or nothing; only the field at matters here.     *)
PoolOK ==
    /\ pool = [t \in Threads |-> pool[t]]
    /\ \A t \in Threads : "at" \in DOMAIN pool[t] /\ (pool[t].at = "idle" => pool[t] = Idle)

MainOK ==
    /\ main = [pc |-> main.pc, experiment |-> main.experiment, devices |-> main.devices]
    /\ main.experiment \in Nat \ {0}
    /\ main.devices \subseteq Devices
    /\ IsFiniteSet(main.devices)

GroupOK ==
    /\ waitTrain = [nleft |-> waitTrain.nleft, live |-> waitTrain.live]
    /\ waitTrain.nleft \in Int

(* Nobody is left: not to be started, not waiting for a thread, not running.*)
AllDone == main.devices = {} /\ queue = <<>> /\ Busy = {}

(* The WaitGroup counts the devices that still have to call done().         *)
Counted ==
    IF waitTrain.live
    THEN /\ main.pc \in {"start", "crashed"}
         /\ \/ waitTrain.nleft = Cardinality(main.devices) + Len(queue) + Cardinality(Busy)
            \/ waitTrain.nleft = -1 /\ AllDone
    ELSE main.pc \in {"construct", "trained"} /\ AllDone

IInv == PoolOK /\ MainOK /\ GroupOK /\ queue \in Seq(Devices) /\ Counted

-----------------------------------------------------------------------------

LEMMA BusyFinite ==
    IsFiniteSet(Busy) /\ Cardinality(Busy) \in Nat
<1>1. Busy \subseteq Threads BY DEF Busy
<1> QED BY <1>1, FiniteAssumption, FS_Subset, FS_CardinalityType

(* The training set of the present experiment has finitely many devices.    *)
LEMMA TrainsetFinite ==
  ASSUME main.experiment \in Nat \ {0}, main.experiment <= Len(Experiments)
  PROVE  DOMAIN Trainset \subseteq Devices /\ IsFiniteSet(DOMAIN Trainset)
<1>1. Trainset \in ToSet(Experiments)
  BY FiniteAssumption DEF Trainset, ToSet
<1> QED BY <1>1, FiniteAssumption DEF Devices

(* A step of a task that neither begins nor ends it.                        *)
Continues(t) ==
    /\ t \in Threads
    /\ pool[t].at # "idle"
    /\ \E r : pool' = [pool EXCEPT ![t] = r] /\ "at" \in DOMAIN r /\ r.at # "idle"

LEMMA ContinuesFacts ==
  ASSUME PoolOK, NEW t \in Threads, Continues(t)
  PROVE  PoolOK' /\ Busy' = Busy /\ Busy # {}
<1>1. PICK r : pool' = [pool EXCEPT ![t] = r] /\ "at" \in DOMAIN r /\ r.at # "idle"
  BY DEF Continues
<1>2. Idle.at = "idle" BY DEF Idle
<1>3. pool[t] # Idle /\ r # Idle BY <1>1, <1>2 DEF Continues
<1>4. pool' = [u \in Threads |-> IF u = t THEN r ELSE pool[u]]
  BY <1>1 DEF PoolOK
<1>5. \A u \in Threads : pool'[u] = IF u = t THEN r ELSE pool[u] BY <1>4
<1>6. PoolOK'
  <2>1. pool' = [u \in Threads |-> pool'[u]] BY <1>4
  <2>2. \A u \in Threads : "at" \in DOMAIN pool'[u] /\ (pool'[u].at = "idle" => pool'[u] = Idle)
    BY <1>1, <1>5 DEF PoolOK
  <2> QED BY <2>1, <2>2 DEF PoolOK
<1>7. Busy' = Busy BY <1>3, <1>5 DEF Busy
<1>8. t \in Busy BY <1>3 DEF Busy
<1> QED BY <1>6, <1>7, <1>8

LEMMA InsertAverageContinues ==
  ASSUME PoolOK, NEW t \in Threads, InsertAverage(t)
  PROVE  Continues(t)
<1> DEFINE r == [pool[t] EXCEPT !.at = "levels"]
<1>1. pool' = [pool EXCEPT ![t] = r] BY DEF InsertAverage
<1>2. "at" \in DOMAIN r /\ r.at = "levels" BY DEF PoolOK
<1>3. pool[t].at # "idle" BY DEF InsertAverage
<1> HIDE DEF r
<1> QED BY <1>1, <1>2, <1>3 DEF Continues

LEMMA PushLevelContinues ==
  ASSUME PoolOK, NEW t \in Threads, PushLevel(t)
  PROVE  Continues(t)
<1> DEFINE r == [pool[t] EXCEPT !.groups = Tail(pool[t].groups)]
<1>1. pool' = [pool EXCEPT ![t] = r] BY DEF PushLevel
<1>2. "at" \in DOMAIN r /\ r.at = pool[t].at BY DEF PoolOK
<1>3. pool[t].at # "idle" BY DEF PushLevel
<1> HIDE DEF r
<1> QED BY <1>1, <1>2, <1>3 DEF Continues

LEMMA MergeStrictContinues ==
  ASSUME PoolOK, NEW t \in Threads, MergeStrict(t)
  PROVE  Continues(t)
<1> DEFINE r == [[pool[t] EXCEPT !.at = "identical"] EXCEPT !.vec = MergeStrictHash[Trainset[pool[t].device]]]
<1>1. pool' = [pool EXCEPT ![t] = r] BY DEF MergeStrict
<1>2. "at" \in DOMAIN r /\ r.at = "identical" BY DEF PoolOK
<1>3. pool[t].at # "idle" BY DEF MergeStrict
<1> HIDE DEF r
<1> QED BY <1>1, <1>2, <1>3 DEF Continues

LEMMA MergeOneContinues ==
  ASSUME PoolOK, NEW t \in Threads, MergeOne(t)
  PROVE  Continues(t)
<1>1. PICK b, kept :
          pool' = [pool EXCEPT ![t].kept = kept, ![t].vec = Without(@, b)]
  BY DEF MergeOne
<1> DEFINE r == [[pool[t] EXCEPT !.kept = kept] EXCEPT !.vec = Without(pool[t].vec, b)]
<1>2. pool' = [pool EXCEPT ![t] = r] BY <1>1
<1>3. "at" \in DOMAIN r /\ r.at = "identical" BY DEF PoolOK, MergeOne
<1>4. pool[t].at # "idle" BY DEF MergeOne
<1> HIDE DEF r
<1> QED BY <1>2, <1>3, <1>4 DEF Continues

LEMMA EndMergeContinues ==
  ASSUME PoolOK, NEW t \in Threads, EndMerge(t)
  PROVE  Continues(t)
<1> DEFINE r == [[pool[t] EXCEPT !.at = "file"] EXCEPT !.vec = pool[t].kept]
<1>1. pool' = [pool EXCEPT ![t] = r] BY DEF EndMerge
<1>2. "at" \in DOMAIN r /\ r.at = "file" BY DEF PoolOK
<1>3. pool[t].at # "idle" BY DEF EndMerge
<1> HIDE DEF r
<1> QED BY <1>1, <1>2, <1>3 DEF Continues

LEMMA FileContinues ==
  ASSUME PoolOK, NEW t \in Threads, File(t)
  PROVE  Continues(t)
<1>1. PICK b : pool' = [pool EXCEPT ![t].vec = Without(@, b)]
  BY DEF File
<1> DEFINE r == [pool[t] EXCEPT !.vec = Without(pool[t].vec, b)]
<1>2. pool' = [pool EXCEPT ![t] = r] BY <1>1
<1>3. "at" \in DOMAIN r /\ r.at = "file" BY DEF PoolOK, File
<1>4. pool[t].at # "idle" BY DEF File
<1> HIDE DEF r
<1> QED BY <1>2, <1>3, <1>4 DEF Continues

LEMMA StatsContinues ==
  ASSUME PoolOK, NEW t \in Threads, Stats(t)
  PROVE  Continues(t)
<1> DEFINE r == [pool[t] EXCEPT !.at = "done"]
<1>1. pool' = [pool EXCEPT ![t] = r] BY DEF Stats
<1>2. "at" \in DOMAIN r /\ r.at = "done" BY DEF PoolOK
<1>3. pool[t].at # "idle" BY DEF Stats
<1> HIDE DEF r
<1> QED BY <1>1, <1>2, <1>3 DEF Continues

-----------------------------------------------------------------------------

LEMMA Initially == Init => IInv
<1> SUFFICES ASSUME Init PROVE IInv OBVIOUS
<1>1. PoolOK BY DEF Init, PoolOK, Idle
<1>2. MainOK
  <2>1. IsFiniteSet({}) BY FS_EmptySet
  <2> QED BY <2>1 DEF Init, MainOK
<1>3. GroupOK /\ queue \in Seq(Devices) BY DEF Init, GroupOK
<1>4. Counted
  <2>1. Busy = {} BY DEF Init, Busy
  <2> QED BY <2>1 DEF Init, Counted, AllDone
<1> QED BY <1>1, <1>2, <1>3, <1>4 DEF IInv

(* A task runs only while the WaitGroup exists.                             *)
LEMMA BusyIsLive == IInv /\ Busy # {} => waitTrain.live
BY DEF IInv, Counted, AllDone

(* What a task does between its beginning and its end leaves the count as   *)
(* it is; a crash in Stats happens while the WaitGroup exists.              *)
LEMMA ContinuesStep ==
  ASSUME IInv, NEW t \in Threads, Continues(t), UNCHANGED <<queue, waitTrain>>,
         main' = main \/ main' = [main EXCEPT !.pc = "crashed"]
  PROVE  IInv'
<1>1. PoolOK' /\ Busy' = Busy /\ Busy # {} BY ContinuesFacts DEF IInv
<1>2. MainOK' /\ main'.devices = main.devices /\ (main'.pc = main.pc \/ main'.pc = "crashed")
  BY DEF IInv, MainOK
<1>3. GroupOK' /\ (queue \in Seq(Devices))' BY DEF IInv, GroupOK
<1>4. Counted'
  <2>1. waitTrain.live BY <1>1, BusyIsLive
  <2>2. waitTrain' = waitTrain /\ queue' = queue OBVIOUS
  <2> QED BY <1>1, <1>2, <2>1, <2>2 DEF IInv, Counted, AllDone
<1> QED BY <1>1, <1>2, <1>3, <1>4 DEF IInv

LEMMA BeginTrainStep == IInv /\ BeginTrain => IInv'
<1> SUFFICES ASSUME IInv, BeginTrain PROVE IInv' OBVIOUS
<1> DEFINE n == Cardinality(DOMAIN Trainset)
<1>1. DOMAIN Trainset \subseteq Devices /\ IsFiniteSet(DOMAIN Trainset)
  BY TrainsetFinite DEF IInv, MainOK, BeginTrain
<1>2. n \in Nat /\ (n = 0 => DOMAIN Trainset = {}) BY <1>1, FS_CardinalityType, FS_EmptySet
<1>3. AllDone BY DEF IInv, Counted, BeginTrain
<1>4. PoolOK' /\ Busy' = Busy BY DEF IInv, PoolOK, BeginTrain, Busy
<1>5. /\ main'.pc = "start" /\ main'.devices = DOMAIN Trainset
      /\ main' = [pc |-> main'.pc, experiment |-> main'.experiment, devices |-> main'.devices]
      /\ main'.experiment = main.experiment
  BY DEF IInv, MainOK, BeginTrain
<1>6. MainOK' BY <1>1, <1>5 DEF IInv, MainOK
<1>7. waitTrain' = [nleft |-> WaitCount(n), live |-> TRUE] BY DEF BeginTrain
<1>8. GroupOK' BY <1>2, <1>7 DEF GroupOK, WaitCount
<1>9. queue' = queue BY DEF BeginTrain
<1>10. Counted'
  <2>1. Cardinality(Busy') = 0 /\ Len(queue') = 0
    BY <1>3, <1>4, <1>9, FS_EmptySet DEF AllDone
  <2>2. waitTrain'.live /\ waitTrain'.nleft = IF n = 0 THEN -1 ELSE n BY <1>7 DEF WaitCount
  <2> QED BY <1>2, <1>3, <1>4, <1>5, <1>9, <2>1, <2>2 DEF Counted, AllDone
<1> QED BY <1>4, <1>6, <1>8, <1>9, <1>10 DEF IInv

LEMMA StartTaskStep == IInv /\ StartTask => IInv'
<1> SUFFICES ASSUME IInv, StartTask PROVE IInv' OBVIOUS
<1>1. PICK d \in main.devices :
         queue' = Append(queue, d) /\ main' = [main EXCEPT !.devices = main.devices \ {d}]
  BY DEF StartTask
<1>2. PoolOK' /\ Busy' = Busy BY DEF IInv, PoolOK, StartTask, Busy
<1>3. /\ main'.devices = main.devices \ {d} /\ main'.pc = "start"
      /\ main' = [pc |-> main'.pc, experiment |-> main'.experiment, devices |-> main'.devices]
      /\ main'.experiment = main.experiment
  BY <1>1 DEF IInv, MainOK, StartTask
<1>4. /\ IsFiniteSet(main.devices \ {d})
      /\ Cardinality(main.devices \ {d}) = Cardinality(main.devices) - 1
      /\ Cardinality(main.devices) \in Nat
  BY <1>1, FS_RemoveElement, FS_CardinalityType DEF IInv, MainOK
<1>5. MainOK' BY <1>3, <1>4 DEF IInv, MainOK
<1>6. GroupOK' /\ waitTrain' = waitTrain BY DEF IInv, GroupOK, StartTask
<1>7. queue' \in Seq(Devices) /\ Len(queue') = Len(queue) + 1 /\ Len(queue) \in Nat
  BY <1>1 DEF IInv, MainOK
<1>8. Counted'
  <2>1. waitTrain.live /\ ~AllDone BY <1>1 DEF IInv, Counted, AllDone, StartTask
  <2>2. waitTrain.nleft = Cardinality(main.devices) + Len(queue) + Cardinality(Busy)
    BY <2>1 DEF IInv, Counted
  <2>3. waitTrain'.nleft = Cardinality(main'.devices) + Len(queue') + Cardinality(Busy')
    BY <1>2, <1>3, <1>4, <1>6, <1>7, <2>2, BusyFinite
  <2> QED BY <1>3, <1>6, <2>1, <2>3 DEF Counted
<1> QED BY <1>2, <1>5, <1>6, <1>7, <1>8 DEF IInv

(* wait() returns at zero or below: then nobody is left.                    *)
LEMMA WaitStep == IInv /\ Wait => IInv'
<1> SUFFICES ASSUME IInv, Wait PROVE IInv' OBVIOUS
<1>1. AllDone
  <2>1. CASE waitTrain.live
    <3>1. Len(queue) \in Nat /\ Cardinality(main.devices) = 0
      BY FS_EmptySet DEF IInv, Wait
    <3>2. SUFFICES ASSUME ~AllDone PROVE FALSE OBVIOUS
    <3>3. waitTrain.nleft = Cardinality(main.devices) + Len(queue) + Cardinality(Busy)
      BY <2>1, <3>2 DEF IInv, Counted
    <3>4. Len(queue) = 0 /\ Cardinality(Busy) = 0
      BY <3>1, <3>3, BusyFinite DEF Wait
    <3>5. Busy = {} BY <3>4, BusyFinite, FS_EmptySet
    <3>6. queue = <<>> BY <3>4 DEF IInv
    <3> QED BY <3>2, <3>5, <3>6 DEF Wait, AllDone
  <2>2. CASE ~waitTrain.live BY <2>2 DEF IInv, Counted
  <2> QED BY <2>1, <2>2
<1>2. PoolOK' /\ Busy' = Busy BY DEF IInv, PoolOK, Wait, Busy
<1>3. MainOK' /\ main'.pc = "trained" /\ main'.devices = main.devices
  BY DEF IInv, MainOK, Wait
<1>4. GroupOK' /\ ~waitTrain'.live BY DEF IInv, GroupOK, Wait
<1>5. queue' = queue BY DEF Wait
<1>6. Counted' BY <1>1, <1>2, <1>3, <1>4, <1>5 DEF Counted, AllDone
<1> QED BY <1>2, <1>3, <1>4, <1>5, <1>6 DEF IInv

LEMMA NextExperimentStep == IInv /\ NextExperiment => IInv'
<1> SUFFICES ASSUME IInv, NextExperiment PROVE IInv' OBVIOUS
<1>1. PoolOK' /\ Busy' = Busy BY DEF IInv, PoolOK, NextExperiment, Busy
<1>2. /\ main'.pc = "construct" /\ main'.devices = main.devices
      /\ main'.experiment = main.experiment + 1
      /\ main' = [pc |-> main'.pc, experiment |-> main'.experiment, devices |-> main'.devices]
  BY DEF IInv, MainOK, NextExperiment
<1>3. MainOK' BY <1>2 DEF IInv, MainOK
<1>4. GroupOK' /\ waitTrain' = waitTrain /\ queue' = queue
  BY DEF IInv, GroupOK, NextExperiment
<1>5. Counted' BY <1>1, <1>2, <1>4 DEF IInv, Counted, AllDone, NextExperiment
<1> QED BY <1>1, <1>3, <1>4, <1>5 DEF IInv

(* A task moves from the queue to a thread.                                 *)
LEMMA DispatchStep ==
  ASSUME IInv, NEW t \in Threads, Dispatch(t)
  PROVE  IInv'
<1> DEFINE r == [at |-> "average", device |-> Head(queue), groups |-> Trainset[Head(queue)],
                 vec |-> EmptyMap, kept |-> EmptyMap]
<1>1. pool' = [pool EXCEPT ![t] = r] /\ "at" \in DOMAIN r /\ r.at = "average"
  BY DEF Dispatch
<1> HIDE DEF r
<1>2. Idle.at = "idle" BY DEF Idle
<1>3. \A u \in Threads : pool'[u] = IF u = t THEN r ELSE pool[u]
  BY <1>1 DEF IInv, PoolOK
<1>4. PoolOK'
  <2>1. pool' = [u \in Threads |-> pool'[u]] BY <1>1 DEF IInv, PoolOK
  <2>2. \A u \in Threads : "at" \in DOMAIN pool'[u] /\ (pool'[u].at = "idle" => pool'[u] = Idle)
    BY <1>1, <1>3 DEF IInv, PoolOK
  <2> QED BY <2>1, <2>2 DEF PoolOK
<1>5. t \notin Busy /\ Busy' = Busy \cup {t}
  <2>1. pool[t] = Idle BY DEF Dispatch, IInv, PoolOK
  <2>2. r # Idle BY <1>1, <1>2
  <2> QED BY <1>3, <2>1, <2>2 DEF Busy
<1>6. Cardinality(Busy') = Cardinality(Busy) + 1
  BY <1>5, BusyFinite, FS_AddElement
<1>7. /\ queue # <<>> /\ queue' = Tail(queue) /\ queue' \in Seq(Devices)
      /\ Len(queue) \in Nat /\ Len(queue') = Len(queue) - 1
  BY DEF IInv, Dispatch
<1>8. main' = main /\ waitTrain' = waitTrain /\ MainOK' /\ GroupOK'
  BY DEF IInv, Dispatch, MainOK, GroupOK
<1>9. Counted'
  <2>1. waitTrain.live /\ ~AllDone BY <1>7 DEF IInv, Counted, AllDone
  <2>2. waitTrain.nleft = Cardinality(main.devices) + Len(queue) + Cardinality(Busy)
    BY <2>1 DEF IInv, Counted
  <2>3. Cardinality(main.devices) \in Nat BY FS_CardinalityType DEF IInv, MainOK
  <2>4. waitTrain'.nleft = Cardinality(main'.devices) + Len(queue') + Cardinality(Busy')
    BY <1>6, <1>7, <1>8, <2>2, <2>3, BusyFinite
  <2> QED BY <1>8, <2>1, <2>4 DEF IInv, Counted
<1> QED BY <1>4, <1>7, <1>8, <1>9 DEF IInv

(* done(): one thread fewer, and one fewer to wait for.                     *)
LEMMA TaskDoneStep ==
  ASSUME IInv, NEW t \in Threads, TaskDone(t)
  PROVE  IInv'
<1>1. pool' = [pool EXCEPT ![t] = Idle] BY DEF TaskDone
<1>2. Idle.at = "idle" /\ "at" \in DOMAIN Idle BY DEF Idle
<1>3. \A u \in Threads : pool'[u] = IF u = t THEN Idle ELSE pool[u]
  BY <1>1 DEF IInv, PoolOK
<1>4. PoolOK'
  <2>1. pool' = [u \in Threads |-> pool'[u]] BY <1>1 DEF IInv, PoolOK
  <2>2. \A u \in Threads : "at" \in DOMAIN pool'[u] /\ (pool'[u].at = "idle" => pool'[u] = Idle)
    BY <1>2, <1>3 DEF IInv, PoolOK
  <2> QED BY <2>1, <2>2 DEF PoolOK
<1>5. t \in Busy /\ Busy' = Busy \ {t}
  <2>1. pool[t] # Idle BY <1>2 DEF TaskDone
  <2> QED BY <1>3, <2>1 DEF Busy
<1>6. Cardinality(Busy') = Cardinality(Busy) - 1
  BY <1>5, BusyFinite, FS_RemoveElement
<1>7. main' = main /\ queue' = queue /\ MainOK' /\ queue' \in Seq(Devices)
  BY DEF IInv, TaskDone, MainOK
<1>8. waitTrain.live /\ ~AllDone BY <1>5, BusyIsLive DEF AllDone
<1>9. GroupOK' /\ waitTrain'.nleft = waitTrain.nleft - 1 /\ waitTrain'.live = waitTrain.live
  BY DEF IInv, TaskDone, GroupOK
<1>10. Counted'
  <2>1. waitTrain.nleft = Cardinality(main.devices) + Len(queue) + Cardinality(Busy)
    BY <1>8 DEF IInv, Counted
  <2>2. Cardinality(main.devices) \in Nat /\ Len(queue) \in Nat
    BY FS_CardinalityType DEF IInv, MainOK
  <2>3. waitTrain'.nleft = Cardinality(main'.devices) + Len(queue') + Cardinality(Busy')
    BY <1>6, <1>7, <1>9, <2>1, <2>2, BusyFinite
  <2> QED BY <1>7, <1>8, <1>9, <2>3 DEF IInv, Counted
<1> QED BY <1>4, <1>7, <1>9, <1>10 DEF IInv

LEMMA WorkerStep ==
  ASSUME IInv, NEW t \in Threads, Worker(t)
  PROVE  IInv'
<1>1. PoolOK BY DEF IInv
<1>2. CASE Dispatch(t) BY <1>2, DispatchStep
<1>3. CASE InsertAverage(t)
  BY <1>1, <1>3, InsertAverageContinues, ContinuesStep DEF InsertAverage
<1>4. CASE PushLevel(t) BY <1>1, <1>4, PushLevelContinues, ContinuesStep DEF PushLevel
<1>5. CASE MergeStrict(t) BY <1>1, <1>5, MergeStrictContinues, ContinuesStep DEF MergeStrict
<1>6. CASE MergeOne(t) BY <1>1, <1>6, MergeOneContinues, ContinuesStep DEF MergeOne
<1>7. CASE EndMerge(t) BY <1>1, <1>7, EndMergeContinues, ContinuesStep DEF EndMerge
<1>8. CASE File(t) BY <1>1, <1>8, FileContinues, ContinuesStep DEF File
<1>9. CASE Stats(t)
  <2>1. main' = main \/ main' = [main EXCEPT !.pc = "crashed"] BY <1>9 DEF Stats
  <2>2. UNCHANGED <<queue, waitTrain>> BY <1>9 DEF Stats
  <2> QED BY <1>1, <1>9, <2>1, <2>2, StatsContinues, ContinuesStep
<1>10. CASE TaskDone(t) BY <1>10, TaskDoneStep
<1> QED BY <1>2, <1>3, <1>4, <1>5, <1>6, <1>7, <1>8, <1>9, <1>10 DEF Worker

LEMMA Stutter == IInv /\ UNCHANGED vars => IInv'
BY DEF IInv, vars, PoolOK, MainOK, GroupOK, Counted, AllDone, Busy

(* The count of the WaitGroup is that of the tasks still to come, at every  *)
(* moment of every series of experiments.                                   *)
THEOREM Invariance == Spec => []IInv
<1>1. IInv /\ [Next]_vars => IInv'
  <2> SUFFICES ASSUME IInv, [Next]_vars PROVE IInv' OBVIOUS
  <2>1. CASE Main
    BY <2>1, BeginTrainStep, StartTaskStep, WaitStep, NextExperimentStep DEF Main
  <2>2. ASSUME NEW t \in Threads, Worker(t) PROVE IInv' BY <2>2, WorkerStep
  <2>3. CASE UNCHANGED vars BY <2>3, Stutter
  <2> QED BY <2>1, <2>2, <2>3 DEF Next, Terminating
<1> QED BY Initially, <1>1, PTL DEF Spec

(* The barrier of Train: when waitTrain is deleted no task waits or runs.   *)
THEOREM NoTaskAfterWaitCorrect == Spec => []NoTaskAfterWait
<1>1. IInv => NoTaskAfterWait BY DEF IInv, Counted, AllDone, Busy, NoTaskAfterWait
<1> QED BY Invariance, <1>1, PTL

-----------------------------------------------------------------------------
(* What an experiment trains on *)

(* A nonempty set of naturals has a least element.                          *)
LEMMA LeastOfNaturals ==
    ASSUME NEW S, S \subseteq Nat, S # {}
    PROVE  \E m \in S : \A n \in S : m <= n
  <1> DEFINE R == {p \in Nat \X Nat : p[1] < p[2]}
  <1>1. IsWellFoundedOn(R, Nat)
    BY NatLessThanWellFounded DEF OpToRel
  <1>2. PICK m \in S : \A n \in S : <<n, m>> \notin R
    <2> HIDE DEF R
    <2> QED BY <1>1, WFMin
  <1>3. ASSUME NEW n \in S PROVE m <= n
    <2>1. m \in Nat /\ n \in Nat
      OBVIOUS
    <2>2. ~(n < m)
      BY <1>2, <2>1
    <2> QED BY <2>1, <2>2
  <1> QED BY <1>3

(* What TrainAssumption says of one burst.                                  *)
Trainable(b) ==
    /\ b \in BurstType
    /\ W!Sized(b)
    /\ Validate(b) = "OK"
    /\ Sorted(b.packetDetail)

(* What TrainAssumption says of the groups of a device.                     *)
LEMMA GroupsFacts ==
    ASSUME NEW ts \in ToSet(Experiments), NEW d \in DOMAIN ts
    PROVE  /\ ts[d] \in Seq(Seq(BurstsOf(ts[d])))
           /\ ts[d] \in DeviceGroups
           /\ d \in Devices
           /\ \A b \in BurstsOf(ts[d]) : Trainable(b) /\ b \in Bursts
           /\ \A e \in DOMAIN ts : \A b \in BurstsOf(ts[d]) : b \in BurstsOf(ts[e]) => d = e
  <1>1. ts[d] \in Seq(Seq(BurstsOf(ts[d])))
    BY TrainAssumption
  <1>2. d \in Devices
    BY DEF Devices
  <1>3. <<ts, d>> \in {y \in ToSet(Experiments) \X Devices : y[2] \in DOMAIN y[1]}
    BY <1>2
  <1>4. ts[d] \in DeviceGroups
    BY <1>3 DEF DeviceGroups
  <1>5. ASSUME NEW b \in BurstsOf(ts[d]) PROVE Trainable(b) /\ b \in Bursts
    <2>1. PICK group \in ToSet(ts[d]) : b \in ToSet(group)
      BY DEF BurstsOf
    <2>2. Trainable(b)
      BY <2>1, TrainAssumption DEF Trainable
    <2> QED BY <1>4, <2>2 DEF Bursts
  <1>6. ASSUME NEW e \in DOMAIN ts, NEW b \in BurstsOf(ts[d]), b \in BurstsOf(ts[e]), d # e
        PROVE  FALSE
    <2>1. BurstsOf(ts[d]) \cap BurstsOf(ts[e]) = {}
      BY <1>6, TrainAssumption
    <2> QED BY <1>6, <2>1
  <1> QED BY <1>1, <1>2, <1>4, <1>5, <1>6

(* The first bursts are bursts of the device, and one of them has the hash  *)
(* of each.                                                                 *)
LEMMA FirstsFacts ==
    ASSUME NEW groups, groups \in Seq(Seq(BurstsOf(groups)))
    PROVE  /\ Firsts(groups) \subseteq BurstsOf(groups)
           /\ \A b \in BurstsOf(groups) : \E f \in Firsts(groups) : Hash(f) = Hash(b)
  <1>1. DOMAIN groups \subseteq Nat /\ \A i \in DOMAIN groups : DOMAIN groups[i] \subseteq Nat
    OBVIOUS
  <1>2. ASSUME NEW p \in Positions(groups)
        PROVE  p[1] \in DOMAIN groups /\ p[2] \in DOMAIN groups[p[1]] /\ p = <<p[1], p[2]>>
    BY DEF Positions
  <1>3. ASSUME NEW p \in Positions(groups)
        PROVE  groups[p[1]][p[2]] \in BurstsOf(groups)
    <2>1. groups[p[1]] \in ToSet(groups)
      BY <1>2 DEF ToSet
    <2>2. groups[p[1]][p[2]] \in ToSet(groups[p[1]])
      BY <1>2 DEF ToSet
    <2> QED BY <2>1, <2>2 DEF BurstsOf
  <1>4. Firsts(groups) \subseteq BurstsOf(groups)
    BY <1>3 DEF Firsts
  <1>5. ASSUME NEW b \in BurstsOf(groups)
        PROVE  \E f \in Firsts(groups) : Hash(f) = Hash(b)
    <2> DEFINE O == Occurrences(groups, Hash(b))
               I == {p[1] : p \in O}
               J(i) == {p[2] : p \in {q \in O : q[1] = i}}
    <2>1. \E p \in Positions(groups) : groups[p[1]][p[2]] = b
      <3>1. PICK i \in DOMAIN groups : b \in ToSet(groups[i])
        BY DEF BurstsOf, ToSet
      <3>2. PICK j \in DOMAIN groups[i] : groups[i][j] = b
        BY <3>1 DEF ToSet
      <3>3. <<i, j>> \in Positions(groups)
        BY DEF Positions
      <3> QED BY <3>2, <3>3
    <2>2. O # {} /\ O \subseteq Positions(groups)
      BY <2>1 DEF Occurrences
    <2>3. I # {} /\ I \subseteq Nat
      BY <1>1, <1>2, <2>2
    <2>4. PICK i \in I : \A n \in I : i <= n
      BY <2>3, LeastOfNaturals
    <2>5. J(i) # {} /\ J(i) \subseteq Nat
      BY <1>1, <1>2, <2>2
    <2>6. PICK j \in J(i) : \A n \in J(i) : j <= n
      <3> HIDE DEF J
      <3> QED BY <2>5, LeastOfNaturals
    <2>7. PICK q \in O : q[1] = i /\ q[2] = j
      OBVIOUS
    <2>8. ASSUME NEW o \in O, Before(o, q) PROVE FALSE
      <3>1. o[1] \in I /\ i <= o[1]
        BY <2>4
      <3>2. o[1] = i => o[2] \in J(i) /\ j <= o[2]
        BY <2>6
      <3>3. o[1] \in Nat /\ o[2] \in Nat /\ i \in Nat /\ j \in Nat
        BY <1>1, <1>2, <2>2, <2>3, <2>5
      <3> QED BY <2>7, <2>8, <3>1, <3>2, <3>3 DEF Before
    <2>9. q \in Positions(groups) /\ Hash(groups[q[1]][q[2]]) = Hash(b)
      BY DEF Occurrences
    <2>10. groups[q[1]][q[2]] \in Firsts(groups)
      BY <2>8, <2>9 DEF Firsts
    <2> QED BY <2>9, <2>10
  <1> QED BY <1>4, <1>5

(* Of two places in the groups one is before the other, so that a hash has  *)
(* one first burst.                                                         *)
LEMMA FirstsApart ==
    ASSUME NEW groups, groups \in Seq(Seq(BurstsOf(groups))),
           NEW f \in Firsts(groups), NEW g \in Firsts(groups), Hash(f) = Hash(g)
    PROVE  f = g
  <1>1. PICK p \in Positions(groups) :
           /\ f = groups[p[1]][p[2]]
           /\ \A o \in Occurrences(groups, Hash(f)) : ~Before(o, p)
    BY DEF Firsts
  <1>2. PICK q \in Positions(groups) :
           /\ g = groups[q[1]][q[2]]
           /\ \A o \in Occurrences(groups, Hash(f)) : ~Before(o, q)
    BY DEF Firsts
  <1>3. p \in Occurrences(groups, Hash(f)) /\ q \in Occurrences(groups, Hash(f))
    BY <1>1, <1>2 DEF Occurrences
  <1>4. ~Before(p, q) /\ ~Before(q, p)
    BY <1>1, <1>2, <1>3
  <1>5. p[1] \in Nat /\ p[2] \in Nat /\ q[1] \in Nat /\ q[2] \in Nat
    <2>1. DOMAIN groups \subseteq Nat /\ \A i \in DOMAIN groups : DOMAIN groups[i] \subseteq Nat
      OBVIOUS
    <2>2. \A o \in Positions(groups) : o[1] \in DOMAIN groups /\ o[2] \in DOMAIN groups[o[1]]
      BY DEF Positions
    <2> QED BY <2>1, <2>2
  <1>6. p[1] = q[1] /\ p[2] = q[2]
    BY <1>4, <1>5 DEF Before
  <1> QED BY <1>1, <1>2, <1>6

-----------------------------------------------------------------------------
(* Sequences without repetition *)

(* A new element at the end keeps a sequence without repetition.            *)
LEMMA AppendNew ==
    ASSUME NEW S, NEW s \in Seq(S), IsInjective(s), NEW e \in S, e \notin ToSet(s)
    PROVE  IsInjective(Append(s, e)) /\ ToSet(Append(s, e)) = ToSet(s) \cup {e}
  <1>1. /\ DOMAIN s = 1 .. Len(s) /\ Len(s) \in Nat
        /\ DOMAIN Append(s, e) = 1 .. Len(s) + 1
        /\ \A i \in 1 .. Len(s) : Append(s, e)[i] = s[i]
        /\ Append(s, e)[Len(s) + 1] = e
    OBVIOUS
  <1>2. \A i \in DOMAIN s : s[i] # e
    BY DEF ToSet
  <1>3. ASSUME NEW i \in DOMAIN Append(s, e), NEW j \in DOMAIN Append(s, e),
               Append(s, e)[i] = Append(s, e)[j]
        PROVE  i = j
    <2>1. i \in DOMAIN s \/ i = Len(s) + 1
      BY <1>1
    <2>2. j \in DOMAIN s \/ j = Len(s) + 1
      BY <1>1
    <2> QED BY <1>1, <1>2, <1>3, <2>1, <2>2 DEF IsInjective
  <1>4. ToSet(Append(s, e)) = ToSet(s) \cup {e}
    <2>1. DOMAIN Append(s, e) = DOMAIN s \cup {Len(s) + 1}
      BY <1>1
    <2> QED BY <1>1, <2>1 DEF ToSet
  <1> QED BY <1>3, <1>4 DEF IsInjective

(* The head of such a sequence is not in its tail.                          *)
LEMMA TailNew ==
    ASSUME NEW S, NEW s \in Seq(S), IsInjective(s), s # <<>>
    PROVE  /\ IsInjective(Tail(s)) /\ Head(s) \notin ToSet(Tail(s))
           /\ ToSet(s) = {Head(s)} \cup ToSet(Tail(s))
  <1>1. /\ DOMAIN s = 1 .. Len(s) /\ Len(s) \in Nat \ {0} /\ Head(s) = s[1]
        /\ DOMAIN Tail(s) = 1 .. Len(s) - 1
        /\ \A i \in 1 .. Len(s) - 1 : Tail(s)[i] = s[i + 1]
    OBVIOUS
  <1>2. ASSUME NEW i \in DOMAIN Tail(s), NEW j \in DOMAIN Tail(s), Tail(s)[i] = Tail(s)[j]
        PROVE  i = j
    <2>1. i + 1 \in DOMAIN s /\ j + 1 \in DOMAIN s /\ s[i + 1] = s[j + 1]
      BY <1>1, <1>2
    <2>2. i + 1 = j + 1
      BY <2>1 DEF IsInjective
    <2> QED BY <1>1, <2>2
  <1>3. ASSUME NEW i \in DOMAIN Tail(s) PROVE Tail(s)[i] # Head(s)
    <2>1. i + 1 \in DOMAIN s /\ 1 \in DOMAIN s /\ i + 1 # 1
      BY <1>1
    <2> QED BY <1>1, <2>1 DEF IsInjective
  <1>4. ToSet(s) = {Head(s)} \cup ToSet(Tail(s))
    <2>1. ASSUME NEW i \in DOMAIN s PROVE s[i] \in {Head(s)} \cup ToSet(Tail(s))
      <3>1. i = 1 \/ (i - 1 \in DOMAIN Tail(s) /\ Tail(s)[i - 1] = s[i])
        BY <1>1
      <3> QED BY <1>1, <3>1 DEF ToSet
    <2>2. ASSUME NEW i \in DOMAIN Tail(s) PROVE Tail(s)[i] \in ToSet(s)
      BY <1>1 DEF ToSet
    <2>3. Head(s) \in ToSet(s)
      BY <1>1 DEF ToSet
    <2> QED BY <2>1, <2>2, <2>3 DEF ToSet
  <1> QED BY <1>2, <1>3, <1>4 DEF IsInjective, ToSet

-----------------------------------------------------------------------------
(* The table *)

(* A burst that will do for another one.                                    *)
StandsFor(k, f) == k = f \/ Distance(k, f) # "far"

(* What may be left of the first bursts of a device when they are merged.   *)
Enough(d, K) ==
    /\ K \subseteq Firsts(Trainset[d])
    /\ IsFiniteSet(K) /\ Cardinality(K) <= MAX_BURSTS + 1
    /\ \/ Cardinality(K) = MAX_BURSTS + 1
       \/ \A f \in Firsts(Trainset[d]) : \E k \in K : StandsFor(k, f)

(* A task that merges has every first burst still before it, or one that    *)
(* stands for it kept; then it files what it kept.                          *)
TaskOK(r) ==
    /\ r = [at |-> r.at, device |-> r.device, groups |-> r.groups, vec |-> r.vec,
            kept |-> r.kept]
    /\ r.device \in DOMAIN Trainset
    /\ r.at \in {"average", "levels", "identical", "file", "done"}
    /\ r.at \in {"average", "levels"} => r.kept = EmptyMap
    /\ r.at = "identical" =>
          /\ DOMAIN r.vec \cup DOMAIN r.kept \subseteq Firsts(Trainset[r.device])
          /\ IsFiniteSet(DOMAIN r.kept) /\ Cardinality(DOMAIN r.kept) <= MAX_BURSTS + 1
          /\ \A f \in Firsts(Trainset[r.device]) :
                f \in DOMAIN r.vec \/ \E k \in DOMAIN r.kept : StandsFor(k, f)
    /\ r.at \in {"file", "done"} => Enough(r.device, DOMAIN r.kept)
    /\ r.at = "file" => DOMAIN r.vec \subseteq DOMAIN r.kept

FiledBy(r) ==
    {b \in DOMAIN r.kept : r.at = "done" \/ (r.at = "file" /\ b \notin DOMAIN r.vec)}

(* A device is not started, waits, runs on one thread, or is done.          *)
OnePlace ==
    /\ IsInjective(queue)
    /\ main.devices \cap ToSet(queue) = {}
    /\ \A t \in Busy : pool[t].device \notin main.devices \cup ToSet(queue)
    /\ \A t, u \in Busy : pool[t].device = pool[u].device => t = u
    /\ main.pc # "construct" =>
          /\ main.experiment <= Len(Experiments)
          /\ main.devices \cup ToSet(queue) \subseteq DOMAIN Trainset

(* Every burst in the table is in the cell of its size, once.               *)
TableOK ==
    IF main.pc = "construct" THEN train = EmptyMap
    ELSE /\ DOMAIN train = Cells
         /\ \A c \in Cells :
               /\ train[c] \in Seq(Bursts) /\ IsInjective(train[c])
               /\ \A b \in ToSet(train[c]) :
                     /\ Cell(b) = c
                     /\ \E d \in DOMAIN Trainset : b \in BurstsOf(Trainset[d])

(* What of a device is in the table, wherever it is.                        *)
FiledOK ==
    main.pc # "construct" =>
        /\ \A d \in main.devices \cup ToSet(queue) : Filed(d) = {}
        /\ \A t \in Busy : Filed(pool[t].device) = FiledBy(pool[t])
        /\ \A d \in DOMAIN Trainset :
              \/ d \in main.devices \cup ToSet(queue)
              \/ \E t \in Busy : pool[t].device = d
              \/ Enough(d, Filed(d))

TasksOK == \A t \in Busy : TaskOK(pool[t])

Trained == OnePlace /\ TasksOK /\ TableOK /\ FiledOK

(* While there is a task the training set is one of the series.             *)
LEMMA TrainsetKnown ==
    ASSUME IInv, OnePlace, main.pc # "construct"
    PROVE  Trainset \in ToSet(Experiments)
  <1>1. main.experiment \in DOMAIN Experiments
    BY FiniteAssumption DEF IInv, MainOK, OnePlace
  <1> QED BY <1>1 DEF Trainset, ToSet

(* A thread runs a task only while constructTree waits for it.              *)
LEMMA BusyConstructs ==
    ASSUME IInv, Busy # {}
    PROVE  main.pc # "construct" /\ waitTrain.live
  BY DEF IInv, Counted, AllDone

(* A task goes on without filing.                                           *)
LEMMA TaskStep ==
    ASSUME IInv, Trained, NEW t \in Threads, NEW r,
           pool[t].at # "idle", pool' = [pool EXCEPT ![t] = r],
           r.device = pool[t].device, TaskOK(r), FiledBy(r) = FiledBy(pool[t]),
           UNCHANGED <<queue, train>>,
           main' = main \/ main' = [main EXCEPT !.pc = "crashed"]
    PROVE  Trained'
  <1>1. "at" \in DOMAIN r /\ r.at # "idle"
    <2>1. r.at # "idle" /\ r = [at |-> r.at, device |-> r.device, groups |-> r.groups,
                                vec |-> r.vec, kept |-> r.kept]
      BY DEF TaskOK
    <2> QED BY <2>1
  <1>2. Busy' = Busy /\ Busy # {} /\ t \in Busy
    <2>1. Continues(t)
      BY <1>1 DEF Continues
    <2>2. t \in Busy
      BY DEF Busy, Idle
    <2> QED BY <2>1, <2>2, ContinuesFacts DEF IInv
  <1>3. /\ main'.experiment = main.experiment /\ main'.devices = main.devices
        /\ main.pc # "construct" /\ main'.pc # "construct"
    BY <1>2, BusyConstructs DEF IInv, MainOK
  <1>4. Trainset' = Trainset
    BY <1>3 DEF Trainset
  <1>5. Table' = Table
    BY DEF Table
  <1>6. \A d, K : Enough(d, K)' = Enough(d, K)
    BY <1>4 DEF Enough
  <1>7. \A x : TaskOK(x)' = TaskOK(x)
    BY <1>4, <1>6 DEF TaskOK
  <1>8. \A u \in Threads : pool'[u] = IF u = t THEN r ELSE pool[u]
    BY DEF IInv, PoolOK
  <1>9. \A u \in Busy : u \in Threads /\ pool'[u].device = pool[u].device
    BY <1>8 DEF Busy
  <1>10. OnePlace'
    BY <1>2, <1>3, <1>4, <1>9 DEF Trained, OnePlace
  <1>11. TasksOK'
    BY <1>2, <1>7, <1>8, <1>9 DEF Trained, TasksOK
  <1>12. TableOK'
    BY <1>3, <1>4 DEF Trained, TableOK
  <1>13. \A u \in Busy : FiledBy(pool'[u]) = FiledBy(pool[u])
    BY <1>8, <1>9
  <1>14. FiledOK'
    <2>1. (\A d \in main.devices \cup ToSet(queue) : Filed(d) = {})'
      BY <1>3, <1>4, <1>5 DEF Trained, FiledOK, Filed
    <2>2. (\A u \in Busy : Filed(pool[u].device) = FiledBy(pool[u]))'
      <3> SUFFICES ASSUME NEW u \in Busy
                   PROVE  (Filed(pool[u].device) = FiledBy(pool[u]))'
        BY <1>2
      <3>1. Filed(pool[u].device) = FiledBy(pool[u])
        BY <1>3 DEF Trained, FiledOK
      <3>2. Filed(pool[u].device)' = Filed(pool[u].device)
        BY <1>4, <1>5, <1>9 DEF Filed
      <3>3. FiledBy(pool[u])' = FiledBy(pool[u])
        BY <1>13 DEF FiledBy
      <3> QED BY <3>1, <3>2, <3>3
    <2>3. ASSUME NEW d \in DOMAIN Trainset
          PROVE  (\/ d \in main.devices \cup ToSet(queue)
                  \/ \E u \in Busy : pool[u].device = d
                  \/ Enough(d, Filed(d)))'
      <3>1. CASE d \in main.devices \cup ToSet(queue)
        BY <1>3, <3>1
      <3>2. CASE \E u \in Busy : pool[u].device = d
        BY <1>2, <1>9, <3>2
      <3>3. CASE Enough(d, Filed(d))
        BY <1>4, <1>5, <3>3 DEF Enough, Filed
      <3> QED BY <1>3, <3>1, <3>2, <3>3 DEF Trained, FiledOK
    <2> QED BY <1>4, <2>1, <2>2, <2>3 DEF FiledOK
  <1> QED BY <1>10, <1>11, <1>12, <1>14 DEF Trained

-----------------------------------------------------------------------------
(* The steps of a task *)

(* What holds of the task a thread is at.                                   *)
LEMMA AtTask ==
    ASSUME IInv, Trained, NEW t \in Threads, pool[t].at # "idle"
    PROVE  /\ t \in Busy /\ TaskOK(pool[t]) /\ main.pc # "construct"
           /\ Trainset \in ToSet(Experiments)
           /\ pool[t].device \in DOMAIN Trainset
  <1>1. t \in Busy
    BY DEF Busy, Idle
  <1>2. main.pc # "construct"
    BY <1>1, BusyConstructs
  <1> QED BY <1>1, <1>2, TrainsetKnown DEF Trained, TasksOK, TaskOK

(* The averages are done; nothing is kept yet.                              *)
LEMMA InsertAverageTrained ==
    ASSUME IInv, Trained, NEW t \in Threads, InsertAverage(t)
    PROVE  Trained'
  <1>1. pool[t].at = "average"
    BY DEF InsertAverage
  <1>2. PICK r : r = [pool[t] EXCEPT !.at = "levels"]
    OBVIOUS
  <1>3. TaskOK(pool[t])
    BY <1>1, AtTask
  <1>4. r = [at |-> "levels", device |-> pool[t].device, groups |-> pool[t].groups,
             vec |-> pool[t].vec, kept |-> pool[t].kept]
    BY <1>2, <1>3 DEF TaskOK
  <1>5. TaskOK(r) /\ FiledBy(r) = FiledBy(pool[t]) /\ r.device = pool[t].device
    BY <1>1, <1>3, <1>4 DEF TaskOK, FiledBy
  <1>6. pool' = [pool EXCEPT ![t] = r] /\ UNCHANGED <<main, queue, train>>
    BY <1>2 DEF InsertAverage
  <1> QED BY <1>1, <1>5, <1>6, TaskStep

(* The levels are pushed, the last one and the merging begins.              *)
LEMMA PushLevelTrained ==
    ASSUME IInv, Trained, NEW t \in Threads, PushLevel(t)
    PROVE  Trained'
  <1>1. pool[t].at = "levels"
    BY DEF PushLevel
  <1>2. PICK r : r = [pool[t] EXCEPT !.groups = Tail(pool[t].groups)]
    OBVIOUS
  <1>3. TaskOK(pool[t])
    BY <1>1, AtTask
  <1>4. r = [at |-> "levels", device |-> pool[t].device, groups |-> Tail(pool[t].groups),
             vec |-> pool[t].vec, kept |-> pool[t].kept]
    BY <1>1, <1>2, <1>3 DEF TaskOK
  <1>5. TaskOK(r) /\ FiledBy(r) = FiledBy(pool[t]) /\ r.device = pool[t].device
    BY <1>1, <1>3, <1>4 DEF TaskOK, FiledBy
  <1>6. pool' = [pool EXCEPT ![t] = r] /\ UNCHANGED <<main, queue, train>>
    BY <1>2 DEF PushLevel
  <1> QED BY <1>1, <1>5, <1>6, TaskStep

(* Before the merging every first burst is in vec, and nothing is kept.     *)
LEMMA MergeStrictTrained ==
    ASSUME IInv, Trained, NEW t \in Threads, MergeStrict(t)
    PROVE  Trained'
  <1>1. pool[t].at = "levels"
    BY DEF MergeStrict
  <1>2. PICK d \in DOMAIN Trainset : d = pool[t].device
    BY <1>1, AtTask
  <1>3. PICK vec : vec = MergeStrictHash[Trainset[d]]
    OBVIOUS
  <1>4. PICK r : r = [[pool[t] EXCEPT !.at = "identical"] EXCEPT !.vec = vec]
    OBVIOUS
  <1>5. TaskOK(pool[t])
    BY <1>1, AtTask
  <1>6. r = [at |-> "identical", device |-> d, groups |-> pool[t].groups,
             vec |-> vec, kept |-> EmptyMap]
    BY <1>1, <1>2, <1>4, <1>5 DEF TaskOK
  <1>7. DOMAIN vec = Firsts(Trainset[d])
    <2>1. Trainset \in ToSet(Experiments)
      BY <1>1, AtTask
    <2>2. Trainset[d] \in DeviceGroups
      BY <2>1, GroupsFacts
    <2>3. DOMAIN vec = Firsts(Trainset[d])
      BY <1>3, <2>2 DEF MergeStrictHash
    <2> QED BY <2>3
  <1>8. TaskOK(r)
    <2>1. DOMAIN r.kept = {} /\ IsFiniteSet({}) /\ Cardinality({}) = 0
      BY <1>6, FS_EmptySet DEF EmptyMap
    <2>2. 0 <= MAX_BURSTS + 1
      BY TrainAssumption
    <2> QED BY <1>6, <1>7, <2>1, <2>2 DEF TaskOK
  <1>9. FiledBy(r) = FiledBy(pool[t]) /\ r.device = pool[t].device
    BY <1>1, <1>2, <1>6 DEF FiledBy
  <1>10. pool' = [pool EXCEPT ![t] = r] /\ UNCHANGED <<main, queue, train>>
    BY <1>2, <1>3, <1>4 DEF MergeStrict
  <1> QED BY <1>1, <1>8, <1>9, <1>10, TaskStep

(* A burst leaves vec: it is kept, or counted for one that stands for it.   *)
LEMMA MergeOneTrained ==
    ASSUME IInv, Trained, NEW t \in Threads, MergeOne(t)
    PROVE  Trained'
  <1>1. pool[t].at = "identical" /\ ~Full(pool[t].kept)
    BY DEF MergeOne
  <1>0. PICK b \in DOMAIN pool[t].vec :
           \E k \in Absorbers(pool[t].kept, b)
                      \cup (IF Stays(pool[t].kept, b) THEN {b} ELSE {}) :
              pool' = [pool EXCEPT
                          ![t].kept = Put(pool[t].kept, k,
                                          At(pool[t].kept, k, 0) + pool[t].vec[b]),
                          ![t].vec = Without(@, b)]
    BY DEF MergeOne
  <1>2. PICK k \in Absorbers(pool[t].kept, b)
                      \cup (IF Stays(pool[t].kept, b) THEN {b} ELSE {}) :
              pool' = [pool EXCEPT
                          ![t].kept = Put(pool[t].kept, k,
                                          At(pool[t].kept, k, 0) + pool[t].vec[b]),
                          ![t].vec = Without(@, b)]
    BY <1>0
  <1>3. PICK kept : kept = Put(pool[t].kept, k, At(pool[t].kept, k, 0) + pool[t].vec[b])
    OBVIOUS
  <1>4. PICK vec : vec = Without(pool[t].vec, b)
    OBVIOUS
  <1>5. PICK r : r = [[pool[t] EXCEPT !.kept = kept] EXCEPT !.vec = vec]
    OBVIOUS
  <1>6. TaskOK(pool[t])
    BY <1>1, AtTask
  <1>7. PICK d : d = pool[t].device
    OBVIOUS
  <1>8. r = [at |-> "identical", device |-> d, groups |-> pool[t].groups,
             vec |-> vec, kept |-> kept]
    BY <1>1, <1>5, <1>6, <1>7 DEF TaskOK
  <1>9. PICK K : K = DOMAIN pool[t].kept
    OBVIOUS
  <1>10. DOMAIN vec = DOMAIN pool[t].vec \ {b} /\ DOMAIN kept = K \cup {k}
    BY <1>3, <1>4, <1>9 DEF Without, Put
  <1>11. /\ DOMAIN pool[t].vec \cup K \subseteq Firsts(Trainset[d])
         /\ IsFiniteSet(K) /\ Cardinality(K) \in Nat /\ Cardinality(K) <= MAX_BURSTS
         /\ \A f \in Firsts(Trainset[d]) : f \in DOMAIN pool[t].vec \/ \E g \in K : StandsFor(g, f)
    <2>1. /\ DOMAIN pool[t].vec \cup K \subseteq Firsts(Trainset[d])
          /\ IsFiniteSet(K)
          /\ \A f \in Firsts(Trainset[d]) :
                f \in DOMAIN pool[t].vec \/ \E g \in K : StandsFor(g, f)
      BY <1>1, <1>6, <1>7, <1>9 DEF TaskOK
    <2>2. Cardinality(K) \in Nat
      BY <2>1, FS_CardinalityType
    <2>3. Cardinality(K) <= MAX_BURSTS
      BY <1>1, <1>9, <2>2, TrainAssumption DEF Full
    <2> QED BY <2>1, <2>2, <2>3
  <1>12. StandsFor(k, b) /\ (k \in K \/ k = b)
    <2>1. CASE k \in Absorbers(pool[t].kept, b)
      BY <1>9, <2>1 DEF Absorbers, UltraSimilar, Identical, StandsFor
    <2>2. CASE k \notin Absorbers(pool[t].kept, b)
      <3>1. k \in IF Stays(pool[t].kept, b) THEN {b} ELSE {}
        BY <1>2, <2>2
      <3>2. k = b
        BY <3>1
      <3> QED BY <3>2 DEF StandsFor
    <2> QED BY <2>1, <2>2
  <1>13. IsFiniteSet(K \cup {k}) /\ Cardinality(K \cup {k}) <= MAX_BURSTS + 1
    <2>1. IsFiniteSet(K \cup {k})
          /\ Cardinality(K \cup {k}) = IF k \in K THEN Cardinality(K) ELSE Cardinality(K) + 1
      BY <1>11, FS_AddElement
    <2>2. Cardinality(K \cup {k}) <= Cardinality(K) + 1
      BY <1>11, <2>1
    <2> QED BY <1>11, <2>1, <2>2, TrainAssumption
  <1>14. TaskOK(r)
    <2>1. DOMAIN r.vec \cup DOMAIN r.kept \subseteq Firsts(Trainset[r.device])
      BY <1>8, <1>10, <1>11, <1>12
    <2>2. ASSUME NEW f \in Firsts(Trainset[r.device])
          PROVE  f \in DOMAIN r.vec \/ \E g \in DOMAIN r.kept : StandsFor(g, f)
      <3>1. CASE f = b
        BY <1>8, <1>10, <1>12, <3>1
      <3>2. CASE f # b
        BY <1>8, <1>10, <1>11, <3>2
      <3> QED BY <3>1, <3>2
    <2>3. r.device \in DOMAIN Trainset
      BY <1>6, <1>7, <1>8 DEF TaskOK
    <2> QED BY <1>8, <1>10, <1>13, <2>1, <2>2, <2>3 DEF TaskOK
  <1>15. FiledBy(r) = FiledBy(pool[t]) /\ r.device = pool[t].device
    BY <1>1, <1>7, <1>8 DEF FiledBy
  <1>16. pool' = [pool EXCEPT ![t] = r] /\ UNCHANGED <<main, queue, train>>
    <2>1. pool' = [pool EXCEPT ![t] = r]
      BY <1>2, <1>3, <1>4, <1>5
    <2> QED BY <2>1 DEF MergeOne
  <1> QED BY <1>1, <1>14, <1>15, <1>16, TaskStep

(* At the end of the merging enough is kept, and nothing is filed yet.      *)
LEMMA EndMergeTrained ==
    ASSUME IInv, Trained, NEW t \in Threads, EndMerge(t)
    PROVE  Trained'
  <1>1. pool[t].at = "identical" /\ (pool[t].vec = EmptyMap \/ Full(pool[t].kept))
    BY DEF EndMerge
  <1>2. PICK r : r = [[pool[t] EXCEPT !.at = "file"] EXCEPT !.vec = pool[t].kept]
    OBVIOUS
  <1>3. TaskOK(pool[t])
    BY <1>1, AtTask
  <1>4. r = [at |-> "file", device |-> pool[t].device, groups |-> pool[t].groups,
             vec |-> pool[t].kept, kept |-> pool[t].kept]
    BY <1>2, <1>3 DEF TaskOK
  <1>5. Enough(pool[t].device, DOMAIN pool[t].kept)
    <2>1. Cardinality(DOMAIN pool[t].kept) \in Nat
      BY <1>1, <1>3, FS_CardinalityType DEF TaskOK
    <2>2. CASE Full(pool[t].kept)
      <3>1. Cardinality(DOMAIN pool[t].kept) = MAX_BURSTS + 1
        BY <1>1, <1>3, <2>1, <2>2, TrainAssumption DEF TaskOK, Full
      <3> QED BY <1>1, <1>3, <3>1 DEF TaskOK, Enough
    <2>3. CASE pool[t].vec = EmptyMap
      BY <1>1, <1>3, <2>3 DEF TaskOK, Enough, EmptyMap
    <2> QED BY <1>1, <2>2, <2>3
  <1>6. TaskOK(r) /\ FiledBy(r) = FiledBy(pool[t]) /\ r.device = pool[t].device
    BY <1>1, <1>3, <1>4, <1>5 DEF TaskOK, FiledBy
  <1>7. pool' = [pool EXCEPT ![t] = r] /\ UNCHANGED <<main, queue, train>>
    BY <1>2 DEF EndMerge
  <1> QED BY <1>1, <1>6, <1>7, TaskStep

(* The log of the trained bursts is written; all that was kept is filed.    *)
LEMMA StatsTrained ==
    ASSUME IInv, Trained, NEW t \in Threads, Stats(t)
    PROVE  Trained'
  <1>1. pool[t].at = "file" /\ pool[t].vec = EmptyMap
    BY DEF Stats
  <1>2. PICK r : r = [pool[t] EXCEPT !.at = "done"]
    OBVIOUS
  <1>3. TaskOK(pool[t])
    BY <1>1, AtTask
  <1>4. r = [at |-> "done", device |-> pool[t].device, groups |-> pool[t].groups,
             vec |-> pool[t].vec, kept |-> pool[t].kept]
    BY <1>2, <1>3 DEF TaskOK
  <1>5. TaskOK(r) /\ FiledBy(r) = FiledBy(pool[t]) /\ r.device = pool[t].device
    BY <1>1, <1>3, <1>4 DEF TaskOK, FiledBy, EmptyMap
  <1>6. /\ pool' = [pool EXCEPT ![t] = r] /\ UNCHANGED <<queue, train>>
        /\ main' = main \/ main' = [main EXCEPT !.pc = "crashed"]
    BY <1>2 DEF Stats
  <1> QED BY <1>1, <1>5, <1>6, TaskStep

-----------------------------------------------------------------------------
(* Filing, and the ends of a task *)

(* Bursts that training accepts have a cell.                                *)
LEMMA CellFacts ==
    ASSUME NEW b, Trainable(b)
    PROVE  /\ Cell(b) \in Cells
           /\ b.uniPktNum = Cell(b)[1] + 1
           /\ IF Cell(b)[2] = BURST_MAX_PACKET_INDEX - 1 THEN b.pktNum > Cell(b)[2]
                                                         ELSE b.pktNum = Cell(b)[2] + 1
  <1>1. /\ BURST_MAX_UNISIG \in Nat \ {0} /\ BURST_MAX_PACKET_INDEX \in Nat \ {0}
        /\ b.uniPktNum \in 1 .. BURST_MAX_UNISIG /\ b.pktNum \in Nat \ {0}
    BY TrainAssumption, UnisigAssumption DEF Trainable, W!Sized
  <1>2. Cell(b)[1] = b.uniPktNum - 1 /\ Cell(b)[1] \in 0 .. BURST_MAX_UNISIG - 1
    BY <1>1 DEF Cell, W!Row
  <1>3. /\ Cell(b)[2] = IF b.pktNum < BURST_MAX_PACKET_INDEX THEN b.pktNum - 1
                                                             ELSE BURST_MAX_PACKET_INDEX - 1
        /\ Cell(b)[2] \in 0 .. BURST_MAX_PACKET_INDEX - 1
    BY <1>1 DEF Cell, W!Column, W!Least
  <1>4. Cell(b) \in Cells
    BY <1>2, <1>3 DEF Cell, Cells
  <1> QED BY <1>1, <1>2, <1>3, <1>4

(* A burst that was in no cell goes to its own.                             *)
LEMMA FileTable ==
    ASSUME TableOK, main.pc # "construct", NEW d \in DOMAIN Trainset,
           NEW b \in BurstsOf(Trainset[d]), b \in Bursts, Trainable(b), b \notin Table,
           train' = [train EXCEPT ![Cell(b)] = Append(@, b)], UNCHANGED main
    PROVE  TableOK' /\ Table' = Table \cup {b}
  <1>1. Cell(b) \in Cells /\ DOMAIN train = Cells /\ DOMAIN train' = Cells
    BY CellFacts DEF TableOK
  <1>2. \A c \in Cells : train'[c] = IF c = Cell(b) THEN Append(train[c], b) ELSE train[c]
    BY <1>1
  <1>3. train[Cell(b)] \in Seq(Bursts) /\ IsInjective(train[Cell(b)])
    BY <1>1 DEF TableOK
  <1>4. b \notin ToSet(train[Cell(b)])
    BY <1>1 DEF Table
  <1>5. /\ train'[Cell(b)] \in Seq(Bursts) /\ IsInjective(train'[Cell(b)])
        /\ ToSet(train'[Cell(b)]) = ToSet(train[Cell(b)]) \cup {b}
    <2>1. train'[Cell(b)] = Append(train[Cell(b)], b)
      BY <1>1, <1>2
    <2>2. Append(train[Cell(b)], b) \in Seq(Bursts)
      BY <1>3
    <2> QED BY <1>3, <1>4, <2>1, <2>2, AppendNew
  <1>6. Trainset' = Trainset
    BY DEF Trainset
  <1>7. ASSUME NEW c \in Cells
        PROVE  /\ train'[c] \in Seq(Bursts) /\ IsInjective(train'[c])
               /\ \A x \in ToSet(train'[c]) :
                     /\ Cell(x) = c
                     /\ \E e \in DOMAIN Trainset : x \in BurstsOf(Trainset[e])
    <2>1. CASE c = Cell(b)
      BY <1>1, <1>5, <2>1 DEF TableOK
    <2>2. CASE c # Cell(b)
      <3>1. train'[c] = train[c]
        BY <1>2, <2>2
      <3> QED BY <3>1 DEF TableOK
    <2> QED BY <2>1, <2>2
  <1>8. TableOK'
    BY <1>1, <1>6, <1>7 DEF TableOK
  <1>9. ASSUME NEW x PROVE x \in Table' <=> x \in Table \/ x = b
    <2>1. x \in Table' <=> \E c \in Cells : x \in ToSet(train'[c])
      BY <1>1 DEF Table
    <2>2. x \in Table <=> \E c \in Cells : x \in ToSet(train[c])
      BY <1>1 DEF Table
    <2>3. \A c \in Cells : c # Cell(b) => train'[c] = train[c]
      BY <1>2
    <2> QED BY <1>1, <1>5, <2>1, <2>2, <2>3
  <1> QED BY <1>8, <1>9

(* Under trainMutex one burst more of the device of the task is filed.      *)
LEMMA FileTrained ==
    ASSUME IInv, Trained, NEW t \in Threads, File(t)
    PROVE  Trained'
  <1>1. pool[t].at = "file" /\ UNCHANGED <<main, queue>>
    BY DEF File
  <1>2. PICK b \in DOMAIN pool[t].vec :
           /\ train' = [train EXCEPT ![Cell(b)] = Append(@, b)]
           /\ pool' = [pool EXCEPT ![t].vec = Without(@, b)]
    BY DEF File
  <1>3. PICK vec : vec = Without(pool[t].vec, b)
    OBVIOUS
  <1>4. PICK r : r = [pool[t] EXCEPT !.vec = vec]
    OBVIOUS
  <1>5. PICK d : d = pool[t].device
    OBVIOUS
  <1>6. /\ t \in Busy /\ TaskOK(pool[t]) /\ main.pc # "construct"
        /\ Trainset \in ToSet(Experiments) /\ d \in DOMAIN Trainset
    BY <1>1, <1>5, AtTask
  <1>7. r = [at |-> "file", device |-> d, groups |-> pool[t].groups,
             vec |-> vec, kept |-> pool[t].kept]
    BY <1>1, <1>4, <1>5, <1>6 DEF TaskOK
  <1>8. DOMAIN vec = DOMAIN pool[t].vec \ {b}
    BY <1>3 DEF Without
  <1>9. pool' = [pool EXCEPT ![t] = r]
    BY <1>2, <1>3, <1>4
  <1>10. b \in DOMAIN pool[t].kept /\ b \in BurstsOf(Trainset[d])
    <2>1. b \in DOMAIN pool[t].kept /\ b \in Firsts(Trainset[d])
      BY <1>1, <1>5, <1>6 DEF TaskOK, Enough
    <2> QED BY <1>6, <2>1, GroupsFacts, FirstsFacts
  <1>11. Trainable(b) /\ b \in Bursts
         /\ \A e \in DOMAIN Trainset : b \in BurstsOf(Trainset[e]) => e = d
    BY <1>6, <1>10, GroupsFacts
  <1>12. Filed(d) = FiledBy(pool[t])
    BY <1>5, <1>6 DEF Trained, FiledOK
  <1>13. b \notin Filed(d) /\ b \notin Table
    BY <1>1, <1>2, <1>10, <1>12 DEF FiledBy, Filed
  <1>14. TableOK' /\ Table' = Table \cup {b}
    BY <1>1, <1>2, <1>6, <1>10, <1>11, <1>13, FileTable DEF Trained
  <1>15. Trainset' = Trainset
    BY <1>1 DEF Trainset
  <1>16. ASSUME NEW e \in DOMAIN Trainset
         PROVE  Filed(e)' = IF e = d THEN Filed(d) \cup {b} ELSE Filed(e)
    BY <1>10, <1>11, <1>14, <1>15 DEF Filed
  <1>17. FiledBy(r) = FiledBy(pool[t]) \cup {b}
    BY <1>1, <1>7, <1>8, <1>10 DEF FiledBy
  <1>18. TaskOK(r)'
    <2>1. TaskOK(r)
      BY <1>1, <1>5, <1>6, <1>7, <1>8 DEF TaskOK
    <2> QED BY <1>15, <2>1 DEF TaskOK, Enough
  <1>19. \A u \in Threads : pool'[u] = IF u = t THEN r ELSE pool[u]
    BY <1>9 DEF IInv, PoolOK
  <1>20. Busy' = Busy
    <2>1. "at" \in DOMAIN r /\ r.at # "idle"
      BY <1>7
    <2>2. Continues(t)
      BY <1>1, <1>9, <2>1 DEF Continues
    <2> QED BY <2>2, ContinuesFacts DEF IInv
  <1>21. \A u \in Busy : u \in Threads /\ pool'[u].device = pool[u].device
                         /\ pool[u].device \in DOMAIN Trainset
    <2>1. \A u \in Busy : u \in Threads /\ pool[u].device \in DOMAIN Trainset
      BY DEF Busy, Trained, TasksOK, TaskOK
    <2> QED BY <1>5, <1>7, <1>19, <2>1
  <1>22. OnePlace'
    BY <1>1, <1>15, <1>20, <1>21 DEF Trained, OnePlace
  <1>23. TasksOK'
    <2> SUFFICES ASSUME NEW u \in Busy PROVE TaskOK(pool[u])'
      BY <1>20 DEF TasksOK
    <2>1. CASE u = t
      BY <1>18, <1>19, <1>21, <2>1 DEF TaskOK, Enough
    <2>2. CASE u # t
      <3>1. pool'[u] = pool[u] /\ TaskOK(pool[u])
        BY <1>19, <1>21, <2>2 DEF Trained, TasksOK
      <3> QED BY <1>15, <3>1 DEF TaskOK, Enough
    <2> QED BY <2>1, <2>2
  <1>24. FiledOK'
    <2>1. ASSUME NEW e \in main.devices \cup ToSet(queue) PROVE Filed(e)' = {}
      <3>1. e # d /\ e \in DOMAIN Trainset /\ Filed(e) = {}
        BY <1>5, <1>6 DEF Trained, OnePlace, FiledOK
      <3> QED BY <1>16, <3>1
    <2>2. ASSUME NEW u \in Busy PROVE (Filed(pool[u].device) = FiledBy(pool[u]))'
      <3>1. PICK e \in DOMAIN Trainset : e = pool[u].device /\ e = pool'[u].device
        BY <1>21
      <3>2. Filed(pool[u].device)' = Filed(e)'
        BY <3>1 DEF Filed
      <3>3. CASE u = t
        <4>1. e = d /\ pool'[u] = r
          BY <1>5, <1>19, <3>1, <3>3
        <4>2. Filed(e)' = FiledBy(r)
          BY <1>12, <1>16, <1>17, <4>1
        <4> QED BY <3>2, <4>1, <4>2 DEF FiledBy
      <3>4. CASE u # t
        <4>1. e # d
          BY <1>5, <1>6, <3>1, <3>4 DEF Trained, OnePlace
        <4>2. Filed(e)' = Filed(e) /\ Filed(e) = FiledBy(pool[u])
          BY <1>6, <1>16, <3>1, <4>1 DEF Trained, FiledOK
        <4>3. pool'[u] = pool[u]
          BY <1>19, <1>21, <3>4
        <4> QED BY <3>2, <4>2, <4>3 DEF FiledBy
      <3> QED BY <3>3, <3>4
    <2>3. ASSUME NEW e \in DOMAIN Trainset
          PROVE  (\/ e \in main.devices \cup ToSet(queue)
                  \/ \E u \in Busy : pool[u].device = e
                  \/ Enough(e, Filed(e)))'
      <3>1. CASE e = d
        BY <1>5, <1>6, <1>20, <1>21, <3>1
      <3>2. CASE e # d
        <4>1. Filed(e)' = Filed(e)
          BY <1>16, <3>2
        <4>2. CASE e \in main.devices \cup ToSet(queue)
          BY <1>1, <4>2
        <4>3. CASE \E u \in Busy : pool[u].device = e
          BY <1>20, <1>21, <4>3
        <4>4. CASE Enough(e, Filed(e))
          BY <1>15, <4>1, <4>4 DEF Enough
        <4> QED BY <1>6, <4>2, <4>3, <4>4 DEF Trained, FiledOK
      <3> QED BY <3>1, <3>2
    <2> QED BY <1>1, <1>15, <1>20, <2>1, <2>2, <2>3 DEF FiledOK
  <1> QED BY <1>14, <1>22, <1>23, <1>24 DEF Trained

(* A device goes from the queue to a thread; nothing of it is filed.        *)
LEMMA DispatchTrained ==
    ASSUME IInv, Trained, NEW t \in Threads, Dispatch(t)
    PROVE  Trained'
  <1>1. pool[t] = Idle /\ queue # <<>> /\ UNCHANGED <<main, train>> /\ queue' = Tail(queue)
    BY DEF Dispatch, IInv, PoolOK
  <1>2. PICK d : d = Head(queue)
    OBVIOUS
  <1>3. PICK r : r = [at |-> "average", device |-> d, groups |-> Trainset[d],
                      vec |-> EmptyMap, kept |-> EmptyMap]
    OBVIOUS
  <1>4. pool' = [pool EXCEPT ![t] = r]
    BY <1>2, <1>3 DEF Dispatch
  <1>5. \A u \in Threads : pool'[u] = IF u = t THEN r ELSE pool[u]
    BY <1>4 DEF IInv, PoolOK
  <1>6. t \notin Busy /\ Busy' = Busy \cup {t}
    <2>1. r # Idle
      <3>1. r.at # "idle" /\ Idle.at = "idle"
        BY <1>3 DEF Idle
      <3> QED BY <3>1
    <2> QED BY <1>1, <1>5, <2>1 DEF Busy
  <1>7. /\ queue \in Seq(Devices) /\ IsInjective(queue)
        /\ main.pc # "construct"
    BY <1>1 DEF IInv, Trained, OnePlace, Counted, AllDone
  <1>8. /\ IsInjective(Tail(queue)) /\ d \notin ToSet(Tail(queue))
        /\ ToSet(queue) = {d} \cup ToSet(Tail(queue))
    BY <1>1, <1>2, <1>7, TailNew
  <1>9. d \in DOMAIN Trainset /\ d \notin main.devices /\ Filed(d) = {}
    BY <1>7, <1>8 DEF Trained, OnePlace, FiledOK
  <1>10. \A u \in Busy : u \in Threads /\ u # t /\ pool'[u] = pool[u] /\ pool[u].device # d
    BY <1>5, <1>6, <1>8 DEF Busy, Trained, OnePlace
  <1>11. Trainset' = Trainset /\ Table' = Table
    BY <1>1 DEF Trainset, Table
  <1>12. pool'[t] = r /\ r.device = d
    BY <1>3, <1>5
  <1>13. OnePlace'
    <2>1. \A u \in Busy' : pool'[u].device \notin main.devices \cup ToSet(queue')
      BY <1>1, <1>6, <1>8, <1>9, <1>10, <1>12 DEF Trained, OnePlace
    <2>2. \A u, v \in Busy' : pool'[u].device = pool'[v].device => u = v
      BY <1>6, <1>10, <1>12 DEF Trained, OnePlace
    <2> QED BY <1>1, <1>8, <1>11, <2>1, <2>2 DEF Trained, OnePlace
  <1>14. TaskOK(r)
    BY <1>3, <1>9 DEF TaskOK
  <1>15. TasksOK'
    <2>1. \A u \in Busy' : TaskOK(pool'[u])
      BY <1>6, <1>10, <1>12, <1>14 DEF Trained, TasksOK
    <2>2. ASSUME NEW u \in Busy' PROVE TaskOK(pool[u])'
      BY <1>11, <2>1 DEF TaskOK, Enough
    <2> QED BY <2>2 DEF TasksOK
  <1>16. TableOK'
    BY <1>1, <1>11 DEF Trained, TableOK
  <1>17. FiledOK'
    <2>1. \A e : Filed(e)' = Filed(e)
      BY <1>11 DEF Filed
    <2>2. ASSUME NEW u \in Busy' PROVE (Filed(pool[u].device) = FiledBy(pool[u]))'
      <3>1. Filed(pool[u].device)' = Table \cap BurstsOf(Trainset[pool'[u].device])
        BY <1>11 DEF Filed
      <3>2. CASE u = t
        <4>1. FiledBy(r) = {}
          BY <1>3 DEF FiledBy, EmptyMap
        <4> QED BY <1>9, <1>12, <3>1, <3>2, <4>1 DEF Filed, FiledBy
      <3>3. CASE u # t
        <4>1. u \in Busy /\ pool'[u] = pool[u]
          BY <1>6, <1>10, <3>3
        <4>2. Filed(pool[u].device) = FiledBy(pool[u])
          BY <1>7, <4>1 DEF Trained, FiledOK
        <4> QED BY <3>1, <4>1, <4>2 DEF Filed, FiledBy
      <3> QED BY <3>2, <3>3
    <2>3. ASSUME NEW e \in DOMAIN Trainset
          PROVE  (\/ e \in main.devices \cup ToSet(queue)
                  \/ \E u \in Busy : pool[u].device = e
                  \/ Enough(e, Filed(e)))'
      <3>1. CASE e \in main.devices \cup ToSet(queue')
        BY <1>1, <3>1
      <3>2. CASE e = d
        BY <1>6, <1>12, <3>2
      <3>3. CASE \E u \in Busy : pool[u].device = e
        BY <1>6, <1>10, <3>3
      <3>4. CASE Enough(e, Filed(e))
        BY <1>11, <2>1, <3>4 DEF Enough
      <3> QED BY <1>1, <1>7, <1>8, <3>1, <3>2, <3>3, <3>4 DEF Trained, FiledOK
    <2>4. \A e \in main.devices \cup ToSet(queue') : Filed(e)' = {}
      BY <1>1, <1>7, <1>8, <2>1 DEF Trained, FiledOK
    <2> QED BY <1>1, <1>11, <2>2, <2>3, <2>4 DEF FiledOK
  <1> QED BY <1>13, <1>15, <1>16, <1>17 DEF Trained

(* At done() all that was kept is filed.                                    *)
LEMMA TaskDoneTrained ==
    ASSUME IInv, Trained, NEW t \in Threads, TaskDone(t)
    PROVE  Trained'
  <1>1. pool[t].at = "done" /\ UNCHANGED <<main, queue, train>> /\ pool' = [pool EXCEPT ![t] = Idle]
    BY DEF TaskDone
  <1>2. PICK d : d = pool[t].device
    OBVIOUS
  <1>3. /\ t \in Busy /\ TaskOK(pool[t]) /\ main.pc # "construct" /\ d \in DOMAIN Trainset
    BY <1>1, <1>2, AtTask
  <1>4. \A u \in Threads : pool'[u] = IF u = t THEN Idle ELSE pool[u]
    BY <1>1 DEF IInv, PoolOK
  <1>5. Busy' = Busy \ {t}
    BY <1>3, <1>4 DEF Busy
  <1>6. \A u \in Busy' : u \in Busy /\ pool'[u] = pool[u]
    BY <1>4, <1>5 DEF Busy
  <1>7. Trainset' = Trainset /\ Table' = Table
    BY <1>1 DEF Trainset, Table
  <1>8. Enough(d, Filed(d))
    <2>1. Filed(d) = FiledBy(pool[t])
      BY <1>2, <1>3 DEF Trained, FiledOK
    <2>2. FiledBy(pool[t]) = DOMAIN pool[t].kept
      BY <1>1 DEF FiledBy
    <2> QED BY <1>1, <1>2, <1>3, <2>1, <2>2 DEF TaskOK
  <1>9. OnePlace'
    BY <1>1, <1>6, <1>7 DEF Trained, OnePlace
  <1>10. TasksOK'
    <2> SUFFICES ASSUME NEW u \in Busy' PROVE TaskOK(pool[u])'
      BY DEF TasksOK
    <2>1. TaskOK(pool[u]) /\ pool'[u] = pool[u]
      BY <1>6 DEF Trained, TasksOK
    <2> QED BY <1>7, <2>1 DEF TaskOK, Enough
  <1>11. TableOK'
    BY <1>1, <1>7 DEF Trained, TableOK
  <1>12. FiledOK'
    <2>1. \A e : Filed(e)' = Filed(e)
      BY <1>7 DEF Filed
    <2>2. ASSUME NEW u \in Busy' PROVE (Filed(pool[u].device) = FiledBy(pool[u]))'
      <3>1. u \in Busy /\ pool'[u] = pool[u]
        BY <1>6
      <3>2. Filed(pool[u].device) = FiledBy(pool[u])
        BY <1>3, <3>1 DEF Trained, FiledOK
      <3> QED BY <1>7, <3>1, <3>2 DEF Filed, FiledBy
    <2>3. ASSUME NEW e \in DOMAIN Trainset
          PROVE  (\/ e \in main.devices \cup ToSet(queue)
                  \/ \E u \in Busy : pool[u].device = e
                  \/ Enough(e, Filed(e)))'
      <3>1. CASE e \in main.devices \cup ToSet(queue)
        BY <1>1, <3>1
      <3>2. CASE \E u \in Busy' : pool[u].device = e
        BY <1>6, <3>2
      <3>3. CASE Enough(e, Filed(e))
        BY <1>7, <2>1, <3>3 DEF Enough
      <3> QED BY <1>2, <1>3, <1>5, <1>8, <3>1, <3>2, <3>3 DEF Trained, FiledOK
    <2> QED BY <1>1, <1>3, <1>7, <2>1, <2>2, <2>3 DEF Trained, FiledOK
  <1> QED BY <1>9, <1>10, <1>11, <1>12 DEF Trained

-----------------------------------------------------------------------------
(* The main thread *)

(* Before the first experiment there is no task and no table.               *)
LEMMA InitTrained == Init => Trained
  <1> SUFFICES ASSUME Init PROVE Trained
    OBVIOUS
  <1>1. /\ main.pc = "construct" /\ main.devices = {} /\ queue = <<>> /\ train = EmptyMap
        /\ Busy = {}
    BY DEF Init, Busy
  <1>2. OnePlace
    BY <1>1 DEF OnePlace, IsInjective, ToSet
  <1> QED BY <1>1, <1>2 DEF Trained, TasksOK, TableOK, FiledOK

(* Nothing is filed when every device of the training set still waits.      *)
LEMMA BeginTrainTrained ==
    ASSUME IInv, Trained, BeginTrain
    PROVE  Trained'
  <1>1. /\ main.pc = "construct" /\ main.experiment <= Len(Experiments)
        /\ train' = [c \in Cells |-> <<>>] /\ UNCHANGED <<queue, pool>>
        /\ main' = [main EXCEPT !.pc = "start", !.devices = DOMAIN Trainset]
    BY DEF BeginTrain
  <1>2. queue = <<>> /\ Busy = {}
    BY <1>1 DEF IInv, Counted, AllDone
  <1>3. /\ main'.pc = "start" /\ main'.devices = DOMAIN Trainset
        /\ main'.experiment = main.experiment
    BY <1>1 DEF IInv, MainOK
  <1>4. Trainset' = Trainset /\ Busy' = {} /\ queue' = <<>>
    BY <1>1, <1>2, <1>3 DEF Trainset, Busy
  <1>5. Table' = {}
    BY <1>1 DEF Table, ToSet
  <1>6. OnePlace'
    BY <1>1, <1>3, <1>4 DEF OnePlace, IsInjective, ToSet
  <1>7. TasksOK'
    BY <1>4 DEF TasksOK
  <1>8. TableOK'
    <2>1. \A c \in Cells : train'[c] \in Seq(Bursts) /\ IsInjective(train'[c]) /\ ToSet(train'[c]) = {}
      BY <1>1 DEF IsInjective, ToSet
    <2> QED BY <1>1, <1>3, <2>1 DEF TableOK
  <1>9. FiledOK'
    <2>1. \A d : Filed(d)' = {}
      BY <1>5 DEF Filed
    <2> QED BY <1>3, <1>4, <2>1 DEF FiledOK
  <1> QED BY <1>6, <1>7, <1>8, <1>9 DEF Trained

(* A device goes from the experiment's to the queue.                        *)
LEMMA StartTaskTrained ==
    ASSUME IInv, Trained, StartTask
    PROVE  Trained'
  <1>1. PICK d \in main.devices :
           queue' = Append(queue, d) /\ main' = [main EXCEPT !.devices = main.devices \ {d}]
    BY DEF StartTask
  <1>2. main.pc = "start" /\ UNCHANGED <<pool, train>>
    BY DEF StartTask
  <1>3. /\ main'.pc = "start" /\ main'.devices = main.devices \ {d}
        /\ main'.experiment = main.experiment
    BY <1>1, <1>2 DEF IInv, MainOK
  <1>4. Trainset' = Trainset /\ Table' = Table /\ Busy' = Busy
    BY <1>2, <1>3 DEF Trainset, Table, Busy
  <1>5. queue \in Seq(Devices) /\ d \in Devices /\ IsInjective(queue) /\ d \notin ToSet(queue)
    BY <1>1 DEF IInv, MainOK, Trained, OnePlace
  <1>6. IsInjective(queue') /\ ToSet(queue') = ToSet(queue) \cup {d}
    BY <1>1, <1>5, AppendNew
  <1>7. main'.devices \cup ToSet(queue') = main.devices \cup ToSet(queue)
    BY <1>1, <1>3, <1>6
  <1>8. OnePlace'
    <2>1. main'.devices \cap ToSet(queue') = {}
      BY <1>3, <1>6 DEF Trained, OnePlace
    <2>2. \A t \in Busy : pool[t].device \notin main'.devices \cup ToSet(queue')
      BY <1>7 DEF Trained, OnePlace
    <2>3. \A t, u \in Busy : pool[t].device = pool[u].device => t = u
      BY DEF Trained, OnePlace
    <2>4. main.experiment <= Len(Experiments)
          /\ main'.devices \cup ToSet(queue') \subseteq DOMAIN Trainset
      BY <1>2, <1>7 DEF Trained, OnePlace
    <2> QED BY <1>2, <1>3, <1>4, <1>6, <2>1, <2>2, <2>3, <2>4 DEF OnePlace
  <1>9. TasksOK' /\ TableOK'
    <2>1. TasksOK'
      BY <1>2, <1>4 DEF Trained, TasksOK, TaskOK, Enough
    <2>2. TableOK'
      BY <1>2, <1>3, <1>4 DEF Trained, TableOK
    <2> QED BY <2>1, <2>2
  <1>10. FiledOK'
    <2>1. \A e : Filed(e)' = Filed(e)
      BY <1>4 DEF Filed
    <2>2. ASSUME NEW u \in Busy PROVE (Filed(pool[u].device) = FiledBy(pool[u]))'
      <3>1. Filed(pool[u].device) = FiledBy(pool[u])
        BY <1>2 DEF Trained, FiledOK
      <3> QED BY <1>2, <1>4, <3>1 DEF Filed, FiledBy
    <2>3. ASSUME NEW e \in DOMAIN Trainset
          PROVE  (\/ e \in main.devices \cup ToSet(queue)
                  \/ \E u \in Busy : pool[u].device = e
                  \/ Enough(e, Filed(e)))'
      <3>1. \/ e \in main.devices \cup ToSet(queue)
            \/ \E u \in Busy : pool[u].device = e
            \/ Enough(e, Filed(e))
        BY <1>2 DEF Trained, FiledOK
      <3>2. Enough(e, Filed(e)) => Enough(e, Filed(e))'
        BY <1>4, <2>1 DEF Enough
      <3> QED BY <1>2, <1>4, <1>7, <3>1, <3>2
    <2>4. \A e \in main'.devices \cup ToSet(queue') : Filed(e)' = {}
      BY <1>2, <1>7, <2>1 DEF Trained, FiledOK
    <2> QED BY <1>4, <2>2, <2>3, <2>4 DEF FiledOK
  <1> QED BY <1>8, <1>9, <1>10 DEF Trained

(* Everything but pc stays when the barrier opens.                          *)
LEMMA WaitTrained ==
    ASSUME IInv, Trained, Wait
    PROVE  Trained'
  <1>1. /\ main.pc = "start" /\ UNCHANGED <<queue, pool, train>>
        /\ main' = [main EXCEPT !.pc = "trained"]
    BY DEF Wait
  <1>2. /\ main'.pc = "trained" /\ main'.devices = main.devices
        /\ main'.experiment = main.experiment
    BY <1>1 DEF IInv, MainOK
  <1>3. Trainset' = Trainset /\ Table' = Table /\ Busy' = Busy
    BY <1>1, <1>2 DEF Trainset, Table, Busy
  <1>4. OnePlace'
    BY <1>1, <1>2, <1>3 DEF Trained, OnePlace
  <1>5. TasksOK'
    BY <1>1, <1>3 DEF Trained, TasksOK, TaskOK, Enough
  <1>6. TableOK'
    BY <1>1, <1>2, <1>3 DEF Trained, TableOK
  <1>7. FiledOK'
    BY <1>1, <1>2, <1>3 DEF Trained, FiledOK, Filed, FiledBy, Enough
  <1> QED BY <1>4, <1>5, <1>6, <1>7 DEF Trained

(* The next KBurstClassifier begins with no table.                          *)
LEMMA NextExperimentTrained ==
    ASSUME IInv, Trained, NextExperiment
    PROVE  Trained'
  <1>1. /\ main.pc = "trained" /\ UNCHANGED <<queue, pool>> /\ train' = EmptyMap
        /\ main' = [main EXCEPT !.pc = "construct", !.experiment = main.experiment + 1]
    BY DEF NextExperiment
  <1>2. queue = <<>> /\ Busy = {} /\ main.devices = {}
    BY <1>1 DEF IInv, Counted, AllDone
  <1>3. main'.pc = "construct" /\ main'.devices = {} /\ Busy' = {} /\ queue' = <<>>
    BY <1>1, <1>2 DEF IInv, MainOK, Busy
  <1> QED BY <1>1, <1>3 DEF Trained, OnePlace, TasksOK, TableOK, FiledOK, IsInjective, ToSet

(* Every step keeps Trained.                                                *)
LEMMA NextTrained ==
    ASSUME IInv, Trained, [Next]_vars
    PROVE  Trained'
  <1>1. CASE Main
    BY <1>1, BeginTrainTrained, StartTaskTrained, WaitTrained, NextExperimentTrained DEF Main
  <1>2. ASSUME NEW t \in Threads, Worker(t) PROVE Trained'
    BY <1>2, DispatchTrained, InsertAverageTrained, PushLevelTrained, MergeStrictTrained,
       MergeOneTrained, EndMergeTrained, FileTrained, StatsTrained, TaskDoneTrained DEF Worker
  <1>3. CASE UNCHANGED vars
    <2>1. UNCHANGED <<main, queue, pool, train>>
      BY <1>3 DEF vars
    <2>2. Trainset' = Trainset /\ Table' = Table /\ Busy' = Busy
      BY <2>1 DEF Trainset, Table, Busy
    <2>3. OnePlace' /\ TasksOK' /\ TableOK'
      BY <2>1, <2>2 DEF Trained, OnePlace, TasksOK, TaskOK, Enough, TableOK
    <2>4. FiledOK'
      BY <2>1, <2>2 DEF Trained, FiledOK, Filed, FiledBy, Enough
    <2> QED BY <2>3, <2>4 DEF Trained
  <1> QED BY <1>1, <1>2, <1>3 DEF Next, Terminating

(* At every moment what a device has in the table is what its task has      *)
(* filed, all of it in place, and what was kept stands for all it trains on.*)
THEOREM TrainedCorrect == Spec => []Trained
  <1>1. IInv /\ Trained /\ [Next]_vars => Trained'
    BY NextTrained
  <1> QED BY <1>1, InitTrained, Invariance, PTL DEF Spec

(* Nothing but the present experiment's bursts is in the table, each once   *)
(* and in the cell of its size.                                             *)
THEOREM FiledInPlaceCorrect == Spec => []FiledInPlace
  <1>1. ASSUME IInv, Trained PROVE FiledInPlace
    <2> SUFFICES ASSUME NEW c \in DOMAIN train, NEW i \in DOMAIN train[c], NEW b, b = train[c][i]
                 PROVE  /\ \E d \in DOMAIN Trainset : b \in BurstsOf(Trainset[d])
                        /\ \A j \in DOMAIN train[c] : i # j => b # train[c][j]
                        /\ b.uniPktNum = c[1] + 1
                        /\ IF c[2] = BURST_MAX_PACKET_INDEX - 1 THEN b.pktNum > c[2]
                                                                ELSE b.pktNum = c[2] + 1
      BY DEF FiledInPlace
    <2>1. main.pc # "construct" /\ c \in Cells
      BY <1>1 DEF Trained, TableOK, EmptyMap
    <2>2. b \in ToSet(train[c])
      BY DEF ToSet
    <2>3. /\ IsInjective(train[c]) /\ Cell(b) = c
          /\ \E d \in DOMAIN Trainset : b \in BurstsOf(Trainset[d])
      BY <1>1, <2>1, <2>2 DEF Trained, TableOK
    <2>4. Trainable(b)
      <3>1. Trainset \in ToSet(Experiments)
        BY <1>1, <2>1, TrainsetKnown DEF Trained
      <3> QED BY <2>3, <3>1, GroupsFacts
    <2>5. \A j \in DOMAIN train[c] : i # j => b # train[c][j]
      BY <2>3 DEF IsInjective
    <2> QED BY <2>3, <2>4, <2>5, CellFacts
  <1> QED BY <1>1, TrainedCorrect, Invariance, PTL

(* After the barrier every burst of every device is stood for in the table, *)
(* by one of its hash or one not far from such, unless the device has       *)
(* filled it, and no two of a device have one hash: whatever order the      *)
(* merging took, on any number of threads.                                  *)
THEOREM RepresentedCorrect == Spec => []Represented
  <1>1. ASSUME IInv, Trained PROVE Represented
    <2> SUFFICES ASSUME main.pc = "trained", NEW d \in DOMAIN Trainset
                 PROVE  /\ Cardinality(Filed(d)) <= MAX_BURSTS + 1
                        /\ \A f, g \in Filed(d) : f # g => Hash(f) # Hash(g)
                        /\ \/ Cardinality(Filed(d)) = MAX_BURSTS + 1
                           \/ \A b \in BurstsOf(Trainset[d]) :
                                 \E same \in BurstsOf(Trainset[d]), f \in Filed(d) :
                                    /\ f = same \/ Distance(f, same) # "far"
                                    /\ Hash(same) = Hash(b)
      BY DEF Represented
    <2>1. main.devices = {} /\ queue = <<>> /\ Busy = {}
      BY <1>1 DEF IInv, Counted, AllDone
    <2>2. Enough(d, Filed(d))
      <3>1. main.devices \cup ToSet(queue) = {}
        BY <2>1 DEF ToSet
      <3> QED BY <1>1, <2>1, <3>1 DEF Trained, FiledOK
    <2>3. Trainset[d] \in Seq(Seq(BurstsOf(Trainset[d])))
      BY <1>1, TrainsetKnown, GroupsFacts DEF Trained
    <2>4. ASSUME NEW f \in Filed(d), NEW g \in Filed(d), Hash(f) = Hash(g)
          PROVE  f = g
      <3>1. f \in Firsts(Trainset[d]) /\ g \in Firsts(Trainset[d])
        BY <2>2 DEF Enough
      <3> QED BY <2>3, <2>4, <3>1, FirstsApart
    <2>5. ASSUME Cardinality(Filed(d)) # MAX_BURSTS + 1, NEW b \in BurstsOf(Trainset[d])
          PROVE  \E same \in BurstsOf(Trainset[d]), f \in Filed(d) :
                    /\ f = same \/ Distance(f, same) # "far"
                    /\ Hash(same) = Hash(b)
      <3>1. PICK same \in Firsts(Trainset[d]) : Hash(same) = Hash(b)
        BY <2>3, FirstsFacts
      <3>2. same \in BurstsOf(Trainset[d])
        BY <2>3, FirstsFacts
      <3>3. PICK f \in Filed(d) : StandsFor(f, same)
        BY <2>2, <2>5 DEF Enough
      <3> QED BY <3>1, <3>2, <3>3 DEF StandsFor
    <2> QED BY <2>2, <2>4, <2>5 DEF Enough
  <1> QED BY <1>1, TrainedCorrect, Invariance, PTL

-----------------------------------------------------------------------------
(* Folds. FoldLeft is the fold of a set of indices, chosen by its recursion: *)
(* a function that follows it exists, and its value at 1 .. n is a chain of   *)
(* n steps.                                                                   *)

(* What holds of 0 and passes from a number to the next up to n holds up to *)
(* n.                                                                       *)
LEMMA UpTo ==
    ASSUME NEW n \in Nat, NEW S, 0 \in S,
           \A k \in 1 .. n : k - 1 \in S => k \in S
    PROVE  0 .. n \subseteq S
  <1> SUFFICES ASSUME (0 .. n) \ S # {} PROVE FALSE
    OBVIOUS
  <1>1. PICK m \in (0 .. n) \ S : \A k \in (0 .. n) \ S : m <= k
    <2>1. (0 .. n) \ S \subseteq Nat
      OBVIOUS
    <2> QED BY <2>1, LeastOfNaturals
  <1>2. m # 0 /\ m \in Nat /\ m <= n
    OBVIOUS
  <1>3. m - 1 \in 0 .. n /\ m \in 1 .. n /\ ~(m <= m - 1)
    BY <1>2
  <1>4. m - 1 \in S
    BY <1>1, <1>3
  <1> QED BY <1>1, <1>3, <1>4

(* The largest of the first k numbers.                                      *)
LEMMA MaxUpTo ==
    ASSUME NEW k \in Nat \ {0}
    PROVE  Max(1 .. k) = k /\ (1 .. k) \ {Max(1 .. k)} = 1 .. k - 1 /\ 1 .. k # {}
  <1>1. \A x \in 1 .. k : (\A y \in 1 .. k : x >= y) => x = k
    <2> SUFFICES ASSUME NEW x \in 1 .. k, \A y \in 1 .. k : x >= y PROVE x = k
      OBVIOUS
    <2>1. k \in 1 .. k
      OBVIOUS
    <2> QED BY <2>1
  <1>2. k \in 1 .. k /\ \A y \in 1 .. k : k >= y
    OBVIOUS
  <1>3. Max(1 .. k) = k
    BY <1>1, <1>2 DEF Max
  <1> QED BY <1>2, <1>3

(* The largest member of a set of numbers up to k.                          *)
LEMMA MaxOfSome ==
    ASSUME NEW k \in Nat, NEW s \in SUBSET (1 .. k), s # {}
    PROVE  Max(s) \in s /\ \A y \in s : Max(s) >= y
  <1> DEFINE Above == {k - y : y \in s}
  <1>1. Above \subseteq Nat /\ Above # {}
    <2>1. \A y \in s : k - y \in Nat
      OBVIOUS
    <2> QED BY <2>1
  <1>2. PICK m \in Above : \A n \in Above : m <= n
    <2> HIDE DEF Above
    <2> QED BY <1>1, LeastOfNaturals
  <1>3. PICK x \in s : m = k - x
    OBVIOUS
  <1>4. \A y \in s : x >= y
    <2> SUFFICES ASSUME NEW y \in s PROVE x >= y
      OBVIOUS
    <2>1. k - x <= k - y
      BY <1>2, <1>3
    <2> QED BY <2>1
  <1> QED BY <1>3, <1>4 DEF Max

(* FoldLeft adds the largest index last: a function from the sets of        *)
(* indices that does this by step, where step keeps to the set S.           *)
Folds(f, n, base, step) ==
    \A s \in SUBSET (1 .. n) : f[s] = IF s = {} THEN base ELSE step[Max(s)][f[s \ {Max(s)}]]

(* A function follows the fold's recursion, whatever its steps are.         *)
LEMMA FoldExists ==
    ASSUME NEW n \in Nat, NEW S, NEW base \in S, NEW step,
           \A k \in 1 .. n : \A a \in S : step[k][a] \in S
    PROVE  \E f \in [SUBSET (1 .. n) -> S] : Folds(f, n, base, step)
  <1> DEFINE Upto(m) == \E f \in [SUBSET (1 .. m) -> S] : Folds(f, m, base, step)
             Good == {m \in 0 .. n : Upto(m)}
  <1>1. 0 \in Good
    <2>1. PICK f : f = [s \in SUBSET (1 .. 0) |-> base]
      OBVIOUS
    <2>2. \A s \in SUBSET (1 .. 0) : s = {}
      OBVIOUS
    <2>3. f \in [SUBSET (1 .. 0) -> S] /\ \A s \in SUBSET (1 .. 0) : f[s] = base
      BY <2>1
    <2>4. Folds(f, 0, base, step)
      BY <2>2, <2>3 DEF Folds
    <2> QED BY <2>3, <2>4
  <1>2. ASSUME NEW m \in 1 .. n, m - 1 \in Good PROVE m \in Good
    <2>1. PICK f \in [SUBSET (1 .. m - 1) -> S] : Folds(f, m - 1, base, step)
      BY <1>2
    <2>2. PICK h : h = [s \in SUBSET (1 .. m) |->
                           IF m \in s THEN step[m][f[s \ {m}]] ELSE f[s]]
      OBVIOUS
    <2>3. ASSUME NEW s \in SUBSET (1 .. m)
          PROVE  /\ m \in s => s \ {m} \in SUBSET (1 .. m - 1) /\ h[s] = step[m][f[s \ {m}]]
                 /\ m \notin s => s \in SUBSET (1 .. m - 1) /\ h[s] = f[s]
      <3>1. \A x \in s : x # m => x \in 1 .. m - 1
        OBVIOUS
      <3>2. h[s] = IF m \in s THEN step[m][f[s \ {m}]] ELSE f[s]
        BY <2>2
      <3> QED BY <3>1, <3>2
    <2>4. h \in [SUBSET (1 .. m) -> S]
      <3>1. ASSUME NEW s \in SUBSET (1 .. m) PROVE h[s] \in S
        <4>1. CASE m \in s
          <5>1. f[s \ {m}] \in S
            BY <2>1, <2>3, <4>1
          <5> QED BY <2>3, <4>1, <5>1
        <4>2. CASE m \notin s
          BY <2>1, <2>3, <4>2
        <4> QED BY <4>1, <4>2
      <3> QED BY <2>2, <3>1
    <2>5. ASSUME NEW s \in SUBSET (1 .. m), s # {}
          PROVE  h[s] = step[Max(s)][h[s \ {Max(s)}]]
      <3>1. Max(s) \in s /\ \A y \in s : Max(s) >= y
        <4>1. m \in Nat
          OBVIOUS
        <4> QED BY <2>5, <4>1, MaxOfSome
      <3>2. PICK x \in s : x = Max(s)
        BY <3>1
      <3>3. s \ {x} \in SUBSET (1 .. m)
        OBVIOUS
      <3>4. CASE m \in s
        <4>1. x = m
          BY <3>1, <3>2, <3>4
        <4>2. m \notin s \ {m} /\ h[s \ {m}] = f[s \ {m}]
          BY <2>3, <3>3, <4>1
        <4> QED BY <2>3, <3>2, <3>4, <4>1, <4>2
      <3>5. CASE m \notin s
        <4>1. s \in SUBSET (1 .. m - 1) /\ h[s] = f[s]
          BY <2>3, <3>5
        <4>2. h[s \ {x}] = f[s \ {x}]
          BY <2>3, <3>3, <3>5
        <4>3. f[s] = step[x][f[s \ {x}]]
          BY <2>1, <2>5, <3>2, <4>1 DEF Folds
        <4> QED BY <3>2, <4>1, <4>2, <4>3
      <3> QED BY <3>4, <3>5
    <2>6. h[{}] = base
      <3>1. {} \in SUBSET (1 .. m) /\ {} \in SUBSET (1 .. m - 1) /\ m \notin {}
        OBVIOUS
      <3>2. h[{}] = f[{}]
        BY <2>3, <3>1
      <3> QED BY <2>1, <3>1, <3>2 DEF Folds
    <2>7. Folds(h, m, base, step)
      BY <2>5, <2>6 DEF Folds
    <2>8. m \in 0 .. n
      OBVIOUS
    <2> QED BY <2>4, <2>7, <2>8
  <1>3. Upto(n)
    <2>1. n \in 0 .. n
      OBVIOUS
    <2>2. 0 .. n \subseteq Good
      <3> HIDE DEF Good
      <3> QED BY <1>1, <1>2, UpTo
    <2> HIDE DEF Upto
    <2> QED BY <2>1, <2>2
  <1> QED BY <1>3

(* The first k indices, as FoldLeft comes to them.                          *)
LEMMA FirstIndices ==
    ASSUME NEW n \in Nat, NEW k \in 1 .. n
    PROVE  /\ 1 .. k \in SUBSET (1 .. n) /\ 1 .. k # {}
           /\ Max(1 .. k) = k /\ (1 .. k) \ {Max(1 .. k)} = 1 .. k - 1
           /\ k \in 0 .. n /\ k - 1 \in 0 .. n
  <1>1. k \in Nat \ {0} /\ k \in 0 .. n /\ k - 1 \in 0 .. n
    OBVIOUS
  <1>2. \A i \in 1 .. k : i \in 1 .. n
    OBVIOUS
  <1> QED BY <1>1, <1>2, MaxUpTo

(* A sum of numbers, and each partial sum, is a number.                     *)
Sums(h, v, n) == h[0] = 0 /\ \A k \in 1 .. n : h[k] = h[k - 1] + v[k]

(* The total is the last of the partial sums.                               *)
LEMMA TotalFacts ==
    ASSUME NEW v \in Seq(Nat)
    PROVE  \E h \in [0 .. Len(v) -> Nat] : h[Len(v)] = Total(v) /\ Sums(h, v, Len(v))
  <1>1. PICK n \in Nat : n = Len(v) /\ DOMAIN v = 1 .. n
    OBVIOUS
  <1> DEFINE Is(f) == f = [s \in SUBSET DOMAIN v |->
                              IF s = {} THEN 0 ELSE f[s \ {Max(s)}] + v[Max(s)]]
  <1>2. Total(v) = (CHOOSE f : Is(f))[DOMAIN v]
    BY Zenon DEF Total, FoldLeft, MapThenFoldSet
  <1>3. PICK step : step = [k \in 1 .. n |-> [a \in Nat |-> a + v[k]]]
    OBVIOUS
  <1>4. ASSUME NEW k \in 1 .. n, NEW a \in Nat PROVE step[k][a] = a + v[k] /\ step[k][a] \in Nat
    <2>1. PICK b \in Nat : b = v[k]
      BY <1>1
    <2>2. step[k] = [x \in Nat |-> x + b]
      BY <1>3, <2>1
    <2>3. step[k][a] = a + b
      BY <2>2
    <2> QED BY <2>1, <2>3
  <1>5. ASSUME NEW f \in [SUBSET (1 .. n) -> Nat], NEW s \in SUBSET (1 .. n), s # {}
        PROVE  step[Max(s)][f[s \ {Max(s)}]] = f[s \ {Max(s)}] + v[Max(s)]
    <2>1. Max(s) \in 1 .. n
      BY <1>5, MaxOfSome
    <2>2. f[s \ {Max(s)}] \in Nat
      OBVIOUS
    <2> QED BY <1>4, <2>1, <2>2
  <1>6. \E f \in [SUBSET (1 .. n) -> Nat] : Is(f)
    <2>1. \A k \in 1 .. n : \A a \in Nat : step[k][a] \in Nat
      BY <1>4
    <2>2. PICK f \in [SUBSET (1 .. n) -> Nat] : Folds(f, n, 0, step)
      BY <2>1, FoldExists
    <2>3. \A s \in SUBSET (1 .. n) : f[s] = IF s = {} THEN 0 ELSE f[s \ {Max(s)}] + v[Max(s)]
      BY <1>5, <2>2 DEF Folds
    <2>4. f = [s \in SUBSET DOMAIN v |-> f[s]]
      BY <1>1
    <2>5. f = [s \in SUBSET DOMAIN v |-> IF s = {} THEN 0 ELSE f[s \ {Max(s)}] + v[Max(s)]]
      BY <1>1, <2>3, <2>4
    <2> QED BY <2>5
  <1>7. PICK g : Is(g) /\ Total(v) = g[1 .. n]
    <2> DEFINE chosen == CHOOSE f : Is(f)
    <2>1. Is(chosen)
      <3> HIDE DEF Is
      <3> QED BY <1>6
    <2>2. Total(v) = chosen[1 .. n]
      BY <1>1, <1>2
    <2> HIDE DEF chosen
    <2> QED BY <2>1, <2>2
  <1>8. PICK h : h = [k \in 0 .. n |-> g[1 .. k]]
    OBVIOUS
  <1>9. h[0] = 0 /\ h[n] = Total(v)
    <2>1. 0 \in 0 .. n /\ n \in 0 .. n /\ 1 .. 0 = {} /\ {} \in SUBSET DOMAIN v
      OBVIOUS
    <2>2. g[{}] = 0
      BY <1>7, <2>1
    <2> QED BY <1>7, <1>8, <2>1, <2>2
  <1>10. ASSUME NEW k \in 1 .. n PROVE h[k] = h[k - 1] + v[k]
    <2>1. /\ 1 .. k \in SUBSET DOMAIN v /\ 1 .. k # {}
          /\ Max(1 .. k) = k /\ (1 .. k) \ {Max(1 .. k)} = 1 .. k - 1
          /\ k \in 0 .. n /\ k - 1 \in 0 .. n
      BY <1>1, FirstIndices
    <2>2. g[1 .. k] = g[1 .. k - 1] + v[k]
      BY <1>7, <2>1
    <2> QED BY <1>8, <2>1, <2>2
  <1>11. h \in [0 .. n -> Nat]
    <2> DEFINE In == {k \in 0 .. n : h[k] \in Nat}
    <2>1. 0 \in In
      BY <1>9
    <2>2. ASSUME NEW k \in 1 .. n, k - 1 \in In PROVE k \in In
      <3>1. v[k] \in Nat /\ h[k - 1] \in Nat /\ k \in 0 .. n
        BY <1>1, <2>2
      <3> QED BY <1>10, <3>1
    <2>3. 0 .. n \subseteq In
      <3> HIDE DEF In
      <3> QED BY <2>1, <2>2, UpTo
    <2> QED BY <1>8, <2>3
  <1> QED BY <1>1, <1>9, <1>10, <1>11 DEF Sums

(* Equal numbers have equal partial sums.                                   *)
Agree(v, w, m) == \A k \in 1 .. m : v[k] = w[k]

(* Partial sums of the same numbers are the same.                           *)
LEMMA SumsAgree ==
    ASSUME NEW n \in Nat, NEW v, NEW w, NEW g, NEW h, Sums(g, v, n), Sums(h, w, n),
           Agree(v, w, n)
    PROVE  g[n] = h[n]
  <1> DEFINE In == {k \in 0 .. n : g[k] = h[k]}
  <1>1. 0 \in In
    BY DEF Sums
  <1>2. ASSUME NEW k \in 1 .. n, k - 1 \in In PROVE k \in In
    <2>1. k \in 0 .. n /\ v[k] = w[k] /\ g[k - 1] = h[k - 1]
      BY <1>2 DEF Agree
    <2>2. g[k] = g[k - 1] + v[k] /\ h[k] = h[k - 1] + w[k]
      BY <2>1 DEF Sums
    <2> QED BY <2>1, <2>2
  <1>3. 0 .. n \subseteq In
    <2> HIDE DEF In
    <2> QED BY <1>1, <1>2, UpTo
  <1>4. n \in 0 .. n
    OBVIOUS
  <1> QED BY <1>3, <1>4

(* The sum is the one that partial sums lead to.                            *)
LEMMA TotalIs ==
    ASSUME NEW v \in Seq(Nat), NEW h, Sums(h, v, Len(v))
    PROVE  h[Len(v)] = Total(v) /\ Total(v) \in Nat
  <1>1. PICK g \in [0 .. Len(v) -> Nat] : g[Len(v)] = Total(v) /\ Sums(g, v, Len(v))
    BY TotalFacts
  <1>2. Len(v) \in Nat /\ Len(v) \in 0 .. Len(v)
    OBVIOUS
  <1>3. g[Len(v)] = h[Len(v)]
    <2>1. Agree(v, v, Len(v))
      BY DEF Agree
    <2> QED BY <1>1, <1>2, <2>1, SumsAgree
  <1> QED BY <1>1, <1>2, <1>3

(* One more number.                                                         *)
LEMMA TotalAppend ==
    ASSUME NEW v \in Seq(Nat), NEW x \in Nat
    PROVE  Total(Append(v, x)) = Total(v) + x
  <1>1. PICK n \in Nat : n = Len(v)
    OBVIOUS
  <1>2. PICK w \in Seq(Nat) : w = Append(v, x)
    <2>1. Append(v, x) \in Seq(Nat)
      OBVIOUS
    <2> QED BY <2>1
  <1>3. Len(w) = n + 1 /\ w[n + 1] = x /\ \A k \in 1 .. n : w[k] = v[k]
    BY <1>1, <1>2
  <1>4. PICK g \in [0 .. n -> Nat] : g[n] = Total(v) /\ Sums(g, v, n)
    BY <1>1, TotalFacts
  <1>5. PICK h \in [0 .. n + 1 -> Nat] : h[n + 1] = Total(w) /\ Sums(h, w, n + 1)
    BY <1>3, TotalFacts
  <1>6. Sums(h, w, n)
    <2>1. \A k \in 1 .. n : k \in 1 .. n + 1
      BY <1>1
    <2> QED BY <1>5, <2>1 DEF Sums
  <1>7. g[n] = h[n]
    <2>1. Agree(v, w, n)
      BY <1>3 DEF Agree
    <2>2. Sums(g, v, n) /\ Sums(h, w, n)
      BY <1>4, <1>6
    <2> QED BY <2>1, <2>2, SumsAgree
  <1>8. h[n + 1] = h[n] + w[n + 1]
    <2>1. n + 1 \in 1 .. n + 1 /\ (n + 1) - 1 = n
      OBVIOUS
    <2> QED BY <1>5, <2>1 DEF Sums
  <1> QED BY <1>2, <1>3, <1>4, <1>5, <1>7, <1>8

(* One of the numbers is larger by one.                                     *)
LEMMA TotalOneMore ==
    ASSUME NEW v \in Seq(Nat), NEW w \in Seq(Nat), Len(w) = Len(v), NEW i \in 1 .. Len(v),
           w[i] = v[i] + 1, \A k \in 1 .. Len(v) : k # i => w[k] = v[k]
    PROVE  Total(w) = Total(v) + 1
  <1>1. PICK n \in Nat : n = Len(v) /\ n = Len(w) /\ i \in 1 .. n
    OBVIOUS
  <1>2. PICK g \in [0 .. n -> Nat] : g[n] = Total(v) /\ Sums(g, v, n)
    BY <1>1, TotalFacts
  <1>3. PICK h \in [0 .. n -> Nat] : h[n] = Total(w) /\ Sums(h, w, n)
    BY <1>1, TotalFacts
  <1> DEFINE In == {k \in 0 .. n : h[k] = g[k] + (IF i <= k THEN 1 ELSE 0)}
  <1>4. 0 \in In
    <2>1. g[0] = 0 /\ h[0] = 0 /\ ~(i <= 0)
      BY <1>1, <1>2, <1>3 DEF Sums
    <2> QED BY <2>1
  <1>5. ASSUME NEW k \in 1 .. n, k - 1 \in In PROVE k \in In
    <2>1. k \in 0 .. n /\ k - 1 \in 0 .. n
      OBVIOUS
    <2>2. PICK a \in Nat, b \in Nat : a = g[k - 1] /\ b = h[k - 1]
      BY <1>2, <1>3, <2>1
    <2>3. PICK x \in Nat, y \in Nat : x = v[k] /\ y = w[k]
      BY <1>1
    <2>4. g[k] = a + x /\ h[k] = b + y
      BY <1>2, <1>3, <2>2, <2>3 DEF Sums
    <2>5. b = a + (IF i <= k - 1 THEN 1 ELSE 0)
      BY <1>5, <2>2
    <2>6. y = x + (IF k = i THEN 1 ELSE 0)
      BY <1>1, <2>3
    <2>7. b + y = a + x + (IF i <= k THEN 1 ELSE 0)
      BY <1>1, <2>5, <2>6
    <2>8. h[k] = g[k] + (IF i <= k THEN 1 ELSE 0)
      BY <2>4, <2>7
    <2> QED BY <2>1, <2>8
  <1>6. 0 .. n \subseteq In
    <2> HIDE DEF In
    <2> QED BY <1>4, <1>5, UpTo
  <1>7. n \in In /\ i <= n
    BY <1>1, <1>6
  <1> QED BY <1>2, <1>3, <1>7

-----------------------------------------------------------------------------
(* Counting packets in merged bursts *)

(* The packets of one signature, entry by entry.                            *)
Counts(sig, detail) == [i \in DOMAIN detail |-> IF detail[i].sig = sig THEN detail[i].num ELSE 0]

(* The counts of one signature are numbers, and so is their total.          *)
LEMMA CountsFacts ==
    ASSUME NEW detail \in Seq(Detail), NEW sig
    PROVE  /\ Counts(sig, detail) \in Seq(Nat) /\ Len(Counts(sig, detail)) = Len(detail)
           /\ \A i \in 1 .. Len(detail) :
                 Counts(sig, detail)[i] = IF detail[i].sig = sig THEN detail[i].num ELSE 0
           /\ Total(Counts(sig, detail)) \in Nat
  <1>1. DOMAIN detail = 1 .. Len(detail) /\ Len(detail) \in Nat
    OBVIOUS
  <1>2. \A i \in 1 .. Len(detail) : (IF detail[i].sig = sig THEN detail[i].num ELSE 0) \in Nat
    <2> SUFFICES ASSUME NEW i \in 1 .. Len(detail) PROVE detail[i].num \in Nat
      OBVIOUS
    <2>1. detail[i] \in Detail
      OBVIOUS
    <2> QED BY <2>1 DEF Detail
  <1>3. PICK v : v = Counts(sig, detail)
    OBVIOUS
  <1>4. v = [i \in 1 .. Len(detail) |-> IF detail[i].sig = sig THEN detail[i].num ELSE 0]
    BY <1>1, <1>3 DEF Counts
  <1>5. v \in Seq(Nat) /\ Len(v) = Len(detail)
    BY <1>1, <1>2, <1>4
  <1>6. Total(v) \in Nat
    <2>1. PICK h \in [0 .. Len(v) -> Nat] : h[Len(v)] = Total(v)
      BY <1>5, TotalFacts
    <2>2. Len(v) \in 0 .. Len(v)
      BY <1>5
    <2> QED BY <2>1, <2>2
  <1> QED BY <1>3, <1>4, <1>5, <1>6

(* CountOf adds them up.                                                    *)
LEMMA CountOfFacts ==
    ASSUME NEW b \in BurstType, NEW s
    PROVE  CountOf(s, b) = Total(Counts(s, b.packetDetail)) /\ CountOf(s, b) \in Nat
  <1>1. b.packetDetail \in Seq(Detail)
    BY DEF BurstType
  <1>2. CountOf(s, b) = Total(Counts(s, b.packetDetail))
    BY DEF CountOf, Counts
  <1> QED BY <1>1, <1>2, CountsFacts

(* A number below the modulus is not wrapped; the modulus is.               *)
LEMMA ModSmall ==
    ASSUME NEW n \in Nat, NEW m \in Nat, n < m
    PROVE  n % m = n
OBVIOUS

(* The modulus itself wraps to 0.                                           *)
LEMMA ModSelf ==
    ASSUME NEW m \in Nat \ {0}
    PROVE  m % m = 0
OBVIOUS

(* A burst that signatures are added to: uniPktNum never runs ahead of the  *)
(* entries, but it may wrap and lag behind.                                 *)
Growing == {b \in BurstType : b.uniPktNum <= Len(b.packetDetail)}

(* What AddSig makes of a burst.                                            *)
Update(b, d, n, u) == [b EXCEPT !.packetDetail = d, !.pktNum = n, !.uniPktNum = u]

(* An update that leaves uniPktNum within the entries keeps a burst Growing. *)
LEMMA GrowingUpdate ==
    ASSUME NEW b \in BurstType, NEW d \in Seq(Detail), NEW n \in Nat, NEW u \in 0 .. UINT8 - 1,
           u <= Len(d)
    PROVE  Update(b, d, n, u) \in Growing /\ Update(b, d, n, u).packetDetail = d
  <1>1. PICK c : c = Update(b, d, n, u)
    OBVIOUS
  <1>2. c \in BurstType /\ c.packetDetail = d /\ c.uniPktNum = u
    BY <1>1 DEF BurstType, Update
  <1> QED BY <1>1, <1>2 DEF Growing

(* AddSig counts one packet more of the signature it is given, and of no    *)
(* other, whether uniPktNum has wrapped or not.                             *)
LEMMA AddSigCounts ==
    ASSUME NEW b \in Growing, NEW sig \in Sig
    PROVE  /\ AddSig(b, sig) \in Growing
           /\ \A s \in Sig : CountOf(s, AddSig(b, sig)) = CountOf(s, b) + (IF s = sig THEN 1 ELSE 0)
  <1>1. PICK x : x = b.packetDetail
    OBVIOUS
  <1>2. /\ b \in BurstType /\ x \in Seq(Detail) /\ Len(x) \in Nat
        /\ b.uniPktNum \in 0 .. UINT8 - 1 /\ b.uniPktNum <= Len(x) /\ b.pktNum + 1 \in Nat
        /\ UINT8 \in Nat
    BY <1>1, UnisigAssumption DEF Growing, BurstType
  <1>3. \A s : CountOf(s, b) = Total(Counts(s, x)) /\ Total(Counts(s, x)) \in Nat
    BY <1>1, <1>2, CountsFacts DEF CountOf, Counts
  <1>4. CASE Hits(b, sig) # {}
    <2>1. Hits(b, sig) \subseteq Nat
      BY <1>2 DEF Hits
    <2>2. PICK i \in Nat : /\ i = (CHOOSE k \in Hits(b, sig) : \A j \in Hits(b, sig) : k <= j)
                           /\ i \in Hits(b, sig)
      BY <1>4, <2>1, LeastOfNaturals
    <2>3. i \in 1 .. Len(x) /\ x[i].sig = sig /\ x[i] \in Detail
      <3>1. i \in 1 .. b.uniPktNum /\ x[i].sig = sig
        BY <1>1, <2>2 DEF Hits
      <3>2. i \in 1 .. Len(x)
        BY <1>2, <3>1
      <3> QED BY <1>2, <3>1, <3>2
    <2>4. PICK y : y = [x EXCEPT ![i].num = @ + 1]
      OBVIOUS
    <2>5. /\ y \in Seq(Detail) /\ Len(y) = Len(x) /\ y[i].sig = x[i].sig /\ y[i].num = x[i].num + 1
          /\ \A j \in 1 .. Len(x) : j # i => y[j] = x[j]
      <3>1. [x[i] EXCEPT !.num = @ + 1] \in Detail
        BY <2>3 DEF Detail
      <3>2. /\ [x[i] EXCEPT !.num = @ + 1].sig = x[i].sig
            /\ [x[i] EXCEPT !.num = @ + 1].num = x[i].num + 1
        BY <2>3 DEF Detail
      <3> QED BY <1>2, <2>3, <2>4, <3>1, <3>2
    <2>6. AddSig(b, sig) = Update(b, y, b.pktNum + 1, b.uniPktNum)
      <3>1. AddSig(b, sig) = [b EXCEPT !.packetDetail[i].num = @ + 1, !.pktNum = @ + 1]
        BY <1>4, <2>2 DEF AddSig, PiggyBack
      <3>2. [b EXCEPT !.packetDetail[i].num = @ + 1, !.pktNum = @ + 1]
               = Update(b, y, b.pktNum + 1, b.uniPktNum)
        BY <1>1, <1>2, <2>4 DEF BurstType, Update
      <3> QED BY <3>1, <3>2
    <2>7. AddSig(b, sig) \in Growing /\ AddSig(b, sig).packetDetail = y
      BY <1>2, <2>5, <2>6, GrowingUpdate
    <2>8. ASSUME NEW s \in Sig
          PROVE  CountOf(s, AddSig(b, sig)) = CountOf(s, b) + (IF s = sig THEN 1 ELSE 0)
      <3>1. CountOf(s, AddSig(b, sig)) = Total(Counts(s, y))
        BY <2>7 DEF CountOf, Counts
      <3>2. /\ Counts(s, x) \in Seq(Nat) /\ Len(Counts(s, x)) = Len(x)
            /\ Counts(s, y) \in Seq(Nat) /\ Len(Counts(s, y)) = Len(x)
            /\ \A j \in 1 .. Len(x) :
                  /\ Counts(s, x)[j] = IF x[j].sig = s THEN x[j].num ELSE 0
                  /\ Counts(s, y)[j] = IF y[j].sig = s THEN y[j].num ELSE 0
        BY <1>2, <2>5, CountsFacts
      <3>3. CASE s = sig
        <4>1. Counts(s, y)[i] = Counts(s, x)[i] + 1
          BY <2>3, <2>5, <3>2, <3>3
        <4>2. \A j \in 1 .. Len(x) : j # i => Counts(s, y)[j] = Counts(s, x)[j]
          BY <2>5, <3>2
        <4>3. Total(Counts(s, y)) = Total(Counts(s, x)) + 1
          BY <2>3, <3>2, <4>1, <4>2, TotalOneMore
        <4> QED BY <1>3, <3>1, <3>3, <4>3
      <3>4. CASE s # sig
        <4>1. \A j \in 1 .. Len(x) : Counts(s, y)[j] = Counts(s, x)[j]
          BY <2>3, <2>5, <3>2, <3>4
        <4>2. Counts(s, y) = Counts(s, x)
          <5>1. DOMAIN x = 1 .. Len(x) /\ DOMAIN y = 1 .. Len(x)
            BY <1>2, <2>5
          <5>2. Counts(s, y) = [j \in 1 .. Len(x) |-> Counts(s, y)[j]]
            BY <5>1 DEF Counts
          <5>3. Counts(s, x) = [j \in 1 .. Len(x) |-> Counts(s, x)[j]]
            BY <5>1 DEF Counts
          <5> QED BY <4>1, <5>2, <5>3
        <4> QED BY <1>3, <3>1, <3>4, <4>2
      <3> QED BY <3>3, <3>4
    <2> QED BY <2>7, <2>8
  <1>5. CASE Hits(b, sig) = {}
    <2>1. PICK e \in Detail : e = [sig |-> sig, num |-> 1]
      BY DEF Detail
    <2>2. PICK y : y = Append(x, e)
      OBVIOUS
    <2>3. y \in Seq(Detail) /\ Len(y) = Len(x) + 1
      BY <1>2, <2>2
    <2>4. PICK u : u = (b.uniPktNum + 1) % UINT8
      OBVIOUS
    <2>5. u \in 0 .. UINT8 - 1 /\ u <= Len(y)
      <3>1. PICK n \in Nat : n = b.uniPktNum
        BY <1>2
      <3>2. n < UINT8 /\ n + 1 <= Len(y) /\ u = (n + 1) % UINT8 /\ UINT8 \in Nat \ {0}
        BY <1>2, <2>3, <2>4, <3>1
      <3>3. CASE n + 1 < UINT8
        <4>1. u = n + 1
          BY <3>2, <3>3, n + 1 \in Nat, ModSmall
        <4> QED BY <3>2, <3>3, <4>1
      <3>4. CASE n + 1 = UINT8
        <4>1. u = 0
          BY <3>2, <3>4, ModSelf
        <4> QED BY <3>2, <3>4, <2>3, <1>2, <4>1
      <3> QED BY <3>2, <3>3, <3>4
    <2>6. AddSig(b, sig) = Update(b, y, b.pktNum + 1, u)
      BY <1>1, <1>5, <2>1, <2>2, <2>4 DEF AddSig, Update
    <2>7. AddSig(b, sig) \in Growing /\ AddSig(b, sig).packetDetail = y
      BY <1>2, <2>3, <2>5, <2>6, GrowingUpdate
    <2>8. ASSUME NEW s \in Sig
          PROVE  CountOf(s, AddSig(b, sig)) = CountOf(s, b) + (IF s = sig THEN 1 ELSE 0)
      <3>1. CountOf(s, AddSig(b, sig)) = Total(Counts(s, y))
        BY <2>7 DEF CountOf, Counts
      <3>2. PICK z \in Nat : z = IF s = sig THEN 1 ELSE 0
        OBVIOUS
      <3>3. /\ Counts(s, x) \in Seq(Nat) /\ Len(Counts(s, x)) = Len(x)
            /\ Counts(s, y) \in Seq(Nat) /\ Len(Counts(s, y)) = Len(x) + 1
            /\ \A j \in 1 .. Len(x) : Counts(s, x)[j] = IF x[j].sig = s THEN x[j].num ELSE 0
            /\ \A j \in 1 .. Len(x) + 1 : Counts(s, y)[j] = IF y[j].sig = s THEN y[j].num ELSE 0
        BY <1>2, <2>3, CountsFacts
      <3>4. /\ \A j \in 1 .. Len(x) : j \in 1 .. Len(x) + 1 /\ y[j] = x[j]
            /\ Len(x) + 1 \in 1 .. Len(x) + 1 /\ y[Len(x) + 1] = e
        BY <1>2, <2>2
      <3>5. /\ \A j \in 1 .. Len(x) : Counts(s, y)[j] = Counts(s, x)[j]
            /\ Counts(s, y)[Len(x) + 1] = z
        <4>1. ASSUME NEW j \in 1 .. Len(x) PROVE Counts(s, y)[j] = Counts(s, x)[j]
          BY <3>3, <3>4
        <4>2. Counts(s, y)[Len(x) + 1] = IF e.sig = s THEN e.num ELSE 0
          BY <3>3, <3>4
        <4>3. e.sig = sig /\ e.num = 1
          BY <2>1
        <4> QED BY <3>2, <4>1, <4>2, <4>3
      <3>6. Counts(s, y) = Append(Counts(s, x), z)
        BY <1>2, <3>3, <3>5
      <3>7. Total(Counts(s, y)) = Total(Counts(s, x)) + z
        BY <3>3, <3>6, TotalAppend
      <3> QED BY <1>3, <3>1, <3>2, <3>7
    <2> QED BY <2>7, <2>8
  <1> QED BY <1>4, <1>5

(* num packets of a signature.                                              *)
LEMMA AddEntryCounts ==
    ASSUME NEW b \in Growing, NEW d \in Detail
    PROVE  /\ AddEntry(b, d) \in Growing
           /\ \A s \in Sig : CountOf(s, AddEntry(b, d))
                                = CountOf(s, b) + (IF d.sig = s THEN d.num ELSE 0)
  <1>1. PICK n \in Nat, sig \in Sig : n = d.num /\ sig = d.sig
    BY DEF Detail
  <1>2. PICK v : v = [i \in 1 .. d.num |-> i]
    OBVIOUS
  <1>3. DOMAIN v = 1 .. n
    BY <1>1, <1>2
  <1> DEFINE Is(f) == f = [s \in SUBSET DOMAIN v |->
                              IF s = {} THEN b ELSE AddSig(f[s \ {Max(s)}], d.sig)]
  <1>4. AddEntry(b, d) = (CHOOSE f : Is(f))[DOMAIN v]
    BY Zenon, <1>2 DEF AddEntry, FoldLeft, MapThenFoldSet
  <1>5. PICK step : step = [k \in 1 .. n |-> [a \in Growing |-> AddSig(a, sig)]]
    OBVIOUS
  <1>6. ASSUME NEW k \in 1 .. n, NEW a \in Growing
        PROVE  step[k][a] = AddSig(a, sig) /\ step[k][a] \in Growing
    <2>1. step[k][a] = AddSig(a, sig)
      BY <1>5
    <2> QED BY <1>1, <2>1, AddSigCounts
  <1>7. ASSUME NEW f \in [SUBSET (1 .. n) -> Growing], NEW s \in SUBSET (1 .. n), s # {}
        PROVE  step[Max(s)][f[s \ {Max(s)}]] = AddSig(f[s \ {Max(s)}], d.sig)
    <2>1. Max(s) \in 1 .. n
      BY <1>1, <1>7, MaxOfSome
    <2>2. f[s \ {Max(s)}] \in Growing
      OBVIOUS
    <2> QED BY <1>1, <1>6, <2>1, <2>2
  <1>8. \E f \in [SUBSET (1 .. n) -> Growing] : Is(f)
    <2>1. \A k \in 1 .. n : \A a \in Growing : step[k][a] \in Growing
      BY <1>6
    <2>2. PICK f \in [SUBSET (1 .. n) -> Growing] : Folds(f, n, b, step)
      BY <1>1, <2>1, FoldExists
    <2>3. \A s \in SUBSET (1 .. n) :
             f[s] = IF s = {} THEN b ELSE AddSig(f[s \ {Max(s)}], d.sig)
      BY <1>7, <2>2 DEF Folds
    <2>4. f = [s \in SUBSET DOMAIN v |-> f[s]]
      BY <1>3, <2>2
    <2>5. f = [s \in SUBSET DOMAIN v |-> IF s = {} THEN b ELSE AddSig(f[s \ {Max(s)}], d.sig)]
      BY <1>3, <2>3, <2>4
    <2> QED BY <2>2, <2>5
  <1>9. PICK g : Is(g) /\ AddEntry(b, d) = g[1 .. n]
    <2> DEFINE chosen == CHOOSE f : Is(f)
    <2>1. Is(chosen)
      <3> HIDE DEF Is
      <3> QED BY <1>8
    <2>2. AddEntry(b, d) = chosen[1 .. n]
      BY <1>3, <1>4
    <2> HIDE DEF chosen
    <2> QED BY <2>1, <2>2
  <1>10. g[1 .. 0] = b
    <2>1. 1 .. 0 = {} /\ {} \in SUBSET DOMAIN v
      OBVIOUS
    <2> QED BY <1>9, <2>1
  <1>11. ASSUME NEW k \in 1 .. n PROVE g[1 .. k] = AddSig(g[1 .. k - 1], sig)
    <2>1. /\ 1 .. k \in SUBSET DOMAIN v /\ 1 .. k # {}
          /\ Max(1 .. k) = k /\ (1 .. k) \ {Max(1 .. k)} = 1 .. k - 1
      BY <1>1, <1>3, FirstIndices
    <2> QED BY <1>1, <1>9, <2>1
  <1> DEFINE Good(k) == /\ g[1 .. k] \in Growing
                        /\ \A s \in Sig : CountOf(s, g[1 .. k])
                                             = CountOf(s, b) + (IF sig = s THEN k ELSE 0)
             In == {k \in 0 .. n : Good(k)}
  <1>12. \A c \in Growing : \A s \in Sig : CountOf(s, c) \in Nat
    BY CountOfFacts DEF Growing
  <1>13. 0 \in In
    <2>1. Good(0)
      BY <1>10, <1>12
    <2> QED BY <1>1, <2>1
  <1>14. ASSUME NEW k \in 1 .. n, k - 1 \in In PROVE k \in In
    <2>1. PICK c \in Growing : c = g[1 .. k - 1]
      BY <1>14
    <2>2. \A s \in Sig : CountOf(s, c) = CountOf(s, b) + (IF sig = s THEN k - 1 ELSE 0)
      BY <1>14, <2>1
    <2>3. g[1 .. k] = AddSig(c, sig) /\ k \in Nat /\ k \in 0 .. n
      BY <1>1, <1>11, <2>1
    <2>4. g[1 .. k] \in Growing
      BY <1>1, <2>1, <2>3, AddSigCounts
    <2>5. ASSUME NEW s \in Sig
          PROVE  CountOf(s, g[1 .. k]) = CountOf(s, b) + (IF sig = s THEN k ELSE 0)
      <3>1. CountOf(s, g[1 .. k]) = CountOf(s, c) + (IF s = sig THEN 1 ELSE 0)
        BY <1>1, <2>1, <2>3, AddSigCounts
      <3>2. CountOf(s, b) \in Nat
        BY <1>12
      <3> QED BY <2>2, <2>3, <3>1, <3>2
    <2> QED BY <2>3, <2>4, <2>5
  <1>15. Good(n)
    <2>1. 0 .. n \subseteq In
      <3> HIDE DEF In
      <3> QED BY <1>1, <1>13, <1>14, UpTo
    <2>2. n \in 0 .. n
      BY <1>1
    <2> HIDE DEF Good
    <2> QED BY <2>1, <2>2
  <1> QED BY <1>1, <1>9, <1>15

(* Every packet of a burst.                                                 *)
LEMMA AddBurstCounts ==
    ASSUME NEW b \in Growing, NEW c \in BurstType
    PROVE  /\ AddBurst(b, c) \in Growing
           /\ \A s \in Sig : CountOf(s, AddBurst(b, c)) = CountOf(s, b) + CountOf(s, c)
  <1>1. PICK v \in Seq(Detail) : v = c.packetDetail
    BY DEF BurstType
  <1>2. PICK n \in Nat : n = Len(v)
    BY <1>1
  <1>3. DOMAIN v = 1 .. n /\ \A k \in 1 .. n : v[k] \in Detail
    BY <1>1, <1>2
  <1> DEFINE Is(f) == f = [s \in SUBSET DOMAIN v |->
                              IF s = {} THEN b ELSE AddEntry(f[s \ {Max(s)}], v[Max(s)])]
  <1>4. AddBurst(b, c) = (CHOOSE f : Is(f))[DOMAIN v]
    BY Zenon, <1>1 DEF AddBurst, FoldLeft, MapThenFoldSet
  <1>5. PICK step : step = [k \in 1 .. n |-> [a \in Growing |-> AddEntry(a, v[k])]]
    OBVIOUS
  <1>6. ASSUME NEW k \in 1 .. n, NEW a \in Growing
        PROVE  step[k][a] = AddEntry(a, v[k]) /\ step[k][a] \in Growing
    <2>1. step[k][a] = AddEntry(a, v[k])
      BY <1>5
    <2> QED BY <1>3, <2>1, AddEntryCounts
  <1>7. ASSUME NEW f \in [SUBSET (1 .. n) -> Growing], NEW s \in SUBSET (1 .. n), s # {}
        PROVE  step[Max(s)][f[s \ {Max(s)}]] = AddEntry(f[s \ {Max(s)}], v[Max(s)])
    <2>1. Max(s) \in 1 .. n
      BY <1>2, <1>7, MaxOfSome
    <2>2. f[s \ {Max(s)}] \in Growing
      OBVIOUS
    <2> QED BY <1>6, <2>1, <2>2
  <1>8. \E f \in [SUBSET (1 .. n) -> Growing] : Is(f)
    <2>1. \A k \in 1 .. n : \A a \in Growing : step[k][a] \in Growing
      BY <1>6
    <2>2. PICK f \in [SUBSET (1 .. n) -> Growing] : Folds(f, n, b, step)
      BY <1>2, <2>1, FoldExists
    <2>3. \A s \in SUBSET (1 .. n) :
             f[s] = IF s = {} THEN b ELSE AddEntry(f[s \ {Max(s)}], v[Max(s)])
      BY <1>7, <2>2 DEF Folds
    <2>4. f = [s \in SUBSET DOMAIN v |-> f[s]]
      BY <1>3, <2>2
    <2>5. f = [s \in SUBSET DOMAIN v |->
                  IF s = {} THEN b ELSE AddEntry(f[s \ {Max(s)}], v[Max(s)])]
      BY <1>3, <2>3, <2>4
    <2> QED BY <2>2, <2>5
  <1>9. PICK g : Is(g) /\ AddBurst(b, c) = g[1 .. n]
    <2> DEFINE chosen == CHOOSE f : Is(f)
    <2>1. Is(chosen)
      <3> HIDE DEF Is
      <3> QED BY <1>8
    <2>2. AddBurst(b, c) = chosen[1 .. n]
      BY <1>3, <1>4
    <2> HIDE DEF chosen
    <2> QED BY <2>1, <2>2
  <1>10. g[1 .. 0] = b
    <2>1. 1 .. 0 = {} /\ {} \in SUBSET DOMAIN v
      OBVIOUS
    <2> QED BY <1>9, <2>1
  <1>11. ASSUME NEW k \in 1 .. n PROVE g[1 .. k] = AddEntry(g[1 .. k - 1], v[k])
    <2>1. /\ 1 .. k \in SUBSET DOMAIN v /\ 1 .. k # {}
          /\ Max(1 .. k) = k /\ (1 .. k) \ {Max(1 .. k)} = 1 .. k - 1
      BY <1>2, <1>3, FirstIndices
    <2> QED BY <1>9, <2>1
  <1>12. \A k \in 0 .. n : g[1 .. k] \in Growing
    <2> DEFINE In == {k \in 0 .. n : g[1 .. k] \in Growing}
    <2>1. 0 \in In
      BY <1>2, <1>10
    <2>2. ASSUME NEW k \in 1 .. n, k - 1 \in In PROVE k \in In
      <3>1. k \in 0 .. n
        BY <1>2
      <3> QED BY <1>3, <1>11, <2>2, <3>1, AddEntryCounts
    <2>3. 0 .. n \subseteq In
      <3> HIDE DEF In
      <3> QED BY <1>2, <2>1, <2>2, UpTo
    <2> QED BY <2>3
  <1>13. ASSUME NEW s \in Sig
         PROVE  CountOf(s, g[1 .. n]) = CountOf(s, b) + CountOf(s, c)
    <2>1. PICK w \in Seq(Nat) : /\ w = Counts(s, v) /\ Len(w) = n
                                /\ \A k \in 1 .. n : w[k] = IF v[k].sig = s THEN v[k].num ELSE 0
      BY <1>1, <1>2, CountsFacts
    <2>2. PICK h \in [0 .. n -> Nat] : h[n] = Total(w) /\ Sums(h, w, n)
      BY <2>1, TotalFacts
    <2>3. CountOf(s, c) = h[n]
      BY <1>1, <2>1, <2>2, CountOfFacts
    <2> DEFINE In == {k \in 0 .. n : CountOf(s, g[1 .. k]) = CountOf(s, b) + h[k]}
    <2>4. CountOf(s, b) \in Nat
      BY CountOfFacts DEF Growing
    <2>5. 0 \in In
      BY <1>2, <1>10, <2>2, <2>4 DEF Sums
    <2>6. ASSUME NEW k \in 1 .. n, k - 1 \in In PROVE k \in In
      <3>1. k \in 0 .. n /\ k - 1 \in 0 .. n
        BY <1>2
      <3>2. PICK x \in Nat, y \in Nat : x = h[k - 1] /\ y = w[k]
        <4>1. w[k] \in Nat
          BY <1>2, <2>1
        <4>2. h[k - 1] \in Nat
          BY <2>2, <3>1
        <4> QED BY <4>1, <4>2
      <3>3. h[k] = x + y
        BY <2>2, <3>2 DEF Sums
      <3>4. CountOf(s, g[1 .. k]) = CountOf(s, g[1 .. k - 1]) + y
        <4>1. g[1 .. k - 1] \in Growing /\ v[k] \in Detail
          BY <1>3, <1>12, <3>1
        <4>2. CountOf(s, AddEntry(g[1 .. k - 1], v[k]))
                 = CountOf(s, g[1 .. k - 1]) + (IF v[k].sig = s THEN v[k].num ELSE 0)
          BY <4>1, AddEntryCounts
        <4> QED BY <1>11, <2>1, <3>2, <4>2
      <3>5. CountOf(s, g[1 .. k - 1]) = CountOf(s, b) + x
        BY <2>6, <3>2
      <3>6. CountOf(s, g[1 .. k]) = CountOf(s, b) + h[k]
        <4>1. PICK z \in Nat : z = CountOf(s, b)
          BY <2>4
        <4>2. CountOf(s, g[1 .. k]) = (z + x) + y
          BY <3>4, <3>5, <4>1
        <4> QED BY <3>3, <4>1, <4>2
      <3> QED BY <3>1, <3>6
    <2>7. 0 .. n \subseteq In
      <3> HIDE DEF In
      <3> QED BY <1>2, <2>5, <2>6, UpTo
    <2>8. n \in In
      <3>1. n \in 0 .. n
        BY <1>2
      <3> QED BY <2>7, <3>1
    <2> QED BY <2>3, <2>8
  <1>14. n \in 0 .. n
    BY <1>2
  <1> QED BY <1>9, <1>12, <1>13, <1>14

(* A burst without packets.                                                 *)
LEMMA NewBurstCounts ==
    ASSUME NEW label \in STRING
    PROVE  /\ NewBurst(label) \in Growing
           /\ \A s \in Sig : CountOf(s, NewBurst(label)) = 0
  <1>1. PICK b : b = NewBurst(label)
    OBVIOUS
  <1>2. 0 \in Nat /\ 0 \in 0 .. UINT8 - 1 /\ <<>> \in Seq(Detail) /\ Zero \in Timespec
    BY UnisigAssumption DEF Zero, Timespec
  <1>3. b \in BurstType /\ b.uniPktNum = 0 /\ b.packetDetail = <<>>
    BY <1>1, <1>2 DEF NewBurst, BurstType
  <1>4. ASSUME NEW s \in Sig PROVE CountOf(s, b) = 0
    <2>1. PICK v \in Seq(Nat) : v = Counts(s, <<>>) /\ Len(v) = 0
      BY CountsFacts, <<>> \in Seq(Detail), Len(<<>>) = 0
    <2>2. PICK h \in [0 .. 0 -> Nat] : h[0] = Total(v) /\ Sums(h, v, 0)
      BY <2>1, TotalFacts
    <2>3. CountOf(s, b) = Total(v)
      BY <1>3, <2>1, CountOfFacts
    <2> QED BY <2>2, <2>3 DEF Sums
  <1> QED BY <1>1, <1>3, <1>4 DEF Growing

GroupCount(s, group) == Total([j \in DOMAIN group |-> CountOf(s, group[j])])

(* The merged burst of a group has as many packets of a signature as its    *)
(* bursts have together.                                                    *)
LEMMA MergedBurstCounts ==
    ASSUME NEW group \in Groups, group \in Seq(BurstType), group # <<>>
    PROVE  /\ MergedBurst[group] \in Growing
           /\ \A s \in Sig : CountOf(s, MergedBurst[group]) = GroupCount(s, group)
  <1>1. PICK v \in Seq(BurstType) : v = group
    OBVIOUS
  <1>2. PICK n \in Nat : n = Len(v)
    BY <1>1
  <1>3. DOMAIN v = 1 .. n /\ \A k \in 1 .. n : v[k] \in BurstType
    BY <1>1, <1>2
  <1>4. PICK b \in Growing : /\ b = NewBurst(Head(group).instanceLabel)
                             /\ \A s \in Sig : CountOf(s, b) = 0
    <2>1. Head(group) \in BurstType
      OBVIOUS
    <2>2. Head(group).instanceLabel \in STRING
      BY <2>1 DEF BurstType
    <2> QED BY <2>2, NewBurstCounts
  <1> DEFINE Is(f) == f = [s \in SUBSET DOMAIN v |->
                              IF s = {} THEN b ELSE AddBurst(f[s \ {Max(s)}], v[Max(s)])]
  <1>5. MergedBurst[group] = (CHOOSE f : Is(f))[DOMAIN v]
    BY Zenon, <1>4, <1>1 DEF MergedBurst, FoldLeft, MapThenFoldSet
  <1>6. PICK step : step = [k \in 1 .. n |-> [a \in Growing |-> AddBurst(a, v[k])]]
    OBVIOUS
  <1>7. ASSUME NEW k \in 1 .. n, NEW a \in Growing
        PROVE  step[k][a] = AddBurst(a, v[k]) /\ step[k][a] \in Growing
    <2>1. step[k][a] = AddBurst(a, v[k])
      BY <1>6
    <2> QED BY <1>3, <2>1, AddBurstCounts
  <1>8. ASSUME NEW f \in [SUBSET (1 .. n) -> Growing], NEW s \in SUBSET (1 .. n), s # {}
        PROVE  step[Max(s)][f[s \ {Max(s)}]] = AddBurst(f[s \ {Max(s)}], v[Max(s)])
    <2>1. Max(s) \in 1 .. n
      BY <1>2, <1>8, MaxOfSome
    <2>2. f[s \ {Max(s)}] \in Growing
      OBVIOUS
    <2> QED BY <1>7, <2>1, <2>2
  <1>9. \E f \in [SUBSET (1 .. n) -> Growing] : Is(f)
    <2>1. \A k \in 1 .. n : \A a \in Growing : step[k][a] \in Growing
      BY <1>7
    <2>2. PICK f \in [SUBSET (1 .. n) -> Growing] : Folds(f, n, b, step)
      BY <1>2, <2>1, FoldExists
    <2>3. \A s \in SUBSET (1 .. n) :
             f[s] = IF s = {} THEN b ELSE AddBurst(f[s \ {Max(s)}], v[Max(s)])
      BY <1>8, <2>2 DEF Folds
    <2>4. f = [s \in SUBSET DOMAIN v |-> f[s]]
      BY <1>3, <2>2
    <2>5. f = [s \in SUBSET DOMAIN v |->
                  IF s = {} THEN b ELSE AddBurst(f[s \ {Max(s)}], v[Max(s)])]
      BY <1>3, <2>3, <2>4
    <2> QED BY <2>2, <2>5
  <1>10. PICK g : Is(g) /\ MergedBurst[group] = g[1 .. n]
    <2> DEFINE chosen == CHOOSE f : Is(f)
    <2>1. Is(chosen)
      <3> HIDE DEF Is
      <3> QED BY <1>9
    <2>2. MergedBurst[group] = chosen[1 .. n]
      BY <1>3, <1>5
    <2> HIDE DEF chosen
    <2> QED BY <2>1, <2>2
  <1>11. g[1 .. 0] = b
    <2>1. 1 .. 0 = {} /\ {} \in SUBSET DOMAIN v
      OBVIOUS
    <2> QED BY <1>10, <2>1
  <1>12. ASSUME NEW k \in 1 .. n PROVE g[1 .. k] = AddBurst(g[1 .. k - 1], v[k])
    <2>1. /\ 1 .. k \in SUBSET DOMAIN v /\ 1 .. k # {}
          /\ Max(1 .. k) = k /\ (1 .. k) \ {Max(1 .. k)} = 1 .. k - 1
      BY <1>2, <1>3, FirstIndices
    <2> QED BY <1>10, <2>1
  <1>13. \A k \in 0 .. n : g[1 .. k] \in Growing
    <2> DEFINE In == {k \in 0 .. n : g[1 .. k] \in Growing}
    <2>1. 0 \in In
      BY <1>2, <1>11
    <2>2. ASSUME NEW k \in 1 .. n, k - 1 \in In PROVE k \in In
      <3>1. k \in 0 .. n
        BY <1>2
      <3> QED BY <1>3, <1>12, <2>2, <3>1, AddBurstCounts
    <2>3. 0 .. n \subseteq In
      <3> HIDE DEF In
      <3> QED BY <1>2, <2>1, <2>2, UpTo
    <2> QED BY <2>3
  <1>14. ASSUME NEW s \in Sig
         PROVE  CountOf(s, g[1 .. n]) = GroupCount(s, group)
    <2>1. PICK w \in Seq(Nat) : /\ w = [j \in DOMAIN v |-> CountOf(s, v[j])] /\ Len(w) = n
                                /\ \A k \in 1 .. n : w[k] = CountOf(s, v[k])
      <3>1. \A k \in 1 .. n : CountOf(s, v[k]) \in Nat
        BY <1>3, CountOfFacts
      <3>2. PICK w : w = [j \in 1 .. n |-> CountOf(s, v[j])]
        OBVIOUS
      <3>3. w \in Seq(Nat) /\ Len(w) = n /\ \A k \in 1 .. n : w[k] = CountOf(s, v[k])
        BY <1>2, <3>1, <3>2
      <3> QED BY <1>3, <3>2, <3>3
    <2>2. PICK h \in [0 .. n -> Nat] : h[n] = Total(w) /\ Sums(h, w, n)
      BY <2>1, TotalFacts
    <2>3. GroupCount(s, group) = h[n]
      BY <1>1, <2>1, <2>2 DEF GroupCount
    <2> DEFINE In == {k \in 0 .. n : CountOf(s, g[1 .. k]) = h[k]}
    <2>4. CountOf(s, b) = 0
      BY <1>4
    <2>5. 0 \in In
      BY <1>2, <1>11, <2>2, <2>4 DEF Sums
    <2>6. ASSUME NEW k \in 1 .. n, k - 1 \in In PROVE k \in In
      <3>1. k \in 0 .. n /\ k - 1 \in 0 .. n
        BY <1>2
      <3>2. PICK x \in Nat, y \in Nat : x = h[k - 1] /\ y = w[k]
        <4>1. w[k] \in Nat
          BY <1>2, <2>1
        <4>2. h[k - 1] \in Nat
          BY <2>2, <3>1
        <4> QED BY <4>1, <4>2
      <3>3. h[k] = x + y
        BY <2>2, <3>2 DEF Sums
      <3>4. CountOf(s, g[1 .. k]) = CountOf(s, g[1 .. k - 1]) + y
        <4>1. g[1 .. k - 1] \in Growing /\ v[k] \in BurstType
          BY <1>3, <1>13, <3>1
        <4>2. CountOf(s, AddBurst(g[1 .. k - 1], v[k]))
                 = CountOf(s, g[1 .. k - 1]) + CountOf(s, v[k])
          BY <4>1, AddBurstCounts
        <4> QED BY <1>12, <2>1, <3>2, <4>2
      <3>5. CountOf(s, g[1 .. k - 1]) = x
        BY <2>6, <3>2
      <3>6. CountOf(s, g[1 .. k]) = h[k]
        BY <3>2, <3>3, <3>4, <3>5
      <3> QED BY <3>1, <3>6
    <2>7. 0 .. n \subseteq In
      <3> HIDE DEF In
      <3> QED BY <1>2, <2>5, <2>6, UpTo
    <2>8. n \in In
      <3>1. n \in 0 .. n
        BY <1>2
      <3> QED BY <2>7, <3>1
    <2> QED BY <2>3, <2>8
  <1>15. n \in 0 .. n
    BY <1>2
  <1> QED BY <1>10, <1>13, <1>14, <1>15

-----------------------------------------------------------------------------
(* The groups of a device, experiment by experiment *)

(* FlattenSeq, by the first k sequences.                                    *)
Joins(h, seqs, n) == h[0] = <<>> /\ \A k \in 1 .. n : h[k] = h[k - 1] \o seqs[k]

(* The empty sequence joined with another is the other one.                 *)
LEMMA EmptyJoin ==
    ASSUME NEW S, NEW s \in Seq(S)
    PROVE  <<>> \o s = s
OBVIOUS

(* FlattenSeq joins one sequence after the other.                           *)
LEMMA FlattenFacts ==
    ASSUME NEW S, NEW seqs \in Seq(Seq(S))
    PROVE  \E h \in [0 .. Len(seqs) -> Seq(S)] :
              h[Len(seqs)] = FlattenSeq(seqs) /\ Joins(h, seqs, Len(seqs))
  <1>1. PICK n \in Nat : n = Len(seqs)
    OBVIOUS
  <1>2. \A k \in 1 .. n : seqs[k] \in Seq(S)
    BY <1>1
  <1>3. PICK step : step = [k \in 1 .. n |-> [a \in Seq(S) |-> a \o seqs[k]]]
    OBVIOUS
  <1>4. ASSUME NEW k \in 1 .. n, NEW a \in Seq(S)
        PROVE  step[k][a] = a \o seqs[k] /\ step[k][a] \in Seq(S)
    <2>1. step[k][a] = a \o seqs[k]
      BY <1>3
    <2>2. a \o seqs[k] \in Seq(S)
      BY <1>2, ConcatProperties
    <2> QED BY <2>1, <2>2
  <1>5. PICK f \in [SUBSET (1 .. n) -> Seq(S)] : Folds(f, n, <<>>, step)
    <2>1. \A k \in 1 .. n : \A a \in Seq(S) : step[k][a] \in Seq(S)
      BY <1>4
    <2>2. <<>> \in Seq(S)
      OBVIOUS
    <2> QED BY <1>1, <2>1, <2>2, FoldExists
  <1>6. f[1 .. 0] = <<>>
    <2>1. 1 .. 0 = {} /\ {} \in SUBSET (1 .. n)
      OBVIOUS
    <2> QED BY <1>5, <2>1 DEF Folds
  <1>7. ASSUME NEW k \in 1 .. n
        PROVE  /\ f[1 .. k] = f[1 .. k - 1] \o seqs[k]
               /\ f[1 .. k] \in Seq(S) /\ f[1 .. k - 1] \in Seq(S)
    <2>1. /\ 1 .. k \in SUBSET (1 .. n) /\ 1 .. k # {}
          /\ Max(1 .. k) = k /\ (1 .. k) \ {Max(1 .. k)} = 1 .. k - 1
      BY <1>1, FirstIndices
    <2>2. f[1 .. k] = step[k][f[1 .. k - 1]]
      BY <1>5, <2>1 DEF Folds
    <2>3. 1 .. k - 1 \in SUBSET (1 .. n)
      BY <2>1
    <2> QED BY <1>4, <1>5, <2>1, <2>2, <2>3
  <1> DEFINE Is(g) == g = [i \in 1 .. Len(seqs) |->
                              IF i = 1 THEN seqs[i] ELSE g[i - 1] \o seqs[i]]
  <1>8. n # 0 => FlattenSeq(seqs) = (CHOOSE g : Is(g))[n]
    BY <1>1, Zenon DEF FlattenSeq
  <1>9. \E g : Is(g)
    <2>1. PICK g : g = [i \in 1 .. n |-> f[1 .. i]]
      OBVIOUS
    <2>2. ASSUME NEW i \in 1 .. n
          PROVE  g[i] = IF i = 1 THEN seqs[i] ELSE g[i - 1] \o seqs[i]
      <3>1. CASE i = 1
        <4>1. f[1 .. 1 - 1] = <<>>
          BY <1>6
        <4>2. f[1 .. 1] = <<>> \o seqs[1]
          BY <1>7, <3>1, <4>1
        <4> QED BY <1>2, <2>1, <3>1, <4>2, EmptyJoin
      <3>2. CASE i # 1
        <4>1. i - 1 \in 1 .. n
          BY <1>1, <3>2
        <4> QED BY <1>7, <2>1, <3>2, <4>1
      <3> QED BY <3>1, <3>2
    <2>3. g = [i \in 1 .. n |-> g[i]]
      BY <2>1
    <2>4. g = [i \in 1 .. n |-> IF i = 1 THEN seqs[i] ELSE g[i - 1] \o seqs[i]]
      BY <2>2, <2>3
    <2> QED BY <1>1, <2>4
  <1>10. PICK g : Is(g) /\ (n # 0 => FlattenSeq(seqs) = g[n])
    <2> DEFINE chosen == CHOOSE x : Is(x)
    <2>1. Is(chosen)
      <3> HIDE DEF Is
      <3> QED BY <1>9
    <2>2. n # 0 => FlattenSeq(seqs) = chosen[n]
      BY <1>8
    <2> HIDE DEF chosen
    <2> QED BY <2>1, <2>2
  <1>11. PICK h : h = [k \in 0 .. n |-> IF k = 0 THEN <<>> ELSE g[k]]
    OBVIOUS
  <1>12. h[0] = <<>>
    BY <1>1, <1>11
  <1>13. ASSUME NEW k \in 1 .. n PROVE h[k] = h[k - 1] \o seqs[k]
    <2>1. k \in 0 .. n /\ k - 1 \in 0 .. n /\ k # 0
      BY <1>1
    <2>2. g[k] = IF k = 1 THEN seqs[k] ELSE g[k - 1] \o seqs[k]
      BY <1>1, <1>10
    <2>3. CASE k = 1
      <3>1. h[k - 1] = <<>> /\ h[k] = seqs[k]
        BY <1>11, <2>1, <2>2, <2>3
      <3> QED BY <1>2, <3>1, EmptyJoin
    <2>4. CASE k # 1
      <3>1. k - 1 # 0 /\ h[k - 1] = g[k - 1] /\ h[k] = g[k]
        BY <1>11, <2>1, <2>4
      <3> QED BY <2>2, <2>4, <3>1
    <2> QED BY <2>3, <2>4
  <1>14. h \in [0 .. n -> Seq(S)]
    <2> DEFINE In == {k \in 0 .. n : h[k] \in Seq(S)}
    <2>1. 0 \in In
      <3>1. <<>> \in Seq(S) /\ 0 \in 0 .. n
        BY <1>1
      <3> QED BY <1>12, <3>1
    <2>2. ASSUME NEW k \in 1 .. n, k - 1 \in In PROVE k \in In
      <3>1. k \in 0 .. n /\ h[k - 1] \in Seq(S) /\ seqs[k] \in Seq(S)
        BY <1>1, <1>2, <2>2
      <3>2. h[k - 1] \o seqs[k] \in Seq(S)
        BY <3>1, ConcatProperties
      <3> QED BY <1>13, <3>1, <3>2
    <2>3. 0 .. n \subseteq In
      <3> HIDE DEF In
      <3> QED BY <1>1, <2>1, <2>2, UpTo
    <2> QED BY <1>11, <2>3
  <1>15. h[n] = FlattenSeq(seqs)
    <2>1. CASE n = 0
      <3>1. Len(seqs) = 0
        BY <1>1, <2>1
      <3>2. seqs = <<>>
        BY <3>1
      <3>3. FlattenSeq(seqs) = seqs
        BY <3>1, Zenon DEF FlattenSeq
      <3> QED BY <1>12, <2>1, <3>2, <3>3
    <2>2. CASE n # 0
      <3>1. n \in 0 .. n
        BY <1>1
      <3>2. h[n] = g[n]
        BY <1>11, <2>2, <3>1
      <3> QED BY <1>10, <2>2, <3>2
    <2> QED BY <2>1, <2>2
  <1> QED BY <1>1, <1>12, <1>13, <1>14, <1>15 DEF Joins

(* What joins the same sequences is the same.                               *)
LEMMA JoinsAgree ==
    ASSUME NEW n \in Nat, NEW m \in 0 .. n, NEW v, NEW w, NEW g, NEW h, Joins(g, v, m), Joins(h, w, n),
           Agree(v, w, m)
    PROVE  g[m] = h[m]
  <1> DEFINE In == {k \in 0 .. m : g[k] = h[k]}
  <1>1. m \in Nat /\ \A k \in 1 .. m : k \in 1 .. n
    OBVIOUS
  <1>2. 0 \in In
    BY <1>1 DEF Joins
  <1>3. ASSUME NEW k \in 1 .. m, k - 1 \in In PROVE k \in In
    <2>1. k \in 0 .. m /\ k \in 1 .. n /\ v[k] = w[k] /\ g[k - 1] = h[k - 1]
      BY <1>1, <1>3 DEF Agree
    <2>2. g[k] = g[k - 1] \o v[k] /\ h[k] = h[k - 1] \o w[k]
      BY <2>1 DEF Joins
    <2> QED BY <2>1, <2>2
  <1>4. 0 .. m \subseteq In
    <2> HIDE DEF In
    <2> QED BY <1>1, <1>2, <1>3, UpTo
  <1>5. m \in 0 .. m
    OBVIOUS
  <1> QED BY <1>4, <1>5

(* The groups of a device are sequences of its bursts, none of them empty.  *)
LEMMA GroupsAre ==
    /\ \A ts \in ToSet(Experiments) : \A d \in DOMAIN ts : ts[d] \in Seq(Groups)
    /\ \A group \in Groups : /\ group \in Seq(Bursts) /\ group \in Seq(BurstType)
                             /\ group # <<>>
  <1>1. ASSUME NEW ts \in ToSet(Experiments), NEW d \in DOMAIN ts
        PROVE  ts[d] \in Seq(Groups)
    <2>1. ts[d] \in DeviceGroups /\ ts[d] \in Seq(Seq(BurstsOf(ts[d])))
      BY GroupsFacts
    <2>2. \A i \in 1 .. Len(ts[d]) : ts[d][i] \in Groups
      BY <2>1 DEF Groups, ToSet
    <2> QED BY <2>1, <2>2
  <1>2. ASSUME NEW group \in Groups
        PROVE  group \in Seq(Bursts) /\ group \in Seq(BurstType) /\ group # <<>>
    <2>1. PICK groups \in DeviceGroups : group \in ToSet(groups)
      BY DEF Groups
    <2>2. PICK x \in ToSet(Experiments) \X Devices : x[2] \in DOMAIN x[1] /\ groups = x[1][x[2]]
      BY <2>1 DEF DeviceGroups
    <2>3. PICK ts \in ToSet(Experiments) : \E d \in DOMAIN ts : groups = ts[d]
      BY <2>2
    <2>4. PICK d \in DOMAIN ts : groups = ts[d]
      BY <2>3
    <2>5. groups \in Seq(Seq(BurstsOf(groups))) /\ \A b \in BurstsOf(groups) : Trainable(b) /\ b \in Bursts
      BY <2>3, <2>4, GroupsFacts
    <2>6. group # <<>>
      BY <2>1, <2>3, <2>4, TrainAssumption
    <2>7. group \in Seq(BurstsOf(groups))
      BY <2>1, <2>5 DEF ToSet
    <2>8. \A i \in 1 .. Len(group) : group[i] \in Bursts /\ group[i] \in BurstType
      BY <2>5, <2>7 DEF Trainable
    <2> QED BY <2>6, <2>7, <2>8
  <1> QED BY <1>1, <1>2

(* What an experiment adds to the groups of a device.                       *)
Adds(e, d) == At(Experiments[e], d, <<>>)

(* They are groups, or none.                                                *)
LEMMA AddsFacts ==
    ASSUME NEW e \in 1 .. Len(Experiments), NEW d
    PROVE  Adds(e, d) \in Seq(Groups)
  <1>1. Experiments[e] \in ToSet(Experiments)
    BY FiniteAssumption DEF ToSet
  <1>2. <<>> \in Seq(Groups)
    OBVIOUS
  <1> QED BY <1>1, <1>2, GroupsAre DEF Adds, At

(* The groups up to an experiment: none before the first, then its own.     *)
LEMMA GroupsUpToFacts ==
    ASSUME NEW d
    PROVE  /\ \A e \in 0 .. Len(Experiments) : GroupsUpTo(e, d) \in Seq(Groups)
           /\ GroupsUpTo(0, d) = <<>>
           /\ \A e \in 1 .. Len(Experiments) : GroupsUpTo(e, d) = GroupsUpTo(e - 1, d) \o Adds(e, d)
  <1> DEFINE S(e) == [i \in 1 .. e |-> At(Experiments[i], d, <<>>)]
  <1>1. Len(Experiments) \in Nat
    BY FiniteAssumption
  <1>2. ASSUME NEW e \in 0 .. Len(Experiments)
        PROVE  /\ S(e) \in Seq(Seq(Groups)) /\ Len(S(e)) = e
               /\ \A i \in 1 .. e : S(e)[i] = Adds(i, d)
    <2>1. e \in Nat /\ \A i \in 1 .. e : i \in 1 .. Len(Experiments)
      BY <1>1
    <2>2. \A i \in 1 .. e : At(Experiments[i], d, <<>>) \in Seq(Groups)
      BY <2>1, AddsFacts DEF Adds
    <2> QED BY <2>1, <2>2 DEF Adds
  <1>3. ASSUME NEW e \in 0 .. Len(Experiments)
        PROVE  \E h \in [0 .. e -> Seq(Groups)] : h[e] = GroupsUpTo(e, d) /\ Joins(h, S(e), e)
    <2>1. PICK s \in Seq(Seq(Groups)) : s = S(e) /\ Len(s) = e
      BY <1>2
    <2>2. GroupsUpTo(e, d) = FlattenSeq(s)
      BY <2>1 DEF GroupsUpTo
    <2> HIDE DEF S
    <2>3. \E h \in [0 .. e -> Seq(Groups)] : h[e] = FlattenSeq(s) /\ Joins(h, s, e)
      BY <2>1, FlattenFacts
    <2> QED BY <2>1, <2>2, <2>3
  <1>4. ASSUME NEW e \in 0 .. Len(Experiments) PROVE GroupsUpTo(e, d) \in Seq(Groups)
    <2>1. e \in 0 .. e
      BY <1>1
    <2> QED BY <1>3, <2>1
  <1>5. GroupsUpTo(0, d) = <<>>
    <2>1. 0 \in 0 .. Len(Experiments)
      BY <1>1
    <2> QED BY <1>3, <2>1 DEF Joins
  <1>6. ASSUME NEW e \in 1 .. Len(Experiments)
        PROVE  GroupsUpTo(e, d) = GroupsUpTo(e - 1, d) \o Adds(e, d)
    <2>1. PICK n \in Nat : n = e /\ n # 0 /\ e \in 0 .. Len(Experiments)
                           /\ e - 1 \in 0 .. Len(Experiments) /\ e - 1 \in 0 .. e
      BY <1>1
    <2>2. PICK h : h[e] = GroupsUpTo(e, d) /\ Joins(h, S(e), e)
      BY <1>3, <2>1
    <2>3. PICK g : g[e - 1] = GroupsUpTo(e - 1, d) /\ Joins(g, S(e - 1), e - 1)
      BY <1>3, <2>1
    <2>4. Agree(S(e - 1), S(e), e - 1)
      <3>1. \A k \in 1 .. e - 1 : k \in 1 .. e
        BY <2>1
      <3> QED BY <1>2, <2>1, <3>1 DEF Agree
    <2>5. g[e - 1] = h[e - 1]
      <3> HIDE DEF S
      <3> QED BY <2>1, <2>2, <2>3, <2>4, JoinsAgree
    <2>6. e \in 1 .. e /\ S(e)[e] = Adds(e, d)
      BY <1>2, <2>1
    <2>7. h[e] = h[e - 1] \o S(e)[e]
      <3> HIDE DEF S
      <3> QED BY <2>2, <2>6 DEF Joins
    <2> QED BY <2>2, <2>3, <2>5, <2>6, <2>7
  <1> QED BY <1>4, <1>5, <1>6

-----------------------------------------------------------------------------
(* The static maps *)

Levels(d) == At(blockLevelDistribution, d, <<>>)

(* The merged bursts of a device are those of its first groups, the groups  *)
(* up to experiment e; rest are the groups that have none yet.              *)
PushedAs(levels, rest, all) ==
    /\ levels \in Seq(BurstType) /\ rest \in Seq(Groups) /\ all \in Seq(Groups)
    /\ Len(levels) + Len(rest) = Len(all)
    /\ \A i \in 1 .. Len(levels) : levels[i] = MergedBurst[all[i]]
    /\ \A i \in 1 .. Len(rest) : rest[i] = all[Len(levels) + i]

Pushed(d, rest, e) == PushedAs(Levels(d), rest, GroupsUpTo(e, d))

Waiting == main.devices \cup ToSet(queue)

(* The average of a device is that of the first experiment up to e that     *)
(* knows the device, or 0 if an earlier one asked for it.                   *)
Known(d, e) == {i \in 1 .. e : d \in DOMAIN Experiments[i]}

AveragedAs(average, d, e) ==
    IF Known(d, e) = {} THEN d \in DOMAIN average => average[d] = 0 /\ e >= 1
    ELSE /\ d \in DOMAIN average
         /\ \/ average[d] = BlockAvgPktNum(Experiments[Min(Known(d, e))][d])
            \/ average[d] = 0 /\ Min(Known(d, e)) > 1

Averaged(d, e) == AveragedAs(addrAvgPktMap, d, e)

(* What the maps hold of a device whose task is r, or has ended.            *)
Begun(r, e) ==
    /\ Pushed(r.device, r.groups, e)
    /\ IF r.at = "average"
       THEN r.groups = Experiments[e][r.device] /\ Averaged(r.device, e - 1)
       ELSE Averaged(r.device, e)
    /\ r.at \notin {"average", "levels"} => r.groups = <<>>

Through(d, e) == Pushed(d, <<>>, e) /\ Averaged(d, e)

MapsOK ==
    /\ DOMAIN blockLevelDistribution \subseteq Devices
    /\ DOMAIN addrAvgPktMap \subseteq Devices
    /\ main.experiment <= Len(Experiments) + 1
    /\ IF main.pc = "construct"
       THEN \A d \in Devices : Through(d, main.experiment - 1)
       ELSE /\ \A d \in Waiting : Through(d, main.experiment - 1)
            /\ \A t \in Busy : Begun(pool[t], main.experiment)
            /\ \A d \in Devices : \/ d \in Waiting
                                  \/ \E t \in Busy : pool[t].device = d
                                  \/ Through(d, main.experiment)

(* The head of what is left is merged and becomes the last level.           *)
LEMMA PushOne ==
    ASSUME NEW levels, NEW rest, NEW all, PushedAs(levels, rest, all), rest # <<>>
    PROVE  PushedAs(Append(levels, MergedBurst[Head(rest)]), Tail(rest), all)
  <1>1. /\ levels \in Seq(BurstType) /\ rest \in Seq(Groups) /\ all \in Seq(Groups)
        /\ Len(levels) + Len(rest) = Len(all)
        /\ \A i \in 1 .. Len(levels) : levels[i] = MergedBurst[all[i]]
        /\ \A i \in 1 .. Len(rest) : rest[i] = all[Len(levels) + i]
    BY DEF PushedAs
  <1>2. PICK n \in Nat, m \in Nat : n = Len(levels) /\ m = Len(rest) /\ Len(all) = n + m /\ m # 0
    BY <1>1
  <1>3. Head(rest) \in Groups /\ Head(rest) = rest[1] /\ rest[1] = all[n + 1]
    BY <1>1, <1>2
  <1>4. MergedBurst[Head(rest)] \in BurstType
    BY <1>3, GroupsAre, MergedBurstCounts DEF Growing
  <1>5. PICK c \in BurstType : c = MergedBurst[Head(rest)]
    BY <1>4
  <1>6. PICK levels2 : levels2 = Append(levels, c)
    OBVIOUS
  <1>7. /\ levels2 \in Seq(BurstType) /\ Len(levels2) = n + 1 /\ levels2[n + 1] = c
        /\ \A i \in 1 .. n : levels2[i] = levels[i]
    BY <1>1, <1>2, <1>5, <1>6
  <1>8. PICK rest2 : rest2 = Tail(rest)
    OBVIOUS
  <1>9. /\ rest2 \in Seq(Groups) /\ Len(rest2) = m - 1
        /\ \A i \in 1 .. m - 1 : rest2[i] = rest[i + 1]
    BY <1>1, <1>2, <1>8
  <1>10. \A i \in 1 .. n + 1 : levels2[i] = MergedBurst[all[i]]
    <2> SUFFICES ASSUME NEW i \in 1 .. n + 1 PROVE levels2[i] = MergedBurst[all[i]]
      OBVIOUS
    <2>1. CASE i \in 1 .. n
      BY <1>1, <1>2, <1>7, <2>1
    <2>2. CASE i = n + 1
      BY <1>3, <1>5, <1>7, <2>2
    <2> QED BY <1>2, <2>1, <2>2
  <1>11. \A i \in 1 .. m - 1 : rest2[i] = all[(n + 1) + i]
    <2> SUFFICES ASSUME NEW i \in 1 .. m - 1 PROVE rest2[i] = all[(n + 1) + i]
      OBVIOUS
    <2>1. i + 1 \in 1 .. m /\ n + (i + 1) = (n + 1) + i
      BY <1>2
    <2>2. rest[i + 1] = all[n + (i + 1)]
      BY <1>1, <1>2, <2>1
    <2> QED BY <1>9, <2>1, <2>2
  <1>12. Len(levels2) + Len(rest2) = Len(all)
    BY <1>2, <1>7, <1>9
  <1>13. PushedAs(levels2, rest2, all)
    BY <1>1, <1>7, <1>9, <1>10, <1>11, <1>12 DEF PushedAs
  <1> QED BY <1>5, <1>6, <1>8, <1>13

(* An experiment adds groups that are all still to be pushed.               *)
LEMMA PushMore ==
    ASSUME NEW levels, NEW all, PushedAs(levels, <<>>, all), NEW more \in Seq(Groups)
    PROVE  PushedAs(levels, more, all \o more)
  <1>1. /\ levels \in Seq(BurstType) /\ all \in Seq(Groups)
        /\ \A i \in 1 .. Len(levels) : levels[i] = MergedBurst[all[i]]
        /\ Len(levels) + Len(<<>>) = Len(all)
    BY DEF PushedAs
  <1>2. PICK n \in Nat : n = Len(levels) /\ n = Len(all)
    BY <1>1
  <1>3. PICK all2 : all2 = all \o more
    OBVIOUS
  <1>4. /\ all2 \in Seq(Groups) /\ Len(all2) = n + Len(more)
        /\ \A i \in 1 .. n : all2[i] = all[i]
    BY <1>1, <1>2, <1>3, ConcatProperties
  <1>5. \A i \in 1 .. Len(more) : more[i] = all2[n + i]
    <2> SUFFICES ASSUME NEW i \in 1 .. Len(more) PROVE more[i] = all2[n + i]
      OBVIOUS
    <2>1. n + i \in 1 .. n + Len(more) /\ ~(n + i <= n) /\ (n + i) - n = i
      BY <1>2
    <2> QED BY <1>1, <1>2, <1>3, <2>1
  <1>6. PushedAs(levels, more, all2)
    BY <1>1, <1>2, <1>4, <1>5 DEF PushedAs
  <1> QED BY <1>3, <1>6

(* A task goes on: only the levels and the average of its device change.    *)
LEMMA MapsStep ==
    ASSUME IInv, Trained, MapsOK, NEW t \in Threads, NEW r,
           pool[t].at # "idle", pool' = [pool EXCEPT ![t] = r],
           "at" \in DOMAIN r, r.at # "idle", r.device = pool[t].device,
           UNCHANGED queue, main' = main \/ main' = [main EXCEPT !.pc = "crashed"],
           DOMAIN blockLevelDistribution' \subseteq Devices,
           DOMAIN addrAvgPktMap' \subseteq Devices,
           \A d : d # r.device => Levels(d)' = Levels(d),
           \A d, e : d # r.device /\ Averaged(d, e) => Averaged(d, e)',
           Begun(r, main.experiment)'
    PROVE  MapsOK'
  <1>1. Busy' = Busy /\ t \in Busy
    <2>1. Continues(t)
      BY DEF Continues
    <2>2. t \in Busy
      BY DEF Busy, Idle
    <2> QED BY <2>1, <2>2, ContinuesFacts DEF IInv
  <1>2. PICK e : e = main.experiment
    OBVIOUS
  <1>3. /\ main'.experiment = e /\ main'.devices = main.devices
        /\ main.pc # "construct" /\ main'.pc # "construct"
    BY <1>1, <1>2, BusyConstructs DEF IInv, MainOK
  <1>4. Waiting' = Waiting
    BY <1>3 DEF Waiting
  <1>5. \A u \in Threads : pool'[u] = IF u = t THEN r ELSE pool[u]
    BY DEF IInv, PoolOK
  <1>6. \A u \in Busy : u # t => pool'[u] = pool[u] /\ pool[u].device # r.device
    BY <1>1, <1>5 DEF Trained, OnePlace, Busy
  <1>7. r.device \notin Waiting
    BY <1>1 DEF Trained, OnePlace, Waiting
  <1>8. \A d, rest, x : d # r.device /\ Pushed(d, rest, x) => Pushed(d, rest, x)'
    BY DEF Pushed
  <1>9. \A d, x : d # r.device /\ Through(d, x) => Through(d, x)'
    BY <1>8 DEF Through
  <1>10. \A d \in Waiting : Through(d, e - 1)'
    BY <1>2, <1>3, <1>7, <1>9 DEF MapsOK
  <1>11. \A u \in Busy : Begun(pool[u], e)'
    <2> SUFFICES ASSUME NEW u \in Busy PROVE Begun(pool[u], e)'
      OBVIOUS
    <2>1. CASE u = t
      <3>1. pool'[u] = r
        BY <1>1, <1>5, <2>1 DEF Busy
      <3>2. Begun(r, e)'
        BY <1>3
      <3>3. Pushed(r.device, r.groups, e)' /\ (Pushed(pool[u].device, pool[u].groups, e)' <=> Pushed(r.device, r.groups, e)')
        BY <3>1, <3>2 DEF Begun, Pushed
      <3>4. Averaged(pool[u].device, e)' <=> Averaged(r.device, e)'
        BY <3>1 DEF Averaged
      <3>5. Averaged(pool[u].device, e - 1)' <=> Averaged(r.device, e - 1)'
        BY <3>1 DEF Averaged
      <3> QED BY <3>1, <3>2, <3>3, <3>4, <3>5 DEF Begun
    <2>2. CASE u # t
      <3>1. Begun(pool[u], e)
        BY <1>2, <1>3 DEF MapsOK
      <3>2. pool'[u] = pool[u] /\ pool[u].device # r.device
        BY <1>6, <2>2
      <3>3. Pushed(pool[u].device, pool[u].groups, e)'
        <4>1. Pushed(pool[u].device, pool[u].groups, e)
          BY <3>1 DEF Begun
        <4>2. Levels(pool[u].device)' = Levels(pool[u].device)
          BY <3>2
        <4> QED BY <3>2, <4>1, <4>2 DEF Pushed
      <3>4. \A x : Averaged(pool[u].device, x) => Averaged(pool[u].device, x)'
        BY <3>2 DEF Averaged
      <3> QED BY <3>1, <3>2, <3>3, <3>4 DEF Begun
    <2> QED BY <2>1, <2>2
  <1>12. ASSUME NEW d \in Devices
         PROVE  d \in Waiting \/ (\E u \in Busy : pool'[u].device = d) \/ Through(d, e)'
    <2>1. CASE d = r.device
      BY <1>1, <1>5, <2>1
    <2>2. CASE d # r.device
      <3>1. d \in Waiting \/ (\E u \in Busy : pool[u].device = d) \/ Through(d, e)
        BY <1>2, <1>3 DEF MapsOK
      <3>2. CASE \E u \in Busy : pool[u].device = d
        <4>1. PICK u \in Busy : pool[u].device = d
          BY <3>2
        <4>2. u # t
          BY <2>2, <4>1
        <4> QED BY <1>6, <4>1, <4>2
      <3>3. CASE Through(d, e)
        BY <1>9, <2>2, <3>3
      <3> QED BY <3>1, <3>2, <3>3
    <2> QED BY <2>1, <2>2
  <1>13. main'.experiment <= Len(Experiments) + 1
    BY <1>2, <1>3 DEF MapsOK
  <1> QED BY <1>1, <1>3, <1>4, <1>10, <1>11, <1>12, <1>13 DEF MapsOK

(* A task goes on beyond the maps.                                          *)
LEMMA MapsStay ==
    ASSUME IInv, Trained, MapsOK, NEW t \in Threads, NEW r,
           pool[t].at \notin {"idle", "average"}, pool' = [pool EXCEPT ![t] = r],
           "at" \in DOMAIN r, r.at \notin {"idle", "average"},
           r.device = pool[t].device, r.groups = pool[t].groups,
           r.at \notin {"average", "levels"} => r.groups = <<>>,
           UNCHANGED <<queue, addrAvgPktMap, blockLevelDistribution>>,
           main' = main \/ main' = [main EXCEPT !.pc = "crashed"]
    PROVE  MapsOK'
  <1>1. t \in Busy /\ main.pc # "construct"
    BY AtTask
  <1>2. Begun(pool[t], main.experiment)
    BY <1>1 DEF MapsOK
  <1>3. main'.experiment = main.experiment
    BY DEF IInv, MainOK
  <1>4. \A d : Levels(d)' = Levels(d)
    BY DEF Levels
  <1>5. \A d, e : Averaged(d, e) => Averaged(d, e)'
    BY DEF Averaged
  <1>6. Begun(r, main.experiment)'
    <2>1. Pushed(r.device, r.groups, main.experiment)'
      BY <1>2, <1>3, <1>4 DEF Begun, Pushed
    <2>2. Averaged(r.device, main.experiment)'
      BY <1>2, <1>3, <1>5 DEF Begun, Averaged
    <2> QED BY <2>1, <2>2 DEF Begun
  <1>7. DOMAIN blockLevelDistribution' \subseteq Devices /\ DOMAIN addrAvgPktMap' \subseteq Devices
    BY DEF MapsOK
  <1>8. pool[t].at # "idle" /\ r.at # "idle"
    OBVIOUS
  <1> QED BY <1>4, <1>5, <1>6, <1>7, <1>8, MapsStep

(* The experiments that know a device, up to the next one.                  *)
LEMMA KnownFacts ==
    ASSUME NEW d, NEW e \in Nat \ {0}
    PROVE  /\ d \notin DOMAIN Experiments[e] => Known(d, e) = Known(d, e - 1)
           /\ d \in DOMAIN Experiments[e] => Known(d, e) = Known(d, e - 1) \cup {e}
           /\ Known(d, e - 1) = {} => Min({e}) = e
           /\ Known(d, e - 1) # {} /\ d \in DOMAIN Experiments[e] =>
                 Min(Known(d, e)) = Min(Known(d, e - 1))
           /\ Known(d, e - 1) # {} => Min(Known(d, e - 1)) \in Nat \ {0}
  <1>1. \A i : i \in 1 .. e <=> i \in 1 .. e - 1 \/ i = e
    OBVIOUS
  <1>2. /\ d \notin DOMAIN Experiments[e] => Known(d, e) = Known(d, e - 1)
        /\ d \in DOMAIN Experiments[e] => Known(d, e) = Known(d, e - 1) \cup {e}
    BY <1>1 DEF Known
  <1>3. Min({e}) = e
    <2>1. \A x \in {e} : x = e /\ \A y \in {e} : x <= y
      OBVIOUS
    <2> QED BY <2>1 DEF Min
  <1>4. ASSUME Known(d, e - 1) # {}
        PROVE  /\ Min(Known(d, e - 1)) \in Nat \ {0}
               /\ d \in DOMAIN Experiments[e] => Min(Known(d, e)) = Min(Known(d, e - 1))
    <2>1. Known(d, e - 1) \subseteq 1 .. e - 1
      BY DEF Known
    <2>2. Known(d, e - 1) \subseteq Nat
      BY <2>1
    <2>3. PICK m \in Known(d, e - 1) : \A n \in Known(d, e - 1) : m <= n
      BY <1>4, <2>2, LeastOfNaturals
    <2>4. m \in Nat \ {0} /\ m < e
      BY <2>1, <2>3
    <2>5. Min(Known(d, e - 1)) = m
      <3>1. ASSUME NEW x \in Known(d, e - 1), \A y \in Known(d, e - 1) : x <= y PROVE x = m
        <4>1. x <= m /\ m <= x /\ x \in Nat
          BY <2>2, <2>3, <3>1
        <4> QED BY <2>4, <4>1
      <3> QED BY <2>3, <3>1 DEF Min
    <2>6. ASSUME d \in DOMAIN Experiments[e] PROVE Min(Known(d, e)) = m
      <3>1. m \in Known(d, e) /\ \A n \in Known(d, e) : m <= n
        BY <1>2, <2>3, <2>4, <2>6
      <3>2. ASSUME NEW x \in Known(d, e), \A y \in Known(d, e) : x <= y PROVE x = m
        <4>1. x <= m /\ m <= x /\ x \in Nat
          BY <1>2, <2>2, <2>6, <3>1, <3>2
        <4> QED BY <2>4, <4>1
      <3> QED BY <3>1, <3>2 DEF Min
    <2> QED BY <2>4, <2>5, <2>6
  <1> QED BY <1>2, <1>3, <1>4

(* insert: the first experiment that knows the device decides.              *)
LEMMA InsertAveraged ==
    ASSUME NEW average, NEW d, NEW e \in Nat \ {0}, AveragedAs(average, d, e - 1),
           d \in DOMAIN Experiments[e]
    PROVE  AveragedAs(Put(average, d, At(average, d, BlockAvgPktNum(Experiments[e][d]))), d, e)
  <1>1. PICK n : n = At(average, d, BlockAvgPktNum(Experiments[e][d]))
    OBVIOUS
  <1>2. PICK a : a = Put(average, d, n)
    OBVIOUS
  <1>3. d \in DOMAIN a /\ a[d] = n
    BY <1>2 DEF Put
  <1>4. Known(d, e) = Known(d, e - 1) \cup {e}
    BY KnownFacts
  <1>5. PICK m, v, w : /\ m = Min(Known(d, e)) /\ v = BlockAvgPktNum(Experiments[m][d])
                       /\ w = BlockAvgPktNum(Experiments[e][d])
    OBVIOUS
  <1>6. n = v \/ (n = 0 /\ m > 1)
    <2>1. CASE Known(d, e - 1) = {}
      <3>1. m = e
        BY <1>4, <1>5, <2>1, KnownFacts
      <3>2. CASE d \in DOMAIN average
        <4>1. n = 0 /\ e - 1 >= 1
          BY <1>1, <2>1, <3>2 DEF AveragedAs, At
        <4> QED BY <3>1, <4>1
      <3>3. CASE d \notin DOMAIN average
        <4>1. n = w
          BY <1>1, <1>5, <3>3 DEF At
        <4>2. v = w
          BY Zenon, <1>5, <3>1
        <4> QED BY Zenon, <4>1, <4>2
      <3> QED BY <3>2, <3>3
    <2>2. CASE Known(d, e - 1) # {}
      <3>1. m = Min(Known(d, e - 1))
        BY <1>4, <1>5, <2>2, KnownFacts
      <3>2. d \in DOMAIN average /\ n = average[d]
        BY <1>1, <2>2 DEF AveragedAs, At
      <3>3. n = BlockAvgPktNum(Experiments[m][d]) \/ (n = 0 /\ m > 1)
        BY <2>2, <3>1, <3>2 DEF AveragedAs
      <3> QED BY Zenon, <1>5, <3>3
    <2> QED BY <2>1, <2>2
  <1>7. a[d] = BlockAvgPktNum(Experiments[Min(Known(d, e))][d])
        \/ (a[d] = 0 /\ Min(Known(d, e)) > 1)
    BY Zenon, <1>3, <1>5, <1>6
  <1>8. AveragedAs(a, d, e)
    BY <1>3, <1>4, <1>7 DEF AveragedAs
  <1> QED BY <1>1, <1>2, <1>8

(* What an experiment without the device leaves.                            *)
LEMMA NotAveraged ==
    ASSUME NEW average, NEW d, NEW e \in Nat \ {0}, AveragedAs(average, d, e - 1),
           d \notin DOMAIN Experiments[e]
    PROVE  AveragedAs(average, d, e)
  <1>1. Known(d, e) = Known(d, e - 1)
    BY KnownFacts
  <1>2. e - 1 >= 1 => e >= 1
    OBVIOUS
  <1> QED BY <1>1, <1>2 DEF AveragedAs

-----------------------------------------------------------------------------
(* The steps of a task and the maps *)

(* The task of a thread, in parts, with what the maps hold of its device.   *)
LEMMA AtBegun ==
    ASSUME IInv, Trained, MapsOK, NEW t \in Threads, pool[t].at # "idle"
    PROVE  /\ Begun(pool[t], main.experiment)
           /\ main.experiment \in Nat \ {0} /\ main.experiment <= Len(Experiments)
           /\ pool[t].device \in DOMAIN Experiments[main.experiment]
           /\ pool[t].device \in Devices
           /\ pool[t] = [at |-> pool[t].at, device |-> pool[t].device, groups |-> pool[t].groups,
                         vec |-> pool[t].vec, kept |-> pool[t].kept]
           /\ main.pc # "construct"
  <1>1. /\ t \in Busy /\ TaskOK(pool[t]) /\ main.pc # "construct"
        /\ Trainset \in ToSet(Experiments) /\ pool[t].device \in DOMAIN Trainset
    BY AtTask
  <1>2. main.experiment \in Nat \ {0} /\ main.experiment <= Len(Experiments)
    BY <1>1 DEF IInv, MainOK, Trained, OnePlace
  <1>3. pool[t].device \in Devices
    BY <1>1 DEF Devices
  <1>4. Begun(pool[t], main.experiment)
    BY <1>1 DEF MapsOK
  <1> QED BY <1>1, <1>2, <1>3, <1>4 DEF TaskOK, Trainset

(* InsertAverage settles the average of its device.                         *)
LEMMA InsertAverageMaps ==
    ASSUME IInv, Trained, MapsOK, NEW t \in Threads, InsertAverage(t)
    PROVE  MapsOK'
  <1>1. pool[t].at = "average" /\ UNCHANGED <<main, queue, blockLevelDistribution>>
    BY DEF InsertAverage
  <1>2. PICK e \in Nat \ {0}, d \in Devices : e = main.experiment /\ d = pool[t].device
    BY <1>1, AtBegun
  <1>3. /\ Begun(pool[t], e) /\ d \in DOMAIN Experiments[e]
        /\ pool[t] = [at |-> pool[t].at, device |-> pool[t].device, groups |-> pool[t].groups,
                      vec |-> pool[t].vec, kept |-> pool[t].kept]
    BY <1>1, <1>2, AtBegun
  <1>4. PICK r : r = [pool[t] EXCEPT !.at = "levels"]
    OBVIOUS
  <1>5. r.at = "levels" /\ "at" \in DOMAIN r /\ r.device = d /\ r.groups = pool[t].groups
    BY <1>2, <1>3, <1>4
  <1>6. pool' = [pool EXCEPT ![t] = r]
    BY <1>4 DEF InsertAverage
  <1>7. /\ pool[t].groups = Experiments[e][d] /\ Averaged(d, e - 1)
        /\ Pushed(d, pool[t].groups, e)
    BY <1>1, <1>2, <1>3 DEF Begun
  <1>8. addrAvgPktMap' =
           Put(addrAvgPktMap, d, At(addrAvgPktMap, d, BlockAvgPktNum(Experiments[e][d])))
    <2>1. addrAvgPktMap' =
             Put(addrAvgPktMap, d, At(addrAvgPktMap, d, BlockAvgPktNum(pool[t].groups)))
      BY <1>2 DEF InsertAverage
    <2>2. BlockAvgPktNum(pool[t].groups) = BlockAvgPktNum(Experiments[e][d])
      BY <1>7
    <2> QED BY <2>1, <2>2
  <1>9. Averaged(d, e)'
    <2>1. AveragedAs(addrAvgPktMap', d, e)
      BY <1>2, <1>3, <1>7, <1>8, InsertAveraged DEF Averaged
    <2> QED BY <2>1 DEF Averaged
  <1>10. \A x : Levels(x)' = Levels(x)
    BY <1>1 DEF Levels
  <1>11. ASSUME NEW x, NEW y, x # d, Averaged(x, y) PROVE Averaged(x, y)'
    <2>1. x \in DOMAIN addrAvgPktMap' <=> x \in DOMAIN addrAvgPktMap
      BY <1>8, <1>11 DEF Put
    <2>2. x \in DOMAIN addrAvgPktMap => addrAvgPktMap'[x] = addrAvgPktMap[x]
      BY <1>8, <1>11 DEF Put
    <2>3. AveragedAs(addrAvgPktMap', x, y)
      BY <1>11, <2>1, <2>2 DEF Averaged, AveragedAs
    <2> QED BY <2>3 DEF Averaged
  <1>12. Begun(r, main.experiment)'
    <2>1. Pushed(r.device, r.groups, e)'
      BY <1>5, <1>7, <1>10 DEF Pushed
    <2>2. Averaged(r.device, e)'
      BY <1>5, <1>9 DEF Averaged
    <2>3. main'.experiment = e
      BY <1>1, <1>2
    <2>4. Begun(r, e)'
      BY <1>5, <2>1, <2>2 DEF Begun
    <2> QED BY <2>3, <2>4 DEF Begun, Pushed, Averaged
  <1>13. DOMAIN blockLevelDistribution' \subseteq Devices /\ DOMAIN addrAvgPktMap' \subseteq Devices
    BY <1>1, <1>2, <1>8 DEF MapsOK, Put
  <1>14. pool[t].at # "idle" /\ r.at # "idle" /\ r.device = pool[t].device
    BY <1>1, <1>2, <1>5
  <1> QED BY <1>1, <1>5, <1>6, <1>10, <1>11, <1>12, <1>13, <1>14, MapsStep

(* PushLevel merges the next group of its device.                           *)
LEMMA PushLevelMaps ==
    ASSUME IInv, Trained, MapsOK, NEW t \in Threads, PushLevel(t)
    PROVE  MapsOK'
  <1>1. /\ pool[t].at = "levels" /\ pool[t].groups # <<>>
        /\ UNCHANGED <<main, queue, addrAvgPktMap>>
    BY DEF PushLevel
  <1>2. PICK e \in Nat \ {0}, d \in Devices : e = main.experiment /\ d = pool[t].device
    BY <1>1, AtBegun
  <1>3. /\ Begun(pool[t], e)
        /\ pool[t] = [at |-> pool[t].at, device |-> pool[t].device, groups |-> pool[t].groups,
                      vec |-> pool[t].vec, kept |-> pool[t].kept]
    BY <1>1, <1>2, AtBegun
  <1>4. PICK r : r = [pool[t] EXCEPT !.groups = Tail(pool[t].groups)]
    OBVIOUS
  <1>5. r.at = "levels" /\ "at" \in DOMAIN r /\ r.device = d /\ r.groups = Tail(pool[t].groups)
    BY <1>1, <1>2, <1>3, <1>4
  <1>6. pool' = [pool EXCEPT ![t] = r]
    BY <1>4 DEF PushLevel
  <1>7. Averaged(d, e) /\ Pushed(d, pool[t].groups, e)
    BY <1>1, <1>2, <1>3 DEF Begun
  <1>8. blockLevelDistribution' =
           Put(blockLevelDistribution, d, Append(Levels(d), MergedBurst[Head(pool[t].groups)]))
    BY <1>2 DEF PushLevel, Levels
  <1>9. Levels(d)' = Append(Levels(d), MergedBurst[Head(pool[t].groups)])
    BY <1>8 DEF Levels, Put, At
  <1>10. \A x : x # d => Levels(x)' = Levels(x)
    BY <1>8 DEF Levels, Put, At
  <1>11. \A x, y : Averaged(x, y) => Averaged(x, y)'
    BY <1>1 DEF Averaged
  <1>12. Begun(r, main.experiment)'
    <2>1. PushedAs(Levels(d), pool[t].groups, GroupsUpTo(e, d))
      BY <1>7 DEF Pushed
    <2>2. PushedAs(Append(Levels(d), MergedBurst[Head(pool[t].groups)]), Tail(pool[t].groups),
                   GroupsUpTo(e, d))
      BY <1>1, <2>1, PushOne
    <2>3. Pushed(r.device, r.groups, e)'
      BY <1>5, <1>9, <2>2 DEF Pushed
    <2>4. Averaged(r.device, e)'
      BY <1>5, <1>7, <1>11 DEF Averaged
    <2>5. main'.experiment = e
      BY <1>1, <1>2
    <2>6. Begun(r, e)'
      BY <1>5, <2>3, <2>4 DEF Begun
    <2> QED BY <2>5, <2>6 DEF Begun, Pushed, Averaged
  <1>13. DOMAIN blockLevelDistribution' \subseteq Devices /\ DOMAIN addrAvgPktMap' \subseteq Devices
    BY <1>1, <1>2, <1>8 DEF MapsOK, Put
  <1>14. pool[t].at # "idle" /\ r.at # "idle" /\ r.device = pool[t].device
    BY <1>1, <1>2, <1>5
  <1> QED BY <1>1, <1>5, <1>6, <1>10, <1>11, <1>12, <1>13, <1>14, MapsStep

(* The steps of a task that leave the maps alone.                           *)
LEMMA MergeStrictMaps ==
    ASSUME IInv, Trained, MapsOK, NEW t \in Threads, MergeStrict(t)
    PROVE  MapsOK'
  <1>1. /\ pool[t].at = "levels" /\ pool[t].groups = <<>>
        /\ UNCHANGED <<main, queue, addrAvgPktMap, blockLevelDistribution>>
    BY DEF MergeStrict
  <1>2. pool[t] = [at |-> pool[t].at, device |-> pool[t].device, groups |-> pool[t].groups,
                   vec |-> pool[t].vec, kept |-> pool[t].kept]
    BY <1>1, AtBegun
  <1>3. PICK r : r = [[pool[t] EXCEPT !.at = "identical"]
                         EXCEPT !.vec = MergeStrictHash[Trainset[pool[t].device]]]
    OBVIOUS
  <1>4. pool' = [pool EXCEPT ![t] = r]
    BY <1>3 DEF MergeStrict
  <1>5. /\ r.at = "identical" /\ "at" \in DOMAIN r /\ r.device = pool[t].device
        /\ r.groups = pool[t].groups
    BY <1>2, <1>3
  <1> QED BY <1>1, <1>4, <1>5, MapsStay

(* A task that merges, files or counts has no groups left.                  *)
LEMMA NoGroups ==
    ASSUME IInv, Trained, MapsOK, NEW t \in Threads,
           pool[t].at \in {"identical", "file", "done"}
    PROVE  /\ pool[t].groups = <<>>
           /\ pool[t] = [at |-> pool[t].at, device |-> pool[t].device, groups |-> pool[t].groups,
                         vec |-> pool[t].vec, kept |-> pool[t].kept]
  <1>1. pool[t].at # "idle" /\ pool[t].at \notin {"average", "levels"}
    OBVIOUS
  <1> QED BY <1>1, AtBegun DEF Begun

(* Merging and filing leave the maps alone.                                 *)
LEMMA MergeOneMaps ==
    ASSUME IInv, Trained, MapsOK, NEW t \in Threads, MergeOne(t)
    PROVE  MapsOK'
  <1>1. /\ pool[t].at = "identical"
        /\ UNCHANGED <<main, queue, addrAvgPktMap, blockLevelDistribution>>
    BY DEF MergeOne
  <1>2. /\ pool[t].groups = <<>>
        /\ pool[t] = [at |-> pool[t].at, device |-> pool[t].device, groups |-> pool[t].groups,
                      vec |-> pool[t].vec, kept |-> pool[t].kept]
    BY <1>1, NoGroups
  <1>3. PICK b, kept : pool' = [pool EXCEPT ![t].kept = kept, ![t].vec = Without(@, b)]
    BY DEF MergeOne
  <1>4. PICK r : r = [[pool[t] EXCEPT !.kept = kept] EXCEPT !.vec = Without(pool[t].vec, b)]
    OBVIOUS
  <1>5. pool' = [pool EXCEPT ![t] = r]
    BY <1>3, <1>4
  <1>6. /\ r.at = "identical" /\ "at" \in DOMAIN r /\ r.device = pool[t].device
        /\ r.groups = pool[t].groups
    BY <1>1, <1>2, <1>4
  <1> QED BY <1>1, <1>2, <1>5, <1>6, MapsStay

(* So does the end of the merging.                                          *)
LEMMA EndMergeMaps ==
    ASSUME IInv, Trained, MapsOK, NEW t \in Threads, EndMerge(t)
    PROVE  MapsOK'
  <1>1. /\ pool[t].at = "identical"
        /\ UNCHANGED <<main, queue, addrAvgPktMap, blockLevelDistribution>>
    BY DEF EndMerge
  <1>2. /\ pool[t].groups = <<>>
        /\ pool[t] = [at |-> pool[t].at, device |-> pool[t].device, groups |-> pool[t].groups,
                      vec |-> pool[t].vec, kept |-> pool[t].kept]
    BY <1>1, NoGroups
  <1>3. PICK r : r = [[pool[t] EXCEPT !.at = "file"] EXCEPT !.vec = pool[t].kept]
    OBVIOUS
  <1>4. pool' = [pool EXCEPT ![t] = r]
    BY <1>3 DEF EndMerge
  <1>5. /\ r.at = "file" /\ "at" \in DOMAIN r /\ r.device = pool[t].device
        /\ r.groups = pool[t].groups
    BY <1>2, <1>3
  <1> QED BY <1>1, <1>2, <1>4, <1>5, MapsStay

(* So does filing a burst.                                                  *)
LEMMA FileMaps ==
    ASSUME IInv, Trained, MapsOK, NEW t \in Threads, File(t)
    PROVE  MapsOK'
  <1>1. /\ pool[t].at = "file"
        /\ UNCHANGED <<main, queue, addrAvgPktMap, blockLevelDistribution>>
    BY DEF File
  <1>2. /\ pool[t].groups = <<>>
        /\ pool[t] = [at |-> pool[t].at, device |-> pool[t].device, groups |-> pool[t].groups,
                      vec |-> pool[t].vec, kept |-> pool[t].kept]
    BY <1>1, NoGroups
  <1>3. PICK b : pool' = [pool EXCEPT ![t].vec = Without(@, b)]
    BY DEF File
  <1>4. PICK r : r = [pool[t] EXCEPT !.vec = Without(pool[t].vec, b)]
    OBVIOUS
  <1>5. pool' = [pool EXCEPT ![t] = r]
    BY <1>3, <1>4
  <1>6. /\ r.at = "file" /\ "at" \in DOMAIN r /\ r.device = pool[t].device
        /\ r.groups = pool[t].groups
    BY <1>1, <1>2, <1>4
  <1> QED BY <1>1, <1>2, <1>5, <1>6, MapsStay

(* So does writing burstStats, or what lies beyond it.                      *)
LEMMA StatsMaps ==
    ASSUME IInv, Trained, MapsOK, NEW t \in Threads, Stats(t)
    PROVE  MapsOK'
  <1>1. /\ pool[t].at = "file" /\ UNCHANGED <<queue, addrAvgPktMap, blockLevelDistribution>>
        /\ main' = main \/ main' = [main EXCEPT !.pc = "crashed"]
    BY DEF Stats
  <1>2. /\ pool[t].groups = <<>>
        /\ pool[t] = [at |-> pool[t].at, device |-> pool[t].device, groups |-> pool[t].groups,
                      vec |-> pool[t].vec, kept |-> pool[t].kept]
    BY <1>1, NoGroups
  <1>3. PICK r : r = [pool[t] EXCEPT !.at = "done"]
    OBVIOUS
  <1>4. pool' = [pool EXCEPT ![t] = r]
    BY <1>3 DEF Stats
  <1>5. /\ r.at = "done" /\ "at" \in DOMAIN r /\ r.device = pool[t].device
        /\ r.groups = pool[t].groups
    BY <1>2, <1>3
  <1> QED BY <1>1, <1>2, <1>4, <1>5, MapsStay

(* What a device is trained on next is all still to be pushed.              *)
LEMMA PushedNext ==
    ASSUME NEW d, NEW e \in 1 .. Len(Experiments), Pushed(d, <<>>, e - 1)
    PROVE  Pushed(d, Adds(e, d), e)
  <1>1. PushedAs(Levels(d), <<>>, GroupsUpTo(e - 1, d))
    BY DEF Pushed
  <1>2. Adds(e, d) \in Seq(Groups)
    BY AddsFacts
  <1>3. GroupsUpTo(e, d) = GroupsUpTo(e - 1, d) \o Adds(e, d)
    BY GroupsUpToFacts
  <1>4. PushedAs(Levels(d), Adds(e, d), GroupsUpTo(e - 1, d) \o Adds(e, d))
    BY <1>1, <1>2, PushMore
  <1> QED BY <1>3, <1>4 DEF Pushed

(* The device at the head of the queue begins: none of its groups is        *)
(* pushed yet.                                                              *)
LEMMA DispatchMaps ==
    ASSUME IInv, Trained, MapsOK, NEW t \in Threads, Dispatch(t)
    PROVE  MapsOK'
  <1>1. /\ pool[t] = Idle /\ queue # <<>> /\ queue' = Tail(queue)
        /\ UNCHANGED <<main, addrAvgPktMap, blockLevelDistribution>>
    BY DEF Dispatch, IInv, PoolOK
  <1>2. PICK d, e : d = Head(queue) /\ e = main.experiment
    OBVIOUS
  <1>3. PICK r : r = [at |-> "average", device |-> d, groups |-> Trainset[d],
                      vec |-> EmptyMap, kept |-> EmptyMap]
    OBVIOUS
  <1>4. \A u \in Threads : pool'[u] = IF u = t THEN r ELSE pool[u]
    BY <1>2, <1>3 DEF Dispatch, IInv, PoolOK
  <1>5. t \notin Busy /\ Busy' = Busy \cup {t}
    <2>1. r # Idle
      <3>1. r.at # "idle" /\ Idle.at = "idle"
        BY <1>3 DEF Idle
      <3> QED BY <3>1
    <2> QED BY <1>1, <1>4, <2>1 DEF Busy
  <1>6. queue \in Seq(Devices) /\ IsInjective(queue) /\ main.pc # "construct"
    BY <1>1 DEF IInv, Trained, OnePlace, Counted, AllDone
  <1>7. d \notin ToSet(Tail(queue)) /\ ToSet(queue) = {d} \cup ToSet(Tail(queue))
    BY <1>1, <1>2, <1>6, TailNew
  <1>8. /\ e \in 1 .. Len(Experiments) /\ d \in DOMAIN Experiments[e]
        /\ Waiting' \subseteq Waiting /\ Waiting = Waiting' \cup {d} /\ d \in Waiting
    BY <1>1, <1>2, <1>6, <1>7, FiniteAssumption DEF IInv, MainOK, Trained, OnePlace, Waiting, Trainset
  <1>9. \A u \in Busy : pool'[u] = pool[u]
    BY <1>4, <1>5 DEF Busy
  <1>10. \A x, rest, y : Pushed(x, rest, y)' = Pushed(x, rest, y) /\ Averaged(x, y)' = Averaged(x, y)
    BY <1>1 DEF Pushed, Levels, Averaged
  <1>11. \A x, y : Through(x, y)' = Through(x, y)
    BY <1>10 DEF Through
  <1>12. \A x \in Waiting' : Through(x, e - 1)'
    BY <1>2, <1>6, <1>8, <1>11 DEF MapsOK
  <1>13. Begun(r, e)
    <2>1. Pushed(d, <<>>, e - 1) /\ Averaged(d, e - 1)
      BY <1>2, <1>6, <1>8 DEF MapsOK, Through
    <2>2. Adds(e, d) = Trainset[d] /\ Trainset[d] = Experiments[e][d]
      BY <1>2, <1>8 DEF Adds, At, Trainset
    <2>3. Pushed(d, Trainset[d], e)
      BY <1>8, <2>1, <2>2, PushedNext
    <2> QED BY <1>3, <2>1, <2>2, <2>3 DEF Begun
  <1>14. ASSUME NEW u \in Busy' PROVE Begun(pool[u], e)'
    <2>1. CASE u = t
      <3>1. pool'[u] = r
        BY <1>4, <2>1 DEF Busy
      <3> QED BY <1>10, <1>13, <3>1 DEF Begun, Pushed, Averaged
    <2>2. CASE u # t
      <3>1. u \in Busy /\ pool'[u] = pool[u]
        BY <1>5, <1>9, <2>2
      <3>2. Begun(pool[u], e)
        BY <1>2, <1>6, <3>1 DEF MapsOK
      <3> QED BY <1>1, <3>1, <3>2 DEF Begun, Pushed, Levels, Averaged
    <2> QED BY <2>1, <2>2
  <1>15. ASSUME NEW x \in Devices
         PROVE  x \in Waiting' \/ (\E u \in Busy' : pool'[u].device = x) \/ Through(x, e)'
    <2>1. CASE x = d
      <3>1. t \in Busy' /\ pool'[t].device = d
        BY <1>3, <1>4, <1>5
      <3> QED BY <2>1, <3>1
    <2>2. CASE x # d
      <3>1. x \in Waiting \/ (\E u \in Busy : pool[u].device = x) \/ Through(x, e)
        BY <1>2, <1>6 DEF MapsOK
      <3> QED BY <1>5, <1>8, <1>9, <1>11, <2>2, <3>1
    <2> QED BY <2>1, <2>2
  <1>16. /\ DOMAIN blockLevelDistribution' \subseteq Devices /\ DOMAIN addrAvgPktMap' \subseteq Devices
         /\ main'.experiment <= Len(Experiments) + 1 /\ main'.experiment = e /\ main'.pc # "construct"
    BY <1>1, <1>2, <1>6 DEF MapsOK
  <1> QED BY <1>12, <1>14, <1>15, <1>16 DEF MapsOK

(* A task that ends has pushed all groups of its device.                    *)
LEMMA TaskDoneMaps ==
    ASSUME IInv, Trained, MapsOK, NEW t \in Threads, TaskDone(t)
    PROVE  MapsOK'
  <1>1. /\ pool[t].at = "done"
        /\ UNCHANGED <<main, queue, addrAvgPktMap, blockLevelDistribution>>
    BY DEF TaskDone
  <1>2. PICK d, e : d = pool[t].device /\ e = main.experiment
    OBVIOUS
  <1>3. t \in Busy /\ main.pc # "construct" /\ Begun(pool[t], e)
    BY <1>1, <1>2, AtBegun, AtTask
  <1>4. \A u \in Threads : pool'[u] = IF u = t THEN Idle ELSE pool[u]
    BY DEF TaskDone, IInv, PoolOK
  <1>5. Busy' = Busy \ {t}
    BY <1>3, <1>4 DEF Busy
  <1>6. \A u \in Busy' : u \in Busy /\ pool'[u] = pool[u]
    BY <1>4, <1>5 DEF Busy
  <1>7. \A x, y : Through(x, y)' = Through(x, y)
    BY <1>1 DEF Through, Pushed, Levels, Averaged
  <1>8. Waiting' = Waiting
    BY <1>1 DEF Waiting
  <1>9. Through(d, e)
    <2>1. pool[t].groups = <<>> /\ Averaged(d, e) /\ Pushed(d, pool[t].groups, e)
      BY <1>1, <1>2, <1>3 DEF Begun
    <2> QED BY <2>1 DEF Through
  <1>10. ASSUME NEW u \in Busy' PROVE Begun(pool[u], e)'
    <2>1. Begun(pool[u], e) /\ pool'[u] = pool[u]
      BY <1>2, <1>3, <1>6 DEF MapsOK
    <2> QED BY <1>1, <2>1 DEF Begun, Pushed, Levels, Averaged
  <1>11. ASSUME NEW x \in Devices
         PROVE  x \in Waiting' \/ (\E u \in Busy' : pool'[u].device = x) \/ Through(x, e)'
    <2>1. CASE x = d
      BY <1>7, <1>9, <2>1
    <2>2. CASE x # d
      <3>1. x \in Waiting \/ (\E u \in Busy : pool[u].device = x) \/ Through(x, e)
        BY <1>2, <1>3 DEF MapsOK
      <3>2. CASE \E u \in Busy : pool[u].device = x
        BY <1>2, <1>5, <1>6, <2>2, <3>2
      <3> QED BY <1>7, <1>8, <3>1, <3>2
    <2> QED BY <2>1, <2>2
  <1>12. \A x \in Waiting' : Through(x, e - 1)'
    BY <1>2, <1>3, <1>7, <1>8 DEF MapsOK
  <1>13. /\ DOMAIN blockLevelDistribution' \subseteq Devices /\ DOMAIN addrAvgPktMap' \subseteq Devices
         /\ main'.experiment <= Len(Experiments) + 1 /\ main'.experiment = e /\ main'.pc # "construct"
    BY <1>1, <1>2, <1>3 DEF MapsOK
  <1> QED BY <1>10, <1>11, <1>12, <1>13 DEF MapsOK

-----------------------------------------------------------------------------
(* The main thread and the maps *)

(* Nothing is pushed or averaged before the first experiment.               *)
LEMMA InitMaps == Init => MapsOK
  <1> SUFFICES ASSUME Init PROVE MapsOK
    OBVIOUS
  <1>1. /\ main.pc = "construct" /\ main.experiment = 1
        /\ addrAvgPktMap = EmptyMap /\ blockLevelDistribution = EmptyMap
    BY DEF Init
  <1>2. DOMAIN addrAvgPktMap = {} /\ DOMAIN blockLevelDistribution = {}
    BY <1>1 DEF EmptyMap
  <1>3. ASSUME NEW d \in Devices PROVE Through(d, 0)
    <2>1. GroupsUpTo(0, d) = <<>>
      BY GroupsUpToFacts
    <2>2. Levels(d) = <<>>
      BY <1>2 DEF Levels, At
    <2>3. /\ <<>> \in Seq(BurstType) /\ <<>> \in Seq(Groups) /\ Len(<<>>) = 0
          /\ \A i \in 1 .. 0 : FALSE
      OBVIOUS
    <2>4. PushedAs(<<>>, <<>>, <<>>)
      BY <2>3 DEF PushedAs
    <2>5. Known(d, 0) = {}
      BY DEF Known
    <2>6. Averaged(d, 0)
      BY <1>2, <2>5 DEF Averaged, AveragedAs
    <2> QED BY <2>1, <2>2, <2>4, <2>6 DEF Through, Pushed
  <1>4. main.experiment - 1 = 0 /\ main.experiment <= Len(Experiments) + 1
    BY <1>1, FiniteAssumption
  <1> QED BY <1>1, <1>2, <1>3, <1>4 DEF MapsOK

(* A device that an experiment lacks is done with it from the start.        *)
LEMMA BeginTrainMaps ==
    ASSUME IInv, Trained, MapsOK, BeginTrain
    PROVE  MapsOK'
  <1>1. /\ main.pc = "construct" /\ main.experiment <= Len(Experiments)
        /\ UNCHANGED <<queue, pool, addrAvgPktMap, blockLevelDistribution>>
        /\ main' = [main EXCEPT !.pc = "start", !.devices = DOMAIN Trainset]
    BY DEF BeginTrain
  <1>2. PICK e \in 1 .. Len(Experiments) : e = main.experiment
    BY <1>1, FiniteAssumption DEF IInv, MainOK
  <1>3. queue = <<>> /\ Busy = {}
    BY <1>1 DEF IInv, Counted, AllDone
  <1>4. main'.pc = "start" /\ main'.devices = DOMAIN Trainset /\ main'.experiment = e
    BY <1>1, <1>2 DEF IInv, MainOK
  <1>5. Busy' = {} /\ Waiting' = DOMAIN Experiments[e]
    BY <1>1, <1>2, <1>3, <1>4 DEF Busy, Waiting, Trainset, ToSet
  <1>6. \A x, y : Through(x, y)' = Through(x, y)
    BY <1>1 DEF Through, Pushed, Levels, Averaged
  <1>7. \A x \in Devices : Through(x, e - 1)
    BY <1>1, <1>2 DEF MapsOK
  <1>8. DOMAIN Experiments[e] \subseteq Devices /\ e \in Nat \ {0}
    BY <1>1, <1>2, TrainsetFinite, FiniteAssumption DEF Trainset
  <1>9. ASSUME NEW x \in Devices, x \notin DOMAIN Experiments[e] PROVE Through(x, e)
    <2>1. Pushed(x, <<>>, e - 1) /\ Averaged(x, e - 1)
      BY <1>7 DEF Through
    <2>2. Adds(e, x) = <<>>
      BY <1>9 DEF Adds, At
    <2>3. Pushed(x, <<>>, e)
      BY <2>1, <2>2, PushedNext
    <2>4. Averaged(x, e)
      BY <1>8, <1>9, <2>1, NotAveraged DEF Averaged
    <2> QED BY <2>3, <2>4 DEF Through
  <1>10. \A x \in Waiting' : Through(x, e - 1)'
    BY <1>5, <1>6, <1>7, <1>8
  <1>11. \A x \in Devices : x \in Waiting' \/ Through(x, e)'
    BY <1>5, <1>6, <1>9
  <1>12. /\ DOMAIN blockLevelDistribution' \subseteq Devices /\ DOMAIN addrAvgPktMap' \subseteq Devices
         /\ main'.experiment <= Len(Experiments) + 1 /\ main'.pc # "construct"
    BY <1>1, <1>2, <1>4 DEF MapsOK
  <1> QED BY <1>4, <1>5, <1>10, <1>11, <1>12 DEF MapsOK

(* The queue takes over what the experiment has.                            *)
LEMMA StartTaskMaps ==
    ASSUME IInv, Trained, MapsOK, StartTask
    PROVE  MapsOK'
  <1>1. PICK d \in main.devices :
           queue' = Append(queue, d) /\ main' = [main EXCEPT !.devices = main.devices \ {d}]
    BY DEF StartTask
  <1>2. main.pc = "start" /\ UNCHANGED <<pool, addrAvgPktMap, blockLevelDistribution>>
    BY DEF StartTask
  <1>3. /\ main'.pc = "start" /\ main'.devices = main.devices \ {d}
        /\ main'.experiment = main.experiment
    BY <1>1, <1>2 DEF IInv, MainOK
  <1>4. queue \in Seq(Devices) /\ d \in Devices /\ IsInjective(queue) /\ d \notin ToSet(queue)
    BY <1>1 DEF IInv, MainOK, Trained, OnePlace
  <1>5. ToSet(queue') = ToSet(queue) \cup {d}
    BY <1>1, <1>4, AppendNew
  <1>6. Waiting' = Waiting /\ Busy' = Busy
    BY <1>1, <1>2, <1>3, <1>5 DEF Waiting, Busy
  <1>7. \A x, y : Through(x, y)' = Through(x, y)
    BY <1>2 DEF Through, Pushed, Levels, Averaged
  <1>8. ASSUME NEW u \in Busy PROVE Begun(pool[u], main.experiment)'
    BY <1>2, <1>3 DEF MapsOK, Begun, Pushed, Levels, Averaged
  <1> QED BY <1>2, <1>3, <1>6, <1>7, <1>8 DEF MapsOK

(* Nothing changes in the maps when the barrier opens.                      *)
LEMMA WaitMaps ==
    ASSUME IInv, Trained, MapsOK, Wait
    PROVE  MapsOK'
  <1>1. /\ main.pc = "start" /\ UNCHANGED <<queue, pool, addrAvgPktMap, blockLevelDistribution>>
        /\ main' = [main EXCEPT !.pc = "trained"]
    BY DEF Wait
  <1>2. /\ main'.pc = "trained" /\ main'.devices = main.devices
        /\ main'.experiment = main.experiment
    BY <1>1 DEF IInv, MainOK
  <1>3. Waiting' = Waiting /\ Busy' = Busy
    BY <1>1, <1>2 DEF Waiting, Busy
  <1>4. \A x, y : Through(x, y)' = Through(x, y)
    BY <1>1 DEF Through, Pushed, Levels, Averaged
  <1>5. ASSUME NEW u \in Busy PROVE Begun(pool[u], main.experiment)'
    BY <1>1, <1>2 DEF MapsOK, Begun, Pushed, Levels, Averaged
  <1> QED BY <1>1, <1>2, <1>3, <1>4, <1>5 DEF MapsOK

(* The maps stay for the next experiment; an id asked for without training  *)
(* gets a 0.                                                                *)
LEMMA NextExperimentMaps ==
    ASSUME IInv, Trained, MapsOK, NextExperiment
    PROVE  MapsOK'
  <1>1. /\ main.pc = "trained" /\ UNCHANGED <<queue, pool, blockLevelDistribution>>
        /\ main' = [main EXCEPT !.pc = "construct", !.experiment = main.experiment + 1]
    BY DEF NextExperiment
  <1>2. PICK asked \in SUBSET (Devices \ DOMAIN addrAvgPktMap) :
           addrAvgPktMap' = [d \in DOMAIN addrAvgPktMap \cup asked |-> At(addrAvgPktMap, d, 0)]
    BY DEF NextExperiment
  <1>3. PICK e \in Nat \ {0} : e = main.experiment /\ e <= Len(Experiments)
    BY <1>1 DEF IInv, MainOK, Trained, OnePlace
  <1>4. queue = <<>> /\ Busy = {} /\ main.devices = {}
    BY <1>1 DEF IInv, Counted, AllDone
  <1>5. Waiting = {}
    BY <1>4 DEF Waiting, ToSet
  <1>6. main'.pc = "construct" /\ main'.experiment = e + 1
    BY <1>1, <1>3 DEF IInv, MainOK
  <1>7. ASSUME NEW d \in Devices PROVE Through(d, e)'
    <2>1. Pushed(d, <<>>, e) /\ Averaged(d, e)
      BY <1>1, <1>3, <1>4, <1>5 DEF MapsOK, Through
    <2>2. CASE d \in DOMAIN addrAvgPktMap
      <3>1. d \in DOMAIN addrAvgPktMap' /\ addrAvgPktMap'[d] = addrAvgPktMap[d]
        BY <1>2, <2>2 DEF At
      <3> QED BY <1>1, <2>1, <2>2, <3>1 DEF Through, Pushed, Levels, Averaged, AveragedAs
    <2>3. CASE d \notin DOMAIN addrAvgPktMap
      <3>1. Known(d, e) = {}
        BY <2>1, <2>3 DEF Averaged, AveragedAs
      <3>2. d \in DOMAIN addrAvgPktMap' => addrAvgPktMap'[d] = 0
        BY <1>2, <2>3 DEF At
      <3>3. e >= 1
        BY <1>3
      <3> QED BY <1>1, <2>1, <3>1, <3>2, <3>3 DEF Through, Pushed, Levels, Averaged, AveragedAs
    <2> QED BY <2>2, <2>3
  <1>8. DOMAIN blockLevelDistribution' \subseteq Devices /\ DOMAIN addrAvgPktMap' \subseteq Devices
    BY <1>1, <1>2 DEF MapsOK
  <1>9. main'.experiment - 1 = e /\ main'.experiment <= Len(Experiments) + 1
    BY <1>3, <1>6, FiniteAssumption
  <1> QED BY <1>6, <1>7, <1>8, <1>9 DEF MapsOK

(* Every step keeps MapsOK.                                                 *)
LEMMA NextMaps ==
    ASSUME IInv, Trained, MapsOK, [Next]_vars
    PROVE  MapsOK'
  <1>1. CASE Main
    BY <1>1, BeginTrainMaps, StartTaskMaps, WaitMaps, NextExperimentMaps DEF Main
  <1>2. ASSUME NEW t \in Threads, Worker(t) PROVE MapsOK'
    BY <1>2, DispatchMaps, InsertAverageMaps, PushLevelMaps, MergeStrictMaps, MergeOneMaps,
       EndMergeMaps, FileMaps, StatsMaps, TaskDoneMaps DEF Worker
  <1>3. CASE UNCHANGED vars
    <2>1. UNCHANGED <<main, queue, pool, addrAvgPktMap, blockLevelDistribution>>
      BY <1>3 DEF vars
    <2>2. Waiting' = Waiting /\ Busy' = Busy
      BY <2>1 DEF Waiting, Busy
    <2>3. \A x, y : Through(x, y)' = Through(x, y)
      BY <2>1 DEF Through, Pushed, Levels, Averaged
    <2>4. \A u \in Busy : Begun(pool[u], main.experiment)' = Begun(pool[u], main.experiment)
      BY <2>1 DEF Begun, Pushed, Levels, Averaged
    <2> QED BY <2>1, <2>2, <2>3, <2>4 DEF MapsOK
  <1> QED BY <1>1, <1>2, <1>3 DEF Next, Terminating

(* At every moment the static maps hold of a device what its experiments    *)
(* and its task have put there so far, in order.                            *)
THEOREM MapsCorrect == Spec => []MapsOK
  <1>1. IInv /\ Trained /\ MapsOK /\ [Next]_vars => MapsOK'
    BY NextMaps
  <1> QED BY <1>1, InitMaps, TrainedCorrect, Invariance, PTL DEF Spec

(* What later predictions find in the maps that outlive an experiment:      *)
(* every group so far, merged, in order and exact in its packets for each   *)
(* signature; the median of the first experiment that knew the device, or   *)
(* the 0 of a still earlier question.                                       *)
THEOREM StaticMapsKeepCorrect == Spec => []StaticMapsKeep
  <1>1. ASSUME IInv, Trained, MapsOK PROVE StaticMapsKeep
    <2> SUFFICES ASSUME main.pc = "trained", NEW d \in Devices
                 PROVE  LET groups == GroupsUpTo(main.experiment, d)
                            merged == At(blockLevelDistribution, d, <<>>)
                            known == {e \in 1 .. main.experiment : d \in DOMAIN Experiments[e]}
                        IN  /\ Len(merged) = Len(groups)
                            /\ \A i \in DOMAIN groups : \A sig \in Sig :
                                  CountOf(sig, merged[i])
                                    = Total([j \in DOMAIN groups[i] |-> CountOf(sig, groups[i][j])])
                            /\ IF known = {} THEN At(addrAvgPktMap, d, 0) = 0
                               ELSE /\ d \in DOMAIN addrAvgPktMap
                                    /\ \/ addrAvgPktMap[d] = BlockAvgPktNum(Experiments[Min(known)][d])
                                       \/ addrAvgPktMap[d] = 0 /\ Min(known) > 1
      BY DEF StaticMapsKeep
    <2>1. PICK e : e = main.experiment
      OBVIOUS
    <2>2. Through(d, e)
      <3>1. main.devices = {} /\ queue = <<>> /\ Busy = {}
        BY <1>1 DEF IInv, Counted, AllDone
      <3>2. Waiting = {}
        BY <3>1 DEF Waiting, ToSet
      <3> QED BY <1>1, <2>1, <3>1, <3>2 DEF MapsOK
    <2>3. PICK groups, merged : /\ groups = GroupsUpTo(e, d)
                                /\ merged = At(blockLevelDistribution, d, <<>>)
      OBVIOUS
    <2>4. /\ merged \in Seq(BurstType) /\ groups \in Seq(Groups) /\ Len(merged) = Len(groups)
          /\ \A i \in 1 .. Len(merged) : merged[i] = MergedBurst[groups[i]]
      <3>1. PushedAs(merged, <<>>, groups)
        BY <2>2, <2>3 DEF Through, Pushed, Levels
      <3>2. Len(merged) + Len(<<>>) = Len(groups) /\ merged \in Seq(BurstType)
        BY <3>1 DEF PushedAs
      <3>3. Len(merged) + 0 = Len(merged) /\ Len(<<>>) = 0
        BY <3>2
      <3> QED BY <3>1, <3>2, <3>3 DEF PushedAs
    <2>5. ASSUME NEW i \in DOMAIN groups, NEW sig \in Sig
          PROVE  CountOf(sig, merged[i])
                   = Total([j \in DOMAIN groups[i] |-> CountOf(sig, groups[i][j])])
      <3>1. groups[i] \in Groups /\ merged[i] = MergedBurst[groups[i]]
        BY <2>4
      <3>2. CountOf(sig, MergedBurst[groups[i]]) = GroupCount(sig, groups[i])
        BY <3>1, GroupsAre, MergedBurstCounts
      <3> QED BY <3>1, <3>2 DEF GroupCount
    <2>6. AveragedAs(addrAvgPktMap, d, e)
      BY <2>2 DEF Through, Averaged
    <2>7. CASE Known(d, e) = {}
      <3>1. At(addrAvgPktMap, d, 0) = 0
        BY <2>6, <2>7 DEF AveragedAs, At
      <3> QED BY <2>1, <2>3, <2>4, <2>5, <2>7, <3>1 DEF Known
    <2>8. CASE Known(d, e) # {}
      <3>1. /\ d \in DOMAIN addrAvgPktMap
            /\ \/ addrAvgPktMap[d] = BlockAvgPktNum(Experiments[Min(Known(d, e))][d])
               \/ addrAvgPktMap[d] = 0 /\ Min(Known(d, e)) > 1
        BY <2>6, <2>8 DEF AveragedAs
      <3> QED BY <2>1, <2>3, <2>4, <2>5, <2>8, <3>1 DEF Known
    <2> QED BY <2>7, <2>8
  <1> QED BY <1>1, MapsCorrect, TrainedCorrect, Invariance, PTL

-----------------------------------------------------------------------------
(* Types *)

(* Of finitely many numbers one is the largest.                             *)
LargestIs(v, k, j) == j \in 1 .. k /\ \A i \in 1 .. k : v[i] <= v[j]

(* A sequence of numbers has a largest one.                                 *)
LEMMA LargestUpTo ==
    ASSUME NEW v \in Seq(Nat), v # <<>>
    PROVE  \E j \in 1 .. Len(v) : \A i \in 1 .. Len(v) : v[i] <= v[j]
  <1>1. PICK n \in Nat : n = Len(v) /\ n # 0
    OBVIOUS
  <1> DEFINE In == {k \in 0 .. n : k # 0 => \E j : LargestIs(v, k, j)}
  <1>2. 0 \in In
    OBVIOUS
  <1>3. ASSUME NEW k \in 1 .. n, k - 1 \in In PROVE \E j : LargestIs(v, k, j)
    <2>1. k \in 0 .. n /\ \A i \in 1 .. k : v[i] \in Nat
      BY <1>1
    <2>2. CASE k = 1
      <3>1. LargestIs(v, k, 1)
        BY <2>1, <2>2 DEF LargestIs
      <3> QED BY <3>1
    <2>3. CASE k # 1
      <3>1. k - 1 # 0 /\ k \in 1 .. k /\ \A i \in 1 .. k : i \in 1 .. k - 1 \/ i = k
        BY <1>1, <2>3
      <3>2. PICK j : LargestIs(v, k - 1, j)
        BY <1>3, <3>1
      <3>3. PICK a \in Nat, b \in Nat : a = v[j] /\ b = v[k] /\ j \in 1 .. k
        BY <2>1, <3>1, <3>2 DEF LargestIs
      <3>4. \A i \in 1 .. k - 1 : v[i] \in Nat /\ v[i] <= a
        BY <2>1, <3>2, <3>3 DEF LargestIs
      <3>5. CASE b <= a
        <4>1. LargestIs(v, k, j)
          BY <3>1, <3>3, <3>4, <3>5 DEF LargestIs
        <4> QED BY <4>1
      <3>6. CASE a <= b
        <4>1. LargestIs(v, k, k)
          BY <3>1, <3>3, <3>4, <3>6 DEF LargestIs
        <4> QED BY <4>1
      <3>7. a <= b \/ b <= a
        BY <3>3
      <3> QED BY <3>5, <3>6, <3>7
    <2> QED BY <2>2, <2>3
  <1>4. ASSUME NEW k \in 1 .. n, k - 1 \in In PROVE k \in In
    <2>1. k \in 0 .. n
      OBVIOUS
    <2> QED BY <1>3, <1>4, <2>1
  <1>5. 0 .. n \subseteq In
    <2> HIDE DEF In
    <2> QED BY <1>1, <1>2, <1>4, UpTo
  <1>6. n \in In
    BY <1>1, <1>5
  <1> QED BY <1>1, <1>6 DEF LargestIs

(* There is a number in every place.                                        *)
LEMMA InPlaceNat ==
    ASSUME NEW v \in Seq(Nat), NEW k \in 1 .. Len(v)
    PROVE  InPlace(v, k) \in Nat
  <1> DEFINE In == {n \in ToSet(v) : Cardinality({i \in DOMAIN v : v[i] <= n}) >= k}
  <1>1. PICK n \in Nat : n = Len(v) /\ DOMAIN v = 1 .. n /\ k \in 1 .. n
    OBVIOUS
  <1>2. v # <<>>
    BY <1>1
  <1>3. PICK j \in 1 .. n : \A i \in 1 .. n : v[i] <= v[j]
    BY <1>1, <1>2, LargestUpTo
  <1>4. {i \in DOMAIN v : v[i] <= v[j]} = 1 .. n
    BY <1>1, <1>3
  <1>5. Cardinality(1 .. n) = n
    <2>1. Cardinality(1 .. n) = IF 1 > n THEN 0 ELSE n - 1 + 1
      BY FS_Interval
    <2> QED BY <1>1, <2>1
  <1>6. v[j] \in In
    <2>1. v[j] \in ToSet(v)
      BY <1>1 DEF ToSet
    <2>2. k <= n
      BY <1>1
    <2> QED BY <1>4, <1>5, <2>1, <2>2
  <1>7. In \subseteq Nat
    BY <1>1 DEF ToSet
  <1>8. PICK m \in In : \A x \in In : m <= x
    <2> HIDE DEF In
    <2> QED BY <1>6, <1>7, LeastOfNaturals
  <1>9. InPlace(v, k) = Min(In)
    BY DEF InPlace
  <1>10. Min(In) \in In
    <2> HIDE DEF In
    <2> QED BY <1>8 DEF Min
  <1> QED BY <1>7, <1>9, <1>10

(* The median of the groups of a device is a number.                        *)
LEMMA BlockAvgPktNumNat ==
    ASSUME NEW ts \in ToSet(Experiments), NEW d \in DOMAIN ts
    PROVE  BlockAvgPktNum(ts[d]) \in Nat
  <1>1. PICK g : g = ts[d]
    OBVIOUS
  <1>2. g \in Seq(Groups) /\ g # <<>>
    BY <1>1, GroupsAre, TrainAssumption
  <1>3. PICK n \in Nat : n = Len(g) /\ n # 0
    BY <1>2
  <1>4. ASSUME NEW i \in 1 .. n
        PROVE  Total([j \in DOMAIN g[i] |-> g[i][j].pktNum]) \in Nat
    <2>1. PICK group \in Seq(BurstType) : group = g[i]
      <3>1. g[i] \in Groups
        BY <1>2, <1>3
      <3> QED BY <3>1, GroupsAre
    <2>2. PICK w : w = [j \in DOMAIN group |-> group[j].pktNum]
      OBVIOUS
    <2>3. \A j \in 1 .. Len(group) : group[j].pktNum \in Nat
      <3> SUFFICES ASSUME NEW j \in 1 .. Len(group) PROVE group[j].pktNum \in Nat
        OBVIOUS
      <3>1. group[j] \in BurstType
        OBVIOUS
      <3> QED BY <3>1 DEF BurstType
    <2>4. w \in Seq(Nat)
      BY <2>2, <2>3
    <2>5. PICK h \in [0 .. Len(w) -> Nat] : h[Len(w)] = Total(w)
      BY <2>4, TotalFacts
    <2>6. Len(w) \in 0 .. Len(w)
      BY <2>4
    <2> QED BY <2>1, <2>2, <2>5, <2>6
  <1>5. PICK v : v = PktNums(g)
    OBVIOUS
  <1>6. v \in Seq(Nat) /\ Len(v) = n
    <2>1. DOMAIN g = 1 .. n
      BY <1>2, <1>3
    <2>2. v = [i \in 1 .. n |-> Total([j \in DOMAIN g[i] |-> g[i][j].pktNum])]
      BY <1>5, <2>1 DEF PktNums
    <2> QED BY <1>3, <1>4, <2>2
  <1>7. PICK half \in Nat : half = n \div 2
    BY <1>3
  <1>8. CASE n % 2 = 1
    <2>1. half + 1 \in 1 .. n
      BY <1>3, <1>7, <1>8
    <2>2. InPlace(v, half + 1) \in Nat
      BY <1>6, <2>1, InPlaceNat
    <2>3. BlockAvgPktNum(g) = InPlace(v, half + 1)
      BY <1>3, <1>5, <1>7, <1>8 DEF BlockAvgPktNum
    <2> QED BY <1>1, <2>2, <2>3
  <1>9. CASE n % 2 # 1
    <2>1. half \in 1 .. n /\ half + 1 \in 1 .. n
      BY <1>3, <1>7, <1>9
    <2>2. PICK x \in Nat, y \in Nat : x = InPlace(v, half) /\ y = InPlace(v, half + 1)
      BY <1>6, <2>1, InPlaceNat
    <2>3. BlockAvgPktNum(g) = (x + y) \div 2
      BY <1>3, <1>5, <1>7, <1>9, <2>2 DEF BlockAvgPktNum
    <2>4. (x + y) \div 2 \in Nat
      BY <2>2
    <2> QED BY <1>1, <2>3, <2>4
  <1> QED BY <1>8, <1>9

(* The series knows finitely many devices.                                  *)
LEMMA DevicesFinite == IsFiniteSet(Devices) /\ Cardinality(Devices) \in Nat
  <1>1. PICK n \in Nat : n = Len(Experiments) /\ DOMAIN Experiments = 1 .. n
    BY FiniteAssumption
  <1>2. PICK S : S = {DOMAIN trainset : trainset \in ToSet(Experiments)}
    OBVIOUS
  <1>3. PICK f : f = [i \in 1 .. n |-> DOMAIN Experiments[i]]
    OBVIOUS
  <1>4. f \in Surjection(1 .. n, S)
    <2>1. \A i \in 1 .. n : f[i] \in S
      BY <1>1, <1>2, <1>3 DEF ToSet
    <2>2. ASSUME NEW T \in S PROVE \E i \in 1 .. n : f[i] = T
      BY <1>1, <1>2, <1>3 DEF ToSet
    <2>3. f \in [1 .. n -> S]
      BY <1>3, <2>1
    <2> QED BY <2>2, <2>3 DEF Surjection
  <1>5. IsFiniteSet(1 .. n)
    BY <1>1, FS_Interval
  <1>6. IsFiniteSet(S)
    BY <1>4, <1>5, FS_Surjection
  <1>7. \A T \in S : IsFiniteSet(T)
    BY <1>2, FiniteAssumption
  <1>8. IsFiniteSet(UNION S) /\ UNION S = Devices
    BY <1>2, <1>6, <1>7, FS_UNION DEF Devices
  <1> QED BY <1>8, FS_CardinalityType

(* A first burst is counted, with a number that is not 0.                   *)
LEMMA OccurrencesCounted ==
    ASSUME NEW groups, groups \in Seq(Seq(BurstsOf(groups))), NEW b \in Firsts(groups)
    PROVE  Cardinality(Occurrences(groups, Hash(b))) \in Nat \ {0}
  <1>1. PICK n \in Nat : n = Len(groups) /\ DOMAIN groups = 1 .. n
    OBVIOUS
  <1>2. PICK S : S = {{i} \X DOMAIN groups[i] : i \in DOMAIN groups}
    OBVIOUS
  <1>3. PICK f : f = [i \in 1 .. n |-> {i} \X DOMAIN groups[i]]
    OBVIOUS
  <1>4. f \in Surjection(1 .. n, S)
    <2>1. \A i \in 1 .. n : f[i] \in S
      BY <1>1, <1>2, <1>3
    <2>2. ASSUME NEW T \in S PROVE \E i \in 1 .. n : f[i] = T
      BY <1>1, <1>2, <1>3
    <2>3. f \in [1 .. n -> S]
      BY <1>3, <2>1
    <2> QED BY <2>2, <2>3 DEF Surjection
  <1>5. IsFiniteSet(S)
    <2>1. IsFiniteSet(1 .. n)
      BY <1>1, FS_Interval
    <2> QED BY <1>4, <2>1, FS_Surjection
  <1>6. ASSUME NEW T \in S PROVE IsFiniteSet(T)
    <2>1. PICK i \in DOMAIN groups : T = {i} \X DOMAIN groups[i]
      BY <1>2
    <2>2. PICK m \in Nat : DOMAIN groups[i] = 1 .. m
      <3>1. groups[i] \in Seq(BurstsOf(groups))
        BY <1>1
      <3> QED BY <3>1
    <2>3. IsFiniteSet(1 .. m)
      BY <2>2, FS_Interval
    <2>4. IsFiniteSet({i})
      BY FS_Singleton
    <2> QED BY <2>1, <2>2, <2>3, <2>4, FS_Product
  <1>7. IsFiniteSet(UNION S) /\ UNION S = Positions(groups)
    BY <1>2, <1>5, <1>6, FS_UNION DEF Positions
  <1>8. PICK O : O = Occurrences(groups, Hash(b))
    OBVIOUS
  <1>9. O \in SUBSET Positions(groups)
    BY <1>8 DEF Occurrences
  <1>10. IsFiniteSet(O) /\ Cardinality(O) \in Nat
    BY <1>7, <1>9, FS_Subset, FS_CardinalityType
  <1>11. O # {}
    <2>1. PICK p \in Positions(groups) : b = groups[p[1]][p[2]]
      BY DEF Firsts
    <2>2. p \in O
      BY <1>8, <2>1 DEF Occurrences
    <2> QED BY <2>2
  <1> QED BY <1>8, <1>10, <1>11, FS_EmptySet

(* A table of counts: of bursts that occur, each at least once.             *)
Counting(map) == DOMAIN map \subseteq Bursts /\ \A b \in DOMAIN map : map[b] \in Nat \ {0}

CountsOK == \A t \in Busy : Counting(pool[t].vec) /\ Counting(pool[t].kept)

StatsOK == DOMAIN burstStats \subseteq Nat /\ \A i \in DOMAIN burstStats : burstStats[i] \in Nat

NleftOK == waitTrain.nleft \in -1 .. Cardinality(Devices)

TypesOK == CountsOK /\ StatsOK /\ NleftOK

(* Nothing is counted in the empty table.                                   *)
LEMMA EmptyCounting == Counting(EmptyMap)
BY DEF Counting, EmptyMap

(* What is left of a table without one burst counts like it.                *)
LEMMA WithoutCounting ==
    ASSUME NEW map, Counting(map), NEW b
    PROVE  Counting(Without(map, b))
  <1>1. PICK less : less = Without(map, b)
    OBVIOUS
  <1>2. DOMAIN less \subseteq DOMAIN map /\ \A k \in DOMAIN less : less[k] = map[k]
    BY <1>1 DEF Without
  <1>3. Counting(less)
    BY <1>2 DEF Counting
  <1> QED BY <1>1, <1>3

(* A task goes on: the tables it now has count.                             *)
LEMMA TypesStep ==
    ASSUME IInv, TypesOK, NEW t \in Threads, NEW r,
           pool[t].at # "idle", pool' = [pool EXCEPT ![t] = r],
           "at" \in DOMAIN r, r.at # "idle", Counting(r.vec), Counting(r.kept),
           UNCHANGED waitTrain, StatsOK'
    PROVE  TypesOK'
  <1>1. Busy' = Busy
    <2>1. Continues(t)
      BY DEF Continues
    <2> QED BY <2>1, ContinuesFacts DEF IInv
  <1>2. \A u \in Threads : pool'[u] = IF u = t THEN r ELSE pool[u]
    BY DEF IInv, PoolOK
  <1>3. CountsOK'
    <2> SUFFICES ASSUME NEW u \in Busy PROVE Counting(pool'[u].vec) /\ Counting(pool'[u].kept)
      BY <1>1 DEF CountsOK
    <2>1. u \in Threads
      BY DEF Busy
    <2> QED BY <1>2, <2>1 DEF TypesOK, CountsOK
  <1>4. NleftOK'
    BY DEF TypesOK, NleftOK
  <1> QED BY <1>3, <1>4 DEF TypesOK

(* The tables of a task that runs, and the record that it is.               *)
LEMMA AtCounting ==
    ASSUME IInv, Trained, TypesOK, NEW t \in Threads, pool[t].at # "idle"
    PROVE  /\ Counting(pool[t].vec) /\ Counting(pool[t].kept)
           /\ pool[t] = [at |-> pool[t].at, device |-> pool[t].device, groups |-> pool[t].groups,
                         vec |-> pool[t].vec, kept |-> pool[t].kept]
  <1>1. t \in Busy /\ TaskOK(pool[t])
    BY AtTask
  <1> QED BY <1>1 DEF TypesOK, CountsOK, TaskOK

(* The steps of a task that leave its tables alone.                         *)
LEMMA InsertAverageTypes ==
    ASSUME IInv, Trained, TypesOK, NEW t \in Threads, InsertAverage(t)
    PROVE  TypesOK'
  <1>1. pool[t].at = "average" /\ UNCHANGED <<waitTrain, burstStats>>
    BY DEF InsertAverage
  <1>2. /\ Counting(pool[t].vec) /\ Counting(pool[t].kept)
        /\ pool[t] = [at |-> pool[t].at, device |-> pool[t].device, groups |-> pool[t].groups,
                      vec |-> pool[t].vec, kept |-> pool[t].kept]
    BY <1>1, AtCounting
  <1>3. PICK r : r = [pool[t] EXCEPT !.at = "levels"]
    OBVIOUS
  <1>4. "at" \in DOMAIN r /\ r.at = "levels" /\ Counting(r.vec) /\ Counting(r.kept)
    BY <1>2, <1>1, <1>3
  <1>5. pool' = [pool EXCEPT ![t] = r]
    BY <1>3 DEF InsertAverage
  <1>6. StatsOK'
    BY <1>1 DEF TypesOK, StatsOK
  <1> QED BY <1>1, <1>4, <1>5, <1>6, TypesStep

(* So does PushLevel.                                                       *)
LEMMA PushLevelTypes ==
    ASSUME IInv, Trained, TypesOK, NEW t \in Threads, PushLevel(t)
    PROVE  TypesOK'
  <1>1. pool[t].at = "levels" /\ UNCHANGED <<waitTrain, burstStats>>
    BY DEF PushLevel
  <1>2. /\ Counting(pool[t].vec) /\ Counting(pool[t].kept)
        /\ pool[t] = [at |-> pool[t].at, device |-> pool[t].device, groups |-> pool[t].groups,
                      vec |-> pool[t].vec, kept |-> pool[t].kept]
    BY <1>1, AtCounting
  <1>3. PICK r : r = [pool[t] EXCEPT !.groups = Tail(pool[t].groups)]
    OBVIOUS
  <1>4. "at" \in DOMAIN r /\ r.at = "levels" /\ Counting(r.vec) /\ Counting(r.kept)
    BY <1>2, <1>1, <1>3
  <1>5. pool' = [pool EXCEPT ![t] = r]
    BY <1>3 DEF PushLevel
  <1>6. StatsOK'
    BY <1>1 DEF TypesOK, StatsOK
  <1> QED BY <1>1, <1>4, <1>5, <1>6, TypesStep

(* The first of several alike is counted as often as there are any.         *)
LEMMA MergeStrictTypes ==
    ASSUME IInv, Trained, TypesOK, NEW t \in Threads, MergeStrict(t)
    PROVE  TypesOK'
  <1>1. pool[t].at = "levels" /\ UNCHANGED <<waitTrain, burstStats>>
    BY DEF MergeStrict
  <1>2. /\ Counting(pool[t].vec) /\ Counting(pool[t].kept)
        /\ pool[t] = [at |-> pool[t].at, device |-> pool[t].device, groups |-> pool[t].groups,
                      vec |-> pool[t].vec, kept |-> pool[t].kept]
    BY <1>1, AtCounting
  <1>3. PICK groups : groups = Trainset[pool[t].device]
    OBVIOUS
  <1>4. PICK vec : vec = MergeStrictHash[groups]
    OBVIOUS
  <1>5. Counting(vec)
    <2>1. /\ groups \in DeviceGroups /\ groups \in Seq(Seq(BurstsOf(groups)))
          /\ \A b \in BurstsOf(groups) : b \in Bursts
      BY <1>1, <1>3, AtTask, GroupsFacts
    <2>2. vec = [b \in Firsts(groups) |-> Cardinality(Occurrences(groups, Hash(b)))]
      BY <1>4, <2>1 DEF MergeStrictHash
    <2>3. Firsts(groups) \subseteq Bursts
      BY <2>1, FirstsFacts
    <2>4. \A b \in Firsts(groups) : Cardinality(Occurrences(groups, Hash(b))) \in Nat \ {0}
      BY <2>1, OccurrencesCounted
    <2> QED BY <2>2, <2>3, <2>4 DEF Counting
  <1>6. PICK r : r = [[pool[t] EXCEPT !.at = "identical"] EXCEPT !.vec = vec]
    OBVIOUS
  <1>7. "at" \in DOMAIN r /\ r.at = "identical" /\ r.vec = vec /\ r.kept = pool[t].kept
    BY <1>2, <1>1, <1>6
  <1>8. Counting(r.vec) /\ Counting(r.kept)
    BY <1>2, <1>1, <1>5, <1>7
  <1>9. pool' = [pool EXCEPT ![t] = r]
    BY <1>3, <1>4, <1>6 DEF MergeStrict
  <1>10. StatsOK'
    BY <1>1 DEF TypesOK, StatsOK
  <1> QED BY <1>1, <1>7, <1>8, <1>9, <1>10, TypesStep

(* The count of a burst that leaves vec is added to one that is kept.       *)
LEMMA MergeOneTypes ==
    ASSUME IInv, Trained, TypesOK, NEW t \in Threads, MergeOne(t)
    PROVE  TypesOK'
  <1>1. pool[t].at = "identical" /\ UNCHANGED <<waitTrain, burstStats>>
    BY DEF MergeOne
  <1>2. /\ Counting(pool[t].vec) /\ Counting(pool[t].kept)
        /\ pool[t] = [at |-> pool[t].at, device |-> pool[t].device, groups |-> pool[t].groups,
                      vec |-> pool[t].vec, kept |-> pool[t].kept]
    BY <1>1, AtCounting
  <1>3. PICK b \in DOMAIN pool[t].vec :
           \E k \in Absorbers(pool[t].kept, b)
                      \cup (IF Stays(pool[t].kept, b) THEN {b} ELSE {}) :
              pool' = [pool EXCEPT
                          ![t].kept = Put(pool[t].kept, k,
                                          At(pool[t].kept, k, 0) + pool[t].vec[b]),
                          ![t].vec = Without(@, b)]
    BY DEF MergeOne
  <1>4. PICK k \in Absorbers(pool[t].kept, b)
                      \cup (IF Stays(pool[t].kept, b) THEN {b} ELSE {}) :
              pool' = [pool EXCEPT
                          ![t].kept = Put(pool[t].kept, k,
                                          At(pool[t].kept, k, 0) + pool[t].vec[b]),
                          ![t].vec = Without(@, b)]
    BY <1>3
  <1>5. PICK old, kept, vec : /\ old = pool[t].kept /\ vec = Without(pool[t].vec, b)
                              /\ kept = Put(old, k, At(old, k, 0) + pool[t].vec[b])
    OBVIOUS
  <1>6. Counting(pool[t].vec) /\ Counting(old)
    BY <1>2, <1>1, <1>5
  <1>7. k \in Bursts
    <2>1. CASE k \in Absorbers(old, b)
      <3>1. k \in DOMAIN old
        BY <2>1 DEF Absorbers, UltraSimilar, Identical
      <3> QED BY <1>6, <3>1 DEF Counting
    <2>2. CASE k \notin Absorbers(old, b)
      <3>1. k \in IF Stays(old, b) THEN {b} ELSE {}
        BY <1>4, <1>5, <2>2
      <3>2. k = b
        BY <3>1
      <3> QED BY <1>3, <1>6, <3>2 DEF Counting
    <2> QED BY <2>1, <2>2
  <1>8. At(old, k, 0) + pool[t].vec[b] \in Nat \ {0}
    <2>1. PICK x \in Nat, y \in Nat \ {0} : x = At(old, k, 0) /\ y = pool[t].vec[b]
      BY <1>3, <1>6 DEF Counting, At
    <2>2. x + y \in Nat \ {0}
      BY <2>1
    <2> QED BY <2>1, <2>2
  <1>9. Counting(kept)
    <2>1. PICK n \in Nat \ {0} : n = At(old, k, 0) + pool[t].vec[b]
      BY <1>8
    <2>2. kept = Put(old, k, n)
      BY <1>5, <2>1
    <2>3. DOMAIN kept = DOMAIN old \cup {k} /\ \A x \in DOMAIN kept : kept[x] = IF x = k THEN n ELSE old[x]
      BY <2>2 DEF Put
    <2> QED BY <1>6, <1>7, <2>1, <2>3 DEF Counting
  <1>10. Counting(vec)
    BY <1>5, <1>6, WithoutCounting
  <1>11. PICK r : r = [[pool[t] EXCEPT !.kept = kept] EXCEPT !.vec = vec]
    OBVIOUS
  <1>12. "at" \in DOMAIN r /\ r.at = "identical" /\ r.vec = vec /\ r.kept = kept
    BY <1>2, <1>1, <1>11
  <1>13. pool' = [pool EXCEPT ![t] = r]
    BY <1>4, <1>5, <1>11
  <1>14. StatsOK'
    BY <1>1 DEF TypesOK, StatsOK
  <1> QED BY <1>1, <1>9, <1>10, <1>12, <1>13, <1>14, TypesStep

(* What was kept becomes what is filed.                                     *)
LEMMA EndMergeTypes ==
    ASSUME IInv, Trained, TypesOK, NEW t \in Threads, EndMerge(t)
    PROVE  TypesOK'
  <1>1. pool[t].at = "identical" /\ UNCHANGED <<waitTrain, burstStats>>
    BY DEF EndMerge
  <1>2. /\ Counting(pool[t].vec) /\ Counting(pool[t].kept)
        /\ pool[t] = [at |-> pool[t].at, device |-> pool[t].device, groups |-> pool[t].groups,
                      vec |-> pool[t].vec, kept |-> pool[t].kept]
    BY <1>1, AtCounting
  <1>3. PICK r : r = [[pool[t] EXCEPT !.at = "file"] EXCEPT !.vec = pool[t].kept]
    OBVIOUS
  <1>4. "at" \in DOMAIN r /\ r.at = "file" /\ Counting(r.vec) /\ Counting(r.kept)
    BY <1>2, <1>1, <1>3
  <1>5. pool' = [pool EXCEPT ![t] = r]
    BY <1>3 DEF EndMerge
  <1>6. StatsOK'
    BY <1>1 DEF TypesOK, StatsOK
  <1> QED BY <1>1, <1>4, <1>5, <1>6, TypesStep

(* A filed burst leaves vec; the others stay counted.                       *)
LEMMA FileTypes ==
    ASSUME IInv, Trained, TypesOK, NEW t \in Threads, File(t)
    PROVE  TypesOK'
  <1>1. pool[t].at = "file" /\ UNCHANGED <<waitTrain, burstStats>>
    BY DEF File
  <1>2. /\ Counting(pool[t].vec) /\ Counting(pool[t].kept)
        /\ pool[t] = [at |-> pool[t].at, device |-> pool[t].device, groups |-> pool[t].groups,
                      vec |-> pool[t].vec, kept |-> pool[t].kept]
    BY <1>1, AtCounting
  <1>3. PICK b : pool' = [pool EXCEPT ![t].vec = Without(@, b)]
    BY DEF File
  <1>4. PICK vec : vec = Without(pool[t].vec, b) /\ Counting(vec)
    BY <1>2, WithoutCounting
  <1>5. PICK r : r = [pool[t] EXCEPT !.vec = vec]
    OBVIOUS
  <1>6. "at" \in DOMAIN r /\ r.at = "file" /\ Counting(r.vec) /\ Counting(r.kept)
    BY <1>2, <1>1, <1>4, <1>5
  <1>7. pool' = [pool EXCEPT ![t] = r]
    BY <1>3, <1>4, <1>5
  <1>8. StatsOK'
    BY <1>1 DEF TypesOK, StatsOK
  <1> QED BY <1>1, <1>6, <1>7, <1>8, TypesStep

(* The number of bursts kept goes into burstStats, or elsewhere.            *)
LEMMA StatsTypes ==
    ASSUME IInv, Trained, TypesOK, NEW t \in Threads, Stats(t)
    PROVE  TypesOK'
  <1>1. pool[t].at = "file" /\ UNCHANGED waitTrain
    BY DEF Stats
  <1>2. /\ Counting(pool[t].vec) /\ Counting(pool[t].kept)
        /\ pool[t] = [at |-> pool[t].at, device |-> pool[t].device, groups |-> pool[t].groups,
                      vec |-> pool[t].vec, kept |-> pool[t].kept]
    BY <1>1, AtCounting
  <1>3. PICK r : r = [pool[t] EXCEPT !.at = "done"]
    OBVIOUS
  <1>4. "at" \in DOMAIN r /\ r.at = "done" /\ Counting(r.vec) /\ Counting(r.kept)
    BY <1>2, <1>1, <1>3
  <1>5. pool' = [pool EXCEPT ![t] = r]
    BY <1>3 DEF Stats
  <1>6. PICK n : n = Cardinality(DOMAIN pool[t].kept)
    OBVIOUS
  <1>7. n \in Nat
    BY <1>1, <1>6, AtTask, FS_CardinalityType DEF TaskOK, Enough
  <1>8. StatsOK'
    <2>1. \/ burstStats' = burstStats
          \/ burstStats' = [burstStats EXCEPT ![pool[t].device] = n]
      BY <1>6 DEF Stats
    <2> QED BY <1>7, <2>1 DEF TypesOK, StatsOK
  <1> QED BY <1>1, <1>4, <1>5, <1>8, TypesStep

(* A task begins with nothing counted.                                      *)
LEMMA DispatchTypes ==
    ASSUME IInv, TypesOK, NEW t \in Threads, Dispatch(t)
    PROVE  TypesOK'
  <1>1. UNCHANGED <<waitTrain, burstStats>>
    BY DEF Dispatch
  <1>2. PICK r : r = [at |-> "average", device |-> Head(queue), groups |-> Trainset[Head(queue)],
                      vec |-> EmptyMap, kept |-> EmptyMap]
    OBVIOUS
  <1>3. \A u \in Threads : pool'[u] = IF u = t THEN r ELSE pool[u]
    BY <1>2 DEF Dispatch, IInv, PoolOK
  <1>4. CountsOK'
    <2> SUFFICES ASSUME NEW u \in Busy' PROVE Counting(pool'[u].vec) /\ Counting(pool'[u].kept)
      BY DEF CountsOK
    <2>1. CASE u = t
      BY <1>2, <1>3, <2>1, EmptyCounting
    <2>2. CASE u # t
      <3>1. u \in Busy /\ pool'[u] = pool[u]
        BY <1>3, <2>2 DEF Busy
      <3> QED BY <3>1 DEF TypesOK, CountsOK
    <2> QED BY <2>1, <2>2
  <1>5. StatsOK' /\ NleftOK'
    BY <1>1 DEF TypesOK, StatsOK, NleftOK
  <1> QED BY <1>4, <1>5 DEF TypesOK

(* done(): the task that ends was counted, so that nleft was above zero.    *)
LEMMA TaskDoneTypes ==
    ASSUME IInv, TypesOK, NEW t \in Threads, TaskDone(t)
    PROVE  TypesOK'
  <1>1. pool[t].at = "done" /\ UNCHANGED burstStats
    BY DEF TaskDone
  <1>2. t \in Busy
    <2>1. Idle.at = "idle"
      BY DEF Idle
    <2> QED BY <1>1, <2>1 DEF Busy
  <1>3. \A u \in Threads : pool'[u] = IF u = t THEN Idle ELSE pool[u]
    BY DEF TaskDone, IInv, PoolOK
  <1>4. CountsOK'
    <2> SUFFICES ASSUME NEW u \in Busy' PROVE Counting(pool'[u].vec) /\ Counting(pool'[u].kept)
      BY DEF CountsOK
    <2>1. u \in Busy /\ pool'[u] = pool[u]
      BY <1>3 DEF Busy
    <2> QED BY <2>1 DEF TypesOK, CountsOK
  <1>5. waitTrain.nleft = Cardinality(main.devices) + Len(queue) + Cardinality(Busy)
    <2>1. waitTrain.live /\ ~AllDone
      BY <1>2, BusyIsLive DEF AllDone
    <2> QED BY <2>1 DEF IInv, Counted
  <1>6. PICK a \in Nat, b \in Nat, c \in Nat \ {0} :
           a = Cardinality(main.devices) /\ b = Len(queue) /\ c = Cardinality(Busy)
    <2>1. Cardinality(main.devices) \in Nat /\ Len(queue) \in Nat
      BY FS_CardinalityType DEF IInv, MainOK
    <2>2. Cardinality(Busy) \in Nat \ {0}
      BY <1>2, BusyFinite, FS_EmptySet
    <2> QED BY <2>1, <2>2
  <1>7. waitTrain'.nleft = waitTrain.nleft - 1
    BY DEF TaskDone, IInv, GroupOK
  <1>8. NleftOK'
    <2>1. PICK n \in Nat, m \in Nat : n = waitTrain.nleft /\ n # 0 /\ m = Cardinality(Devices) /\ n <= m
      <3>1. waitTrain.nleft \in Nat \ {0}
        BY <1>5, <1>6
      <3> QED BY <3>1, DevicesFinite DEF TypesOK, NleftOK
    <2>2. n - 1 \in -1 .. m
      BY <2>1
    <2> QED BY <1>7, <2>1, <2>2 DEF NleftOK
  <1>9. StatsOK'
    BY <1>1 DEF TypesOK, StatsOK
  <1> QED BY <1>4, <1>8, <1>9 DEF TypesOK

(* Without a busy thread there is nothing to count.                         *)
LEMMA NobodyCounts ==
    ASSUME IInv, main.pc \in {"construct", "trained"}, UNCHANGED pool
    PROVE  CountsOK'
  <1>1. Busy = {} /\ Busy' = Busy
    BY DEF IInv, Counted, AllDone, Busy
  <1> QED BY <1>1 DEF CountsOK

(* The WaitGroup starts with one for every device, or with -1.              *)
LEMMA BeginTrainTypes ==
    ASSUME IInv, TypesOK, BeginTrain
    PROVE  TypesOK'
  <1>1. PICK n : n = Cardinality(DOMAIN Trainset)
    OBVIOUS
  <1>2. /\ waitTrain' = [nleft |-> WaitCount(n), live |-> TRUE]
        /\ burstStats' = [i \in 0 .. n - 1 |-> 0]
        /\ main.pc = "construct" /\ UNCHANGED pool
    BY <1>1 DEF BeginTrain
  <1>3. n \in Nat /\ n <= Cardinality(Devices)
    <2>1. DOMAIN Trainset \subseteq Devices
      BY TrainsetFinite DEF IInv, MainOK, BeginTrain
    <2> QED BY <1>1, <2>1, DevicesFinite, FS_Subset, FS_CardinalityType
  <1>4. NleftOK'
    BY <1>2, <1>3, DevicesFinite DEF NleftOK, WaitCount
  <1>5. StatsOK'
    BY <1>2, <1>3 DEF StatsOK
  <1>6. CountsOK'
    BY <1>2, NobodyCounts
  <1> QED BY <1>4, <1>5, <1>6 DEF TypesOK

(* The other steps of the main thread count nothing.                        *)
LEMMA MainTypes ==
    ASSUME IInv, TypesOK, StartTask \/ Wait \/ NextExperiment
    PROVE  TypesOK'
  <1>1. CASE StartTask
    <2>1. UNCHANGED <<pool, waitTrain, burstStats>>
      BY <1>1 DEF StartTask
    <2> QED BY <2>1 DEF TypesOK, CountsOK, StatsOK, NleftOK, Busy
  <1>2. CASE Wait
    <2>1. UNCHANGED <<pool, burstStats>> /\ waitTrain' = [waitTrain EXCEPT !.live = FALSE]
      BY <1>2 DEF Wait
    <2>2. waitTrain'.nleft = waitTrain.nleft
      BY <2>1 DEF IInv, GroupOK
    <2> QED BY <2>1, <2>2 DEF TypesOK, CountsOK, StatsOK, NleftOK, Busy
  <1>3. CASE NextExperiment
    <2>1. UNCHANGED <<pool, waitTrain>> /\ burstStats' = EmptyMap /\ main.pc = "trained"
      BY <1>3 DEF NextExperiment
    <2>2. CountsOK'
      BY <2>1, NobodyCounts
    <2>3. StatsOK'
      BY <2>1 DEF StatsOK, EmptyMap
    <2>4. NleftOK'
      BY <2>1 DEF TypesOK, NleftOK
    <2> QED BY <2>2, <2>3, <2>4 DEF TypesOK
  <1> QED BY <1>1, <1>2, <1>3

(* Nothing is counted before the first experiment.                          *)
LEMMA InitTypes == Init => TypesOK
  <1> SUFFICES ASSUME Init PROVE TypesOK
    OBVIOUS
  <1>1. Busy = {} /\ waitTrain = [nleft |-> 0, live |-> FALSE] /\ burstStats = EmptyMap
    BY DEF Init, Busy
  <1> QED BY <1>1, DevicesFinite DEF TypesOK, CountsOK, StatsOK, NleftOK, EmptyMap

(* Every step keeps TypesOK.                                                *)
LEMMA NextTypes ==
    ASSUME IInv, Trained, TypesOK, [Next]_vars
    PROVE  TypesOK'
  <1>1. CASE Main
    BY <1>1, BeginTrainTypes, MainTypes DEF Main
  <1>2. ASSUME NEW t \in Threads, Worker(t) PROVE TypesOK'
    BY <1>2, DispatchTypes, InsertAverageTypes, PushLevelTypes, MergeStrictTypes, MergeOneTypes,
       EndMergeTypes, FileTypes, StatsTypes, TaskDoneTypes DEF Worker
  <1>3. CASE UNCHANGED vars
    BY <1>3 DEF vars, TypesOK, CountsOK, StatsOK, NleftOK, Busy
  <1> QED BY <1>1, <1>2, <1>3 DEF Next, Terminating

(* The types of what IInv, Trained and MapsOK leave open.                   *)
LEMMA TypesCorrect == Spec => []TypesOK
  <1>1. IInv /\ Trained /\ TypesOK /\ [Next]_vars => TypesOK'
    BY NextTypes
  <1> QED BY <1>1, InitTypes, TrainedCorrect, Invariance, PTL DEF Spec

(* Whatever the maps hold of a device is of experiments that were.          *)
LEMMA MapsHold ==
    ASSUME IInv, Trained, MapsOK, NEW d \in Devices
    PROVE  \E e \in 0 .. Len(Experiments) :
              Averaged(d, e) /\ \E rest, x : Pushed(d, rest, x)
  <1>1. PICK e \in Nat \ {0} : e = main.experiment /\ e <= Len(Experiments) + 1
    BY DEF IInv, MainOK, MapsOK
  <1>2. e - 1 \in 0 .. Len(Experiments) /\ (main.pc # "construct" => e \in 0 .. Len(Experiments))
    BY <1>1, FiniteAssumption DEF Trained, OnePlace
  <1>3. CASE Through(d, e - 1)
    BY <1>2, <1>3 DEF Through
  <1>4. CASE Through(d, e) /\ main.pc # "construct"
    BY <1>2, <1>4 DEF Through
  <1>5. CASE main.pc # "construct" /\ \E t \in Busy : pool[t].device = d
    <2>1. PICK t \in Busy : pool[t].device = d
      BY <1>5
    <2>2. Begun(pool[t], e)
      BY <1>1, <1>5 DEF MapsOK
    <2>3. Pushed(d, pool[t].groups, e) /\ (Averaged(d, e - 1) \/ Averaged(d, e))
      BY <2>1, <2>2 DEF Begun
    <2> QED BY <1>2, <1>5, <2>3
  <1> QED BY <1>1, <1>3, <1>4, <1>5 DEF MapsOK

(* An average is the median of a device's groups, or 0: a number.           *)
LEMMA AverageNat ==
    ASSUME NEW d, NEW e \in 0 .. Len(Experiments), Averaged(d, e), d \in DOMAIN addrAvgPktMap
    PROVE  addrAvgPktMap[d] \in Nat
  <1>1. CASE Known(d, e) = {}
    BY <1>1 DEF Averaged, AveragedAs
  <1>2. CASE Known(d, e) # {}
    <2>1. Known(d, e) \subseteq Nat
      BY DEF Known
    <2>2. PICK m \in Known(d, e) : \A i \in Known(d, e) : m <= i
      BY <1>2, <2>1, LeastOfNaturals
    <2>3. PICK m2 \in Known(d, e) : m2 = Min(Known(d, e))
      BY <2>2 DEF Min
    <2>4. m2 \in 1 .. e /\ d \in DOMAIN Experiments[m2]
      BY <2>3 DEF Known
    <2>5. Experiments[m2] \in ToSet(Experiments)
      BY <2>4, FiniteAssumption DEF ToSet
    <2>6. BlockAvgPktNum(Experiments[m2][d]) \in Nat
      BY <2>4, <2>5, BlockAvgPktNumNat
    <2>7. addrAvgPktMap[d] = BlockAvgPktNum(Experiments[m2][d]) \/ addrAvgPktMap[d] = 0
      BY <1>2, <2>3 DEF Averaged, AveragedAs
    <2> QED BY <2>6, <2>7
  <1> QED BY <1>1, <1>2

(* A thread runs nothing, or a task of a device on bursts of the series.    *)
LEMMA TaskTyped ==
    ASSUME IInv, Trained, MapsOK, TypesOK, NEW t \in Threads
    PROVE  IsTask(pool[t])
  <1>1. CASE pool[t].at = "idle"
    BY <1>1 DEF IInv, PoolOK, IsTask
  <1>2. CASE pool[t].at # "idle"
    <2>1. TaskOK(pool[t]) /\ pool[t].device \in Devices
      BY <1>2, AtTask, AtBegun
    <2>2. pool[t].groups \in Seq(Groups)
      <3>1. Begun(pool[t], main.experiment)
        BY <1>2, AtBegun
      <3> QED BY <3>1 DEF Begun, Pushed, PushedAs
    <2>3. \A group \in ToSet(pool[t].groups) : group \in Seq(Bursts)
      <3> SUFFICES ASSUME NEW group \in ToSet(pool[t].groups) PROVE group \in Seq(Bursts)
        OBVIOUS
      <3>1. group \in Groups
        BY <2>2 DEF ToSet
      <3> QED BY <3>1, GroupsAre
    <2>4. Counting(pool[t].vec) /\ Counting(pool[t].kept)
      BY <1>2, AtCounting
    <2>5. \A counts \in {pool[t].vec, pool[t].kept} : IsMap(counts, Bursts, LAMBDA n : n \in Nat \ {0})
      BY <2>4 DEF Counting, IsMap
    <2> QED BY <2>1, <2>3, <2>5 DEF TaskOK, IsTask
  <1> QED BY <1>1, <1>2

(* Every index into the table lies within it, and no burst is counted that  *)
(* does not occur.                                                          *)
THEOREM TypeCorrect == Spec => []TypeOK
  <1>1. ASSUME IInv, Trained, MapsOK, TypesOK PROVE TypeOK
    <2>1. main.pc \in {"construct", "start", "trained", "crashed"}
      BY <1>1 DEF IInv, Counted
    <2>2. main.experiment \in 1 .. Len(Experiments) + 1 /\ main.devices \subseteq Devices
      BY <1>1, FiniteAssumption DEF IInv, MainOK, MapsOK
    <2>3. queue \in Seq(Devices) /\ waitTrain.nleft \in -1 .. Cardinality(Devices)
      BY <1>1 DEF IInv, TypesOK, NleftOK
    <2>4. \A t \in Threads : IsTask(pool[t])
      BY <1>1, TaskTyped
    <2>5. IsMap(train, Cells, LAMBDA bursts : bursts \in Seq(Bursts))
      <3>1. DOMAIN train \subseteq Cells /\ \A c \in DOMAIN train : train[c] \in Seq(Bursts)
        BY <1>1 DEF Trained, TableOK, EmptyMap
      <3> QED BY <3>1 DEF IsMap
    <2>6. IsMap(burstStats, Nat, LAMBDA n : n \in Nat)
      BY <1>1 DEF TypesOK, StatsOK, IsMap
    <2>7. IsMap(addrAvgPktMap, Devices, LAMBDA n : n \in Nat)
      <3>1. DOMAIN addrAvgPktMap \subseteq Devices
        BY <1>1 DEF MapsOK
      <3>2. ASSUME NEW d \in DOMAIN addrAvgPktMap PROVE addrAvgPktMap[d] \in Nat
        <4>1. PICK e \in 0 .. Len(Experiments) : Averaged(d, e)
          BY <1>1, <3>1, MapsHold
        <4> QED BY <4>1, AverageNat
      <3> QED BY <3>1, <3>2 DEF IsMap
    <2>8. IsMap(blockLevelDistribution, Devices, LAMBDA merged : merged \in Seq(BurstType))
      <3>1. DOMAIN blockLevelDistribution \subseteq Devices
        BY <1>1 DEF MapsOK
      <3>2. ASSUME NEW d \in DOMAIN blockLevelDistribution
            PROVE  blockLevelDistribution[d] \in Seq(BurstType)
        <4>1. PICK rest, x : Pushed(d, rest, x)
          BY <1>1, <3>1, MapsHold
        <4>2. Levels(d) \in Seq(BurstType)
          BY <4>1 DEF Pushed, PushedAs
        <4> QED BY <4>2 DEF Levels, At
      <3> QED BY <3>1, <3>2 DEF IsMap
    <2> QED BY <2>1, <2>2, <2>3, <2>4, <2>5, <2>6, <2>7, <2>8 DEF TypeOK
  <1> QED BY <1>1, TypesCorrect, MapsCorrect, TrainedCorrect, Invariance, PTL

=============================================================================
