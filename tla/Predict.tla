------------------------------- MODULE Predict -------------------------------
(***************************************************************************)
(* KBurstClassifier::Predict and the prediction cache, over a series of    *)
(* experiments as IoTBurst::SingleExperiment runs them: train, predict on  *)
(* the pool, wait for all tasks, clear the cache.                          *)
(*                                                                         *)
(* A cache entry is found by the contents of a burst, and filled in place  *)
(* through the reference that Query returns, under the entry's own mutex   *)
(* and not under cacheMutex. The entry counts as filled once its vector is *)
(* not empty, which it is from the first training burst on. The vector is  *)
(* a set here: scoring does not depend on its order.                       *)
(*                                                                         *)
(* Train is one step here: it ends with a barrier of its own before        *)
(* Predict starts.                                                         *)
(***************************************************************************)
EXTENDS TrainWindow, Sequences, FiniteSets, SequencesExt

CONSTANTS
    Distance(_, _),         \* Burst::Distance: only its order matters
    FAR,                    \* the initial min_distance, 100
    MIN_BLOCK_PKTNUM,
    Threads,                \* the compute threads of the pool
    Experiments             \* [train, testset, epochSlotNum]: the training
                            \* bursts in table order; the groups of each
                            \* device of the test set; how many of them make
                            \* up one task

TestGroups(e) == UNION {ToSet(groups) : groups \in ToSet(e.testset)}
Tests == UNION {ToSet(group) : group \in UNION {TestGroups(e) : e \in ToSet(Experiments)}}
Group == {group \in Seq(Tests) : group # <<>>}

ASSUME ExperimentsAssumption ==
    /\ Experiments \in Seq(ToSet(Experiments))
    /\ \A e \in ToSet(Experiments) :
          /\ e.epochSlotNum \in Nat \ {0}
          /\ e.train \in Seq(ToSet(e.train))
          /\ e.testset \in Seq(Seq(Group))
          /\ \A b \in ToSet(e.train) \cup Tests : Sized(b)

ASSUME DistanceAssumption ==
    /\ FAR \in Int
    /\ \A e \in ToSet(Experiments) : \A test \in Tests, b \in ToSet(e.train) :
          Distance(test, b) \in Int

NoThread == "nobody"

ASSUME ThreadsAssumption == IsFiniteSet(Threads) /\ NoThread \notin Threads

VARIABLES
    pc, experiment,     \* the main thread
    device,             \* how far it is in its two loops over the test set
    taskNum,            \* the values taskNum has had in the first loop
    tasks,              \* the tasks of this device it has not started yet
    waitPrediction,     \* nleft, and whether the WaitGroup exists
    queue,              \* the go tasks waiting
    at,                 \* where each thread is in its task
    groups, todo,       \* the groups, and the bursts of this group, it has left
    window,             \* the training bursts it has not compared yet
    min_distance,
    train,              \* the table, flattened row by row
    cache,              \* contents -> [distance, nearest]
    lockMap,            \* contents -> the thread that holds its mutex
    answers             \* history: what PredictBurst returned in this experiment

loop == <<pc, experiment, device, taskNum, tasks>>
pool == <<at, groups, todo, window, min_distance>>

vars == <<loop, waitPrediction, queue, pool, train, cache, lockMap, answers>>

EmptyCache == [b \in {} |-> [distance |-> 0, nearest |-> {}]]

(* Whole groups whose packets are too few are skipped.                      *)
GroupPktNum(group) == FoldLeft(LAMBDA acc, b : acc + b.pktNum, 0, group)
Kept(group) == GroupPktNum(group) >= MIN_BLOCK_PKTNUM

(* splitVector                                                              *)
Chunks(all, size) ==
    [k \in 1 .. (Len(all) + size - 1) \div size |->
        SubSeq(all, (k - 1) * size + 1, Least(k * size, Len(all)))]

Experiment == Experiments[experiment]
Testset == Experiment.testset

TasksOf_NoRemainder(all, size) ==    \* mutant: the incomplete chunk is not counted
    Len(all) \div size

(* How many tasks Predict expects a device to make, before it splits        *)
(* anything.                                                                *)
TasksOf(all, size) ==
    Len(all) \div size + (IF Len(all) % size > 0 THEN 1 ELSE 0)

Init ==
    /\ pc = "train" /\ experiment = 1
    /\ device = 1 /\ taskNum = <<0>> /\ tasks = <<>>
    /\ waitPrediction = [nleft |-> 0, live |-> FALSE]
    /\ queue = <<>>
    /\ at = [t \in Threads |-> "idle"]
    /\ groups = [t \in Threads |-> <<>>]
    /\ todo = [t \in Threads |-> <<>>]
    /\ window = [t \in Threads |-> {}]
    /\ min_distance = [t \in Threads |-> FAR]
    /\ train = <<>>
    /\ cache = EmptyCache
    /\ lockMap = [b \in Tests |-> NoThread]
    /\ answers = <<>>

-----------------------------------------------------------------------------
(* The main thread *)

(* A new classifier is trained, on a table of its own.                      *)
Train ==
    /\ pc = "train"
    /\ experiment <= Len(Experiments)
    /\ train' = Experiment.train
    /\ answers' = <<>>
    /\ pc' = "count"
    /\ UNCHANGED <<experiment, device, taskNum, tasks, waitPrediction, queue, pool, cache, lockMap>>

CountTasks ==
    /\ pc = "count"
    /\ device <= Len(Testset)
    /\ taskNum' = Append(taskNum, taskNum[device] + TasksOf(Testset[device], Experiment.epochSlotNum))
    /\ device' = device + 1
    /\ UNCHANGED <<pc, experiment, tasks, waitPrediction, queue, pool, train, cache, lockMap, answers>>

(* WaitGroup(taskNum); with no task at all nleft is -1.                     *)
NewWaitGroup ==
    /\ pc = "count"
    /\ device > Len(Testset)
    /\ LET n == taskNum[device]
       IN  waitPrediction' = [nleft |-> IF n = 0 THEN -1 ELSE n, live |-> TRUE]
    /\ pc' = "start"
    /\ device' = 1
    /\ UNCHANGED <<experiment, taskNum, tasks, queue, pool, train, cache, lockMap, answers>>

SplitDevice ==
    /\ pc = "start"
    /\ tasks = <<>>
    /\ device <= Len(Testset)
    /\ tasks' = Chunks(Testset[device], Experiment.epochSlotNum)
    /\ device' = device + 1
    /\ UNCHANGED <<pc, experiment, taskNum, waitPrediction, queue, pool, train, cache, lockMap, answers>>

StartTask ==
    /\ pc = "start"
    /\ tasks # <<>>
    /\ queue' = Append(queue, Head(tasks))
    /\ tasks' = Tail(tasks)
    /\ UNCHANGED <<pc, experiment, device, taskNum, waitPrediction, pool, train, cache, lockMap, answers>>

Wait ==
    /\ pc = "start"
    /\ tasks = <<>>
    /\ device > Len(Testset)
    /\ waitPrediction.nleft <= 0
    /\ waitPrediction' = [nleft |-> waitPrediction.nleft, live |-> FALSE]
    /\ pc' = "clear"
    /\ UNCHANGED <<experiment, device, taskNum, tasks, queue, pool, train, cache, lockMap, answers>>

Clear_CacheKept ==    \* mutant: the cache outlives the experiment
    /\ pc = "clear"
    /\ pc' = "train"
    /\ experiment' = experiment + 1
    /\ device' = 1
    /\ taskNum' = <<0>>
    /\ UNCHANGED <<tasks, waitPrediction, queue, pool, train, cache, lockMap, answers>>

(* OutputToFile, delete the classifier, BurstCacheFactory::Get().Clear().   *)
Clear ==
    /\ pc = "clear"
    /\ cache' = EmptyCache
    /\ pc' = "train"
    /\ experiment' = experiment + 1
    /\ device' = 1
    /\ taskNum' = <<0>>
    /\ UNCHANGED <<tasks, waitPrediction, queue, pool, train, lockMap, answers>>

Main == Train \/ CountTasks \/ NewWaitGroup \/ SplitDevice \/ StartTask \/ Wait \/ Clear

-----------------------------------------------------------------------------
(* A task: PredictGroups on its groups, PredictBurst on each burst          *)

Dispatch(t) ==
    /\ at[t] = "idle"
    /\ queue # <<>>
    /\ at' = [at EXCEPT ![t] = "group"]
    /\ groups' = [groups EXCEPT ![t] = Head(queue)]
    /\ queue' = Tail(queue)
    /\ UNCHANGED <<loop, waitPrediction, todo, window, min_distance, train, cache, lockMap, answers>>

NextGroup_FilterSpins(t) ==    \* mutant: a filtered group is not passed over
    /\ at[t] = "group"
    /\ groups[t] # <<>>
    /\ Kept(Head(groups[t]))
    /\ groups' = [groups EXCEPT ![t] = Tail(groups[t])]
    /\ todo' = [todo EXCEPT ![t] = Head(groups[t])]
    /\ at' = [at EXCEPT ![t] = "lock"]
    /\ UNCHANGED <<loop, waitPrediction, queue, window, min_distance, train, cache, lockMap, answers>>

(* The next group, or past it when it is filtered out.                      *)
NextGroup(t) ==
    /\ at[t] = "group"
    /\ groups[t] # <<>>
    /\ groups' = [groups EXCEPT ![t] = Tail(groups[t])]
    /\ IF Kept(Head(groups[t]))
       THEN /\ todo' = [todo EXCEPT ![t] = Head(groups[t])]
            /\ at' = [at EXCEPT ![t] = "lock"]
       ELSE UNCHANGED <<todo, at>>
    /\ UNCHANGED <<loop, waitPrediction, queue, window, min_distance, train, cache, lockMap, answers>>

Test(t) == Head(todo[t])

(* GetMutex and the lock                                                    *)
Lock(t) ==
    /\ at[t] = "lock"
    /\ lockMap[Test(t)] = NoThread
    /\ lockMap' = [lockMap EXCEPT ![Test(t)] = t]
    /\ at' = [at EXCEPT ![t] = "query"]
    /\ UNCHANGED <<loop, waitPrediction, queue, groups, todo, window, min_distance, train, cache, answers>>

(* Query creates an empty entry when there is none.                         *)
Entry(b) == IF b \in DOMAIN cache THEN cache[b] ELSE [distance |-> 0, nearest |-> {}]

Window(test) == {i \in DOMAIN train : InWindow(test, train[i])}

QueryHit(t) ==
    /\ at[t] = "query"
    /\ Entry(Test(t)).nearest # {}
    /\ min_distance' = [min_distance EXCEPT ![t] = Entry(Test(t)).distance]
    /\ at' = [at EXCEPT ![t] = "return"]
    /\ UNCHANGED <<loop, waitPrediction, queue, groups, todo, window, train, cache, lockMap, answers>>

QueryMiss(t) ==
    /\ at[t] = "query"
    /\ Entry(Test(t)).nearest = {}
    /\ cache' = [b \in DOMAIN cache \cup {Test(t)} |-> Entry(b)]
    /\ window' = [window EXCEPT ![t] = Window(Test(t))]
    /\ at' = [at EXCEPT ![t] = "scan"]
    /\ UNCHANGED <<loop, waitPrediction, queue, groups, todo, min_distance, train, lockMap, answers>>

(* The next training burst of the window.                                   *)
Scan(t) ==
    /\ at[t] = "scan"
    /\ \E i \in window[t] :
          /\ \A j \in window[t] : i <= j
          /\ LET b == Test(t)
                 d == Distance(b, train[i])
                 nearest == IF d < min_distance[t] THEN {train[i]}
                            ELSE IF d = min_distance[t] THEN cache[b].nearest \cup {train[i]}
                            ELSE cache[b].nearest
             IN  /\ cache' = [cache EXCEPT ![b] = [distance |-> cache[b].distance,
                                                   nearest  |-> nearest]]
                 /\ min_distance' = [min_distance EXCEPT ![t] = Least(min_distance[t], d)]
          /\ window' = [window EXCEPT ![t] = window[t] \ {i}]
    /\ UNCHANGED <<loop, waitPrediction, queue, at, groups, todo, train, lockMap, answers>>

EndScan(t) ==
    /\ at[t] = "scan"
    /\ window[t] = {}
    /\ cache' = [cache EXCEPT ![Test(t)] = [distance |-> min_distance[t],
                                            nearest  |-> cache[Test(t)].nearest]]
    /\ at' = [at EXCEPT ![t] = "return"]
    /\ UNCHANGED <<loop, waitPrediction, queue, groups, todo, window, min_distance, train, lockMap, answers>>

PredictedAs(t) == [test     |-> Test(t),
                   distance |-> min_distance[t],
                   nearest  |-> cache[Test(t)].nearest]

Return_MutexKept(t) ==    \* mutant: a hit returns with the mutex locked
    /\ at[t] = "return"
    /\ answers' = Append(answers, PredictedAs(t))
    /\ todo' = [todo EXCEPT ![t] = Tail(todo[t])]
    /\ at' = [at EXCEPT ![t] = IF Tail(todo[t]) = <<>> THEN "group" ELSE "lock"]
    /\ min_distance' = [min_distance EXCEPT ![t] = FAR]
    /\ UNCHANGED <<loop, waitPrediction, queue, groups, window, train, cache, lockMap>>

(* The vector is copied before the lock is released. Scoring a group after  *)
(* its last burst is in Score.                                              *)
Return(t) ==
    /\ at[t] = "return"
    /\ answers' = Append(answers, PredictedAs(t))
    /\ lockMap' = [lockMap EXCEPT ![Test(t)] = NoThread]
    /\ todo' = [todo EXCEPT ![t] = Tail(todo[t])]
    /\ at' = [at EXCEPT ![t] = IF Tail(todo[t]) = <<>> THEN "group" ELSE "lock"]
    /\ min_distance' = [min_distance EXCEPT ![t] = FAR]
    /\ UNCHANGED <<loop, waitPrediction, queue, groups, window, train, cache>>

(* waitPrediction->done(), the last step of the task                        *)
TaskDone(t) ==
    /\ at[t] = "group"
    /\ groups[t] = <<>>
    /\ waitPrediction' = [nleft |-> waitPrediction.nleft - 1, live |-> waitPrediction.live]
    /\ at' = [at EXCEPT ![t] = "idle"]
    /\ UNCHANGED <<loop, queue, groups, todo, window, min_distance, train, cache, lockMap, answers>>

Worker(t) ==
    \/ Dispatch(t) \/ NextGroup(t) \/ Lock(t) \/ QueryHit(t) \/ QueryMiss(t)
    \/ Scan(t) \/ EndScan(t) \/ Return(t) \/ TaskDone(t)

AllDone == pc = "train" /\ experiment > Len(Experiments)

Terminating == AllDone /\ UNCHANGED vars

Next == Main \/ (\E t \in Threads : Worker(t)) \/ Terminating

(* The operating system runs every thread. A mutex is taken finitely often  *)
(* in an experiment, so a waiting thread needs no stronger fairness.        *)
Fairness ==
    /\ WF_vars(Main)
    /\ \A t \in Threads : WF_vars(Worker(t))

Spec == Init /\ [][Next]_vars

FairSpec == Spec /\ Fairness

-----------------------------------------------------------------------------
(* Properties *)

TrainBursts == UNION {ToSet(e.train) : e \in ToSet(Experiments)}
Answer == [test : Tests, distance : Int, nearest : SUBSET TrainBursts]

(* Types of all variables; an entry of the cache exists only for test       *)
(* bursts, and a mutex is held by a thread that is between the lock and the *)
(* return of PredictBurst on the same contents.                             *)
TypeOK ==
    /\ pc \in {"train", "count", "start", "clear"}
    /\ experiment \in 1 .. Len(Experiments) + 1
    /\ device \in Nat \ {0}
    /\ taskNum \in Seq(Nat)
    /\ tasks \in Seq(Seq(Group)) /\ queue \in Seq(Seq(Group))
    /\ waitPrediction \in [nleft : Int, live : BOOLEAN]
    /\ at \in [Threads -> {"idle", "group", "lock", "query", "scan", "return"}]
    /\ groups \in [Threads -> Seq(Group)]
    /\ todo \in [Threads -> Seq(Tests)]
    /\ window \in [Threads -> SUBSET Nat]
    /\ min_distance \in [Threads -> Int]
    /\ DOMAIN cache \subseteq Tests
    /\ \A b \in DOMAIN cache : cache[b] \in [distance : Int, nearest : SUBSET TrainBursts]
    /\ lockMap \in [Tests -> Threads \cup {NoThread}]
    /\ \A b \in Tests, t \in Threads :
          lockMap[b] = t <=> at[t] \in {"query", "scan", "return"} /\ Test(t) = b
    /\ answers \in Seq(Answer)

(* The answers of PredictBurst are those of the oracle: whatever the other  *)
(* threads do to the shared cache meanwhile, and whatever earlier           *)
(* experiments put into it, every answer is the minimum over the training   *)
(* bursts of comparable size of THIS experiment, with all of its ties.      *)
Oracle == INSTANCE NearestOracle
             WITH Trainsets <- {e.train : e \in ToSet(Experiments)}

OracleSpec == Oracle!Spec

(* No task is waiting or running once Predict has deleted waitPrediction,   *)
(* so no done() reaches a deleted WaitGroup and no task touches a           *)
(* classifier that is gone: taskNum counts what splitVector cuts.           *)
NoTaskAfterWait ==
    queue # <<>> \/ (\E t \in Threads : at[t] # "idle") => waitPrediction.live

(* Every experiment of the series ends: no thread waits for a mutex or for  *)
(* a missing done() for ever.                                               *)
ExperimentsEnd == <>AllDone
=============================================================================
