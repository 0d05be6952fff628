-------------------------------- MODULE Train --------------------------------
(***************************************************************************)
(* KBurstClassifier::Train over a series of experiments: one go task per   *)
(* device on the pool, TrainOneDevice, and the barrier waitTrain. A task   *)
(* writes to the table of its classifier, under trainMutex, and to two     *)
(* static maps of BurstGroupPolicy that every experiment of the process    *)
(* shares.                                                                 *)
(*                                                                         *)
(* Each step that holds a mutex is one action; between them tasks of       *)
(* different devices interleave. What a task computes on its own,          *)
(* MergeStrictHash and MergeIdenticalKeys, depends on the order in which   *)
(* an unordered_map lists pointers: any order.                             *)
(***************************************************************************)
EXTENDS Burst, FiniteSets, FiniteSetsExt

CONSTANTS
    BURST_MAX_PACKET_INDEX,
    Distance(_, _),             \* Burst::Distance: "ultra" below 0.2, "near"
                                \* below 0.7, else "far"
    BIG_UNISIG, BIG_PKTNUM,     \* 10 and 6: only bigger bursts are merged
    MAX_BURSTS,                 \* 1000
    HASH_SHIFTS,                \* 30
    WORD,                       \* 64: the bits of a size_t
    Threads,                    \* the threads of the pool
    Experiments                 \* the training sets: device -> groups

W == INSTANCE TrainWindow WITH UNISIG_RANGE <- 1, PACKETNUM_RANGE <- 1   \* unused here

BurstsOf(groups) == UNION {ToSet(group) : group \in ToSet(groups)}

(* What SortInOrder leaves, no signature being there twice.                 *)
Sorted(detail) == \A i, j \in DOMAIN detail : i < j => detail[i].sig < detail[j].sig

ASSUME TrainAssumption ==
    /\ Sig \subseteq Int
    /\ BURST_MAX_PACKET_INDEX \in Nat \ {0}
    /\ MAX_BURSTS \in Nat
    /\ {HASH_SHIFTS, WORD} \subseteq Nat \ {0}
    /\ \A trainset \in ToSet(Experiments) : \A d \in DOMAIN trainset :
          /\ d \in Nat
          /\ trainset[d] \in Seq(Seq(BurstsOf(trainset[d]))) \ {<<>>}
          /\ \A group \in ToSet(trainset[d]) :
                /\ group # <<>>
                /\ \A b \in ToSet(group) :
                      /\ b \in BurstType /\ W!Sized(b)
                      /\ Validate(b) = "OK"
                      /\ Sorted(b.packetDetail)
          \* a burst stands for its object, which one device has
          /\ \A e \in DOMAIN trainset \ {d} : BurstsOf(trainset[d]) \cap BurstsOf(trainset[e]) = {}

ASSUME FiniteAssumption ==
    /\ IsFiniteSet(Threads)
    /\ Experiments \in Seq(ToSet(Experiments))
    /\ \A trainset \in ToSet(Experiments) : IsFiniteSet(DOMAIN trainset)

VARIABLES
    main,                       \* pc, the experiment, the devices not started
    queue, pool,                \* the tasks waiting, what each thread runs
    waitTrain,                  \* nleft, and whether the WaitGroup exists
    train,                      \* <<row, column>> -> bursts
    burstStats,                 \* deviceId -> number of bursts kept
    addrAvgPktMap,              \* static: device -> median packets per group
    blockLevelDistribution      \* static: device -> merged bursts

vars == <<main, queue, pool, waitTrain, train, burstStats, addrAvgPktMap,
          blockLevelDistribution>>

Idle == [at |-> "idle"]
EmptyMap == [k \in {} |-> 0]
At(map, key, default) == IF key \in DOMAIN map THEN map[key] ELSE default
Put(map, key, value) ==
    [k \in DOMAIN map \cup {key} |-> IF k = key THEN value ELSE map[k]]

Without(map, key) == [k \in DOMAIN map \ {key} |-> map[k]]

Trainset == Experiments[main.experiment]
Devices == UNION {DOMAIN trainset : trainset \in ToSet(Experiments)}

Init ==
    /\ main = [pc |-> "construct", experiment |-> 1, devices |-> {}]
    /\ queue = <<>>
    /\ pool = [t \in Threads |-> Idle]
    /\ waitTrain = [nleft |-> 0, live |-> FALSE]
    /\ train = EmptyMap
    /\ burstStats = EmptyMap
    /\ addrAvgPktMap = EmptyMap
    /\ blockLevelDistribution = EmptyMap

-----------------------------------------------------------------------------
(* The main thread *)

Cells == (0 .. BURST_MAX_UNISIG - 1) \X (0 .. BURST_MAX_PACKET_INDEX - 1)

WaitCount_OneShort(n) == n - 1    \* mutant: one task is not waited for

(* WaitGroup(n); with nothing to wait for nleft is -1.                      *)
WaitCount(n) == IF n = 0 THEN -1 ELSE n

(* A classifier with an empty table; Train then makes the WaitGroup and     *)
(* sizes burstStats.                                                        *)
BeginTrain ==
    /\ main.pc = "construct"
    /\ main.experiment <= Len(Experiments)
    /\ LET n == Cardinality(DOMAIN Trainset)
       IN  /\ waitTrain' = [nleft |-> WaitCount(n), live |-> TRUE]
           /\ burstStats' = [i \in 0 .. n - 1 |-> 0]
    /\ train' = [c \in Cells |-> <<>>]
    /\ main' = [main EXCEPT !.pc = "start", !.devices = DOMAIN Trainset]
    /\ UNCHANGED <<queue, pool, addrAvgPktMap, blockLevelDistribution>>

StartTask_SkipsSingle ==    \* mutant: a device with one group is not worth a task
    /\ main.pc = "start"
    /\ \E d \in main.devices :
          /\ queue' = IF Len(Trainset[d]) > 1 THEN Append(queue, d) ELSE queue
          /\ main' = [main EXCEPT !.devices = @ \ {d}]
    /\ UNCHANGED <<pool, waitTrain, train, burstStats, addrAvgPktMap, blockLevelDistribution>>

StartTask ==
    /\ main.pc = "start"
    /\ \E d \in main.devices :
          /\ queue' = Append(queue, d)
          /\ main' = [main EXCEPT !.devices = @ \ {d}]
    /\ UNCHANGED <<pool, waitTrain, train, burstStats, addrAvgPktMap, blockLevelDistribution>>

Wait ==
    /\ main.pc = "start"
    /\ main.devices = {}
    /\ waitTrain.nleft <= 0
    /\ waitTrain' = [waitTrain EXCEPT !.live = FALSE]
    /\ main' = [main EXCEPT !.pc = "trained"]
    /\ UNCHANGED <<queue, pool, train, burstStats, addrAvgPktMap, blockLevelDistribution>>

NextExperiment_ClearsLevels ==    \* mutant: the static maps start afresh
    /\ main.pc = "trained"
    /\ main' = [main EXCEPT !.pc = "construct", !.experiment = @ + 1]
    /\ train' = EmptyMap
    /\ burstStats' = EmptyMap
    /\ blockLevelDistribution' = EmptyMap
    /\ UNCHANGED <<queue, pool, waitTrain, addrAvgPktMap>>

(* Prediction, then the classifier is deleted. The static maps stay, and    *)
(* printing a wrong prediction asks addrAvgPktMap with operator[]: an id    *)
(* without training gets a 0. (Score has when that happens, and what asking *)
(* does to the other map, which PushLevel extends all the same.)            *)
NextExperiment ==
    /\ main.pc = "trained"
    /\ main' = [main EXCEPT !.pc = "construct", !.experiment = @ + 1]
    /\ train' = EmptyMap
    /\ burstStats' = EmptyMap
    /\ \E asked \in SUBSET (Devices \ DOMAIN addrAvgPktMap) :
          addrAvgPktMap' = [d \in DOMAIN addrAvgPktMap \cup asked |-> At(addrAvgPktMap, d, 0)]
    /\ UNCHANGED <<queue, pool, waitTrain, blockLevelDistribution>>

Main == BeginTrain \/ StartTask \/ Wait \/ NextExperiment

-----------------------------------------------------------------------------
(* TrainOneDevice *)

PktNums(groups) ==
    [i \in DOMAIN groups |-> Total([j \in DOMAIN groups[i] |-> groups[i][j].pktNum])]

(* The number that sorting puts in place k.                                 *)
InPlace(numVec, k) ==
    Min({n \in ToSet(numVec) : Cardinality({i \in DOMAIN numVec : numVec[i] <= n}) >= k})

(* BlockAvgPktNum: the median, as an int.                                   *)
BlockAvgPktNum(groups) ==
    LET numVec == PktNums(groups)
        half == Len(groups) \div 2
    IN  IF Len(groups) % 2 = 1 THEN InPlace(numVec, half + 1)
        ELSE (InPlace(numVec, half) + InPlace(numVec, half + 1)) \div 2

(* The groups of one device in one experiment; all groups.                  *)
DeviceGroups == {x[1][x[2]] : x \in {y \in ToSet(Experiments) \X Devices : y[2] \in DOMAIN y[1]}}
Groups == UNION {ToSet(groups) : groups \in DeviceGroups}

(* The constructor that merges a group: AddSig once for every packet of     *)
(* every burst. No limit applies to the signatures.                         *)
AddEntry(burst, d) == FoldLeft(LAMBDA b, i : AddSig(b, d.sig), burst, [i \in 1 .. d.num |-> i])
AddBurst(burst, b) == FoldLeft(AddEntry, burst, b.packetDetail)

MergedBurst ==
    [group \in Groups |-> FoldLeft(AddBurst, NewBurst(Head(group).instanceLabel), group)]

(* A size_t is the set of its bits; std::hash of a number is the number,    *)
(* extended by its sign.                                                    *)
Bits(n) == {i \in 0 .. WORD - 1 : (n \div 2^i) % 2 = 1}
Shifted(word, n) == {i + n : i \in word} \cap (0 .. WORD - 1)
Xor(words) ==
    {i \in 0 .. WORD - 1 : Cardinality({k \in DOMAIN words : i \in words[k]}) % 2 = 1}

(* std::hash<Burst>: different bursts may have the same.                    *)
Hash(b) ==
    Xor(<<Bits(b.uniPktNum), Bits(b.pktNum)>>
          \o [i \in 1 .. b.uniPktNum |->
                 LET d == b.packetDetail[i] IN Shifted(Bits(d.sig), d.num % HASH_SHIFTS)])

(* Where bursts are: in which group, and where in it.                       *)
Positions(groups) == UNION {{i} \X DOMAIN groups[i] : i \in DOMAIN groups}
Before(p, q) == p[1] < q[1] \/ (p[1] = q[1] /\ p[2] < q[2])
Occurrences(groups, hash) == {p \in Positions(groups) : Hash(groups[p[1]][p[2]]) = hash}

Firsts_Forgotten(groups) == BurstsOf(groups)    \* mutant: hashMap[hash] = burst left out

(* The bursts that are the first with their hash.                           *)
Firsts(groups) ==
    {groups[p[1]][p[2]] :
        p \in {q \in Positions(groups) :
                 \A o \in Occurrences(groups, Hash(groups[q[1]][q[2]])) : ~Before(o, q)}}

MergeStrictHash_FromZero ==    \* mutant: insert({ burst, 0 })
    [groups \in DeviceGroups |->
        [b \in Firsts(groups) |-> Cardinality(Occurrences(groups, Hash(b))) - 1]]

(* The first burst with a hash stands for all that have it.                 *)
MergeStrictHash ==
    [groups \in DeviceGroups |->
        [b \in Firsts(groups) |-> Cardinality(Occurrences(groups, Hash(b)))]]

Dispatch(t) ==
    /\ pool[t].at = "idle"
    /\ queue # <<>>
    /\ pool' = [pool EXCEPT ![t] = [at |-> "average", device |-> Head(queue),
                                    groups |-> Trainset[Head(queue)],
                                    vec |-> EmptyMap, kept |-> EmptyMap]]
    /\ queue' = Tail(queue)
    /\ UNCHANGED <<main, waitTrain, train, burstStats, addrAvgPktMap, blockLevelDistribution>>

InsertAverage_Overwrites(t) ==    \* mutant: operator[] instead of insert
    /\ pool[t].at = "average"
    /\ addrAvgPktMap' = Put(addrAvgPktMap, pool[t].device, BlockAvgPktNum(pool[t].groups))
    /\ pool' = [pool EXCEPT ![t].at = "levels"]
    /\ UNCHANGED <<main, queue, waitTrain, train, burstStats, blockLevelDistribution>>

(* Under numAvgMutex. insert keeps the value of an earlier experiment.      *)
InsertAverage(t) ==
    /\ pool[t].at = "average"
    /\ LET d == pool[t].device
       IN  addrAvgPktMap' =
               Put(addrAvgPktMap, d, At(addrAvgPktMap, d, BlockAvgPktNum(pool[t].groups)))
    /\ pool' = [pool EXCEPT ![t].at = "levels"]
    /\ UNCHANGED <<main, queue, waitTrain, train, burstStats, blockLevelDistribution>>

(* Under levelMutex, one group at a time.                                   *)
PushLevel(t) ==
    /\ pool[t].at = "levels"
    /\ pool[t].groups # <<>>
    /\ LET d == pool[t].device
       IN  blockLevelDistribution' =
               Put(blockLevelDistribution, d,
                   Append(At(blockLevelDistribution, d, <<>>), MergedBurst[Head(pool[t].groups)]))
    /\ pool' = [pool EXCEPT ![t].groups = Tail(@)]
    /\ UNCHANGED <<main, queue, waitTrain, train, burstStats, addrAvgPktMap>>

MergeStrict(t) ==
    /\ pool[t].at = "levels"
    /\ pool[t].groups = <<>>
    /\ pool' = [pool EXCEPT ![t].at = "identical",
                            ![t].vec = MergeStrictHash[Trainset[pool[t].device]]]
    /\ UNCHANGED <<main, queue, waitTrain, train, burstStats, addrAvgPktMap,
                   blockLevelDistribution>>

-----------------------------------------------------------------------------
(* MergeIdenticalKeys: one burst of vec per step, larger counts first       *)

Signatures(b) == [i \in DOMAIN b.packetDetail |-> b.packetDetail[i].sig]

Identical(kept, b) == {k \in DOMAIN kept : Signatures(k) = Signatures(b)}
UltraSimilar(kept, b) == {k \in DOMAIN kept : Distance(k, b) = "ultra"}
Big(b) == b.uniPktNum > BIG_UNISIG \/ b.pktNum > BIG_PKTNUM

Absorbers_AnyIdentical(kept, b) ==    \* mutant: the distance is not asked
    IF ~Big(b) THEN {} ELSE IF UltraSimilar(kept, b) # {} THEN UltraSimilar(kept, b)
                            ELSE Identical(kept, b)

(* The kept bursts that the code may add b's count to: an ultra similar one *)
(* if there is any; else one with the same signatures, and the first that   *)
(* is found decides: if it is too far b is kept although another may do.    *)
Absorbers(kept, b) ==
    IF ~Big(b) THEN {}
    ELSE IF UltraSimilar(kept, b) # {} THEN UltraSimilar(kept, b)
    ELSE {k \in Identical(kept, b) : Distance(k, b) # "far"}

(* May b be kept on its own?                                                *)
Stays(kept, b) ==
    \/ ~Big(b)
    \/ /\ UltraSimilar(kept, b) = {}
       /\ \/ Identical(kept, b) = {}
          \/ \E k \in Identical(kept, b) : Distance(k, b) = "far"

Full(kept) == Cardinality(DOMAIN kept) > MAX_BURSTS

MergeOne(t) ==
    /\ pool[t].at = "identical"
    /\ ~Full(pool[t].kept)
    /\ \E b \in DOMAIN pool[t].vec :
          /\ \A c \in DOMAIN pool[t].vec : pool[t].vec[c] <= pool[t].vec[b]
          /\ LET kept == pool[t].kept
                 num == pool[t].vec[b]
             IN  \E k \in Absorbers(kept, b) \cup (IF Stays(kept, b) THEN {b} ELSE {}) :
                    pool' = [pool EXCEPT
                                ![t].kept = Put(kept, k, At(kept, k, 0) + num),
                                ![t].vec = Without(@, b)]
    /\ UNCHANGED <<main, queue, waitTrain, train, burstStats, addrAvgPktMap,
                   blockLevelDistribution>>

(* The end of vec, or the break.                                            *)
EndMerge(t) ==
    /\ pool[t].at = "identical"
    /\ pool[t].vec = EmptyMap \/ Full(pool[t].kept)
    /\ pool' = [pool EXCEPT ![t].at = "file", ![t].vec = pool[t].kept]
    /\ UNCHANGED <<main, queue, waitTrain, train, burstStats, addrAvgPktMap,
                   blockLevelDistribution>>

-----------------------------------------------------------------------------

Cell_Uncapped(b) == <<W!Row(b), (b.pktNum - 1) % BURST_MAX_PACKET_INDEX>>    \* mutant: % for min

Cell(b) == <<W!Row(b), W!Column(b)>>

(* Under trainMutex, one burst at a time.                                   *)
File(t) ==
    /\ pool[t].at = "file"
    /\ \E b \in DOMAIN pool[t].vec :
          /\ train' = [train EXCEPT ![Cell(b)] = Append(@, b)]
          /\ pool' = [pool EXCEPT ![t].vec = Without(@, b)]
    /\ UNCHANGED <<main, queue, waitTrain, burstStats, addrAvgPktMap, blockLevelDistribution>>

(* burstStats is as long as the training set has devices, whatever their    *)
(* ids are. Beyond its end the write is undefined: the process dies, or     *)
(* other memory takes it.                                                   *)
Stats(t) ==
    /\ pool[t].at = "file"
    /\ pool[t].vec = EmptyMap
    /\ LET d == pool[t].device
           n == Cardinality(DOMAIN pool[t].kept)
       IN  IF d \in DOMAIN burstStats
           THEN burstStats' = [burstStats EXCEPT ![d] = n] /\ UNCHANGED main
           ELSE /\ UNCHANGED burstStats
                /\ main' \in {main, [main EXCEPT !.pc = "crashed"]}
    /\ pool' = [pool EXCEPT ![t].at = "done"]
    /\ UNCHANGED <<queue, waitTrain, train, addrAvgPktMap, blockLevelDistribution>>

(* waitTrain->done()                                                        *)
TaskDone(t) ==
    /\ pool[t].at = "done"
    /\ waitTrain' = [waitTrain EXCEPT !.nleft = @ - 1]
    /\ pool' = [pool EXCEPT ![t] = Idle]
    /\ UNCHANGED <<main, queue, train, burstStats, addrAvgPktMap, blockLevelDistribution>>

Worker(t) ==
    /\ main.pc # "crashed"
    /\ \/ Dispatch(t) \/ InsertAverage(t) \/ PushLevel(t) \/ MergeStrict(t) \/ MergeOne(t)
       \/ EndMerge(t) \/ File(t) \/ Stats(t) \/ TaskDone(t)

Ended == main.pc = "crashed" \/ (main.pc = "construct" /\ main.experiment > Len(Experiments))

Terminating == Ended /\ UNCHANGED vars

Next == Main \/ (\E t \in Threads : Worker(t)) \/ Terminating

(* The operating system runs every thread; a mutex is held for one step.    *)
Fairness == WF_vars(Main) /\ \A t \in Threads : WF_vars(Worker(t))

Spec == Init /\ [][Next]_vars

FairSpec == Spec /\ Fairness

-----------------------------------------------------------------------------
(* Properties *)

Bursts == UNION {BurstsOf(groups) : groups \in DeviceGroups}

IsMap(map, keys, IsValue(_)) == DOMAIN map \subseteq keys /\ \A k \in DOMAIN map : IsValue(map[k])

IsTask(r) ==
    \/ r = Idle
    \/ /\ r.at \in {"average", "levels", "identical", "file", "done"}
       /\ r.device \in Devices
       /\ \A group \in ToSet(r.groups) : group \in Seq(Bursts)
       /\ \A counts \in {r.vec, r.kept} : IsMap(counts, Bursts, LAMBDA n : n \in Nat \ {0})

(* Types of all variables: every index into the table lies within it, and   *)
(* no burst is counted that does not occur.                                 *)
TypeOK ==
    /\ main.pc \in {"construct", "start", "trained", "crashed"}
    /\ main.experiment \in 1 .. Len(Experiments) + 1
    /\ main.devices \subseteq Devices
    /\ queue \in Seq(Devices)
    /\ \A t \in Threads : IsTask(pool[t])
    /\ waitTrain.nleft \in -1 .. Cardinality(Devices)
    /\ IsMap(train, Cells, LAMBDA bursts : bursts \in Seq(Bursts))
    /\ IsMap(burstStats, Nat, LAMBDA n : n \in Nat)
    /\ IsMap(addrAvgPktMap, Devices, LAMBDA n : n \in Nat)
    /\ IsMap(blockLevelDistribution, Devices, LAMBDA merged : merged \in Seq(BurstType))

(* The barrier of Train: when waitTrain is deleted no task is left that     *)
(* would call done() on it, or write to a table prediction already reads.   *)
NoTaskAfterWait ==
    ~waitTrain.live => queue = <<>> /\ \A t \in Threads : pool[t] = Idle

Table == UNION {ToSet(train[c]) : c \in DOMAIN train}

Filed(d) == Table \cap BurstsOf(Trainset[d])

(* After training, the table has for every burst of the training set one    *)
(* that stands for it: of the bursts of its device with its hash exactly    *)
(* one, or none if another burst that is not far from one of them has       *)
(* taken its count; never two of a hash. Equal hashes are all that is       *)
(* asked, so that a burst may be stood for by one that it has no signature  *)
(* in common with: {66 once, 60 twice} by {70 once, 62 twice}. A table that *)
(* reached MAX_BURSTS for the device may lack some, and it goes beyond by   *)
(* one at most.                                                             *)
Represented ==
    main.pc = "trained" =>
        \A d \in DOMAIN Trainset :
            /\ Cardinality(Filed(d)) <= MAX_BURSTS + 1
            /\ \A f, g \in Filed(d) : f # g => Hash(f) # Hash(g)
            /\ \/ Cardinality(Filed(d)) = MAX_BURSTS + 1
               \/ \A b \in BurstsOf(Trainset[d]) :
                     \E same \in BurstsOf(Trainset[d]), f \in Filed(d) :
                        /\ f = same \/ Distance(f, same) # "far"
                        /\ Hash(same) = Hash(b)

(* Nothing but the present experiment's bursts is in the table, each once   *)
(* and where PredictBurst will look for its size: the last column has all   *)
(* the long ones.                                                           *)
FiledInPlace ==
    \A c \in DOMAIN train : \A i \in DOMAIN train[c] :
        LET b == train[c][i]
        IN  /\ \E d \in DOMAIN Trainset : b \in BurstsOf(Trainset[d])
            /\ \A j \in DOMAIN train[c] : i # j => b # train[c][j]
            /\ b.uniPktNum = c[1] + 1
            /\ IF c[2] = BURST_MAX_PACKET_INDEX - 1 THEN b.pktNum > c[2]
                                                    ELSE b.pktNum = c[2] + 1

(* The groups device d was trained on in this process, up to experiment e.  *)
GroupsUpTo(e, d) ==
    FlattenSeq([i \in 1 .. e |-> At(Experiments[i], d, <<>>)])

(* What later predictions find in the maps that outlive an experiment. For  *)
(* the tie break, the merged burst of every group of every experiment so    *)
(* far, in order, exact in its packets for each signature, even when a      *)
(* group has so many that uniPktNum wraps. For the output, the median of    *)
(* the FIRST experiment that knew the device, whatever the parameters are   *)
(* now; or 0 for ever, if a still earlier one was asked for it.             *)
StaticMapsKeep ==
    main.pc = "trained" =>
        \A d \in Devices :
            LET groups == GroupsUpTo(main.experiment, d)
                merged == At(blockLevelDistribution, d, <<>>)
                known == {e \in 1 .. main.experiment : d \in DOMAIN Experiments[e]}
            IN  /\ Len(merged) = Len(groups)
                /\ \A i \in DOMAIN groups : \A sig \in Sig :
                      CountOf(sig, merged[i])
                        = Total([j \in DOMAIN groups[i] |-> CountOf(sig, groups[i][j])])
                /\ IF known = {} THEN At(addrAvgPktMap, d, 0) = 0
                   ELSE /\ d \in DOMAIN addrAvgPktMap
                        /\ \/ addrAvgPktMap[d] = BlockAvgPktNum(Experiments[Min(known)][d])
                           \/ addrAvgPktMap[d] = 0 /\ Min(known) > 1

(* The series ends: every barrier opens, also that of a training set        *)
(* without devices.                                                         *)
TrainEnds == <>Ended
=============================================================================
