-------------------------------- MODULE Score --------------------------------
(***************************************************************************)
(* From the votes of a group to the result files: the tasks of             *)
(* PredictGroups decide their groups with BurstGroupPolicy::GenPrediction  *)
(* and count them with Score::AddPrediction, while the main thread still   *)
(* adds averages and starts the tasks of other devices. A series of        *)
(* experiments shares the Context and the static blockLevelDistribution.   *)
(*                                                                         *)
(* The sheets are guarded by a mutex. Two things are not: the static map,  *)
(* which GenPrediction reads with operator[] and so extends by ids it does *)
(* not know, and m_ErrBurstGroups when a group stays unreliable. Accesses  *)
(* to these take a step to begin and a step to end; when two overlap and   *)
(* one changes the container the outcome is undefined.                     *)
(*                                                                         *)
(* PredictBurst's answers are given with the bursts (Predict shows they    *)
(* are those of a sequential search, Train what is in the maps), and the   *)
(* barrier opens when no task is left (NoTaskAfterWait of Predict).        *)
(***************************************************************************)
EXTENDS BurstGroupPolicy

CONSTANTS
    MIN_BLOCK_PKTNUM,
    Threads,                \* the compute threads of the pool
    Series                  \* sequences of experiments, each
                            \* [mapping: the lines of device_mappings.csv,
                            \*  levels: addr -> packets per training group,
                            \*  testset: addr -> groups, epochSlotNum]

IsSeq(s) == s \in Seq(ToSet(s))

IsBurst(b, mapping) ==
    /\ {b.pktNum, b.uniPktNum, b.distance} \subseteq Nat
    /\ b.names # {}
    /\ b.names \subseteq {line.name : line \in ToSet(mapping)}
    /\ Vote(b.uniPktNum, Cardinality(b.names), b.distance) \in Int

(* What training and the test set are made of; no group is so large that a  *)
(* float does not hold its number of packets.                               *)
ASSUME SeriesAssumption ==
    /\ MIN_BLOCK_PKTNUM \in Nat
    /\ \A series \in Series : IsSeq(series) /\ \A e \in ToSet(series) :
           /\ e.epochSlotNum \in Nat \ {0}
           /\ IsSeq(e.mapping)
           /\ DOMAIN e.levels \cup DOMAIN e.testset \subseteq {line.addr : line \in ToSet(e.mapping)}
           /\ \A a \in DOMAIN e.levels : e.levels[a] \in Seq(0 .. FLOAT_EXACT) \ {<<>>}
           /\ \A a \in DOMAIN e.testset :
                 /\ IsSeq(e.testset[a])
                 /\ \A group \in ToSet(e.testset[a]) :
                       /\ IsSeq(group)
                       /\ \A b \in ToSet(group) : IsBurst(b, e.mapping)
                       /\ GroupPktNum(group) <= FLOAT_EXACT

Names == {line.name : line \in UNION {UNION {ToSet(e.mapping) : e \in ToSet(series)} :
                                       series \in Series}}

(* No device has the name or the type of what is not a prediction.          *)
ASSUME NamesAssumption ==
    /\ Type(Unreliable) = Unreliable
    /\ Type(Empty) # Unreliable
    /\ \A n \in Names : /\ {n, Type(n)} \cap {Unreliable, Empty} = {}
                        /\ Type(Type(n)) # Unreliable

VARIABLES
    main,               \* pc, the series, the experiment, devices not started
    context,            \* deviceVec (names), allDevices, addressMap
    blockLevelDistribution,     \* static: deviceId -> packets per group
    queue, pool,        \* the go tasks waiting, what each thread runs
    mutex,              \* who holds Score's mutex
    sheet,              \* type -> [TP, FN, FP, missNum]
    m_ErrBurstGroups,   \* group -> how often it is in the vector
    decided,            \* history: group -> prediction, this experiment
    undefined           \* history: "levels", "errors": races have corrupted it

vars == <<main, context, blockLevelDistribution, queue, pool, mutex, sheet,
          m_ErrBurstGroups, decided, undefined>>

NoThread == "nobody"
ASSUME MutexAssumption == NoThread \notin Threads
Idle == [at |-> "idle"]
EmptyMap == [k \in {} |-> 0]

At(map, key, default) == IF key \in DOMAIN map THEN map[key] ELSE default
Put(map, key, value) ==
    [k \in DOMAIN map \cup {key} |-> IF k = key THEN value ELSE map[k]]
Insert(map, key, value) == IF key \in DOMAIN map THEN map ELSE Put(map, key, value)

Experiment == main.series[main.experiment]
Testset == Experiment.testset

(* A group of the test set by its device's address and its place.           *)
Group(g) == Testset[g[1]][g[2]]
NameOf(addr) == context.deviceVec[context.addressMap[addr] + 1]
TrueType(g) == Type(NameOf(g[1]))

Init ==
    /\ \E series \in Series :
          main = [pc |-> "begin", series |-> series, experiment |-> 1, devices |-> {}]
    /\ context = [deviceVec |-> <<>>, allDevices |-> EmptyMap, addressMap |-> EmptyMap]
    /\ blockLevelDistribution = EmptyMap
    /\ queue = <<>>
    /\ pool = [t \in Threads |-> Idle]
    /\ mutex = NoThread
    /\ sheet = EmptyMap
    /\ m_ErrBurstGroups = EmptyMap
    /\ decided = EmptyMap
    /\ undefined = {}

-----------------------------------------------------------------------------
(* The main thread *)

(* KDevice's constructor and UpdateDeviceMap for every line of the mapping: *)
(* devId is the place in deviceVec (until its 16 bits wrap, see IoTBurst),  *)
(* and insert leaves a key that is known where it is.                       *)
Registered(known, keys, size) ==
    [k \in DOMAIN known \cup ToSet(keys) |->
        IF k \in DOMAIN known THEN known[k]
        ELSE size - 1 + Min({i \in DOMAIN keys : keys[i] = k})]

AddDevices(c, mapping) ==
    LET names == [i \in DOMAIN mapping |-> mapping[i].name]
        addrs == [i \in DOMAIN mapping |-> mapping[i].addr]
        size == Len(c.deviceVec)
    IN  [deviceVec  |-> c.deviceVec \o names,
         allDevices |-> Registered(c.allDevices, names, size),
         addressMap |-> Registered(c.addressMap, addrs, size)]

(* AddDevices, and Train as far as it reaches BurstGroupPolicy: the groups  *)
(* of a device are appended to what earlier experiments left.               *)
Begin ==
    /\ main.pc = "begin"
    /\ main.experiment <= Len(main.series)
    /\ context' = AddDevices(context, Experiment.mapping)
    /\ LET ids == {context'.addressMap[a] : a \in DOMAIN Experiment.levels}
           trained(i) == Experiment.levels[CHOOSE a \in DOMAIN Experiment.levels :
                                               context'.addressMap[a] = i]
       IN  blockLevelDistribution' =
               [i \in DOMAIN blockLevelDistribution \cup ids |->
                   At(blockLevelDistribution, i, <<>>)
                     \o (IF i \in ids THEN trained(i) ELSE <<>>)]
    /\ main' = [pc |-> "predict", series |-> main.series, experiment |-> main.experiment,
                devices |-> DOMAIN Testset]
    /\ UNCHANGED <<queue, pool, mutex, sheet, m_ErrBurstGroups, decided, undefined>>

NewSheet == [TP |-> 0, FN |-> 0, FP |-> 0, missNum |-> 0]
Sheet(type) == At(sheet, type, NewSheet)

(* splitVector: the places first..last of each task.                        *)
Tasks(addr) ==
    LET n == Len(Testset[addr])
        size == Experiment.epochSlotNum
    IN  [k \in 1 .. (n + size - 1) \div size |->
            [addr |-> addr, next |-> (k - 1) * size + 1, last |-> Min({k * size, n})]]

StartDevice_NewSheet(addr) ==    \* mutant: the sheet is assigned, not looked up
    /\ main.pc = "predict"
    /\ addr \in main.devices
    /\ mutex = NoThread
    /\ sheet' = Put(sheet, Type(NameOf(addr)), NewSheet)
    /\ queue' = queue \o Tasks(addr)
    /\ main' = [main EXCEPT !.devices = @ \ {addr}]
    /\ UNCHANGED <<context, blockLevelDistribution, pool, mutex, m_ErrBurstGroups, decided,
                   undefined>>

(* AddPktAvgNum, under the mutex, makes the sheet of the type if it is not  *)
(* there; then the tasks of the device are started.                         *)
StartDevice(addr) ==
    /\ main.pc = "predict"
    /\ addr \in main.devices
    /\ mutex = NoThread
    /\ sheet' = Put(sheet, Type(NameOf(addr)), Sheet(Type(NameOf(addr))))
    /\ queue' = queue \o Tasks(addr)
    /\ main' = [main EXCEPT !.devices = @ \ {addr}]
    /\ UNCHANGED <<context, blockLevelDistribution, pool, mutex, m_ErrBurstGroups, decided,
                   undefined>>

Wait ==
    /\ main.pc = "predict"
    /\ main.devices = {}
    /\ queue = <<>> /\ \A t \in Threads : pool[t] = Idle
    /\ main' = [main EXCEPT !.pc = "output"]
    /\ UNCHANGED <<context, blockLevelDistribution, queue, pool, mutex, sheet,
                   m_ErrBurstGroups, decided, undefined>>

(* WrongBurstGroupDetails: BurstGroupPolicy::ToString looks every decision  *)
(* up by its name, and exits when there is no device of it.                 *)
Unprintable == {g \in DOMAIN m_ErrBurstGroups :
                   decided[g] \notin DOMAIN context.allDevices \cup {Unreliable}}

(* Putting one result file on the disk. OutputStringToFile throws OPEN_ERROR *)
(* for a file that does not open, and OutputToFile catches that and tries    *)
(* once more under a name with the time; the second attempt is not guarded,  *)
(* and what create_directories throws is never caught.                       *)
Attempts == {"written", "OPEN_ERROR", "filesystem_error"}
Tries == {<<a>> : a \in Attempts \ {"OPEN_ERROR"}} \cup {<<"OPEN_ERROR", a>> : a \in Attempts}
Written(tries) == tries[Len(tries)] = "written"

(* The table is written first; the details are put together before their    *)
(* file is opened.                                                          *)
OutputFails(table, details) ==
    /\ main.pc = "output"
    /\ \/ ~Written(table)
       \/ Unprintable = {} /\ ~Written(details)
    /\ main' = [main EXCEPT !.pc = "unwritten"]
    /\ UNCHANGED <<context, blockLevelDistribution, queue, pool, mutex, sheet,
                   m_ErrBurstGroups, decided, undefined>>

OutputExits(table) ==
    /\ main.pc = "output"
    /\ Written(table)
    /\ Unprintable # {}
    /\ main' = [main EXCEPT !.pc = "exited"]
    /\ UNCHANGED <<context, blockLevelDistribution, queue, pool, mutex, sheet,
                   m_ErrBurstGroups, decided, undefined>>

(* Both files are written, and the classifier is deleted with its Score.    *)
OutputToFile(table, details) ==
    /\ main.pc = "output"
    /\ Written(table)
    /\ Unprintable = {}
    /\ Written(details)
    /\ main' = [pc |-> "begin", series |-> main.series, experiment |-> main.experiment + 1,
                devices |-> {}]
    /\ sheet' = EmptyMap
    /\ m_ErrBurstGroups' = EmptyMap
    /\ decided' = EmptyMap
    /\ UNCHANGED <<context, blockLevelDistribution, queue, pool, mutex, undefined>>

Main ==
    \/ Begin
    \/ \E addr \in main.devices : StartDevice(addr)
    \/ Wait
    \/ \E table, details \in Tries :
          OutputFails(table, details) \/ OutputExits(table) \/ OutputToFile(table, details)

-----------------------------------------------------------------------------
(* PredictGroups: a task goes through its groups *)

Dispatch(t) ==
    /\ pool[t].at = "idle"
    /\ queue # <<>>
    /\ pool' = [pool EXCEPT ![t] = [at |-> "group", addr |-> Head(queue).addr,
                                    next |-> Head(queue).next, last |-> Head(queue).last]]
    /\ queue' = Tail(queue)
    /\ UNCHANGED <<main, context, blockLevelDistribution, mutex, sheet, m_ErrBurstGroups,
                   decided, undefined>>

(* A task with a group it has made a BurstGroupPolicy for.                  *)
Deciding(task, at, order, prediction, best, id) ==
    [at |-> at, addr |-> task.addr, next |-> task.next, last |-> task.last,
     order |-> order, prediction |-> prediction, best |-> best, id |-> id]

(* done() after the last group; a group with too few packets is skipped.    *)
NextGroup(t) ==
    /\ pool[t].at = "group"
    /\ LET task == pool[t]
           g == <<task.addr, task.next>>
       IN  pool' = [pool EXCEPT ![t] =
               IF task.next > task.last THEN Idle
               ELSE IF GroupPktNum(Group(g)) < MIN_BLOCK_PKTNUM
               THEN [at |-> "group", addr |-> task.addr, next |-> task.next + 1, last |-> task.last]
               ELSE Deciding(task, "rank", <<>>, Empty, INT_MAX, 0)]
    /\ UNCHANGED <<main, context, blockLevelDistribution, queue, mutex, sheet,
                   m_ErrBurstGroups, decided, undefined>>

Current(t) == <<pool[t].addr, pool[t].next>>

(* GenPrediction up to the tie break: one name far enough ahead, or the     *)
(* only one there is, is the decision.                                      *)
Rank(t) ==
    /\ pool[t].at = "rank"
    /\ LET bucket == Bucket(Group(Current(t)))
           mute == Ranked(bucket) = {}
       IN  \E order \in IF mute THEN {SecondChance(context.deviceVec)} ELSE Orders(bucket) :
              pool' = [pool EXCEPT ![t] =
                  IF Len(order) = 1
                  THEN Deciding(pool[t], "score", order, order[1], INT_MAX, 0)
                  ELSE Deciding(pool[t], "lookup", order,
                                IF mute THEN Unreliable ELSE Empty, INT_MAX, 0)]
    /\ UNCHANGED <<main, context, blockLevelDistribution, queue, mutex, sheet,
                   m_ErrBurstGroups, decided, undefined>>

(* GetDevice for the next name; an exception here ends the process. Then    *)
(* the access to the static map begins.                                     *)
Lookup(t) ==
    /\ pool[t].at = "lookup"
    /\ LET task == pool[t]
           Goes(at, id) == pool' = [pool EXCEPT ![t] =
               Deciding(task, at, task.order, task.prediction, task.best, id)]
       IN  IF task.order = <<>>
           THEN Goes("score", 0) /\ UNCHANGED main
           ELSE LET name == Head(task.order)
                IN  IF name \in DOMAIN context.allDevices
                    THEN Goes("compare", context.allDevices[name]) /\ UNCHANGED main
                    ELSE Goes("thrown", 0) /\ main' = [main EXCEPT !.pc = "terminated"]
    /\ UNCHANGED <<context, blockLevelDistribution, queue, mutex, sheet, m_ErrBurstGroups,
                   decided, undefined>>

Inserts(t) == pool[t].at = "compare" /\ pool[t].id \notin DOMAIN blockLevelDistribution

(* Another thread is in the map too, and one of the two extends it; or that *)
(* has happened before.                                                     *)
MapRace(t) ==
    \/ "levels" \in undefined
    \/ \E u \in Threads \ {t} : pool[u].at = "compare" /\ (Inserts(t) \/ Inserts(u))

Compared_LastNearest(t, merged) ==    \* mutant: <= for <
    LET task == pool[t]
        near == Nearest(GroupPktNum(Group(Current(t))), merged)
    IN  [pool EXCEPT ![t] =
            IF near <= task.best
            THEN Deciding(task, "lookup", Tail(task.order), Head(task.order), near, 0)
            ELSE Deciding(task, "lookup", Tail(task.order), task.prediction, task.best, 0)]

Compared_SeveralOnly(t, merged) ==    \* mutant: only devices with several training groups count
    LET task == pool[t]
        near == IF Len(merged) > 1 THEN Nearest(GroupPktNum(Group(Current(t))), merged) ELSE INT_MAX
    IN  [pool EXCEPT ![t] =
            IF near < task.best
            THEN Deciding(task, "lookup", Tail(task.order), Head(task.order), near, 0)
            ELSE Deciding(task, "lookup", Tail(task.order), task.prediction, task.best, 0)]

Compared(t, merged) ==
    LET task == pool[t]
        near == Nearest(GroupPktNum(Group(Current(t))), merged)
    IN  [pool EXCEPT ![t] =
            IF near < task.best
            THEN Deciding(task, "lookup", Tail(task.order), Head(task.order), near, 0)
            ELSE Deciding(task, "lookup", Tail(task.order), task.prediction, task.best, 0)]

(* blockLevelDistribution[devid] and the loop over what is there. In a race *)
(* the process may die, an insertion get lost, or an entry go unseen.       *)
Compare(t) ==
    /\ pool[t].at = "compare"
    /\ LET id == pool[t].id
           merged == At(blockLevelDistribution, id, <<>>)
           extended == Insert(blockLevelDistribution, id, <<>>)
       IN  IF ~MapRace(t)
           THEN /\ pool' = Compared(t, merged)
                /\ blockLevelDistribution' = extended
                /\ UNCHANGED <<main, undefined>>
           ELSE /\ undefined' = undefined \cup {"levels"}
                /\ main' \in {main, [main EXCEPT !.pc = "terminated"]}
                /\ pool' \in {Compared(t, merged), Compared(t, <<>>)}
                /\ blockLevelDistribution' \in {blockLevelDistribution, extended}
    /\ UNCHANGED <<context, queue, mutex, sheet, m_ErrBurstGroups, decided>>

-----------------------------------------------------------------------------
(* Score::AddPrediction *)

GroupDone(t) == [at |-> "group", addr |-> pool[t].addr, next |-> pool[t].next + 1,
                 last |-> pool[t].last]

Pushing(t) == Deciding(pool[t], "push", <<>>, pool[t].prediction, INT_MAX, 0)

PredictType(t) == Type(pool[t].prediction)

(* AddMiss, which releases the mutex before the group is pushed.            *)
AddMiss(t) ==
    /\ pool[t].at = "score"
    /\ PredictType(t) = Unreliable
    /\ mutex = NoThread
    /\ LET type == TrueType(Current(t))
       IN  sheet' = Put(sheet, type, [Sheet(type) EXCEPT !.missNum = @ + 1])
    /\ decided' = Put(decided, Current(t), pool[t].prediction)
    /\ pool' = [pool EXCEPT ![t] = Pushing(t)]
    /\ UNCHANGED <<main, context, blockLevelDistribution, queue, mutex, m_ErrBurstGroups,
                   undefined>>

AddCorrect(t) ==
    /\ pool[t].at = "score"
    /\ PredictType(t) # Unreliable
    /\ mutex = NoThread
    /\ LET type == TrueType(Current(t))
       IN  /\ PredictType(t) = type
           /\ sheet' = Put(sheet, type, [Sheet(type) EXCEPT !.TP = @ + 1])
    /\ decided' = Put(decided, Current(t), pool[t].prediction)
    /\ pool' = [pool EXCEPT ![t] = GroupDone(t)]
    /\ UNCHANGED <<main, context, blockLevelDistribution, queue, mutex, m_ErrBurstGroups,
                   undefined>>

AddWrong_Unlocks(t) ==    \* mutant: the mutex is released before the push
    /\ pool[t].at = "score"
    /\ PredictType(t) # Unreliable
    /\ mutex = NoThread
    /\ LET type == TrueType(Current(t))
           wrong == PredictType(t)
           missed == Put(sheet, type, [Sheet(type) EXCEPT !.FN = @ + 1])
       IN  /\ wrong # type
           /\ sheet' = Put(missed, wrong, [Sheet(wrong) EXCEPT !.FP = @ + 1])
    /\ decided' = Put(decided, Current(t), pool[t].prediction)
    /\ pool' = [pool EXCEPT ![t] = Pushing(t)]
    /\ UNCHANGED <<main, context, blockLevelDistribution, queue, mutex, m_ErrBurstGroups,
                   undefined>>

(* A wrong group is pushed under the mutex (and under debugMutex, which     *)
(* nobody takes without the mutex).                                         *)
AddWrong(t) ==
    /\ pool[t].at = "score"
    /\ PredictType(t) # Unreliable
    /\ mutex = NoThread
    /\ LET type == TrueType(Current(t))
           wrong == PredictType(t)
           missed == Put(sheet, type, [Sheet(type) EXCEPT !.FN = @ + 1])
       IN  /\ wrong # type
           /\ sheet' = Put(missed, wrong, [Sheet(wrong) EXCEPT !.FP = @ + 1])
    /\ mutex' = t
    /\ decided' = Put(decided, Current(t), pool[t].prediction)
    /\ pool' = [pool EXCEPT ![t] = Pushing(t)]
    /\ UNCHANGED <<main, context, blockLevelDistribution, queue, m_ErrBurstGroups, undefined>>

Pushed(t) ==
    Put(m_ErrBurstGroups, Current(t), At(m_ErrBurstGroups, Current(t), 0) + 1)

PushRace(t) == "errors" \in undefined \/ \E u \in Threads \ {t} : pool[u].at = "push"

(* The end of push_back. In a race an element may get lost, or the process  *)
(* die.                                                                     *)
Push(t) ==
    /\ pool[t].at = "push"
    /\ IF ~PushRace(t)
       THEN m_ErrBurstGroups' = Pushed(t) /\ UNCHANGED <<main, undefined>>
       ELSE /\ undefined' = undefined \cup {"errors"}
            /\ main' \in {main, [main EXCEPT !.pc = "terminated"]}
            /\ m_ErrBurstGroups' \in {m_ErrBurstGroups, Pushed(t)}
    /\ mutex' = IF mutex = t THEN NoThread ELSE mutex
    /\ pool' = [pool EXCEPT ![t] = GroupDone(t)]
    /\ UNCHANGED <<context, blockLevelDistribution, queue, sheet, decided>>

Worker(t) ==
    /\ main.pc # "terminated"
    /\ \/ Dispatch(t) \/ NextGroup(t) \/ Rank(t) \/ Lookup(t) \/ Compare(t)
       \/ AddMiss(t) \/ AddCorrect(t) \/ AddWrong(t) \/ Push(t)

Ended ==
    \/ main.pc \in {"terminated", "exited", "unwritten"}
    \/ main.pc = "begin" /\ main.experiment > Len(main.series)

Terminating == Ended /\ UNCHANGED vars

Next == Main \/ (\E t \in Threads : Worker(t)) \/ Terminating

Spec == Init /\ [][Next]_vars
-----------------------------------------------------------------------------
(* Properties *)

Predictions == Names \cup {Type(n) : n \in Names} \cup {Unreliable, Empty}
Groups(addrs) == UNION {{<<a, i>> : i \in DOMAIN Testset[a]} : a \in addrs}
Kept == {g \in Groups(DOMAIN Testset) : GroupPktNum(Group(g)) >= MIN_BLOCK_PKTNUM}

(* Types of all variables; the mutex is held by a thread that pushes a      *)
(* wrong group, and no other thread pushes one then.                        *)
TypeOK ==
    /\ main.pc \in {"begin", "predict", "output", "terminated", "exited", "unwritten"}
    /\ main.experiment \in 1 .. Len(main.series) + 1
    /\ context.deviceVec \in Seq(Names)
    /\ \A ids \in {context.allDevices, context.addressMap} : \A k \in DOMAIN ids :
          ids[k] + 1 \in DOMAIN context.deviceVec
    /\ \A t \in Threads : pool[t].at \in {"idle", "group", "rank", "lookup", "compare",
                                         "score", "push", "thrown"}
    /\ \A g \in DOMAIN decided : decided[g] \in Predictions
    /\ \A t \in Threads : mutex = t <=>
          pool[t].at = "push" /\ pool[t].prediction # Unreliable

Verdict(g) ==
    IF decided[g] = Unreliable THEN "miss"
    ELSE IF Type(decided[g]) = TrueType(g) THEN "right" ELSE "wrong"

Tally(verdict, type) ==
    Cardinality({g \in DOMAIN decided : Verdict(g) = verdict /\ TrueType(g) = type})

(* The sheets that get printed add up to the decisions, however the tasks   *)
(* and the main thread interleaved: every group with enough packets counts  *)
(* once, in the row of its own type, a wrong one also against the type that *)
(* was predicted; and there is a row for every type tested or predicted.    *)
SheetsAddUp ==
    main.pc = "output" =>
        /\ DOMAIN decided = Kept
        /\ DOMAIN sheet = {Type(NameOf(a)) : a \in DOMAIN Testset}
                            \cup {Type(decided[g]) : g \in {h \in Kept : Verdict(h) = "wrong"}}
        /\ \A type \in DOMAIN sheet :
              sheet[type] = [TP |-> Tally("right", type), FN |-> Tally("wrong", type),
                             FP |-> Cardinality({g \in Kept : Verdict(g) = "wrong"
                                                              /\ Type(decided[g]) = type}),
                             missNum |-> Tally("miss", type)]

Trained(name) ==
    At(blockLevelDistribution, At(context.allDevices, name, -1), <<>>) # <<>>

Gap(name, g) ==
    Nearest(GroupPktNum(Group(g)), At(blockLevelDistribution, context.allDevices[name], <<>>))

(* What a sequential run may decide for a group: the only name in the       *)
(* running; or the one trained on the group nearest in packets, the better  *)
(* score first if there are several; or nothing if none has such a group.   *)
Decisions(g) ==
    LET bucket == Bucket(Group(g))
        mute == Ranked(bucket) = {}
        names == IF mute THEN ToSet(SecondChance(context.deviceVec)) ELSE Candidates(bucket)
        single == IF mute THEN Len(context.deviceVec) = 1 ELSE Cardinality(names) = 1
        trained == {n \in names : Trained(n)}
        nearest == {n \in trained : \A m \in trained : Gap(n, g) <= Gap(m, g)}
    IN  IF single THEN names
        ELSE IF trained = {} THEN {IF mute THEN Unreliable ELSE Empty}
        ELSE IF mute THEN nearest
        ELSE {n \in nearest : \A m \in nearest : bucket[n] >= bucket[m]}

(* A decision depends on the votes of its own group and on what training    *)
(* left, although tasks add ids to the map while others read it: only a     *)
(* data race in that map may have it otherwise.                             *)
DecidesAlone ==
    "levels" \notin undefined => \A g \in DOMAIN decided : decided[g] \in Decisions(g)

(* m_ErrBurstGroups has every group that was not predicted right, once,     *)
(* and no other, unless an unlocked push_back met another one; and of two   *)
(* that meet one is for a group that stayed unreliable.                     *)
ErrorsListed ==
    /\ main.pc = "output" /\ "errors" \notin undefined =>
          m_ErrBurstGroups = [g \in {h \in Kept : Verdict(h) # "right"} |-> 1]
    /\ \A t \in Threads : pool[t].at = "push" /\ PushRace(t) =>
          "errors" \in undefined \/ \E u \in Threads :
                pool[u].at = "push" /\ pool[u].prediction = Unreliable

(* Where every name has training groups under the id it was first given,    *)
(* prediction does not extend the static map, so that there is no race in   *)
(* it, and every group gets a name. It takes a registered device without traffic, or   *)
(* one with a second address, to get a race or a miss.                      *)
DefinedWhenTrained ==
    main.pc \in {"predict", "output"} /\ (\A n \in DOMAIN context.allDevices : Trained(n)) =>
        /\ \A t \in Threads : ~Inserts(t)
        /\ "levels" \notin undefined => \A g \in DOMAIN decided : decided[g] \notin {Unreliable, Empty}

(* Apart from races, and from a result file that opens under neither of its *)
(* names, the process ends in two ways only. GenPrediction throws for a     *)
(* group without votes, when some registered type is not the name of a      *)
(* device; the output exits for a decision that is no device's name, which  *)
(* only a tie of untrained names or a group without votes makes.            *)
EndsOnlyFor ==
    /\ \A t \in Threads : pool[t].at = "thrown" =>
          /\ Ranked(Bucket(Group(Current(t)))) = {}
          /\ \E n \in ToSet(context.deviceVec) : Type(n) \notin DOMAIN context.allDevices
    /\ main.pc = "terminated" /\ undefined = {} => \E t \in Threads : pool[t].at = "thrown"
    /\ main.pc = "exited" /\ undefined = {} =>
          \E g \in DOMAIN m_ErrBurstGroups :
             \/ Ranked(Bucket(Group(g))) = {}
             \/ \A n \in Candidates(Bucket(Group(g))) : ~Trained(n)

(* BurstGroupPolicycpp.cpp:82, "set all to 1 and choose again": a group     *)
(* without votes gets a choice among all devices.                           *)
ChoosesAgain == \A t \in Threads : pool[t].at # "thrown"
=============================================================================
