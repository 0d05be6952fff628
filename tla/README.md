# BurstIoT in TLA+

BurstIoT classifies IoT devices by their traffic. It reads packet captures,
keeps the packets of known devices, divides them into *bursts*, groups the
bursts by device and time slot, trains a nearest-neighbour table on the earlier
groups and predicts the device type of the later ones, for a series of
parameter settings. Reading, training and prediction run as go tasks on the
Workflow thread pool.

This directory holds TLA+ modules of that program, the TLC configurations that
check them on small instances, and TLAPS proofs for every value of the
constants. The code is the reference: every definition was translated from
`src/src/*.cpp` and `src/include/*.h`, and `PROJECT.json` gives the lines it
stands for ("map"), what each run checks ("runs"), a plausible bug for every
property that makes it fail ("mutants", operators with a suffix such as
`AddPacket_OneVectorPerDevice` that no specification uses), and the list of
things that are hard to test ("hazards"). `src/readme.md` makes no technical
claim; what the code promises comes from its own comments and checks.

    tlc -workers 2 -config StrictToBursts.cfg MCStrictToBursts
    tlapm Predict_proofs.tla

## 1. Inventory

    captures --Converter--> packet data set --Converter, DeviceBurstGenerator-->
      burst data set (device -> blocks of bursts) --TrainTestSplit-->
        training set --KBurstClassifier::Train--> table
        test set     --KBurstClassifier::Predict--> cache, BurstGroupPolicy --> Score
    all of it called, per setting and data set, by IoTBurst; devices in Context

| Component | State | Operations | What makes it hard | What makes it correct |
|---|---|---|---|---|
| Burst (`Burst.h/.cpp`) | counters and stamps of one burst, `packetDetail` | AddPacket, AddSig, PiggyBack, Validate, merging constructor | `uint8_t uniPktNum` bounds every scan of `packetDetail` | one entry per signed length, counts add up |
| DeviceBurstGenerator | raw bursts, flows, bursts of one slot | LongShortSplit, SeparateBy5Tuple, StrictToBursts, SortInOrder | limits at the boundary of whole seconds; a burst is stamped one packet late | every packet in exactly one burst, bursts short enough and without gaps |
| Converter, reading (`Reorganizer.cpp`) | one raw vector and one WaitGroup per file, the packet data set, statistics | RawCvtoPktDataset, StoreKPackets, GarbageCollection | three kinds of threads and no lock on `storeCounter`; memory is freed while others work; files that do not open; division by STORE_MULTITHREAD - 1 | the data set is complete when it is sorted and saved; no freed memory is touched; the main thread gets through |
| Converter, grouping | device -> slot -> packets | PktDatasetCvtoBursts, SplitSlots, SplitSlot | empty slots, no packets at all, the last slot | a block is one device's whole traffic of one slot |
| BurstDataset | rawMap, trainset, testset | TrainTestSplit, Serialize, Load | order by a stamp that may be missing | trains on the past, tests on the rest; nobody is left without training |
| KBurstClassifier, training | the table, `burstStats`, static maps of BurstGroupPolicy | Train, TrainOneDevice, MergeStrictHash, MergeIdenticalKeys | tasks with four mutexes and a barrier; order of an `unordered_map` of pointers; maps that outlive the experiment | every training burst is represented in the table when prediction starts |
| KBurstClassifier, prediction; PredictionCache | cache entry and mutex per contents | Predict, PredictGroups, PredictBurst, Query, GetMutex, Clear | entries are filled in place through a reference while others look for them; tasks counted in one way and cut in another | the answer is that of a sequential search; nothing runs after the wait |
| BurstGroupPolicy | one bucket of votes per group; static maps that outlive the experiment | AddBurstPrediction, GenPrediction (rank, second chance, tie break), ToString | `operator[]` inserts into a shared map while others read it; lookups that throw on a pool thread | a decision that depends on the group's votes and on training only; when there is none |
| Score | sheets of results, list of wrong groups, averages | AddPktAvgNum, AddPrediction, AddMiss, OutputToFile | a `push_back` with and without the mutex; a row made by the first that needs it | the rows add up to the decisions; every group not predicted right is listed once |
| IoTBurst, Combiner | indices of the parameters, the experiment | LabelRateExperiment, SingleExperiment, GetBurstDataset | files left by runs that were killed; registries that outlive the experiment | the right, complete data set for every setting, each once |
| Context, KDevice | devices, addresses, the counter of ids | AddDevices, GetDeviceByAddr, GetDeviceById, paths, Serialize, LoadBin | the same devices registered again and again; ids saved in files | an id means the device it was given for |
| Instrumentor (`Timer.h`) | output stream, count of profiles | BeginSession, EndSession, WriteProfile | a task's timer stops after its `done()`, so a session ends while tasks still write; the count is reset without the mutex | one well-formed file per session with all scopes; no profile twice |

Third-party code (Workflow, PcapPlusPlus, Boost) is vendored and not modelled:
the pool appears as this code uses it (a queue, first in first out). Of Workflow
only the WaitGroup's counter is taken from its header (`WFFacilities.inl`: `done`
counts down, and a group of nobody starts at -1).

## 2. Modules

| Module | Models | Correspondence |
|---|---|---|
| `Burst` | the data type | records with the members' names; `AddPacket`, `AddSig`, `PiggyBack`, `Validate` as operators; `uniPktNum` modulo `UINT8` |
| `BurstDivision` | one round of StrictToBursts' loop | `StrictStep` on the locals `burst`, `burstVec` |
| `StrictToBursts` | the method as a state machine (`StrictSpec`; its definitions are prefixed so that both modules can be extended together) | `NextPacket` = one round, `Return` = the last push_back; history variable `lo` |
| `DeviceBurstGenerator` | the constructor and all it calls | one action per method, `LongShortSplit` per packet; the folded `StrictStep`, which gives what `StrictSpec` returns (`OperatorIsMachine`) |
| `SplitSlots` | grouping by slot, TrainTestSplit | `AddPacket` per packet, `SplitSlot(d)` per slot, one step for the split |
| `Converter` | RawCvtoPktDataset with its threads | main thread, queue, pool; each lock region, unsynchronised access and WaitGroup call is a step; `fault` names a touch of missing memory |
| `TrainWindow` | where a burst is in the table and which cells PredictBurst looks at | the index arithmetic with its casts |
| `Train` | Train and TrainOneDevice over several experiments | main thread, queue, pool; each mutex region is a step; the merging takes bursts in any order of the pointers |
| `NearestOracle` | abstract: what PredictBurst promises | `Ask` answers with the nearest comparable bursts of this experiment |
| `Predict` | Predict and the cache over several experiments | the two loops over the test set (`CountTasks`, `SplitDevice`, `StartTask`), the barrier, and per task `Lock`, `QueryHit`, `QueryMiss`, `Scan` (one training burst), `EndScan`, `Return`; implements `NearestOracle` |
| `BurstGroupPolicy` | the decision of a group, as operators | `AddBurstPrediction` folds votes into the bucket; `Ranked`, `Candidates`, `SecondChance`, `Nearest` are the stages of GenPrediction |
| `Score` | PredictGroups from the votes to the sheets, over several experiments | main thread, queue, pool; an access to a container without its mutex takes a step to begin and one to end; `undefined` names the containers whose accesses overlapped |
| `Instrumentor` | the profiling sessions | the steps of BeginSession and EndSession, of a task's end and of WriteProfile under its mutex; `disturbed` names sessions whose begin or end met a writer |
| `Combiner` | getNext | `Start`, `Current`, `Advance` |
| `IoTBurst` | the series of experiments, Context, the files | one action per source, opening and writing of a file separately; `End` and `Restart` of the process |
| `MC*` | instances for TLC | values of the constants |
| `*_proofs` | theorems | section 5 |

`DeviceBurstGenerator` and `StrictToBursts` share `BurstDivision`; `SplitSlots`
takes of DeviceBurstGenerator only what its run shows (all packets kept, the
front stamp is the first packet's or none); `Predict` takes the table as given
and `Train` shows what is in it (`FiledInPlace` is what makes `TrainWindow`'s
cells the right ones); `Score` takes the answers of PredictBurst as given, which
`Predict` shows to be those of a sequential search, opens the barrier when no
task is left (`NoTaskAfterWait` of `Predict`), and starts from what
`StaticMapsKeep` of `Train` says of the static map; `IoTBurst` takes training and
prediction as one step. `Instrumentor` needs of the others only that a task
calls `done()` before its timer is destroyed.

Undefined behaviour is a choice: beyond the end of `burstStats` the process
dies or other memory takes the value; `begin()` of no slots stops or goes on;
`storeCounter` while it grows may be missing; after two overlapping accesses to a
map or vector, one of which changes it, what the reader finds is arbitrary.
Exceptions on a pool thread end the process.

## 3. Runs

| Run | Distinct states | Shows |
|---|---|---|
| `strict` | 242 263 | every sorted vector of up to 4 packets with half-second stamps: tiling, unique signatures, gap bound, where a stamp comes from, the duration a burst can reach |
| `strict_duration` | violation | a burst may outlast BURST_MAX_DURATION (section 4) |
| `generator` | 985 833 | every sorted vector of up to 5 packets of two flows: no packet lost or doubled over both kinds of splitting, inputs StrictToBursts relies on, bursts training accepts, the front stamp |
| `slots` | 62 219 | every sorted data set of up to 5 packets of two devices: whole slots, order kept, chronological split but for unstamped front bursts |
| `converter` | 309 815 | nine capture lists on three threads: the WaitGroups count what is still to come, no freed memory is touched, the main thread outruns the gcTask only when it has no done() of its own to make, the data set is complete when it is saved, statistics are never too high, and the main thread returns, throws or dies but never waits for ever |
| `train` | 13 658 | four experiments: every burst represented after the barrier by one of equal hash or one not far from such, whatever order the merging takes, bursts in the cells prediction looks at, static maps with exactly what all experiments put there, and every barrier opens |
| `predict` | 83 015 | three experiments on three threads: refinement of NearestOracle, nothing runs after the wait, the mutex of a contents held by whoever is at its entry, and the series ends |
| `score` | 148 654 | three series on two threads (symmetric), with result files that cannot be opened: sheets add up to the decisions, decisions are those of a sequential run but for a race in the static map, the list of wrong groups is exact but for a race, and what it takes for races, misses and ends of the process |
| `score_choose_again` | violation | a group without votes ends the process instead of being chosen for again (section 4) |
| `driver` | 32 250 | three data sets, four settings, two restarts, files put in place before: what is loaded is complete and right, ids mean their devices, every experiment once |
| `profile` | 3 236 628 | three sessions on two threads (symmetric): the files of undisturbed sessions are complete documents, late profiles are in the hands of a thread that has called `done()`, none is written twice |
| `profile_count` | violation | a session may begin with profiles already counted (section 4) |

### Bounds, and why they are enough

* **Burst division.** Limits of 1 to 3 seconds against stamps over 6 or 7
  seconds put differences below, at and above every limit, with and without a
  borrow of nanoseconds; 4 or 5 packets make several cuts in a row, a cut whose
  next packet is cut off again, a long raw burst followed by a short one, and a
  full `packetDetail`. `UINT8 = 4`, `BURST_MAX_UNISIG = 2`: the counter would
  wrap within reach if the limit were missed. The proofs remove all of them.
* **Grouping.** Slots of three seconds from the set {3, 5, 6, 12}: two packets
  in one slot, neighbouring slots and an empty one between; up to three blocks of
  a device, of which 40 % is never a whole number.
* **Converter.** `STORE_MULTITHREAD = 4` has all cases of 10: no packet, fewer
  than the divisor, a split with and without rest, more chunks than counted.
  `SIZE_T = 8` is the modulus of the wrap. Two files let the second one's tasks
  overlap with the first one's garbage collection; a file that does not open
  comes second. Three threads: one is taken by GarbageCollection, two store.
* **Train.** Two threads, two devices at a time, four experiments: bursts of
  equal hash, two of them with no signature in common ({66 once, 60 twice} and
  {70 once, 62 twice}, both 116 before the sizes). `HASH_SHIFTS = 3` for the 30 of the code
  lets counts wrap, and `WORD = 12` bits lose nothing of such signatures, merging beyond `MAX_BURSTS`, an id out of range, a merged
  burst of more than `UINT8` signatures, no device at all.
* **Predict.** Three threads (one fills an entry, one waits for it, one asks for
  another), ties, sizes beyond the last column, filtered groups, an experiment
  that asks the questions of the one before with another training set, and one
  with an empty test set. Its assumptions on a burst are the bounds Tiling and
  UniqueSigs establish. The proofs remove the bounds, of the liveness property
  excepted.
* **Score.** Two tasks are enough for a race between two accesses. Series 1 has
  names whose ids are untrained because their traffic is at a second address,
  then an experiment in which all are trained and two groups are predicted
  wrong; series 2 a tie of untrained names; series 3 names with a number, which
  removeSuffix shortens. A vote is an uninterpreted operator of what it is
  computed from; the instance gives close scores, clear ones and none.
* **Instrumentor.** A session with two tasks, one with one task and one with
  none: a profile may be late by one session or by two.
* **Driver.** Two data sets mapped by IP that share a device, one mapped by MAC
  between them; `UINT16 = 8` lets the counter of ids wrap twice in a series; two
  restarts are enough to load what a killed run saved and to be killed again.

### Deadlock and fairness

Deadlock is checked in every run; states in which the program has really ended
have a `Terminating` step. Liveness assumes weak fairness for the main thread and
for each pool thread as a whole (`WF_vars(Main)`, `WF_vars(Worker(t))`): the
operating system runs every thread that can run. Nothing stronger is assumed for
mutexes: a mutex is held for one step in `Train`, and in `Predict` and `Converter`
it is taken finitely often within an experiment, so a waiting thread cannot be
passed for ever.

## 4. What the runs found out about the code

* **A burst may outlast BURST_MAX_DURATION** (`strict_duration`, listed under
  "findings"). `AConfig.h:17` says a burst is cut after that many seconds. The
  burst a cut starts gets its first stamp only from the packet after the one that
  started it, so its duration is measured one packet late. The true bound,
  less than BURST_MAX_DURATION + BURST_MAX_INTERVAL, is `DurationSlack`, proved.
* **A group without votes ends the process** (`score_choose_again`). The comment in
  GenPrediction is to choose again among all devices; the code ranks names without
  their suffix and looks these up as full names, which throws on a pool thread as
  soon as a device is called, say, "hub-1". `EndsOnlyFor` says that this and the
  output of a decision that is no device's name (a tie of untrained names decides
  for the empty name) are the only ends, besides races and a result file that opens
  under neither of its names (`Score.cpp:120-141`: the second attempt is outside
  any try; `OutputFails`).
* **A session may begin with profiles counted** (`profile_count`). BeginSession calls
  that wrong; EndSession resets the count without the mutex while a task that has
  called `done()` may still write. `SessionFile` says what the files are all the same.
* The static map of training is extended by `operator[]` while other tasks read it only
  if a name's first id is untrained (`DefinedWhenTrained`): a registered device without
  traffic, or one whose traffic is at its second address.
* Printing a wrong prediction leaves a 0 as the average of an id without training, which
  the `insert` of a later experiment that trains it does not replace (`StaticMapsKeep`).
* The last burst of a vector may have no stamp at all (`StampLag`); it then sorts
  to the front of its block, and the block to the front of its device:
  `TrainsOnThePast` says that this is the only way the split is not chronological.
* The scheme of `storeCounter` is exact for files of 9 or more packets except
  some sizes below 72 (`WellSplit`); for others the size_t difference wraps or
  splitVector does not end. `CounterExact` and `MemorySafe` state what holds
  when it is met.
* The main thread may use `gcTask` before GarbageCollection has assigned it. Every
  `done()` of its own would have met a missing counter first, so `MemorySafe` can say when:
  only if all files (that are split well) have exactly STORE_MULTITHREAD chunks, as most
  long captures do, or if there are no files.
* `NeverLoadsPartial` holds although nothing marks a file as complete, because a
  run never finds what an earlier one saved: `PacketDataset::datasetName` and
  `BurstDataset::name` are not set on the paths that save, so files go to the path
  of the empty name in the default folder (the mutant `SavedName_Set`, where they
  are set, violates it). Files under known names are those a user put there.
* Ids in a saved data set mean the devices of the process that made it.
  `IdsNameDevices` holds for loaded data if the process registered the same data
  set first, and always for data made in the process as long as no address was new
  after the uint16_t counter of ids had wrapped: such an address gets the id of an
  older device, which GetDeviceById then returns.
* In a series with data sets of both mappings the converter knows the blank
  address and the Context does not (`ConverterAgrees`); traffic from 0.0.0.0 then
  ends the process.
* MergeStrictHash takes equal hashes for equal bursts, and the hash of `Burst.h:157-171`
  collides: it xors shifted signatures, so that a burst may stand for one with no
  signature in common, and takes counts modulo 30. `Represented` asks for a burst
  of equal hash, or for one not far from such, and says that never two of one hash are
  in the table.

## 5. Proofs

`DeviceBurstGenerator_proofs`, on the method: for all packets, lengths of the vector
and parameters of the division, `StrictSpec => []P` for `TypeOK`, `Tiling`,
`UniqueSigs`, `IntervalBound`, `StampLag` and `DurationSlack`. None of them is inductive alone: that a burst is
short needs to know which packet its stamp came from, that the counter does not
wrap needs `packetDetail` to be without repeats. `IInv` describes the burst under
construction (`Open`) and each finished one (`Closed`) by its tile of the vector.
`AddPacketFacts` says what one packet changes, `CutStep` and `NoCutStep` carry
`IInv` over the two branches of `StrictStep`, and `FloorTriangle` (splitting a span
loses less than a second) makes the two time bounds add up. Assumed of the
constants: positive limits, and BURST_MAX_UNISIG below `UINT8`, as in the code
(50 < 256); packets carry a time after 1970.

`DeviceBurstGenerator_proofs`, on the constructor: `Spec => []P` for `Conserved`,
`StrictInputs`, `Trainable` and `FrontStamp`, for the same parameters, any sorted vector
and any order in which the flow map lists its keys. `DInv` has five parts:
  * `RawTypes`: raw bursts hold packets that were read;
  * `Divided`: what was read is divided into the short raw bursts and a rest, the long
    raw bursts followed by the one under construction (`Partition`). Every part is sorted,
    the first packet of the slot starts one of them, and for each signed length their
    packets add up. That the rest is sorted *as one vector* is why a flow pieced together
    from several long raw bursts is sorted; it holds because short raw bursts are cut out
    of it whole. `PartitionTake` and `PartitionCut` carry it over the branches of
    `LongShortSplit`;
  * `Regrouped`: the flow map is a regrouping of the rest, which keeps the order
    (`SelectedFacts`) and every packet (`FlowsCount`);
  * `Made`: bursts made so far are sound, of known stamps, and count exactly the packets
    of the raw bursts divided so far. `StrictToBurstsFacts` says this of one vector,
    `DivideAll` of the bursts of many, joined;
  * `Ordered`: what the two sorts leave (`SortedFacts`, `SortDetailFacts`). The
    signatures are in strictly ascending order because they were distinct.

Flows come in the map's order and bursts are sorted, so sums are taken in any order:
`TotalArranged` says that a permutation keeps a sum, by counting tokens, of which a
number n has n. `OperatorIsMachine` closes the gap between the two
models of the method: what the state machine returns for a vector is what the
operator gives that the constructor's model uses, so the theorems above hold of each
vector the constructor divides. Assumed besides: signed lengths are integers.

`Predict_proofs`: `Spec => []TypeOK`, `Spec => []NoTaskAfterWait` and
`Spec => OracleSpec`, the refinement of `NearestOracle`, for every table, distance,
test set, series of experiments and number of threads. Its parts:
  * the window: the loops of PredictBurst look at exactly the training bursts
    `NearestOracle` calls comparable (`WindowIsComparable`), through casts, maxima
    and minima, and never miss the test burst's own size (`OwnSizeInWindow`);
  * the barrier: in the second loop nleft is what the first loop expected of the
    devices to come plus the tasks not started, waiting and running
    (`Outstanding`), or -1 when nothing was expected. That the two loops agree is
    arithmetic: rounding up by the remainder is what splitVector does (`RoundedUp`,
    `ChunksAsCounted`);
  * the mutex: a contents is locked by exactly the thread between lock and return
    with it (`Mutex`), so at most one thread is at an entry (`OwnEntry`);
  * the cache: an entry nobody is filling is empty or complete (`CacheRight`), one
    being filled has the nearest of what its thread has scanned (`ScanRight`), and
    what a thread returns is complete (`ReturnRight`). `OneMore` says what one more
    training burst does to the nearest; `OthersRight` that nobody else notices.
    Train finds the cache empty, which is what `Clear` is for.
Assumed of the constants: bursts of sizes training accepts, integer distances, a positive
epochSlotNum, no empty group, finitely many threads, and BURST_MAX_UNISIG + UNISIG_RANGE below
`UINT8`, as in the code.

`Converter_proofs`: `CounterExact`, `MemorySafe`, `DatasetComplete` and `StatBounded` for
any capture files, any STORE_MULTITHREAD of at least 2 and any number of threads. The
first three are about files that splitVector cuts into at most STORE_MULTITHREAD chunks
(`WellSplit`; of any other file they say nothing, and section 4 what happens to it). The
argument for the first two (`IInv`) is one account per WaitGroup (`Exact`): nleft is what the main thread still owes it, plus the tasks in the
queue, plus those on a thread. Two lemmas carry the account: `NothingWraps` (chunks and
spare done() calls are STORE_MULTITHREAD together) and `ShiftCardinality` (taking the
head of the queue renumbers the rest and loses nothing). Around it: there is one
GarbageCollection (`OneGc`), which has passed only counters that are down (`GcStage`);
raw packets are read before their tasks start (`Unread`) and freed when nothing is
outstanding (`Freed`, `FreedSafe`). The second half of `MemorySafe` needs to know that
a file behind the main thread which owed it a `done()` has a counter, so that a main
thread ahead of GarbageCollection has met full files only (`AheadOK`). The other two follow from where the packets are (`StockOK`):
splitVector deals every position to one chunk (`SplitVectorDeals`); the chunks not
started and the queue are one `Line`, so that starting a task moves nothing
(`StartedLine`); a packet is in one task at most (`OnePlace`), and of a packet that is
read exactly the ends are stored which its task has passed, all of them if no task has
it (`DataOK`). A statistic, and what a thread holds of it in a register, is at most
what is stored (`StatsOK`). At the end the account is zero, so no task is left
(`NothingLeft`), and the main thread gets there only after the deletion of the
counters (`GcTaskOK`). Assumed: finitely many threads, at least two, and a size_t above
STORE_MULTITHREAD.

`Train_proofs`: all five invariants, `TypeOK`, `NoTaskAfterWait`, `FiledInPlace`,
`Represented` and `StaticMapsKeep`, for any number of devices, experiments and threads.
  * The barrier (`IInv`): while the WaitGroup exists, its count is that of the devices
    not started, the tasks waiting and the threads busy, or -1 with none of them.
  * The table (`Trained`): a device waits, is on one thread or is done, and what of it is
    in the table is what its task has filed so far. A merging task has, for every burst
    it has seen, that burst or one that stands for it among those it keeps, whatever
    order the pointers gave; what it keeps are first occurrences of their hashes, no two
    of one hash (`FirstsApart`); filing a burst puts it where `TrainWindow` says, and no
    other task writes a cell of this device's.
  * The static maps (`MapsOK`): the merged bursts of a device are those of its first
    groups, in order over all experiments; what its task has left are the others
    (`Pushed`); its average is that of the first experiment that knew it, unless one
    before had asked for it (`Averaged`). Other devices' tasks write other entries
    (`MapsStep`). That a merged burst is exact (`MergedBurstCounts`) goes through the
    three nested folds of the constructor: `AddSig` counts one packet of its signature
    and none of another (`AddSigCounts`), because `uniPktNum` never runs ahead of the
    entries, although it may wrap and lag behind: a signature it no longer sees gets a
    second entry, and the sum over all entries is right still.
  * The types (`TypesOK`): what MergeStrictHash and the merging count are bursts of the
    series, each at least once; done() is called on a count above zero.

Assumed (`TrainAssumption`, `FiniteAssumption`): finite training sets and finitely many
threads, groups that are not empty, devices whose bursts are theirs alone, limits as in
the code; of the hash only that WORD and HASH_SHIFTS are positive.

`Instrumentor_proofs`: `SessionFile` for all sessions, timers and threads. `IInv` says
which file is open when (`InSession`), that one writer is within the mutex (`Mutex`),
what the count means (`Counted`: the entries of an undisturbed file), what a file has
up to now (`Content`), and where every profile is between its task's start and its
entry (`ScopesFiled`, `TasksFiled`, `EntriesOnce`, `Once`).

`IoTBurst_proofs`: `NeverLoadsPartial`, `RightData`, `IdsNameDevices`,
`ConverterAgrees` and `EveryExperimentOnce` for all data sets, settings, prepared files
and numbers of restarts.
  * Files: those under known names hold what their path says (`FilesRight`), a known
    name is being worked on (`NameKnown`), memory holds what was asked for (`DataRight`)
    and what `exists()` found is still there (`SourceThere`). The argument is that saving
    goes elsewhere (`SavedElsewhere`), and that a path determines its data set and its
    division (`PathsDiffer`).
  * Ids (`Registry`): the Context's map has, for every address, the device it was first
    met at, whose id is that device's place modulo `UINT16`; the converter's map is
    made from the same vector with the address that the mapping looks at; and the ids of
    the data set at hand were given by this process's Context or by one that had
    registered the same devices in the same places.
  * The series (`SeriesOK`): what has been run is every combination the odometer has
    left behind with every data set, and of the present combination the data sets before
    the present one. The odometer moves to the next combination in lexical order and
    stops after the last, which is what makes every experiment run, and run once.
Assumed: folders of data sets differ from one another and from the default one, as in
`DatasetInfo.cpp` (`DriverAssumption`), and lists of parameters and data sets that are
not empty and without repeats (`SeriesAssumption`).

`SplitSlots_proofs`: `WholeSlots`, `TrainsOnThePast` and `EveryDeviceTrains` for any
data set, slot length and percentage. `IInv` says where the packets are: in the vector
of their device and slot, in order, until that slot is visited, then in the block of
their slot; and that slots are visited in ascending order, so that blocks lie in the order
of their times. `std::sort` is a bijection that puts the fronts in order (`Ranks`); it
moves a block before an earlier one only when the front's stamp is none. Rounding the
cut upwards leaves a block to train on.

`Score_proofs`: `TypeOK`, `SheetsAddUp`, `DecidesAlone`, `ErrorsListed`,
`DefinedWhenTrained` and `EndsOnlyFor` for any series of experiments, groups and
threads. `IInv` has thirteen parts in four groups:
  * where things are: `MainOK`, `ContextOK`, `LevelsOK`, `QueueOK`, `PoolOK`, `MutexOK`;
  * where each group is (`PlacedOK`): to be decided by one task at most, waiting or
    running, and if it has enough packets and is not decided, by one, or its device is
    still to be started. splitVector is what puts a group into one task (`InOneTask`),
    and a step of a task moves no other group (`PlaceStep`);
  * what has been counted: each row of the sheets is a count of decided groups
    (`SheetsOK`), the list of errors is the wrong and missed groups that nobody is
    pushing (`ErrorsOK`);
  * what has been found out: while a task compares names, its best so far is the
    nearest of those compared, by votes among the equally near, because the names come
    in the order of their votes (`PolicyOK`, `Comparing`, `OneMoreCompared`); a decision is
    one of the answers for what the task saw (`ChosenOK`). That a task sees the same
    from its first step to its last, although others extend the map it reads, is
    `SameView`: an id that is added reads as it did before.
That without a race the process stops for a thrown exception alone is an invariant of
its own beside these (`TerminatedOK`).
Assumed (`SeriesAssumption`, `NamesAssumption`, `MutexAssumption`, `PolicyAssumption`):
data sets of the devices in their mapping, bursts that name a device and whose
votes are numbers, groups of at most 2^24 packets (beyond, a float rounds the gap),
names that are none of the two placeholders.

What a fold over a vector of any length computes: `LeastOfNaturals` (a set of naturals
has a least member, from the library's well-founded induction over a fixed set) gives
`UpTo` and `StepByStep`, which stand for induction up to a length. Where the fold is a
recursive function on numbers they are applied to it directly: the sum of a group's
packets and the votes of its bucket in `Score_proofs`. The community modules' FoldLeft is
the fold of a set of indices by a function that is chosen; `FoldExists` says that there is
one, for steps given as a table. `Train_proofs` takes from it what sums (`TotalFacts`),
merged bursts (`AddEntryCounts`, `AddBurstCounts`) and joined sequences (`FlattenFacts`)
are; `DeviceBurstGenerator_proofs` the loop of StrictToBursts (`StrictLoops`) and what
push_back makes of a flow.

Only model-checked: all liveness (ENABLED and fairness are out of the prover's
reach). Every safety property of the passing runs is proved. The invariants of the proofs were checked by TLC on the instances of the runs
as well.

## 6. What is not modelled, and why

* Third-party code: `src/include` holds the headers of OpenSSL, Boost, PcapPlusPlus,
  Workflow, magic_enum and others, some 61 000 of the repository's 64 000 lines. The
  map covers about four tenths of the program's own 3 000 lines; most of the rest is
  output, paths, parsing of options and functions nothing calls.
* Distance and similarity of bursts and the votes are floating point: uninterpreted
  constant operators, of which only the order (Predict, Score) or the class (Train)
  matters.
* Parsing of packets is a choice of which ends belong to IoT devices.
* Names, paths and CSV texts are values (removeSuffix is an uninterpreted operator);
  output of statistics, the text of Score's files and logging are left out.
* NCSULongTermExperiment, GetBurstFullDataset, shuffling, ClearDevices, the unused
  constructors of BurstDataset, GetDirection* and OutputBurstTrainStat are never called.
* Two processes at once on the same files: the program has no provision for it and
  is started by hand.

## 7. What remains

Modelled and checked, in this order: StrictToBursts; DeviceBurstGenerator; Converter;
Predict against NearestOracle; SplitSlots; Train; the driver; BurstGroupPolicy and Score;
Instrumentor. Proved: all safety properties of the passing runs.
Worth adding next:

1. Composition of training and prediction: `Train`'s table as `Predict`'s, instead of
   the agreement of `FiledInPlace` with `TrainWindow`.
2. Liveness of the driver between ends of the process.
