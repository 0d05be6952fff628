------------------------------ MODULE IoTBurst ------------------------------
(***************************************************************************)
(* The experiment driver: LabelRateExperiment runs SingleExperiment for    *)
(* every combination of parameters and every data set. Each experiment     *)
(* registers the devices of its data set in the process-wide Context and   *)
(* gets a burst data set from the best source it finds on disk: a burst    *)
(* data set file, a packet data set file, or the raw captures, and saves   *)
(* what it had to compute. The process may end at any moment, in the       *)
(* middle of writing a file too, and be started again.                     *)
(*                                                                         *)
(* Neither PacketDataset::datasetName nor BurstDataset::name is ever set   *)
(* on the paths that save: they save under the path of the empty name,     *)
(* while GetBurstDataset looks under the name of the data set. Files it    *)
(* can load are those the user has put there.                              *)
(*                                                                         *)
(* A data set is represented by whose it is, for which division into       *)
(* slots and bursts it was made, and which deviceId it has for which       *)
(* address. Training and prediction are one step here.                     *)
(***************************************************************************)
EXTENDS Combiner, SequencesExt, FiniteSets

CONSTANTS
    DatasetInfo,        \* datasetInfoMaps: name -> [folder, mapping, devices];
                        \* mapping is "IP" or "MAC", devices the addresses of
                        \* device_mappings.csv
    DefaultFolder,      \* of a name that is not in datasetInfoMaps
    ArgArrays,          \* TRAIN_PERCENTs, and then what the division depends on
    DatasetNames,       \* the data sets of the series
    UINT16,             \* 2^16: the modulus of devId and its counter
    MaxRestarts         \* bound on ends of a process

Blank == "blank"        \* "0.0.0.0", "00:00:00:00:00:00": an address not set
UnsetName == ""         \* a name member that nobody assigned

Names == DOMAIN DatasetInfo

ASSUME DriverAssumption ==
    /\ UINT16 \in Nat \ {0}
    /\ DatasetNames \in Seq(Names)
    /\ \A n \in Names : /\ DatasetInfo[n].folder # DefaultFolder
                        /\ Blank \notin ToSet(DatasetInfo[n].devices)
                        /\ DatasetInfo[n].devices \in Seq(ToSet(DatasetInfo[n].devices))
    /\ \A m, n \in Names :
          /\ DatasetInfo[m].folder = DatasetInfo[n].folder => m = n
          \* no address is both of IP and of MAC
          /\ ToSet(DatasetInfo[m].devices) \cap ToSet(DatasetInfo[n].devices) # {} =>
                DatasetInfo[m].mapping = DatasetInfo[n].mapping
    /\ UnsetName \notin Names
    /\ "partial" \notin Names       \* a mark of this module

(* The lists are written out in LabelRateExperiment, without repetition.    *)
ASSUME SeriesAssumption ==
    /\ ArgArrays \in Seq(Seq(Int) \ {<<>>}) \ {<<>>}
    /\ \A i \in DOMAIN ArgArrays : IsInjective(ArgArrays[i])
    /\ IsInjective(DatasetNames)

VARIABLES
    disk,               \* path -> a data set, or Partial
    captures,           \* name -> addresses in the raw traffic
    restarts,
    combiner,           \* getNext's indices and finished
    experiment,         \* [setting, name] now, and the names to come
    count,              \* static in KDevice's constructor: the next devId
    deviceVec,          \* Context: the devices in the order of AddDevices
    addressMap,         \* Context: address -> devId
    converter,          \* Converter::addressMap: address -> devId
    data,               \* the burst data set in use
    results,            \* the experiments carried out
    pc

process == <<combiner, experiment, count, deviceVec, addressMap, converter, data, results>>
vars == <<disk, captures, restarts, combiner, experiment, count, deviceVec, addressMap,
          converter, data, results, pc>>

NoMap == [k \in {} |-> 0]
Partial == [of |-> "partial"]
NoData == [of |-> "none"]

Put(map, key, value) ==
    [k \in DOMAIN map \cup {key} |-> IF k = key THEN value ELSE map[k]]

(* unordered_map::insert for every device of a vector and its key in turn:  *)
(* the first device with a key keeps it, and so does one known before.      *)
InsertAll(map, keys, devices) ==
    [k \in DOMAIN map \cup {keys[i] : i \in DOMAIN devices} |->
        IF k \in DOMAIN map THEN map[k]
        ELSE devices[Min({i \in DOMAIN devices : keys[i] = k})].devId]

Addrs(devices) == [i \in DOMAIN devices |-> devices[i].addr]

FolderOf(name) == IF name \in Names THEN DatasetInfo[name].folder ELSE DefaultFolder

PacketDatasetPath(name) == <<"pktDataset", FolderOf(name), name>>

BurstDatasetPath_FolderOnly(name, division) ==    \* mutant: without the parameters
    <<"burstDataset", FolderOf(name), <<>>>>

(* The name is not part of it, its folder is, and so is every parameter     *)
(* of the division, but not TRAIN_PERCENT.                                  *)
BurstDatasetPath(name, division) == <<"burstDataset", FolderOf(name), division>>

Division(setting) == Tail(setting)

Name == experiment.name
Setting == experiment.setting

(* deviceIds of a process that registered this data set first.              *)
FreshIds(name) ==
    LET devices == DatasetInfo[name].devices
    IN  [a \in ToSet(devices) |-> (CHOOSE i \in DOMAIN devices : devices[i] = a) - 1]

Settings ==
    {[i \in DOMAIN ArgArrays |-> ArgArrays[i][k[i]]] :
        k \in {f \in [DOMAIN ArgArrays -> UNION {DOMAIN ArgArrays[i] : i \in DOMAIN ArgArrays}] :
                  \A i \in DOMAIN ArgArrays : f[i] \in DOMAIN ArgArrays[i]}}

(* The files a user may have put in place: complete, and made for a data    *)
(* set by a process that ran no other before.                               *)
BurstFile(name, division) == [of |-> name, division |-> division, ids |-> FreshIds(name)]
PacketFile(name) == [of |-> name, ids |-> FreshIds(name)]

Only(path, file) == [p \in {path} |-> file]

Prepared ==
    {NoMap}
    \cup {Only(BurstDatasetPath(n, Division(s)), BurstFile(n, Division(s))) :
             n \in Names, s \in Settings}
    \cup {Only(PacketDatasetPath(n), PacketFile(n)) : n \in Names}

NewProcess ==
    /\ combiner' = Start(ArgArrays)
    /\ experiment' = [setting |-> <<>>, name |-> UnsetName, names |-> <<>>]
    /\ count' = 0
    /\ deviceVec' = <<>>
    /\ addressMap' = NoMap
    /\ converter' = NoMap
    /\ data' = NoData
    /\ results' = <<>>

(* Some devices ask for an address while they have none (DHCP).             *)
Init ==
    /\ disk \in Prepared
    /\ captures \in [Names -> SUBSET {Blank}]
    /\ restarts = 0
    /\ combiner = Start(ArgArrays)
    /\ experiment = [setting |-> <<>>, name |-> UnsetName, names |-> <<>>]
    /\ count = 0
    /\ deviceVec = <<>>
    /\ addressMap = NoMap
    /\ converter = NoMap
    /\ data = NoData
    /\ results = <<>>
    /\ pc = "series"

-----------------------------------------------------------------------------
(* LabelRateExperiment                                                      *)

NextSetting ==
    /\ pc = "series"
    /\ experiment.names = <<>>
    /\ ~combiner.finished
    /\ experiment' = [setting |-> Current(ArgArrays, combiner.indices),
                      name |-> UnsetName, names |-> DatasetNames]
    /\ combiner' = Advance(ArgArrays, combiner.indices)
    /\ UNCHANGED <<disk, captures, restarts, count, deviceVec, addressMap, converter, data,
                   results, pc>>

Finish ==
    /\ pc = "series"
    /\ experiment.names = <<>>
    /\ combiner.finished
    /\ pc' = "finished"
    /\ UNCHANGED <<disk, captures, restarts, process>>

-----------------------------------------------------------------------------
(* SingleExperiment                                                         *)

(* KDevice's constructor for every line of device_mappings.csv. devId is    *)
(* the position in deviceVec until the uint16_t wraps, then one used before.*)
Registered(name) ==
    [i \in DOMAIN DatasetInfo[name].devices |->
        [addr |-> DatasetInfo[name].devices[i], mapping |-> DatasetInfo[name].mapping,
         devId |-> (count + i - 1) % UINT16]]

AddDevices_ClearsFirst ==    \* mutant: ClearDevices() before
    /\ pc = "series"
    /\ experiment.names # <<>>
    /\ LET new == Registered(Head(experiment.names))
       IN  /\ deviceVec' = new
           /\ count' = (count + Len(new)) % UINT16
           /\ addressMap' = InsertAll(NoMap, Addrs(new), new)
    /\ experiment' = [setting |-> Setting, name |-> Head(experiment.names),
                      names |-> Tail(experiment.names)]
    /\ pc' = "source"
    /\ UNCHANGED <<disk, captures, restarts, combiner, converter, data, results>>

AddDevices_MapOverwrites ==    \* mutant: addressMap[addr] = device
    /\ pc = "series"
    /\ experiment.names # <<>>
    /\ LET new == Registered(Head(experiment.names))
       IN  /\ deviceVec' = deviceVec \o new
           /\ count' = (count + Len(new)) % UINT16
           /\ addressMap' = FoldLeft(LAMBDA map, dev : Put(map, dev.addr, dev.devId),
                                     addressMap, new)
    /\ experiment' = [setting |-> Setting, name |-> Head(experiment.names),
                      names |-> Tail(experiment.names)]
    /\ pc' = "source"
    /\ UNCHANGED <<disk, captures, restarts, combiner, converter, data, results>>

(* Context::AddDevices, and the parameters. Devices known from an earlier   *)
(* experiment are appended again under new ids; the map keeps the old ones. *)
AddDevices ==
    /\ pc = "series"
    /\ experiment.names # <<>>
    /\ LET new == Registered(Head(experiment.names))
       IN  /\ deviceVec' = deviceVec \o new
           /\ count' = (count + Len(new)) % UINT16
           /\ addressMap' = InsertAll(addressMap, Addrs(new), new)
    /\ experiment' = [setting |-> Setting, name |-> Head(experiment.names),
                      names |-> Tail(experiment.names)]
    /\ pc' = "source"
    /\ UNCHANGED <<disk, captures, restarts, combiner, converter, data, results>>

(* The address by which the converter of a data set looks for a device,     *)
(* whichever data set the device came with.                                 *)
AddressAs(dev, mapping) == IF dev.mapping = mapping THEN dev.addr ELSE Blank

(* Converter::Converter                                                     *)
NewConverter(mapping) ==
    InsertAll(NoMap, [i \in DOMAIN deviceVec |-> AddressAs(deviceVec[i], mapping)], deviceVec)

(* GetBurstDataset: exists() and exists() again.                            *)
ChooseSource ==
    /\ pc = "source"
    /\ LET burstPath == BurstDatasetPath(Name, Division(Setting))
       IN  IF burstPath \in DOMAIN disk
           THEN pc' = "loadBursts" /\ UNCHANGED converter
           ELSE /\ converter' = NewConverter(DatasetInfo[Name].mapping)
                /\ pc' = IF PacketDatasetPath(Name) \in DOMAIN disk THEN "loadPackets"
                                                                   ELSE "readCaptures"
    /\ UNCHANGED <<disk, captures, restarts, combiner, experiment, count, deviceVec, addressMap,
                   data, results>>

(* LoadBin. An archive that breaks off throws, here outside of the try.     *)
LoadBursts ==
    /\ pc = "loadBursts"
    /\ LET file == disk[BurstDatasetPath(Name, Division(Setting))]
       IN  IF file = Partial THEN pc' = "dead" /\ UNCHANGED data
           ELSE pc' = "run" /\ data' = file
    /\ UNCHANGED <<disk, captures, restarts, combiner, experiment, count, deviceVec, addressMap,
                   converter, results>>

LoadPackets ==
    /\ pc = "loadPackets"
    /\ LET file == disk[PacketDatasetPath(Name)]
       IN  IF file = Partial THEN pc' = "dead" /\ UNCHANGED data
           ELSE /\ pc' = "openBursts"
                /\ data' = [of |-> file.of, division |-> Division(Setting), ids |-> file.ids]
    /\ UNCHANGED <<disk, captures, restarts, combiner, experiment, count, deviceVec, addressMap,
                   converter, results>>

(* Addresses of the captures that the converter takes for IoT devices.      *)
SeenDevices == (ToSet(DatasetInfo[Name].devices) \cup captures[Name]) \cap DOMAIN converter

(* RawCvtoPktDataset up to Serialize. GetDeviceByAddr throws for an address *)
(* that the converter knows and the Context does not, on a pool thread.     *)
ReadCaptures ==
    /\ pc = "readCaptures"
    /\ IF SeenDevices \subseteq DOMAIN addressMap
       THEN /\ data' = [of |-> Name, ids |-> [a \in SeenDevices |-> addressMap[a]]]
            /\ pc' = "openPackets"
       ELSE pc' = "dead" /\ UNCHANGED data
    /\ UNCHANGED <<disk, captures, restarts, combiner, experiment, count, deviceVec, addressMap,
                   converter, results>>

-----------------------------------------------------------------------------
(* Context::Serialize: opening truncates, then the object is written.       *)

SavedName_Set == Name           \* mutant: datasetName and name are assigned

SavedName == UnsetName

OpenPackets ==
    /\ pc = "openPackets"
    /\ disk' = Put(disk, PacketDatasetPath(SavedName), Partial)
    /\ pc' = "writePackets"
    /\ UNCHANGED <<captures, restarts, process>>

(* Then PktDatasetCvtoBursts and the split.                                 *)
WritePackets ==
    /\ pc = "writePackets"
    /\ disk' = Put(disk, PacketDatasetPath(SavedName), data)
    /\ data' = [of |-> data.of, division |-> Division(Setting), ids |-> data.ids]
    /\ pc' = "openBursts"
    /\ UNCHANGED <<captures, restarts, combiner, experiment, count, deviceVec, addressMap,
                   converter, results>>

OpenBursts ==
    /\ pc = "openBursts"
    /\ disk' = Put(disk, BurstDatasetPath(SavedName, Division(Setting)), Partial)
    /\ pc' = "writeBursts"
    /\ UNCHANGED <<captures, restarts, process>>

WriteBursts ==
    /\ pc = "writeBursts"
    /\ disk' = Put(disk, BurstDatasetPath(SavedName, Division(Setting)), data)
    /\ pc' = "run"
    /\ UNCHANGED <<captures, restarts, process>>

(* Train, Predict, and everything is deleted but the Context.               *)
Run ==
    /\ pc = "run"
    /\ results' = Append(results, <<Setting, Name>>)
    /\ data' = NoData
    /\ pc' = "series"
    /\ UNCHANGED <<disk, captures, restarts, combiner, experiment, count, deviceVec, addressMap,
                   converter>>

-----------------------------------------------------------------------------

(* The process ends: it is killed, or a file cannot be opened. The latter   *)
(* throws; GetBurstDataset lets the exception out, or logs it and returns   *)
(* without a value, whose use ends the process too.                         *)
End ==
    /\ pc \notin {"dead", "finished"}
    /\ restarts < MaxRestarts
    /\ pc' = "dead"
    /\ UNCHANGED <<disk, captures, restarts, process>>

Restart ==
    /\ pc = "dead"
    /\ restarts < MaxRestarts
    /\ restarts' = restarts + 1
    /\ NewProcess
    /\ pc' = "series"
    /\ UNCHANGED <<disk, captures>>

Terminating ==
    /\ pc = "finished" \/ (pc = "dead" /\ restarts = MaxRestarts)
    /\ UNCHANGED vars

Next ==
    \/ NextSetting \/ Finish \/ AddDevices \/ ChooseSource \/ LoadBursts \/ LoadPackets
    \/ ReadCaptures \/ OpenPackets \/ WritePackets \/ OpenBursts \/ WriteBursts \/ Run
    \/ End \/ Restart \/ Terminating

Spec == Init /\ [][Next]_vars

-----------------------------------------------------------------------------
(* Properties *)

(* Wherever a process is stopped, a file it was writing is never taken for  *)
(* a data set by a later one, although exists() is all that is asked.       *)
NeverLoadsPartial ==
    /\ pc = "loadBursts" => disk[BurstDatasetPath(Name, Division(Setting))] # Partial
    /\ pc = "loadPackets" => disk[PacketDatasetPath(Name)] # Partial

(* What an experiment trains and predicts on is the data set it names,      *)
(* divided by its own parameters, whatever source it came from.             *)
RightData ==
    pc = "run" => data.of = Name /\ data.division = Division(Setting)

Loaded ==
    \/ BurstDatasetPath(Name, Division(Setting)) \in DOMAIN disk
    \/ PacketDatasetPath(Name) \in DOMAIN disk

NewOnesFit ==
    \A i \in DOMAIN deviceVec : \E j \in DOMAIN deviceVec :
        j <= UINT16 /\ deviceVec[j].addr = deviceVec[i].addr

(* GetDeviceById finds, for every id in the data set in use, the device     *)
(* whose address gave the id: always when the data set was made in this     *)
(* process, although the same devices were registered over and over; when   *)
(* it was loaded, provided the process registered its devices first. (And   *)
(* provided no address is new after the 16 bits of devId wrapped.)          *)
IdsNameDevices ==
    pc = "run" /\ NewOnesFit /\ (~Loaded \/ Name = Head(DatasetNames)) =>
        \A a \in DOMAIN data.ids :
            /\ data.ids[a] + 1 \in DOMAIN deviceVec
            /\ deviceVec[data.ids[a] + 1].addr = a

(* The converter and the Context, which fill their maps separately, agree   *)
(* on the id of every address. The one that only the converter knows is the *)
(* blank one, of devices that are mapped the other way; it throws when such *)
(* traffic is met, which takes data sets of both mappings in one series.    *)
ConverterAgrees ==
    pc \in {"loadPackets", "readCaptures"} =>
        \A a \in DOMAIN converter :
            \/ a \in DOMAIN addressMap /\ converter[a] = addressMap[a]
            \/ /\ a = Blank
               /\ \E dev \in ToSet(deviceVec) : dev.mapping # DatasetInfo[Name].mapping

(* A series that gets to its end has run every data set under every         *)
(* combination of parameters, and none twice.                               *)
EveryExperimentOnce ==
    pc = "finished" =>
        /\ ToSet(results) = Settings \X ToSet(DatasetNames)
        /\ Len(results) = Cardinality(ToSet(results))
=============================================================================
