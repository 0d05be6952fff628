--------------------------- MODULE IoTBurst_proofs ---------------------------
(***************************************************************************)
(* NeverLoadsPartial, RightData, ConverterAgrees, IdsNameDevices and       *)
(* EveryExperimentOnce for all data sets, parameters, numbers of restarts  *)
(* and files put in place, from three inductive invariants:                *)
(*   IInv: a file outside of the default folder is as the user left it,    *)
(*     complete and under the path of what it holds, because nothing is    *)
(*     ever saved there;                                                   *)
(*   Registry: Context's map has the first device of every address, its    *)
(*     id the place of that device until the 16 bits are used up;          *)
(*   SeriesOK: what has been run is what the odometer handed out, less     *)
(*     the data sets that wait for a run under the latest parameters.      *)
(***************************************************************************)
EXTENDS IoTBurst, FiniteSetTheorems, TLAPS

(* The files under the names of data sets.                                  *)
FilesRight ==
    /\ \A n \in Names : \A division :
          BurstDatasetPath(n, division) \in DOMAIN disk =>
              /\ disk[BurstDatasetPath(n, division)] # Partial
              /\ disk[BurstDatasetPath(n, division)].of = n
              /\ disk[BurstDatasetPath(n, division)].division = division
              /\ disk[BurstDatasetPath(n, division)].ids = FreshIds(n)
    /\ \A n \in Names :
          PacketDatasetPath(n) \in DOMAIN disk =>
              /\ disk[PacketDatasetPath(n)] # Partial
              /\ disk[PacketDatasetPath(n)].of = n
              /\ disk[PacketDatasetPath(n)].ids = FreshIds(n)

Saving == {"openPackets", "writePackets", "openBursts", "writeBursts"}

(* The experiment under way has a known name.                               *)
NameKnown ==
    /\ experiment.names \in Seq(Names)
    /\ pc \in {"source", "loadBursts", "loadPackets", "readCaptures", "run"} \cup Saving
          => Name \in Names

(* What is in memory is of the experiment under way.                        *)
DataRight ==
    /\ pc \in {"run"} \cup Saving => data.of = Name
    /\ pc \in {"openBursts", "writeBursts", "run"} => data.division = Division(Setting)

(* What exists() found is still there.                                      *)
SourceThere ==
    /\ pc = "loadBursts" => BurstDatasetPath(Name, Division(Setting)) \in DOMAIN disk
    /\ pc = "loadPackets" => PacketDatasetPath(Name) \in DOMAIN disk

IInv == FilesRight /\ NameKnown /\ DataRight /\ SourceThere

(* Nothing is saved under the path of a known name: SavedName is not one,   *)
(* and its folder is nobody's.                                              *)
LEMMA SavedElsewhere ==
    ASSUME NEW n \in Names, NEW d, NEW e
    PROVE  /\ BurstDatasetPath(SavedName, d) # BurstDatasetPath(n, e)
           /\ BurstDatasetPath(SavedName, d) # PacketDatasetPath(n)
           /\ PacketDatasetPath(SavedName) # BurstDatasetPath(n, e)
           /\ PacketDatasetPath(SavedName) # PacketDatasetPath(n)
  BY DriverAssumption DEF BurstDatasetPath, PacketDatasetPath, FolderOf, SavedName

(* Paths tell what they lead to.                                            *)
LEMMA PathsDiffer ==
    ASSUME NEW m \in Names, NEW n \in Names, NEW d, NEW e
    PROVE  /\ BurstDatasetPath(m, d) = BurstDatasetPath(n, e) => m = n /\ d = e
           /\ PacketDatasetPath(m) = PacketDatasetPath(n) => m = n
           /\ BurstDatasetPath(m, d) # PacketDatasetPath(n)
  BY DriverAssumption DEF BurstDatasetPath, PacketDatasetPath, FolderOf

(* Saving leaves the files of known names alone.                            *)
LEMMA SavingKeepsFiles ==
    ASSUME FilesRight, NEW path, NEW file, disk' = Put(disk, path, file),
           \A n \in Names : \A d : path # BurstDatasetPath(n, d),
           \A n \in Names : path # PacketDatasetPath(n)
    PROVE  FilesRight'
  <1>1. ASSUME NEW p, p # path, p \in DOMAIN disk'
        PROVE  p \in DOMAIN disk /\ disk'[p] = disk[p]
    BY <1>1 DEF Put
  <1>2. ASSUME NEW n \in Names, NEW d, BurstDatasetPath(n, d) \in DOMAIN disk'
        PROVE  /\ disk'[BurstDatasetPath(n, d)] # Partial
               /\ disk'[BurstDatasetPath(n, d)].of = n
               /\ disk'[BurstDatasetPath(n, d)].division = d
               /\ disk'[BurstDatasetPath(n, d)].ids = FreshIds(n)
    <2>1. BurstDatasetPath(n, d) # path
      OBVIOUS
    <2> QED BY <1>1, <1>2, <2>1 DEF FilesRight
  <1>3. ASSUME NEW n \in Names, PacketDatasetPath(n) \in DOMAIN disk'
        PROVE  /\ disk'[PacketDatasetPath(n)] # Partial
               /\ disk'[PacketDatasetPath(n)].of = n
               /\ disk'[PacketDatasetPath(n)].ids = FreshIds(n)
    <2>1. PacketDatasetPath(n) # path
      OBVIOUS
    <2> QED BY <1>1, <1>3, <2>1 DEF FilesRight
  <1> QED BY <1>2, <1>3 DEF FilesRight, BurstDatasetPath, PacketDatasetPath, FolderOf, Partial
(* Complete files of the user's make the invariant hold at first.           *)
LEMMA InitIInv == Init => IInv
  <1> SUFFICES ASSUME Init PROVE IInv
    OBVIOUS
  <1>1. FilesRight
    <2>1. CASE disk = NoMap
      BY <2>1 DEF FilesRight, NoMap
    <2>2. CASE \E n \in Names, s \in Settings :
                  disk = Only(BurstDatasetPath(n, Division(s)), BurstFile(n, Division(s)))
      <3>1. PICK n \in Names, s \in Settings :
                  disk = Only(BurstDatasetPath(n, Division(s)), BurstFile(n, Division(s)))
        BY <2>2
      <3>2. DOMAIN disk = {BurstDatasetPath(n, Division(s))}
        BY <3>1 DEF Only
      <3>3. disk[BurstDatasetPath(n, Division(s))] = BurstFile(n, Division(s))
        BY <3>1 DEF Only
      <3>4. /\ BurstFile(n, Division(s)).of = n
            /\ BurstFile(n, Division(s)).division = Division(s)
            /\ BurstFile(n, Division(s)).ids = FreshIds(n)
            /\ BurstFile(n, Division(s)) # Partial
        BY DriverAssumption DEF BurstFile, Partial
      <3>5. \A m \in Names : PacketDatasetPath(m) \notin DOMAIN disk
        BY <3>2, PathsDiffer
      <3>6. \A m \in Names : \A d :
               BurstDatasetPath(m, d) \in DOMAIN disk => m = n /\ d = Division(s)
        BY <3>2, PathsDiffer
      <3> QED BY <3>3, <3>4, <3>5, <3>6 DEF FilesRight
    <2>3. CASE \E n \in Names : disk = Only(PacketDatasetPath(n), PacketFile(n))
      <3>1. PICK n \in Names : disk = Only(PacketDatasetPath(n), PacketFile(n))
        BY <2>3
      <3>2. DOMAIN disk = {PacketDatasetPath(n)}
        BY <3>1 DEF Only
      <3>3. disk[PacketDatasetPath(n)] = PacketFile(n)
        BY <3>1 DEF Only
      <3>4. PacketFile(n).of = n /\ PacketFile(n).ids = FreshIds(n) /\ PacketFile(n) # Partial
        BY DriverAssumption DEF PacketFile, Partial
      <3>5. \A m \in Names : \A d : BurstDatasetPath(m, d) \notin DOMAIN disk
        BY <3>2, PathsDiffer
      <3>6. \A m \in Names : PacketDatasetPath(m) \in DOMAIN disk => m = n
        BY <3>2, PathsDiffer
      <3> QED BY <3>3, <3>4, <3>5, <3>6 DEF FilesRight
    <2> QED BY <2>1, <2>2, <2>3 DEF Init, Prepared
  <1>2. NameKnown
    BY DEF Init, NameKnown, Saving
  <1>3. DataRight
    BY DEF Init, DataRight, Saving
  <1>4. SourceThere
    BY DEF Init, SourceThere
  <1> QED BY <1>1, <1>2, <1>3, <1>4 DEF IInv

(* Every step keeps it; only loading and saving touch more than names.      *)
LEMMA NextIInv == IInv /\ [Next]_vars => IInv'
  <1> SUFFICES ASSUME IInv, [Next]_vars PROVE IInv'
    OBVIOUS
  <1> USE DEF IInv
  <1>1. CASE NextSetting
    <2>1. FilesRight'
      BY <1>1 DEF NextSetting, FilesRight
    <2>2. NameKnown'
      BY <1>1, DriverAssumption DEF NextSetting, NameKnown, Saving
    <2>3. DataRight'
      BY <1>1 DEF NextSetting, DataRight, Saving
    <2>4. SourceThere'
      BY <1>1 DEF NextSetting, SourceThere
    <2> QED BY <2>1, <2>2, <2>3, <2>4
  <1>2. CASE Finish
    <2>1. pc' = "finished" /\ UNCHANGED <<disk, experiment, data>>
      BY <1>2 DEF Finish, process
    <2>2. FilesRight'
      BY <2>1 DEF FilesRight
    <2>3. NameKnown'
      BY <2>1 DEF NameKnown, Saving
    <2>4. DataRight' /\ SourceThere'
      BY <2>1 DEF DataRight, SourceThere, Saving
    <2> QED BY <2>2, <2>3, <2>4
  <1>3. CASE AddDevices
    <2>1. FilesRight'
      BY <1>3 DEF AddDevices, FilesRight
    <2>2. NameKnown'
      <3>1. experiment.names \in Seq(Names) /\ experiment.names # <<>>
        BY <1>3 DEF AddDevices, NameKnown
      <3>2. Head(experiment.names) \in Names /\ Tail(experiment.names) \in Seq(Names)
        BY <3>1
      <3> QED BY <1>3, <3>2 DEF AddDevices, NameKnown, Name
    <2>3. DataRight'
      BY <1>3 DEF AddDevices, DataRight, Saving
    <2>4. SourceThere'
      BY <1>3 DEF AddDevices, SourceThere
    <2> QED BY <2>1, <2>2, <2>3, <2>4
  <1>4. CASE ChooseSource
    <2>1. pc = "source" /\ pc' \in {"loadBursts", "loadPackets", "readCaptures"}
      BY <1>4 DEF ChooseSource
    <2>2. UNCHANGED <<disk, experiment, data>>
      BY <1>4 DEF ChooseSource
    <2>3. FilesRight'
      BY <2>2 DEF FilesRight
    <2>4. NameKnown'
      BY <2>1, <2>2 DEF NameKnown, Name, Saving
    <2>5. DataRight'
      BY <2>1, <2>2 DEF DataRight, Saving, Name, Setting
    <2>6. SourceThere'
      BY <1>4 DEF ChooseSource, SourceThere, Name, Setting
    <2> QED BY <2>3, <2>4, <2>5, <2>6
  <1>5. CASE LoadBursts
    <2>1. FilesRight'
      BY <1>5 DEF LoadBursts, FilesRight
    <2>2. NameKnown'
      BY <1>5 DEF LoadBursts, NameKnown, Name, Saving
    <2>3. ASSUME pc' # "dead"
          PROVE  data.of' = Name /\ data.division' = Division(Setting) /\ pc' = "run"
      <3>1. /\ pc = "loadBursts" /\ pc' = "run" /\ Name \in Names
            /\ data' = disk[BurstDatasetPath(Name, Division(Setting))]
        BY <1>5, <2>3 DEF LoadBursts, NameKnown
      <3> QED BY <3>1 DEF FilesRight, SourceThere
    <2>4. DataRight'
      BY <1>5, <2>3 DEF LoadBursts, DataRight, Saving, Name, Setting
    <2>5. SourceThere'
      BY <1>5 DEF LoadBursts, SourceThere
    <2> QED BY <2>1, <2>2, <2>4, <2>5
  <1>6. CASE LoadPackets
    <2>1. FilesRight'
      BY <1>6 DEF LoadPackets, FilesRight
    <2>2. NameKnown'
      BY <1>6 DEF LoadPackets, NameKnown, Name, Saving
    <2>3. DataRight'
      <3>1. CASE pc' = "dead"
        BY <3>1 DEF DataRight, Saving
      <3>2. CASE pc' # "dead"
        <4>1. /\ pc' = "openBursts"
              /\ data'.of = disk[PacketDatasetPath(Name)].of
              /\ data'.division = Division(Setting)
          BY <1>6, <3>2 DEF LoadPackets
        <4>2. data'.of = Name
          BY <1>6, <4>1 DEF LoadPackets, FilesRight, NameKnown, SourceThere
        <4>3. Name' = Name /\ Setting' = Setting
          BY <1>6 DEF LoadPackets, Name, Setting
        <4> QED BY <4>1, <4>2, <4>3 DEF DataRight
      <3> QED BY <3>1, <3>2
    <2>4. SourceThere'
      BY <1>6 DEF LoadPackets, SourceThere
    <2> QED BY <2>1, <2>2, <2>3, <2>4
  <1>7. CASE ReadCaptures
    <2>1. FilesRight'
      BY <1>7 DEF ReadCaptures, FilesRight
    <2>2. NameKnown'
      BY <1>7 DEF ReadCaptures, NameKnown, Name, Saving
    <2>3. DataRight'
      BY <1>7 DEF ReadCaptures, DataRight, Saving, Name, Setting
    <2>4. SourceThere'
      BY <1>7 DEF ReadCaptures, SourceThere
    <2> QED BY <2>1, <2>2, <2>3, <2>4
  <1>8. CASE OpenPackets
    <2>1. FilesRight'
      BY <1>8, SavedElsewhere, SavingKeepsFiles DEF OpenPackets
    <2>2. NameKnown' /\ DataRight'
      BY <1>8 DEF OpenPackets, process, NameKnown, DataRight, Saving, Name, Setting
    <2>3. SourceThere'
      BY <1>8 DEF OpenPackets, SourceThere
    <2> QED BY <2>1, <2>2, <2>3
  <1>9. CASE WritePackets
    <2>1. FilesRight'
      BY <1>9, SavedElsewhere, SavingKeepsFiles DEF WritePackets
    <2>2. NameKnown' /\ DataRight'
      BY <1>9 DEF WritePackets, NameKnown, DataRight, Saving, Name, Setting
    <2>3. SourceThere'
      BY <1>9 DEF WritePackets, SourceThere
    <2> QED BY <2>1, <2>2, <2>3
  <1>10. CASE OpenBursts
    <2>1. FilesRight'
      BY <1>10, SavedElsewhere, SavingKeepsFiles DEF OpenBursts
    <2>2. NameKnown' /\ DataRight'
      BY <1>10 DEF OpenBursts, process, NameKnown, DataRight, Saving, Name, Setting
    <2>3. SourceThere'
      BY <1>10 DEF OpenBursts, SourceThere
    <2> QED BY <2>1, <2>2, <2>3
  <1>11. CASE WriteBursts
    <2>1. FilesRight'
      BY <1>11, SavedElsewhere, SavingKeepsFiles DEF WriteBursts
    <2>2. NameKnown' /\ DataRight'
      BY <1>11 DEF WriteBursts, process, NameKnown, DataRight, Saving, Name, Setting
    <2>3. SourceThere'
      BY <1>11 DEF WriteBursts, SourceThere
    <2> QED BY <2>1, <2>2, <2>3
  <1>12. CASE Run
    BY <1>12 DEF Run, FilesRight, NameKnown, DataRight, SourceThere, Saving
  <1>13. CASE End
    BY <1>13 DEF End, process, FilesRight, NameKnown, DataRight, SourceThere, Saving
  <1>14. CASE Restart
    BY <1>14 DEF Restart, NewProcess, FilesRight, NameKnown, DataRight, SourceThere, Saving
  <1>15. CASE Terminating \/ UNCHANGED vars
    BY <1>15 DEF Terminating, vars, process, FilesRight, NameKnown, DataRight, SourceThere,
                 Name, Setting
  <1> QED BY <1>1, <1>2, <1>3, <1>4, <1>5, <1>6, <1>7, <1>8, <1>9, <1>10, <1>11, <1>12,
             <1>13, <1>14, <1>15 DEF Next

(* The invariant holds of the driver.                                       *)
THEOREM Inductive == Spec => []IInv
  BY InitIInv, NextIInv, PTL DEF Spec

(* A file that an earlier process was writing when it ended is never loaded:*)
(* it is under no path that GetBurstDataset asks for.                       *)
THEOREM NeverLoadsPartialCorrect == Spec => []NeverLoadsPartial
  <1>1. IInv => NeverLoadsPartial
    BY DEF IInv, FilesRight, NameKnown, SourceThere, NeverLoadsPartial
  <1> QED BY <1>1, Inductive, PTL

(* An experiment runs on its own data set, divided by its own parameters,   *)
(* from whichever of the three sources it came.                             *)
THEOREM RightDataCorrect == Spec => []RightData
  <1>1. IInv => RightData
    BY DEF IInv, DataRight, RightData
  <1> QED BY <1>1, Inductive, PTL

-----------------------------------------------------------------------------
(* The Context and the converter *)

(* A nonempty set of naturals has a least element, which Min chooses.       *)
LEMMA LeastOfNaturals ==
    ASSUME NEW S, S \subseteq Nat, S # {}
    PROVE  Min(S) \in S /\ \A n \in S : Min(S) <= n
  <1> DEFINE R == {p \in Nat \X Nat : p[1] < p[2]}
  <1>1. IsWellFoundedOn(R, Nat)
    BY NatLessThanWellFounded DEF OpToRel
  <1>2. PICK m \in S : \A n \in S : <<n, m>> \notin R
    <2> HIDE DEF R
    <2> QED BY <1>1, WFMin
  <1>3. ASSUME NEW n \in S PROVE m <= n
    <2>1. m \in Nat /\ n \in Nat
      OBVIOUS
    <2>2. ~(n < m)
      BY <1>2, <2>1
    <2> QED BY <2>1, <2>2
  <1> QED BY <1>3 DEF Min

Addresses(name) == ToSet(DatasetInfo[name].devices)

(* Every device of the Context is one of a data set, and its id its place   *)
(* until the 16 bits are used up.                                           *)
DevicesOK ==
    /\ deviceVec \in Seq([addr : UNION {Addresses(n) : n \in Names},
                          mapping : {DatasetInfo[n].mapping : n \in Names}, devId : Nat])
    /\ count \in Nat
    /\ Len(deviceVec) < UINT16 => count = Len(deviceVec)
    /\ \A i \in DOMAIN deviceVec :
          /\ i <= UINT16 => deviceVec[i].devId = i - 1
          /\ \E n \in Names : /\ deviceVec[i].addr \in Addresses(n)
                              /\ deviceVec[i].mapping = DatasetInfo[n].mapping

FirstWith(a) == Min({i \in DOMAIN deviceVec : deviceVec[i].addr = a})

(* The map has the first device of every address.                           *)
MapOK ==
    /\ DOMAIN addressMap = {deviceVec[i].addr : i \in DOMAIN deviceVec}
    /\ \A a \in DOMAIN addressMap : addressMap[a] = deviceVec[FirstWith(a)].devId

ConverterOK ==
    pc \in {"loadPackets", "readCaptures"} => converter = NewConverter(DatasetInfo[Name].mapping)

(* The devices of the first data set of the series come first.              *)
FirstOnesFirst ==
    LET first == DatasetInfo[Head(DatasetNames)].devices
    IN  pc # "dead" =>
        \/ \A i \in DOMAIN first : i \in DOMAIN deviceVec /\ deviceVec[i].addr = first[i]
        \/ /\ deviceVec = <<>>
           /\ pc \in {"series", "finished"}
           /\ experiment.names \in {<<>>, DatasetNames}

(* The ids of the data set in use are those of a process of its own, or,    *)
(* if there was no file to load, those of the Context.                      *)
IdsOK ==
    /\ pc = "readCaptures" => ~Loaded
    /\ pc \in Saving \cup {"run"} =>
          IF Loaded THEN data.ids = FreshIds(Name)
          ELSE \A a \in DOMAIN data.ids : a \in DOMAIN addressMap /\ data.ids[a] = addressMap[a]

Registry == DevicesOK /\ MapOK /\ ConverterOK /\ FirstOnesFirst /\ IdsOK

(* What the new devices of a data set look like.                            *)
LEMMA RegisteredFacts ==
    ASSUME DevicesOK, NEW n \in Names
    PROVE  /\ Registered(n) \in Seq([addr : UNION {Addresses(m) : m \in Names},
                          mapping : {DatasetInfo[m].mapping : m \in Names}, devId : Nat])
           /\ Len(Registered(n)) = Len(DatasetInfo[n].devices)
           /\ \A i \in 1 .. Len(Registered(n)) :
                 /\ Registered(n)[i].addr = DatasetInfo[n].devices[i]
                 /\ Registered(n)[i].addr \in Addresses(n)
                 /\ Registered(n)[i].mapping = DatasetInfo[n].mapping
                 /\ Len(deviceVec) + i <= UINT16 =>
                       Registered(n)[i].devId = Len(deviceVec) + i - 1
  <1> DEFINE ds == DatasetInfo[n].devices
             T == [addr : UNION {Addresses(m) : m \in Names},
                          mapping : {DatasetInfo[m].mapping : m \in Names}, devId : Nat]
  <1>1. ds \in Seq(Addresses(n)) /\ Len(ds) \in Nat /\ DOMAIN ds = 1 .. Len(ds)
    BY DriverAssumption DEF Addresses
  <1>2. /\ UINT16 \in Nat \ {0} /\ Len(deviceVec) \in Nat /\ count \in Nat
        /\ Len(deviceVec) < UINT16 => count = Len(deviceVec)
    BY DriverAssumption DEF DevicesOK
  <1>3. ASSUME NEW i \in 1 .. Len(ds)
        PROVE  /\ (count + i - 1) % UINT16 \in Nat
               /\ Len(deviceVec) + i <= UINT16 =>
                     (count + i - 1) % UINT16 = Len(deviceVec) + i - 1
    BY <1>2, <1>3
  <1>4. Registered(n) = [i \in 1 .. Len(ds) |->
            [addr |-> ds[i], mapping |-> DatasetInfo[n].mapping,
             devId |-> (count + i - 1) % UINT16]]
    BY <1>1 DEF Registered
  <1>5. \A i \in 1 .. Len(ds) : Registered(n)[i] \in T
    BY <1>1, <1>3, <1>4
  <1>6. Registered(n) \in Seq(T) /\ Len(Registered(n)) = Len(ds)
    <2>1. Registered(n) \in [1 .. Len(ds) -> T] BY <1>4, <1>5
    <2> HIDE DEF T
    <2> QED BY <1>1, <2>1
  <1>7. ASSUME NEW i \in 1 .. Len(ds)
        PROVE  /\ Registered(n)[i].addr = ds[i]
               /\ Registered(n)[i].mapping = DatasetInfo[n].mapping
               /\ Len(deviceVec) + i <= UINT16 =>
                     Registered(n)[i].devId = Len(deviceVec) + i - 1
    <2>1. Registered(n)[i] = [addr |-> ds[i], mapping |-> DatasetInfo[n].mapping,
                              devId |-> (count + i - 1) % UINT16]
      BY <1>4
    <2> QED BY <1>3, <2>1
  <1>8. \A i \in 1 .. Len(ds) : ds[i] \in Addresses(n)
    BY <1>1
  <1> HIDE DEF T
  <1>9. /\ Registered(n) \in Seq(T)
        /\ Len(Registered(n)) = Len(ds)
        /\ \A i \in 1 .. Len(Registered(n)) :
              /\ Registered(n)[i].addr = ds[i]
              /\ Registered(n)[i].addr \in Addresses(n)
              /\ Registered(n)[i].mapping = DatasetInfo[n].mapping
              /\ Len(deviceVec) + i <= UINT16 =>
                    Registered(n)[i].devId = Len(deviceVec) + i - 1
    BY <1>6, <1>7, <1>8
  <1> QED BY <1>9 DEF T

(* Min chooses the least element where there is one.                       *)
LEMMA MinIs ==
    ASSUME NEW S, S \subseteq Nat, NEW m \in S, \A n \in S : m <= n
    PROVE  Min(S) = m
  <1>1. Min(S) \in S /\ \A n \in S : Min(S) <= n
    BY LeastOfNaturals
  <1>2. Min(S) \in Nat /\ m \in Nat /\ Min(S) <= m /\ m <= Min(S)
    BY <1>1
  <1> QED BY <1>2

(* The first device of an address is one of the Context.                    *)
LEMMA FirstWithFacts ==
    ASSUME DevicesOK, NEW a, NEW i \in DOMAIN deviceVec, deviceVec[i].addr = a
    PROVE  /\ FirstWith(a) \in DOMAIN deviceVec
           /\ deviceVec[FirstWith(a)].addr = a
           /\ \A j \in DOMAIN deviceVec : deviceVec[j].addr = a => FirstWith(a) <= j
  <1> DEFINE S == {j \in DOMAIN deviceVec : deviceVec[j].addr = a}
  <1>1. S \subseteq Nat /\ S # {}
    BY DEF DevicesOK
  <1>2. Min(S) \in S /\ \A j \in S : Min(S) <= j
    <2> HIDE DEF S
    <2> QED BY <1>1, LeastOfNaturals
  <1> QED BY <1>2 DEF FirstWith

(* AddDevices appends, and the map keeps the first.                         *)
LEMMA AddDevicesRegistry ==
    ASSUME DevicesOK, MapOK, experiment.names \in Seq(Names), AddDevices
    PROVE  DevicesOK' /\ MapOK'
  <1> DEFINE n == Head(experiment.names)
             new == Registered(n)
             T == [addr : UNION {Addresses(m) : m \in Names},
                   mapping : {DatasetInfo[m].mapping : m \in Names}, devId : Nat]
             size == Len(deviceVec)
  <1>1. n \in Names
    BY DEF AddDevices
  <1>2. /\ new \in Seq(T)
        /\ \A i \in 1 .. Len(new) :
              /\ new[i].addr \in Addresses(n)
              /\ new[i].mapping = DatasetInfo[n].mapping
              /\ size + i <= UINT16 => new[i].devId = size + i - 1
    BY <1>1, RegisteredFacts
  <1>3. deviceVec \in Seq(T) /\ size \in Nat
    BY DEF DevicesOK
  <1>4. /\ deviceVec' = deviceVec \o new
        /\ count' = (count + Len(new)) % UINT16
        /\ addressMap' = InsertAll(addressMap, Addrs(new), new)
    BY DEF AddDevices
  <1> HIDE DEF T, new, n
  <1>5. /\ deviceVec' \in Seq(T)
        /\ Len(deviceVec') = size + Len(new)
        /\ Len(new) \in Nat
        /\ DOMAIN deviceVec' = 1 .. size + Len(new)
        /\ DOMAIN deviceVec = 1 .. size
        /\ DOMAIN new = 1 .. Len(new)
        /\ \A i \in 1 .. size + Len(new) :
              deviceVec'[i] = IF i <= size THEN deviceVec[i] ELSE new[i - size]
    BY <1>2, <1>3, <1>4
  <1>a. \A i \in DOMAIN new : Addrs(new)[i] = new[i].addr
    BY DEF Addrs
  <1>6. DevicesOK'
    <2>1. UINT16 \in Nat \ {0} /\ count \in Nat
      BY DriverAssumption DEF DevicesOK
    <2>2. count' \in Nat /\ (Len(deviceVec') < UINT16 => count' = Len(deviceVec'))
      <3>1. PICK k \in Nat : k = Len(new)
        BY <1>5
      <3>2. PICK m \in Nat : m = size
        BY <1>3
      <3>3. m < UINT16 => count = m
        BY <3>2 DEF DevicesOK
      <3>4. count' = (count + k) % UINT16 /\ Len(deviceVec') = m + k
        BY <1>4, <1>5, <3>1, <3>2
      <3> QED BY <2>1, <3>3, <3>4
    <2>3. ASSUME NEW i \in DOMAIN deviceVec'
          PROVE  /\ i <= UINT16 => deviceVec'[i].devId = i - 1
                 /\ \E m \in Names : /\ deviceVec'[i].addr \in Addresses(m)
                                     /\ deviceVec'[i].mapping = DatasetInfo[m].mapping
      <3>1. CASE i <= size
        <4>1. i \in DOMAIN deviceVec /\ deviceVec'[i] = deviceVec[i]
          BY <1>3, <1>5, <2>3, <3>1
        <4> QED BY <4>1 DEF DevicesOK
      <3>2. CASE ~(i <= size)
        <4>1. i - size \in 1 .. Len(new) /\ deviceVec'[i] = new[i - size]
          BY <1>3, <1>5, <2>3, <3>2
        <4>2. PICK k \in 1 .. Len(new) : k = i - size
          BY <4>1
        <4>3. i = size + k /\ deviceVec'[i] = new[k]
          BY <1>3, <1>5, <4>1, <4>2
        <4>4. size + k <= UINT16 => new[k].devId = size + k - 1
          BY <1>2, <4>2
        <4>5. new[k].addr \in Addresses(n) /\ new[k].mapping = DatasetInfo[n].mapping
          BY <1>2, <4>2
        <4> QED BY <1>1, <4>3, <4>4, <4>5
      <3> QED BY <3>1, <3>2
    <2> QED BY <1>5, <2>2, <2>3 DEF DevicesOK, T
  <1>7. MapOK'
    <2>1. DOMAIN addressMap' = DOMAIN addressMap \cup {new[i].addr : i \in DOMAIN new}
      BY <1>4, <1>a DEF InsertAll
    <2>2. DOMAIN addressMap' = {deviceVec'[i].addr : i \in DOMAIN deviceVec'}
      <3>1. ASSUME NEW i \in DOMAIN new
            PROVE  size + i \in DOMAIN deviceVec' /\ deviceVec'[size + i] = new[i]
        BY <1>3, <1>5
      <3>2. ASSUME NEW i \in DOMAIN deviceVec
            PROVE  i \in DOMAIN deviceVec' /\ deviceVec'[i] = deviceVec[i]
        BY <1>3, <1>5
      <3>3. ASSUME NEW i \in DOMAIN deviceVec'
            PROVE  \/ i \in DOMAIN deviceVec /\ deviceVec'[i] = deviceVec[i]
                   \/ i - size \in DOMAIN new /\ deviceVec'[i] = new[i - size]
        BY <1>3, <1>5
      <3> QED BY <2>1, <3>1, <3>2, <3>3 DEF MapOK
    <2>3. ASSUME NEW a \in DOMAIN addressMap'
          PROVE  addressMap'[a] = deviceVec'[FirstWith(a)'].devId
      <3> DEFINE S == {i \in DOMAIN deviceVec' : deviceVec'[i].addr = a}
      <3>0. FirstWith(a)' = Min(S) /\ S \subseteq Nat
        BY <1>3, <1>5 DEF FirstWith
      <3>1. CASE a \in DOMAIN addressMap
        <4>1. addressMap'[a] = addressMap[a]
          BY <1>4, <3>1 DEF InsertAll
        <4>2. PICK i \in DOMAIN deviceVec : deviceVec[i].addr = a
          BY <3>1 DEF MapOK
        <4>3. /\ FirstWith(a) \in 1 .. size
              /\ deviceVec[FirstWith(a)].addr = a
              /\ \A j \in 1 .. size : deviceVec[j].addr = a => FirstWith(a) <= j
          BY <1>5, <4>2, FirstWithFacts
        <4>4. PICK m \in 1 .. size : m = FirstWith(a)
          BY <4>3
        <4>5. m \in S /\ \A j \in S : m <= j
          BY <1>3, <1>5, <4>3, <4>4
        <4>6. Min(S) = m
          <5> HIDE DEF S
          <5> QED BY <3>0, <4>5, MinIs
        <4>7. deviceVec'[m] = deviceVec[m]
          BY <1>3, <1>5
        <4> QED BY <3>0, <3>1, <4>1, <4>4, <4>6, <4>7 DEF MapOK
      <3>2. CASE a \notin DOMAIN addressMap
        <4> DEFINE N == {i \in DOMAIN new : new[i].addr = a}
        <4>1. addressMap'[a] = new[Min(N)].devId /\ a \in {new[i].addr : i \in DOMAIN new}
          <5>1. {i \in DOMAIN new : Addrs(new)[i] = a} = N
            BY <1>a
          <5> HIDE DEF N
          <5> QED BY <1>4, <2>1, <2>3, <3>2, <5>1 DEF InsertAll
        <4>2. N # {} /\ N \subseteq Nat
          BY <1>5, <4>1
        <4>3. Min(N) \in N /\ \A j \in N : Min(N) <= j
          <5> HIDE DEF N
          <5> QED BY <4>2, LeastOfNaturals
        <4>4. PICK m \in 1 .. Len(new) : m = Min(N) /\ m \in N
          BY <1>5, <4>3
        <4>5. \A i \in 1 .. size : deviceVec[i].addr # a
          BY <1>5, <3>2 DEF MapOK
        <4>6. size + m \in S /\ \A j \in S : size + m <= j
          <5>1. size + m \in S
            BY <1>3, <1>5, <4>4
          <5>2. ASSUME NEW j \in S PROVE size + m <= j
            <6>1. ~(j <= size)
              BY <1>3, <1>5, <4>5
            <6>2. j - size \in DOMAIN new /\ deviceVec'[j] = new[j - size]
              BY <1>3, <1>5, <6>1
            <6>4. new[j - size].addr = a
              BY <6>2
            <6>5. j - size \in N
              BY <6>2, <6>4
            <6>3. m <= j - size
              BY <4>3, <4>4, <6>5
            <6> QED BY <1>3, <1>5, <6>3
          <5> QED BY <5>1, <5>2
        <4>7. Min(S) = size + m
          <5> HIDE DEF S
          <5> QED BY <3>0, <4>6, MinIs
        <4>8. deviceVec'[size + m] = new[m]
          BY <1>3, <1>5
        <4> QED BY <3>0, <4>1, <4>4, <4>7, <4>8
      <3> QED BY <3>1, <3>2
    <2> QED BY <2>2, <2>3 DEF MapOK
  <1> QED BY <1>6, <1>7

(* What the registry says stays as it is with what it speaks of.            *)
LEMMA RegistryKept ==
    ASSUME DevicesOK, MapOK, UNCHANGED <<count, deviceVec, addressMap>>
    PROVE  DevicesOK' /\ MapOK'
  BY DEF DevicesOK, MapOK, FirstWith

(* Whether there is a file to load does not change while a data set is      *)
(* made and saved.                                                          *)
LEMMA LoadedKept ==
    ASSUME Name \in Names, UNCHANGED experiment,
           \/ disk' = disk
           \/ \E file : disk' = Put(disk, PacketDatasetPath(SavedName), file)
           \/ \E file, d : disk' = Put(disk, BurstDatasetPath(SavedName, d), file)
    PROVE  Loaded' = Loaded
  <1>1. Name' = Name /\ Setting' = Setting
    BY DEF Name, Setting
  <1>2. ASSUME NEW path, path \in {BurstDatasetPath(Name, Division(Setting)), PacketDatasetPath(Name)}
        PROVE  path \in DOMAIN disk' <=> path \in DOMAIN disk
    <2>1. CASE disk' = disk
      BY <2>1
    <2>2. ASSUME NEW file, disk' = Put(disk, PacketDatasetPath(SavedName), file)
          PROVE  path \in DOMAIN disk' <=> path \in DOMAIN disk
      BY <1>2, <2>2, SavedElsewhere DEF Put
    <2>3. ASSUME NEW file, NEW d, disk' = Put(disk, BurstDatasetPath(SavedName, d), file)
          PROVE  path \in DOMAIN disk' <=> path \in DOMAIN disk
      BY <1>2, <2>3, SavedElsewhere DEF Put
    <2> QED BY <2>1, <2>2, <2>3
  <1> QED BY <1>1, <1>2 DEF Loaded

(* NewConverter reads nothing but deviceVec.                                *)
LEMMA NewConverterKept ==
    ASSUME UNCHANGED deviceVec, NEW m
    PROVE  NewConverter(m)' = NewConverter(m)
  BY DEF NewConverter, InsertAll

(* A process begins with an empty Context.                                  *)
LEMMA RegistryInit == Init => Registry
  <1> SUFFICES ASSUME Init PROVE Registry
    OBVIOUS
  <1>1. DevicesOK
    BY DriverAssumption DEF Init, DevicesOK
  <1>2. MapOK
    BY DEF Init, MapOK, NoMap
  <1>3. ConverterOK /\ FirstOnesFirst /\ IdsOK
    BY DEF Init, ConverterOK, FirstOnesFirst, IdsOK, Saving
  <1> QED BY <1>1, <1>2, <1>3 DEF Registry

(* Every step keeps the registry, given the files and data are right.       *)
LEMMA RegistryNext ==
    ASSUME IInv, Registry, [Next]_vars
    PROVE  Registry'
  <1> USE DEF Registry
  <1>1. CASE NextSetting
    <2>1. DevicesOK' /\ MapOK'
      BY <1>1, RegistryKept DEF NextSetting
    <2>2. pc' = "series" /\ UNCHANGED deviceVec /\ experiment'.names = DatasetNames
      BY <1>1 DEF NextSetting
    <2>3. ConverterOK' /\ IdsOK'
      BY <2>2 DEF ConverterOK, IdsOK, Saving
    <2>4. FirstOnesFirst'
      BY <1>1, <2>2 DEF FirstOnesFirst, NextSetting
    <2> QED BY <2>1, <2>3, <2>4
  <1>2. CASE Finish
    <2>1. pc = "series" /\ pc' = "finished" /\ UNCHANGED <<deviceVec, experiment, count, addressMap>>
      BY <1>2 DEF Finish, process
    <2>2. DevicesOK' /\ MapOK'
      BY <2>1, RegistryKept
    <2>3. ConverterOK' /\ IdsOK'
      BY <2>1 DEF ConverterOK, IdsOK, Saving
    <2>4. FirstOnesFirst'
      BY <2>1 DEF FirstOnesFirst
    <2> QED BY <2>2, <2>3, <2>4
  <1>3. CASE AddDevices
    <2>1. experiment.names \in Seq(Names) /\ experiment.names # <<>>
      BY <1>3 DEF IInv, NameKnown, AddDevices
    <2>2. DevicesOK' /\ MapOK'
      BY <1>3, <2>1, AddDevicesRegistry
    <2>3. pc = "series" /\ pc' = "source"
      BY <1>3 DEF AddDevices
    <2>4. ConverterOK' /\ IdsOK'
      BY <2>3 DEF ConverterOK, IdsOK, Saving
    <2>5. FirstOnesFirst'
      <3> DEFINE first == DatasetInfo[Head(DatasetNames)].devices
                 n == Head(experiment.names)
      <3>1. deviceVec' = deviceVec \o Registered(n) /\ n \in Names
        BY <1>3, <2>1 DEF AddDevices
      <3>2. /\ Registered(n) \in Seq([addr : UNION {Addresses(m) : m \in Names},
                          mapping : {DatasetInfo[m].mapping : m \in Names}, devId : Nat])
            /\ Len(Registered(n)) = Len(DatasetInfo[n].devices)
            /\ \A i \in 1 .. Len(Registered(n)) :
                  Registered(n)[i].addr = DatasetInfo[n].devices[i]
        BY <3>1, RegisteredFacts
      <3>3. deviceVec \in Seq([addr : UNION {Addresses(m) : m \in Names},
                          mapping : {DatasetInfo[m].mapping : m \in Names}, devId : Nat])
        BY DEF DevicesOK
      <3>4. CASE \A i \in DOMAIN first : i \in DOMAIN deviceVec /\ deviceVec[i].addr = first[i]
        <4>1. \A i \in DOMAIN deviceVec : i \in DOMAIN deviceVec' /\ deviceVec'[i] = deviceVec[i]
          BY <3>1, <3>2, <3>3
        <4> QED BY <3>4, <4>1 DEF FirstOnesFirst
      <3>5. CASE deviceVec = <<>> /\ experiment.names \in {<<>>, DatasetNames}
        <4>1. n = Head(DatasetNames) /\ deviceVec' = Registered(n)
          BY <2>1, <3>1, <3>2, <3>5
        <4>2. first \in Seq(Addresses(n)) /\ DOMAIN first = 1 .. Len(first)
          BY <3>1, <4>1, DriverAssumption DEF Addresses
        <4>3. \A i \in DOMAIN first : i \in DOMAIN deviceVec' /\ deviceVec'[i].addr = first[i]
          BY <3>2, <4>1, <4>2
        <4> QED BY <4>3 DEF FirstOnesFirst
      <3> QED BY <2>3, <3>4, <3>5 DEF FirstOnesFirst
    <2> QED BY <2>2, <2>4, <2>5
  <1>4. CASE ChooseSource
    <2>1. /\ pc = "source" /\ pc' \in {"loadBursts", "loadPackets", "readCaptures"}
          /\ UNCHANGED <<disk, experiment, count, deviceVec, addressMap, data>>
      BY <1>4 DEF ChooseSource
    <2>2. DevicesOK' /\ MapOK'
      BY <2>1, RegistryKept
    <2>3. ConverterOK'
      <3>1. Name' = Name
        BY <2>1 DEF Name
      <3>2. pc' # "loadBursts" => converter' = NewConverter(DatasetInfo[Name].mapping)
        BY <1>4 DEF ChooseSource
      <3> QED BY <2>1, <3>1, <3>2, NewConverterKept DEF ConverterOK
    <2>4. FirstOnesFirst'
      BY <2>1 DEF FirstOnesFirst
    <2>5. IdsOK'
      <3>1. Loaded' = Loaded
        BY <2>1 DEF Loaded, Name, Setting
      <3>2. pc' = "readCaptures" => ~Loaded
        BY <1>4 DEF ChooseSource, Loaded
      <3> QED BY <2>1, <3>1, <3>2 DEF IdsOK, Saving
    <2> QED BY <2>2, <2>3, <2>4, <2>5
  <1>5. CASE LoadBursts
    <2>1. /\ pc = "loadBursts" /\ pc' \in {"dead", "run"}
          /\ UNCHANGED <<disk, experiment, count, deviceVec, addressMap>>
      BY <1>5 DEF LoadBursts
    <2>2. DevicesOK' /\ MapOK'
      BY <2>1, RegistryKept
    <2>3. ConverterOK' /\ FirstOnesFirst'
      BY <2>1 DEF ConverterOK, FirstOnesFirst
    <2>4. IdsOK'
      <3>1. Loaded' /\ Name' = Name
        BY <2>1 DEF Loaded, Name, Setting, IInv, SourceThere
      <3>2. CASE pc' = "run"
        <4>1. /\ data' = disk[BurstDatasetPath(Name, Division(Setting))] /\ Name \in Names
              /\ BurstDatasetPath(Name, Division(Setting)) \in DOMAIN disk
          BY <1>5, <2>1, <3>2 DEF LoadBursts, IInv, NameKnown, SourceThere
        <4>2. data'.ids = FreshIds(Name)
          BY <4>1 DEF IInv, FilesRight
        <4> QED BY <2>1, <3>1, <3>2, <4>2 DEF IdsOK, Saving, FreshIds
      <3>3. CASE pc' = "dead"
        BY <3>3 DEF IdsOK, Saving
      <3> QED BY <2>1, <3>2, <3>3
    <2> QED BY <2>2, <2>3, <2>4
  <1>6. CASE LoadPackets
    <2>1. /\ pc = "loadPackets" /\ pc' \in {"dead", "openBursts"}
          /\ UNCHANGED <<disk, experiment, count, deviceVec, addressMap>>
      BY <1>6 DEF LoadPackets
    <2>2. DevicesOK' /\ MapOK'
      BY <2>1, RegistryKept
    <2>3. ConverterOK' /\ FirstOnesFirst'
      BY <2>1 DEF ConverterOK, FirstOnesFirst
    <2>4. IdsOK'
      <3>1. Loaded' /\ Name' = Name
        BY <2>1 DEF Loaded, Name, Setting, IInv, SourceThere
      <3>2. CASE pc' = "openBursts"
        <4>1. /\ data'.ids = disk[PacketDatasetPath(Name)].ids /\ Name \in Names
              /\ PacketDatasetPath(Name) \in DOMAIN disk
          BY <1>6, <2>1, <3>2 DEF LoadPackets, IInv, NameKnown, SourceThere
        <4>2. data'.ids = FreshIds(Name)
          BY <4>1 DEF IInv, FilesRight
        <4> QED BY <2>1, <3>1, <3>2, <4>2 DEF IdsOK, Saving, FreshIds
      <3>3. CASE pc' = "dead"
        BY <3>3 DEF IdsOK, Saving
      <3> QED BY <2>1, <3>2, <3>3
    <2> QED BY <2>2, <2>3, <2>4
  <1>7. CASE ReadCaptures
    <2>1. /\ pc = "readCaptures" /\ pc' \in {"dead", "openPackets"}
          /\ UNCHANGED <<disk, experiment, count, deviceVec, addressMap>>
      BY <1>7 DEF ReadCaptures
    <2>2. DevicesOK' /\ MapOK'
      BY <2>1, RegistryKept
    <2>3. ConverterOK' /\ FirstOnesFirst'
      BY <2>1 DEF ConverterOK, FirstOnesFirst
    <2>4. IdsOK'
      <3>1. ~Loaded'
        BY <2>1 DEF Loaded, Name, Setting, IdsOK
      <3>2. CASE pc' = "openPackets"
        <4>1. SeenDevices \subseteq DOMAIN addressMap
              /\ data'.ids = [a \in SeenDevices |-> addressMap[a]]
          BY <1>7, <3>2 DEF ReadCaptures
        <4> QED BY <2>1, <3>1, <3>2, <4>1 DEF IdsOK
      <3>3. CASE pc' = "dead"
        BY <3>3 DEF IdsOK, Saving
      <3> QED BY <2>1, <3>2, <3>3
    <2> QED BY <2>2, <2>3, <2>4
  <1>8. ASSUME UNCHANGED <<experiment, count, deviceVec, addressMap, data.ids>>,
               pc \in Saving, pc' \in Saving \cup {"run"}, pc' # "readCaptures",
               \/ \E file : disk' = Put(disk, PacketDatasetPath(SavedName), file)
               \/ \E file, d : disk' = Put(disk, BurstDatasetPath(SavedName, d), file)
        PROVE  Registry'
    <2>1. DevicesOK' /\ MapOK'
      BY <1>8, RegistryKept
    <2>2. ConverterOK' /\ FirstOnesFirst'
      BY <1>8 DEF ConverterOK, FirstOnesFirst, Saving
    <2>3. Name \in Names
      BY <1>8 DEF IInv, NameKnown
    <2>4. Loaded' = Loaded /\ Name' = Name
      BY <1>8, <2>3, LoadedKept DEF Name
    <2>5. IdsOK'
      BY <1>8, <2>4 DEF IdsOK
    <2> QED BY <2>1, <2>2, <2>5
  <1>9. CASE OpenPackets
    BY <1>8, <1>9 DEF OpenPackets, process, Saving
  <1>10. CASE WritePackets
    BY <1>8, <1>10 DEF WritePackets, Saving
  <1>11. CASE OpenBursts
    BY <1>8, <1>11 DEF OpenBursts, process, Saving
  <1>12. CASE WriteBursts
    BY <1>8, <1>12 DEF WriteBursts, process, Saving
  <1>13. CASE Run
    <2>1. /\ pc = "run" /\ pc' = "series"
          /\ UNCHANGED <<experiment, count, deviceVec, addressMap>>
      BY <1>13 DEF Run
    <2>2. DevicesOK' /\ MapOK'
      BY <2>1, RegistryKept
    <2>3. ConverterOK' /\ FirstOnesFirst' /\ IdsOK'
      BY <2>1 DEF ConverterOK, FirstOnesFirst, IdsOK, Saving
    <2> QED BY <2>2, <2>3
  <1>14. CASE End
    <2>1. pc' = "dead" /\ UNCHANGED <<count, deviceVec, addressMap>>
      BY <1>14 DEF End, process
    <2>2. DevicesOK' /\ MapOK'
      BY <2>1, RegistryKept
    <2>3. ConverterOK' /\ FirstOnesFirst' /\ IdsOK'
      BY <2>1 DEF ConverterOK, FirstOnesFirst, IdsOK, Saving
    <2> QED BY <2>2, <2>3
  <1>15. CASE Restart
    <2>1. /\ pc' = "series" /\ count' = 0 /\ deviceVec' = <<>> /\ addressMap' = NoMap
          /\ experiment'.names = <<>>
      BY <1>15 DEF Restart, NewProcess
    <2>2. DevicesOK'
      BY <2>1, DriverAssumption DEF DevicesOK
    <2>3. MapOK'
      BY <2>1 DEF MapOK, NoMap
    <2>4. ConverterOK' /\ FirstOnesFirst' /\ IdsOK'
      BY <2>1 DEF ConverterOK, FirstOnesFirst, IdsOK, Saving
    <2> QED BY <2>2, <2>3, <2>4
  <1>16. CASE Terminating \/ UNCHANGED vars
    <2>1. UNCHANGED <<disk, experiment, count, deviceVec, addressMap, converter, data, pc>>
      BY <1>16 DEF Terminating, vars
    <2>2. DevicesOK' /\ MapOK'
      BY <2>1, RegistryKept
    <2>3. ConverterOK'
      <3>1. Name' = Name
        BY <2>1 DEF Name
      <3> QED BY <2>1, <3>1, NewConverterKept DEF ConverterOK
    <2>4. FirstOnesFirst' /\ IdsOK'
      BY <2>1 DEF FirstOnesFirst, IdsOK, Loaded, Name, Setting
    <2> QED BY <2>2, <2>3, <2>4
  <1> QED BY <1>1, <1>2, <1>3, <1>4, <1>5, <1>6, <1>7, <1>9, <1>10, <1>11, <1>12,
             <1>13, <1>14, <1>15, <1>16 DEF Next

(* Context's vector and map of devices, the converter's map and the ids of  *)
(* the data set in use hang together at all times.                          *)
THEOREM RegistryCorrect == Spec => []Registry
  <1>1. IInv /\ Registry /\ [Next]_vars => Registry'
    BY RegistryNext
  <1> QED BY <1>1, RegistryInit, Inductive, PTL DEF Spec

(* Two devices with one address are mapped in the same way.                 *)
LEMMA OneMapping ==
    ASSUME DevicesOK, NEW i \in DOMAIN deviceVec, NEW j \in DOMAIN deviceVec,
           deviceVec[i].addr = deviceVec[j].addr
    PROVE  deviceVec[i].mapping = deviceVec[j].mapping /\ deviceVec[i].addr # Blank
  <1>1. PICK m \in Names : /\ deviceVec[i].addr \in Addresses(m)
                           /\ deviceVec[i].mapping = DatasetInfo[m].mapping
    BY DEF DevicesOK
  <1>2. PICK n \in Names : /\ deviceVec[j].addr \in Addresses(n)
                           /\ deviceVec[j].mapping = DatasetInfo[n].mapping
    BY DEF DevicesOK
  <1>3. ToSet(DatasetInfo[m].devices) \cap ToSet(DatasetInfo[n].devices) # {}
    BY <1>1, <1>2 DEF Addresses
  <1>4. DatasetInfo[m].mapping = DatasetInfo[n].mapping
    BY <1>3, DriverAssumption
  <1>5. Blank \notin Addresses(m)
    BY DriverAssumption DEF Addresses
  <1> QED BY <1>1, <1>2, <1>4, <1>5

(* What the converter looks devices up by.                                  *)
LEMMA NewConverterFacts ==
    ASSUME NEW m
    PROVE  /\ DOMAIN NewConverter(m) = {AddressAs(deviceVec[i], m) : i \in DOMAIN deviceVec}
           /\ \A a \in DOMAIN NewConverter(m) :
                 NewConverter(m)[a] =
                    deviceVec[Min({i \in DOMAIN deviceVec : AddressAs(deviceVec[i], m) = a})].devId
  BY DEF NewConverter, InsertAll, NoMap

(* The two maps, filled separately, agree: both have the first device of an *)
(* address, if it is mapped as the data set is.                             *)
THEOREM ConverterAgreesCorrect == Spec => []ConverterAgrees
  <1>1. ASSUME IInv, Registry PROVE ConverterAgrees
    <2> SUFFICES ASSUME pc \in {"loadPackets", "readCaptures"}, NEW a \in DOMAIN converter
                 PROVE  \/ a \in DOMAIN addressMap /\ converter[a] = addressMap[a]
                        \/ /\ a = Blank
                           /\ \E dev \in ToSet(deviceVec) :
                                 dev.mapping # DatasetInfo[Name].mapping
      BY DEF ConverterAgrees
    <2>0. PICK m : m = DatasetInfo[Name].mapping
      OBVIOUS
    <2>1. converter = NewConverter(m) /\ DevicesOK /\ MapOK
      BY <1>1, <2>0 DEF Registry, ConverterOK
    <2>6. /\ DOMAIN converter = {AddressAs(deviceVec[i], m) : i \in DOMAIN deviceVec}
          /\ converter[a] =
                deviceVec[Min({i \in DOMAIN deviceVec : AddressAs(deviceVec[i], m) = a})].devId
      BY <2>1, NewConverterFacts
    <2>2. PICK i \in DOMAIN deviceVec : AddressAs(deviceVec[i], m) = a
      BY <2>6
    <2>3. deviceVec[i].addr # Blank
      BY <2>1, OneMapping
    <2>4. CASE a = Blank
      <3>1. deviceVec[i].mapping # m /\ deviceVec[i] \in ToSet(deviceVec)
        BY <2>2, <2>3, <2>4 DEF AddressAs, ToSet
      <3> QED BY <2>0, <2>4, <3>1
    <2>5. CASE a # Blank
      <3>1. deviceVec[i].addr = a /\ deviceVec[i].mapping = m
        BY <2>2, <2>5 DEF AddressAs
      <3>2. ASSUME NEW j \in DOMAIN deviceVec
            PROVE  AddressAs(deviceVec[j], m) = a <=> deviceVec[j].addr = a
        <4>1. CASE deviceVec[j].addr = a
          BY <2>1, <3>1, <4>1, OneMapping DEF AddressAs
        <4>2. CASE deviceVec[j].addr # a
          BY <2>5, <4>2 DEF AddressAs
        <4> QED BY <4>1, <4>2
      <3>3. {j \in DOMAIN deviceVec : AddressAs(deviceVec[j], m) = a}
              = {j \in DOMAIN deviceVec : deviceVec[j].addr = a}
        BY <3>2
      <3>4. converter[a] = deviceVec[FirstWith(a)].devId
        BY <2>6, <3>3 DEF FirstWith
      <3>5. a \in DOMAIN addressMap
        BY <2>1, <3>1 DEF MapOK
      <3> QED BY <2>1, <3>4, <3>5 DEF MapOK
    <2> QED BY <2>0, <2>4, <2>5
  <1> QED BY <1>1, Inductive, RegistryCorrect, PTL

(* The id of an address of the Context is the place of a device with it, as *)
(* long as new addresses come before the 16 bits are used up.               *)
LEMMA MapNames ==
    ASSUME DevicesOK, MapOK, NewOnesFit, NEW a \in DOMAIN addressMap
    PROVE  /\ addressMap[a] + 1 \in DOMAIN deviceVec
           /\ deviceVec[addressMap[a] + 1].addr = a
  <1>1. PICK i \in DOMAIN deviceVec : deviceVec[i].addr = a
    BY DEF MapOK
  <1>2. PICK j \in DOMAIN deviceVec : j <= UINT16 /\ deviceVec[j].addr = a
    BY <1>1 DEF NewOnesFit
  <1>3. PICK k \in DOMAIN deviceVec : k = FirstWith(a)
    BY <1>1, FirstWithFacts
  <1>4. deviceVec[k].addr = a /\ k <= j
    BY <1>1, <1>2, <1>3, FirstWithFacts
  <1>5. j \in Nat /\ k \in Nat /\ UINT16 \in Nat
    <2>1. DOMAIN deviceVec = 1 .. Len(deviceVec)
      BY DEF DevicesOK
    <2> QED BY <2>1, DriverAssumption
  <1>6. k <= UINT16
    BY <1>2, <1>4, <1>5
  <1>7. deviceVec[k].devId = k - 1
    BY <1>6 DEF DevicesOK
  <1>8. addressMap[a] + 1 = k
    BY <1>3, <1>5, <1>7 DEF MapOK
  <1> QED BY <1>4, <1>8

(* An id means the device whose address gave it: in the process that made   *)
(* the data set, and for a loaded one in a process that begins with it.     *)
THEOREM IdsNameDevicesCorrect == Spec => []IdsNameDevices
  <1>1. ASSUME IInv, Registry PROVE IdsNameDevices
    <2> SUFFICES ASSUME pc = "run", NewOnesFit, ~Loaded \/ Name = Head(DatasetNames),
                        NEW a \in DOMAIN data.ids
                 PROVE  /\ data.ids[a] + 1 \in DOMAIN deviceVec
                        /\ deviceVec[data.ids[a] + 1].addr = a
      BY DEF IdsNameDevices
    <2>1. DevicesOK /\ MapOK /\ FirstOnesFirst /\ IdsOK
      BY <1>1 DEF Registry
    <2>2. CASE ~Loaded
      <3>1. a \in DOMAIN addressMap /\ data.ids[a] = addressMap[a]
        BY <2>1, <2>2 DEF IdsOK
      <3> QED BY <2>1, <3>1, MapNames
    <2>3. CASE Loaded
      <3> DEFINE devices == DatasetInfo[Name].devices
      <3>1. data.ids = FreshIds(Name) /\ Name = Head(DatasetNames)
        BY <2>1, <2>3 DEF IdsOK
      <3>2. Name \in Names
        BY <1>1 DEF IInv, NameKnown
      <3>3. \E i \in DOMAIN devices : devices[i] = a
        BY <3>1 DEF FreshIds, ToSet
      <3>4. PICK i \in DOMAIN devices : devices[i] = a /\ data.ids[a] = i - 1
        BY <3>1, <3>3 DEF FreshIds
      <3>5. i \in DOMAIN deviceVec /\ deviceVec[i].addr = a
        BY <2>1, <3>1, <3>4 DEF FirstOnesFirst
      <3>6. i \in Nat
        BY <2>1, <3>5 DEF DevicesOK
      <3>7. data.ids[a] + 1 = i
        BY <3>4, <3>6
      <3> QED BY <3>5, <3>7
    <2> QED BY <2>2, <2>3
  <1> QED BY <1>1, Inductive, RegistryCorrect, PTL

-----------------------------------------------------------------------------
(* Sequences without repetition *)

(* A new element at the end keeps a sequence without repetition.            *)
LEMMA AppendNew ==
    ASSUME NEW S, NEW s \in Seq(S), IsInjective(s), NEW e \in S, e \notin ToSet(s)
    PROVE  IsInjective(Append(s, e)) /\ ToSet(Append(s, e)) = ToSet(s) \cup {e}
  <1>1. /\ DOMAIN s = 1 .. Len(s) /\ Len(s) \in Nat
        /\ DOMAIN Append(s, e) = 1 .. Len(s) + 1
        /\ \A i \in 1 .. Len(s) : Append(s, e)[i] = s[i]
        /\ Append(s, e)[Len(s) + 1] = e
    OBVIOUS
  <1>2. \A i \in DOMAIN s : s[i] # e
    BY DEF ToSet
  <1>3. ASSUME NEW i \in DOMAIN Append(s, e), NEW j \in DOMAIN Append(s, e),
               Append(s, e)[i] = Append(s, e)[j]
        PROVE  i = j
    <2>1. i \in DOMAIN s \/ i = Len(s) + 1
      BY <1>1
    <2>2. j \in DOMAIN s \/ j = Len(s) + 1
      BY <1>1
    <2> QED BY <1>1, <1>2, <1>3, <2>1, <2>2 DEF IsInjective
  <1>4. ToSet(Append(s, e)) = ToSet(s) \cup {e}
    <2>1. DOMAIN Append(s, e) = DOMAIN s \cup {Len(s) + 1}
      BY <1>1
    <2> QED BY <1>1, <2>1 DEF ToSet
  <1> QED BY <1>3, <1>4 DEF IsInjective

(* The head of such a sequence is not in its tail.                          *)
LEMMA TailNew ==
    ASSUME NEW S, NEW s \in Seq(S), IsInjective(s), s # <<>>
    PROVE  /\ IsInjective(Tail(s)) /\ Head(s) \notin ToSet(Tail(s))
           /\ ToSet(s) = {Head(s)} \cup ToSet(Tail(s))
  <1>1. /\ DOMAIN s = 1 .. Len(s) /\ Len(s) \in Nat \ {0} /\ Head(s) = s[1]
        /\ DOMAIN Tail(s) = 1 .. Len(s) - 1
        /\ \A i \in 1 .. Len(s) - 1 : Tail(s)[i] = s[i + 1]
    OBVIOUS
  <1>2. ASSUME NEW i \in DOMAIN Tail(s), NEW j \in DOMAIN Tail(s), Tail(s)[i] = Tail(s)[j]
        PROVE  i = j
    <2>1. i + 1 \in DOMAIN s /\ j + 1 \in DOMAIN s /\ s[i + 1] = s[j + 1]
      BY <1>1, <1>2
    <2>2. i + 1 = j + 1
      BY <2>1 DEF IsInjective
    <2> QED BY <1>1, <2>2
  <1>3. ASSUME NEW i \in DOMAIN Tail(s) PROVE Tail(s)[i] # Head(s)
    <2>1. i + 1 \in DOMAIN s /\ 1 \in DOMAIN s /\ i + 1 # 1
      BY <1>1
    <2> QED BY <1>1, <2>1 DEF IsInjective
  <1>4. ToSet(s) = {Head(s)} \cup ToSet(Tail(s))
    <2>1. ASSUME NEW i \in DOMAIN s PROVE s[i] \in {Head(s)} \cup ToSet(Tail(s))
      <3>1. i = 1 \/ (i - 1 \in DOMAIN Tail(s) /\ Tail(s)[i - 1] = s[i])
        BY <1>1
      <3> QED BY <1>1, <3>1 DEF ToSet
    <2>2. ASSUME NEW i \in DOMAIN Tail(s) PROVE Tail(s)[i] \in ToSet(s)
      BY <1>1 DEF ToSet
    <2>3. Head(s) \in ToSet(s)
      BY <1>1 DEF ToSet
    <2> QED BY <2>1, <2>2, <2>3 DEF ToSet
  <1> QED BY <1>2, <1>3, <1>4 DEF IsInjective, ToSet

(* Such a sequence is as long as its elements are many.                     *)
LEMMA InjectiveLength ==
    ASSUME NEW S, NEW s \in Seq(S), IsInjective(s)
    PROVE  Len(s) = Cardinality(ToSet(s))
  <1>1. s \in [1 .. Len(s) -> ToSet(s)] /\ Len(s) \in Nat
    BY DEF ToSet
  <1>2. s \in Bijection(1 .. Len(s), ToSet(s))
    <2>1. \A a, b \in 1 .. Len(s) : s[a] = s[b] => a = b
      BY DEF IsInjective
    <2>2. \A t \in ToSet(s) : \E i \in 1 .. Len(s) : s[i] = t
      BY DEF ToSet
    <2> QED BY <1>1, <2>1, <2>2 DEF Bijection, Injection, Surjection
  <1>3. IsFiniteSet(1 .. Len(s)) /\ Cardinality(1 .. Len(s)) = Len(s)
    <2>1. PICK n \in Nat : n = Len(s)
      BY <1>1
    <2>2. IsFiniteSet(1 .. n) /\ Cardinality(1 .. n) = IF 1 > n THEN 0 ELSE n - 1 + 1
      BY FS_Interval
    <2> QED BY <2>1, <2>2
  <1> QED BY <1>2, <1>3, FS_Bijection DEF ExistsBijection

-----------------------------------------------------------------------------
(* The odometer of Combiner.h *)

Places ==
    {k \in [DOMAIN ArgArrays -> Nat] : \A i \in DOMAIN ArgArrays : k[i] < Len(ArgArrays[i])}

(* k is handed out before m.                                                *)
Below(k, m) ==
    \E i \in DOMAIN ArgArrays : k[i] < m[i] /\ \A j \in DOMAIN ArgArrays : j < i => k[j] = m[j]

(* What SeriesAssumption says of each list of parameters.                   *)
LEMMA ArgFacts ==
    /\ DOMAIN ArgArrays \subseteq Nat
    /\ DOMAIN ArgArrays = 1 .. Len(ArgArrays) /\ Len(ArgArrays) \in Nat
    /\ \A i \in DOMAIN ArgArrays :
          /\ ArgArrays[i] \in Seq(Int)
          /\ Len(ArgArrays[i]) \in Nat \ {0}
          /\ DOMAIN ArgArrays[i] = 1 .. Len(ArgArrays[i])
  <1>1. ArgArrays \in Seq(Seq(Int) \ {<<>>})
    BY SeriesAssumption
  <1>2. DOMAIN ArgArrays = 1 .. Len(ArgArrays) /\ Len(ArgArrays) \in Nat
    BY <1>1
  <1>3. ASSUME NEW i \in DOMAIN ArgArrays
        PROVE  ArgArrays[i] \in Seq(Int) /\ ArgArrays[i] # <<>>
    BY <1>1, <1>2
  <1>4. ASSUME NEW i \in DOMAIN ArgArrays
        PROVE  Len(ArgArrays[i]) \in Nat \ {0} /\ DOMAIN ArgArrays[i] = 1 .. Len(ArgArrays[i])
    BY <1>3
  <1> QED BY <1>2, <1>3, <1>4

(* Different places give different parameters.                              *)
LEMMA CurrentInjective ==
    ASSUME NEW k \in Places, NEW m \in Places, Current(ArgArrays, k) = Current(ArgArrays, m)
    PROVE  k = m
  <1>1. ASSUME NEW i \in DOMAIN ArgArrays PROVE k[i] = m[i]
    <2>1. k[i] \in Nat /\ m[i] \in Nat /\ k[i] < Len(ArgArrays[i]) /\ m[i] < Len(ArgArrays[i])
      BY DEF Places
    <2>2. ArgArrays[i][k[i] + 1] = ArgArrays[i][m[i] + 1]
      BY DEF Current
    <2>3. k[i] + 1 \in DOMAIN ArgArrays[i] /\ m[i] + 1 \in DOMAIN ArgArrays[i]
      BY <2>1, ArgFacts
    <2>4. IsInjective(ArgArrays[i])
      BY SeriesAssumption
    <2>5. k[i] + 1 = m[i] + 1
      BY <2>2, <2>3, <2>4 DEF IsInjective
    <2> QED BY <2>1, <2>5
  <1> QED BY <1>1 DEF Places

(* The settings are what getNext can hand out.                              *)
LEMMA SettingsAreCurrents ==
    Settings = {Current(ArgArrays, k) : k \in Places}
  <1> DEFINE F == {f \in [DOMAIN ArgArrays -> UNION {DOMAIN ArgArrays[i] : i \in DOMAIN ArgArrays}] :
                      \A i \in DOMAIN ArgArrays : f[i] \in DOMAIN ArgArrays[i]}
             S(f) == [i \in DOMAIN ArgArrays |-> ArgArrays[i][f[i]]]
  <1>1. ASSUME NEW f \in F PROVE S(f) \in {Current(ArgArrays, k) : k \in Places}
    <2> DEFINE k == [i \in DOMAIN ArgArrays |-> f[i] - 1]
    <2>1. ASSUME NEW i \in DOMAIN ArgArrays
          PROVE  k[i] \in Nat /\ k[i] < Len(ArgArrays[i]) /\ k[i] + 1 = f[i]
      <3>1. f[i] \in 1 .. Len(ArgArrays[i]) /\ Len(ArgArrays[i]) \in Nat
        BY <1>1, ArgFacts
      <3> QED BY <3>1
    <2>2. k \in Places
      BY <2>1 DEF Places
    <2>3. Current(ArgArrays, k) = S(f)
      BY <2>1 DEF Current
    <2> QED BY <2>2, <2>3
  <1>2. ASSUME NEW k \in Places PROVE \E f \in F : S(f) = Current(ArgArrays, k)
    <2> DEFINE f == [i \in DOMAIN ArgArrays |-> k[i] + 1]
    <2>1. ASSUME NEW i \in DOMAIN ArgArrays PROVE f[i] \in DOMAIN ArgArrays[i]
      <3>1. k[i] \in Nat /\ k[i] < Len(ArgArrays[i]) /\ Len(ArgArrays[i]) \in Nat
        BY ArgFacts DEF Places
      <3> QED BY <3>1, ArgFacts
    <2>2. f \in F
      BY <2>1
    <2>3. S(f) = Current(ArgArrays, k)
      BY DEF Current
    <2> QED BY <2>2, <2>3
  <1>3. Settings = {S(f) : f \in F}
    BY DEF Settings
  <1> HIDE DEF F, S
  <1>4. ASSUME NEW x PROVE x \in Settings <=> x \in {Current(ArgArrays, k) : k \in Places}
    BY <1>1, <1>2, <1>3
  <1> QED BY <1>4

(* Places are ordered by their first difference.                            *)
LEMMA FirstDifference ==
    ASSUME NEW k \in Places, NEW m \in Places, k # m
    PROVE  Below(k, m) \/ Below(m, k)
  <1> DEFINE D == {i \in DOMAIN ArgArrays : k[i] # m[i]}
  <1>1. D # {} /\ D \subseteq Nat
    BY ArgFacts DEF Places
  <1>2. PICK i \in D : \A j \in D : i <= j
    <2> HIDE DEF D
    <2> QED BY <1>1, LeastOfNaturals
  <1>3. \A j \in DOMAIN ArgArrays : j < i => k[j] = m[j]
    BY <1>1, <1>2, ArgFacts
  <1>4. k[i] \in Nat /\ m[i] \in Nat /\ k[i] # m[i] /\ i \in DOMAIN ArgArrays
    BY DEF Places
  <1>5. k[i] < m[i] \/ m[i] < k[i]
    BY <1>4
  <1> QED BY <1>3, <1>4, <1>5 DEF Below

(* No place comes before itself.                                            *)
LEMMA BelowIrreflexive ==
    ASSUME NEW k \in Places
    PROVE  ~Below(k, k)
  BY DEF Below, Places

(* What getNext leaves behind is the next place, and it is finished when    *)
(* there is none.                                                           *)
LEMMA AdvanceFacts ==
    ASSUME NEW m \in Places
    PROVE  LET next == Advance(ArgArrays, m)
           IN  /\ next.indices \in Places
               /\ next.finished \in BOOLEAN
               /\ next.finished => \A k \in Places : k = m \/ Below(k, m)
               /\ ~next.finished =>
                     \A k \in Places : Below(k, next.indices) <=> k = m \/ Below(k, m)
  <1> DEFINE able == {i \in DOMAIN ArgArrays : m[i] + 1 < Len(ArgArrays[i])}
             next == Advance(ArgArrays, m)
  <1>0. \A k \in Places : \A i \in DOMAIN ArgArrays :
           k[i] \in Nat /\ k[i] < Len(ArgArrays[i]) /\ Len(ArgArrays[i]) \in Nat
    BY ArgFacts DEF Places
  <1>1. CASE able = {}
    <2>1. next = [indices |-> [i \in DOMAIN ArgArrays |-> 0], finished |-> TRUE]
      BY <1>1 DEF Advance
    <2>2. next.indices \in Places /\ next.finished = TRUE
      BY <2>1, ArgFacts DEF Places
    <2>3. ASSUME NEW k \in Places, k # m PROVE Below(k, m)
      <3>1. ASSUME Below(m, k) PROVE FALSE
        <4>1. PICK i \in DOMAIN ArgArrays : m[i] < k[i]
          BY <3>1 DEF Below
        <4>2. m[i] + 1 < Len(ArgArrays[i])
          BY <1>0, <4>1
        <4> QED BY <1>1, <4>2
      <3> QED BY <2>3, <3>1, FirstDifference
    <2> QED BY <2>2, <2>3
  <1>2. CASE able # {}
    <2> DEFINE last == CHOOSE i \in able : \A j \in able : j <= i
    <2>1. \E i \in able : \A j \in able : j <= i
      <3> DEFINE U == {n \in Nat : \A j \in able : j <= n}
      <3>1. U # {}
        <4>1. Len(ArgArrays) \in U
          BY ArgFacts
        <4> QED BY <4>1
      <3>2. PICK u \in U : \A n \in U : u <= n
        <4>1. U \subseteq Nat
          OBVIOUS
        <4> HIDE DEF U
        <4> QED BY <3>1, <4>1, LeastOfNaturals
      <3>3. u \in able
        <4> SUFFICES ASSUME u \notin able PROVE FALSE
          OBVIOUS
        <4>1. PICK j \in able : j \in Nat \ {0} /\ j <= u
          BY <1>2, <3>2, ArgFacts
        <4>2. u \in Nat /\ u # 0
          BY <4>1
        <4>3. \A i \in able : i <= u - 1
          BY <3>2, <4>2, ArgFacts
        <4>4. u - 1 \in U
          BY <4>2, <4>3
        <4> QED BY <3>2, <4>2, <4>4
      <3> QED BY <3>2, <3>3
    <2>2. last \in able /\ \A j \in able : j <= last
      BY <2>1
    <2> DEFINE n == [i \in DOMAIN ArgArrays |->
                        IF i < last THEN m[i] ELSE IF i = last THEN m[i] + 1 ELSE 0]
    <2>3. next = [indices |-> n, finished |-> FALSE]
      BY <1>2 DEF Advance
    <2> HIDE DEF last
    <2>4. PICK l \in DOMAIN ArgArrays : l = last
      BY <2>2
    <2>5. m[l] + 1 < Len(ArgArrays[l])
          /\ \A j \in DOMAIN ArgArrays : l < j => m[j] + 1 = Len(ArgArrays[j])
      <3>1. ASSUME NEW j \in DOMAIN ArgArrays, l < j PROVE m[j] + 1 = Len(ArgArrays[j])
        <4>0. j \in Nat /\ l \in Nat
          BY ArgFacts
        <4>1. j \notin able
          <5> HIDE DEF able
          <5> QED BY <2>2, <2>4, <3>1, <4>0
        <4> QED BY <1>0, <4>1
      <3> QED BY <2>2, <2>4, <3>1
    <2>6. \A i \in DOMAIN ArgArrays :
             n[i] = IF i < l THEN m[i] ELSE IF i = l THEN m[i] + 1 ELSE 0
      BY <2>4
    <2>7. n \in Places
      <3>1. ASSUME NEW i \in DOMAIN ArgArrays PROVE n[i] \in Nat /\ n[i] < Len(ArgArrays[i])
        <4>1. /\ i \in Nat /\ l \in Nat /\ m[i] \in Nat /\ m[i] < Len(ArgArrays[i])
              /\ Len(ArgArrays[i]) \in Nat \ {0}
          BY <1>0, ArgFacts
        <4>2. CASE i < l
          BY <2>6, <4>1, <4>2
        <4>3. CASE i = l
          BY <2>5, <2>6, <4>1, <4>3
        <4>4. CASE l < i
          <5>1. n[i] = 0
            BY <2>6, <4>1, <4>4
          <5> QED BY <4>1, <5>1
        <4> QED BY <4>1, <4>2, <4>3, <4>4
      <3> QED BY <3>1 DEF Places
    <2>8. next.indices = n /\ next.finished = FALSE
      BY <2>3
    <2> HIDE DEF last, n, able
    <2>9. ASSUME NEW k \in Places, Below(k, n) PROVE k = m \/ Below(k, m)
      <3>1. PICK i \in DOMAIN ArgArrays :
               k[i] < n[i] /\ \A j \in DOMAIN ArgArrays : j < i => k[j] = n[j]
        BY <2>9 DEF Below
      <3>2. i <= l
        <4>1. i \in Nat /\ l \in Nat /\ k[i] \in Nat
          BY <1>0, ArgFacts
        <4>2. CASE l < i
          <5>1. n[i] = 0
            BY <2>6, <4>1, <4>2
          <5> QED BY <3>1, <4>1, <5>1
        <4> QED BY <4>1, <4>2
      <3>3. CASE i < l
        <4>1. k[i] < m[i] /\ \A j \in DOMAIN ArgArrays : j < i => k[j] = m[j]
          BY <2>6, <3>1, <3>3, ArgFacts
        <4> QED BY <4>1 DEF Below
      <3>4. CASE i = l
        <4>1. k[l] <= m[l] /\ \A j \in DOMAIN ArgArrays : j < l => k[j] = m[j]
          BY <1>0, <2>6, <3>1, <3>4, ArgFacts
        <4>2. ASSUME Below(m, k) PROVE FALSE
          <5>1. PICK d \in DOMAIN ArgArrays :
                   m[d] < k[d] /\ \A j \in DOMAIN ArgArrays : j < d => m[j] = k[j]
            BY <4>2 DEF Below
          <5>2. ~(d < l)
            BY <1>0, <4>1, <5>1, ArgFacts
          <5>3. d # l
            BY <1>0, <4>1, <5>1
          <5>4. l < d
            BY <5>2, <5>3, ArgFacts
          <5>5. m[d] + 1 = Len(ArgArrays[d])
            BY <2>5, <5>4
          <5> QED BY <1>0, <5>1, <5>5
        <4> QED BY <4>2, FirstDifference
      <3> QED BY <3>2, <3>3, <3>4, ArgFacts
    <2>10. ASSUME NEW k \in Places, k = m \/ Below(k, m) PROVE Below(k, n)
      <3>1. CASE k = m
        <4>1. k[l] < n[l] /\ \A j \in DOMAIN ArgArrays : j < l => k[j] = n[j]
          BY <1>0, <2>6, <3>1
        <4> QED BY <4>1 DEF Below
      <3>2. CASE Below(k, m)
        <4>1. PICK i \in DOMAIN ArgArrays :
                 k[i] < m[i] /\ \A j \in DOMAIN ArgArrays : j < i => k[j] = m[j]
          BY <3>2 DEF Below
        <4>2. CASE i <= l
          <5>1. k[i] < n[i]
            BY <1>0, <2>6, <4>1, <4>2, ArgFacts
          <5>2. \A j \in DOMAIN ArgArrays : j < i => k[j] = n[j]
            BY <2>6, <4>1, <4>2, ArgFacts
          <5> QED BY <5>1, <5>2 DEF Below
        <4>3. CASE ~(i <= l)
          <5>1. l < i
            BY <4>3, ArgFacts
          <5>2. k[l] = m[l] /\ k[l] < n[l]
            <6>1. k[l] = m[l] /\ m[l] \in Nat
              BY <1>0, <4>1, <5>1
            <6>2. n[l] = m[l] + 1
              <7>1. l \in Nat
                BY ArgFacts
              <7> QED BY <2>6, <7>1
            <6> QED BY <6>1, <6>2
          <5>3. \A j \in DOMAIN ArgArrays : j < l => k[j] = n[j]
            BY <2>6, <4>1, <5>1, ArgFacts
          <5> QED BY <5>2, <5>3 DEF Below
        <4> QED BY <4>2, <4>3
      <3> QED BY <2>10, <3>1, <3>2
    <2> QED BY <2>7, <2>8, <2>9, <2>10
  <1> QED BY <1>1, <1>2

-----------------------------------------------------------------------------
(* The series *)

Busy ==
    pc \in {"source", "loadBursts", "loadPackets", "readCaptures", "run"} \cup Saving

(* Parameters handed out, and data sets that wait for a run under the       *)
(* latest.                                                                  *)
Given == {k \in Places : combiner.finished \/ Below(k, combiner.indices)}
Remaining == ToSet(experiment.names) \cup IF Busy THEN {Name} ELSE {}
RunAs(k, n) == <<Current(ArgArrays, k), n>> \in ToSet(results)

(* What has been run is what was handed out less what waits.                *)
SeriesOK ==
    pc # "dead" =>
        /\ combiner.indices \in Places /\ combiner.finished \in BOOLEAN
        /\ results \in Seq(Settings \X ToSet(DatasetNames)) /\ IsInjective(results)
        /\ \A k \in Places : \A n \in ToSet(DatasetNames) :
              RunAs(k, n) <=>
                  k \in Given /\ ~(Setting = Current(ArgArrays, k) /\ n \in Remaining)
        /\ Remaining # {} => \E k \in Given : Setting = Current(ArgArrays, k)
        /\ experiment.names \in Seq(ToSet(DatasetNames)) /\ IsInjective(experiment.names)
        /\ Busy => Name \in ToSet(DatasetNames) \ ToSet(experiment.names)
        /\ pc = "finished" => combiner.finished /\ Remaining = {}

(* A process begins with no parameters handed out.                          *)
Beginning ==
    /\ combiner = Start(ArgArrays)
    /\ results = <<>>
    /\ experiment.names = <<>>
    /\ pc = "series"

(* Then nothing was handed out and nothing has run.                         *)
LEMMA SeriesBegins == Beginning => SeriesOK
  <1> SUFFICES ASSUME Beginning PROVE SeriesOK
    OBVIOUS
  <1>1. combiner.indices = [i \in DOMAIN ArgArrays |-> 0] /\ combiner.finished = FALSE
    BY DEF Beginning, Start
  <1>2. combiner.indices \in Places
    BY <1>1, ArgFacts DEF Places
  <1>3. Given = {}
    BY <1>1 DEF Given, Below, Places
  <1>4. ~Busy
    BY DEF Beginning, Busy, Saving
  <1>5. Remaining = {} /\ ToSet(results) = {}
    BY <1>4 DEF Beginning, Remaining, ToSet
  <1>6. IsInjective(results) /\ IsInjective(experiment.names)
    BY DEF Beginning, IsInjective
  <1>7. results \in Seq(Settings \X ToSet(DatasetNames))
        /\ experiment.names \in Seq(ToSet(DatasetNames))
    BY DEF Beginning
  <1>8. \A k, n : ~RunAs(k, n)
    BY <1>5 DEF RunAs
  <1> QED BY <1>1, <1>2, <1>3, <1>4, <1>5, <1>6, <1>7, <1>8 DEF SeriesOK, Beginning

(* Steps of one experiment until it runs.                                   *)
LEMMA SeriesKept ==
    ASSUME SeriesOK, pc # "dead", UNCHANGED <<combiner, experiment, results>>,
           Busy' = Busy, pc' # "finished"
    PROVE  SeriesOK'
  <1>1. /\ Given' = Given /\ Setting' = Setting /\ Name' = Name
        /\ experiment.names' = experiment.names
    BY DEF Given, Setting, Name
  <1>2. Remaining' = Remaining
    BY <1>1 DEF Remaining
  <1>3. \A k, n : RunAs(k, n)' = RunAs(k, n)
    BY DEF RunAs
  <1> QED BY <1>1, <1>2, <1>3 DEF SeriesOK

(* getNext hands out one place more, and every data set waits.              *)
LEMMA SeriesNextSetting ==
    ASSUME SeriesOK, NextSetting
    PROVE  SeriesOK'
  <1>1. /\ pc = "series" /\ pc' = "series" /\ experiment.names = <<>>
        /\ ~combiner.finished /\ results' = results
        /\ experiment' = [setting |-> Current(ArgArrays, combiner.indices),
                          name |-> UnsetName, names |-> DatasetNames]
        /\ combiner' = Advance(ArgArrays, combiner.indices)
    BY DEF NextSetting
  <1>2. ~Busy /\ ~Busy'
    BY <1>1 DEF Busy, Saving
  <1>3. PICK m \in Places : m = combiner.indices
    BY <1>1 DEF SeriesOK
  <1>4. /\ combiner'.indices \in Places /\ combiner'.finished \in BOOLEAN
        /\ \A k \in Places :
              combiner'.finished \/ Below(k, combiner'.indices) <=> k = m \/ Below(k, m)
    BY <1>1, <1>3, AdvanceFacts
  <1>5. \A k \in Places : k \in Given' <=> k = m \/ k \in Given
    BY <1>1, <1>3, <1>4 DEF Given
  <1>6. m \notin Given
    BY <1>1, <1>3, BelowIrreflexive DEF Given
  <1>7. Setting' = Current(ArgArrays, m) /\ Remaining = {} /\ Remaining' = ToSet(DatasetNames)
    BY <1>1, <1>2, <1>3 DEF Setting, Remaining, ToSet
  <1>8. ASSUME NEW k \in Places, NEW n \in ToSet(DatasetNames)
        PROVE  RunAs(k, n)' <=>
                  k \in Given' /\ ~(Setting' = Current(ArgArrays, k) /\ n \in Remaining')
    <2>1. RunAs(k, n)' <=> k \in Given
      BY <1>1, <1>7 DEF RunAs, SeriesOK
    <2>2. Setting' = Current(ArgArrays, k) <=> k = m
      BY <1>7, CurrentInjective
    <2> QED BY <1>5, <1>6, <1>7, <2>1, <2>2
  <1>9. DatasetNames \in Seq(ToSet(DatasetNames)) /\ IsInjective(DatasetNames)
    BY DriverAssumption, SeriesAssumption DEF ToSet
  <1>10. m \in Given'
    BY <1>5
  <1> QED BY <1>1, <1>2, <1>4, <1>7, <1>8, <1>9, <1>10 DEF SeriesOK

(* The next data set is taken from the list, and still waits.               *)
LEMMA SeriesAddDevices ==
    ASSUME SeriesOK, AddDevices
    PROVE  SeriesOK'
  <1>1. /\ pc = "series" /\ pc' = "source" /\ experiment.names # <<>>
        /\ UNCHANGED <<combiner, results>>
        /\ experiment' = [setting |-> Setting, name |-> Head(experiment.names),
                          names |-> Tail(experiment.names)]
    BY DEF AddDevices
  <1>2. ~Busy /\ Busy'
    BY <1>1 DEF Busy, Saving
  <1>3. experiment.names \in Seq(ToSet(DatasetNames)) /\ IsInjective(experiment.names)
    BY <1>1 DEF SeriesOK
  <1>4. /\ IsInjective(Tail(experiment.names))
        /\ Head(experiment.names) \notin ToSet(Tail(experiment.names))
        /\ ToSet(experiment.names) =
              {Head(experiment.names)} \cup ToSet(Tail(experiment.names))
    BY <1>1, <1>3, TailNew
  <1>5. /\ Tail(experiment.names) \in Seq(ToSet(DatasetNames))
        /\ Head(experiment.names) \in ToSet(DatasetNames)
    BY <1>1, <1>3
  <1>6. /\ Setting' = Setting /\ Name' = Head(experiment.names)
        /\ experiment'.names = Tail(experiment.names)
    BY <1>1 DEF Setting, Name
  <1>7. Remaining' = Remaining
    BY <1>2, <1>4, <1>6 DEF Remaining
  <1>8. Given' = Given /\ \A k, n : RunAs(k, n)' = RunAs(k, n)
    BY <1>1 DEF Given, RunAs
  <1> QED BY <1>1, <1>2, <1>4, <1>5, <1>6, <1>7, <1>8 DEF SeriesOK

(* A run adds its experiment, and it waits no more.                         *)
LEMMA SeriesRun ==
    ASSUME SeriesOK, Run
    PROVE  SeriesOK'
  <1>1. /\ pc = "run" /\ pc' = "series" /\ UNCHANGED <<combiner, experiment>>
        /\ results' = Append(results, <<Setting, Name>>)
    BY DEF Run
  <1>2. Busy /\ ~Busy'
    BY <1>1 DEF Busy, Saving
  <1>3. /\ Setting' = Setting /\ Given' = Given
        /\ Remaining = ToSet(experiment.names) \cup {Name}
        /\ Remaining' = ToSet(experiment.names)
    BY <1>1, <1>2 DEF Setting, Given, Remaining
  <1>4. Name \in ToSet(DatasetNames) /\ Name \notin ToSet(experiment.names)
    BY <1>1, <1>2 DEF SeriesOK
  <1>5. PICK s \in Given : Setting = Current(ArgArrays, s)
    BY <1>1, <1>3 DEF SeriesOK
  <1>6. s \in Places
    BY DEF Given
  <1>7. PICK e : e = <<Setting, Name>>
    OBVIOUS
  <1>8. e \in Settings \X ToSet(DatasetNames)
    BY <1>4, <1>5, <1>6, <1>7, SettingsAreCurrents
  <1>9. e \notin ToSet(results)
    BY <1>1, <1>3, <1>4, <1>5, <1>6, <1>7 DEF SeriesOK, RunAs
  <1>10. results \in Seq(Settings \X ToSet(DatasetNames)) /\ IsInjective(results)
    BY <1>1 DEF SeriesOK
  <1>11. /\ results' \in Seq(Settings \X ToSet(DatasetNames)) /\ IsInjective(results')
         /\ ToSet(results') = ToSet(results) \cup {e}
    <2>1. PICK S : S = Settings \X ToSet(DatasetNames)
      OBVIOUS
    <2>2. results \in Seq(S) /\ e \in S
      BY <1>8, <1>10, <2>1
    <2>3. results' = Append(results, e)
      BY <1>1, <1>7
    <2>4. Append(results, e) \in Seq(S)
      BY <2>2
    <2>5. IsInjective(Append(results, e)) /\ ToSet(Append(results, e)) = ToSet(results) \cup {e}
      BY <1>9, <1>10, <2>2, AppendNew
    <2> QED BY <2>1, <2>3, <2>4, <2>5
  <1>12. ASSUME NEW k \in Places, NEW n \in ToSet(DatasetNames)
         PROVE  RunAs(k, n)' <=>
                   k \in Given' /\ ~(Setting' = Current(ArgArrays, k) /\ n \in Remaining')
    <2>1. RunAs(k, n)' <=> RunAs(k, n) \/ (Current(ArgArrays, k) = Setting /\ n = Name)
      BY <1>7, <1>11 DEF RunAs
    <2>2. RunAs(k, n) <=> k \in Given /\ ~(Setting = Current(ArgArrays, k) /\ n \in Remaining)
      BY <1>1 DEF SeriesOK
    <2>3. Current(ArgArrays, k) = Setting => k = s
      BY <1>5, <1>6, CurrentInjective
    <2> QED BY <1>3, <1>4, <1>5, <2>1, <2>2, <2>3
  <1>13. /\ combiner'.indices \in Places /\ combiner'.finished \in BOOLEAN
         /\ experiment'.names \in Seq(ToSet(DatasetNames)) /\ IsInjective(experiment'.names)
    BY <1>1 DEF SeriesOK
  <1> QED BY <1>1, <1>2, <1>3, <1>5, <1>11, <1>12, <1>13 DEF SeriesOK

(* Every step keeps SeriesOK.                                               *)
LEMMA SeriesNext ==
    ASSUME SeriesOK, [Next]_vars
    PROVE  SeriesOK'
  <1>1. CASE NextSetting
    BY <1>1, SeriesNextSetting
  <1>2. CASE AddDevices
    BY <1>2, SeriesAddDevices
  <1>3. CASE Run
    BY <1>3, SeriesRun
  <1>4. CASE Finish
    <2>1. /\ pc = "series" /\ pc' = "finished" /\ experiment.names = <<>>
          /\ combiner.finished /\ UNCHANGED <<combiner, experiment, results>>
      BY <1>4 DEF Finish, process
    <2>2. ~Busy /\ ~Busy'
      BY <2>1 DEF Busy, Saving
    <2>3. /\ Given' = Given /\ Setting' = Setting /\ Remaining' = Remaining
          /\ Remaining = {} /\ \A k, n : RunAs(k, n)' = RunAs(k, n)
      BY <2>1, <2>2 DEF Given, Setting, Remaining, RunAs, ToSet
    <2> QED BY <2>1, <2>2, <2>3 DEF SeriesOK
  <1>5. CASE ChooseSource \/ LoadBursts \/ LoadPackets \/ ReadCaptures \/ OpenPackets
             \/ WritePackets \/ OpenBursts \/ WriteBursts
    <2>1. /\ UNCHANGED <<combiner, experiment, results>>
          /\ pc \in {"source", "loadBursts", "loadPackets", "readCaptures"} \cup Saving
          /\ pc' \in {"loadBursts", "loadPackets", "readCaptures", "run", "dead"} \cup Saving
      BY <1>5 DEF ChooseSource, LoadBursts, LoadPackets, ReadCaptures, OpenPackets,
                  WritePackets, OpenBursts, WriteBursts, process, Saving
    <2>2. CASE pc' = "dead"
      BY <2>2 DEF SeriesOK
    <2>3. CASE pc' # "dead"
      <3>1. Busy /\ Busy' /\ pc # "dead" /\ pc' # "finished"
        BY <2>1, <2>3 DEF Busy, Saving
      <3> QED BY <2>1, <3>1, SeriesKept
    <2> QED BY <2>2, <2>3
  <1>6. CASE End
    BY <1>6 DEF End, SeriesOK
  <1>7. CASE Restart
    <2>1. Beginning'
      BY <1>7 DEF Restart, NewProcess, Beginning
    <2> QED BY <2>1, SeriesBegins, PTL
  <1>8. CASE Terminating \/ UNCHANGED vars
    <2>1. UNCHANGED vars
      BY <1>8 DEF Terminating
    <2> QED BY <2>1 DEF SeriesOK, Given, Setting, Name, Remaining, RunAs, Busy, vars
  <1> QED BY <1>1, <1>2, <1>3, <1>4, <1>5, <1>6, <1>7, <1>8 DEF Next

(* At any moment what has been run is what was handed out less what waits.  *)
THEOREM SeriesCorrect == Spec => []SeriesOK
  <1>1. Init => SeriesOK
    BY SeriesBegins DEF Init, Beginning
  <1> QED BY <1>1, SeriesNext, PTL DEF Spec

(* A series that gets to its end has run every data set under every         *)
(* combination of the parameters, and none twice: getNext hands out every   *)
(* place of the odometer once.                                              *)
THEOREM EveryExperimentOnceCorrect == Spec => []EveryExperimentOnce
  <1>1. ASSUME SeriesOK, pc = "finished"
        PROVE  /\ ToSet(results) = Settings \X ToSet(DatasetNames)
               /\ Len(results) = Cardinality(ToSet(results))
    <2>1. /\ combiner.finished /\ Remaining = {}
          /\ results \in Seq(Settings \X ToSet(DatasetNames)) /\ IsInjective(results)
          /\ \A k \in Places : \A n \in ToSet(DatasetNames) : RunAs(k, n) <=> k \in Given
      BY <1>1 DEF SeriesOK
    <2>2. Given = Places
      BY <2>1 DEF Given
    <2>3. ASSUME NEW s \in Settings, NEW n \in ToSet(DatasetNames)
          PROVE  <<s, n>> \in ToSet(results)
      <3>1. PICK k \in Places : s = Current(ArgArrays, k)
        BY SettingsAreCurrents
      <3> QED BY <2>1, <2>2, <3>1 DEF RunAs
    <2>4. PICK S : S = Settings \X ToSet(DatasetNames)
      OBVIOUS
    <2>5. ToSet(results) \subseteq S /\ Len(results) = Cardinality(ToSet(results))
      <3>1. results \in Seq(S)
        BY <2>1, <2>4
      <3> QED BY <2>1, <3>1, InjectiveLength DEF ToSet
    <2> QED BY <2>3, <2>4, <2>5
  <1> QED BY <1>1, SeriesCorrect, PTL DEF EveryExperimentOnce

=============================================================================
