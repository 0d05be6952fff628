------------------------------ MODULE SplitSlots ------------------------------
(***************************************************************************)
(* From the sorted packet data set to the training and the test groups:    *)
(* Converter::PktDatasetCvtoBursts sorts the packets into vectors by       *)
(* device and time slot, SplitSlots makes a burst block of each vector,    *)
(* and the constructor of BurstDataset splits the blocks of each device    *)
(* at TRAIN_PERCENT, the earlier ones for training.                        *)
(*                                                                         *)
(* Times are whole seconds here: the slot of a packet is its second        *)
(* divided by TIMESLOT. DeviceBurstGenerator, which turns a vector into a  *)
(* block, is represented by what its module shows of it (Conserved,        *)
(* FrontStamp): the packets it was given, and the stamp of the front       *)
(* burst, that of the first packet or, if the last cut left a burst        *)
(* without a stamp, none.                                                  *)
(***************************************************************************)
EXTENDS Integers, Sequences, SequencesExt, FiniteSets

CONSTANTS
    Devices,                \* deviceIds
    Seconds,                \* the seconds packets may carry
    MaxPackets,             \* bound on the data set
    TIMESLOT,               \* seconds per slot
    TRAIN_PERCENT

ASSUME SlotAssumption ==
    /\ Seconds \subseteq Nat \ {0}          \* {0,0} is no packet's time
    /\ TIMESLOT \in Nat \ {0}
    /\ TRAIN_PERCENT \in 1 .. 100

VARIABLES
    dataset,                \* the packets the loop has passed
    deviceTimeRawVecMap,    \* device -> slot -> packets; Null for nullptr
    todo,                   \* the slots SplitSlots still visits, by device
    burstDatasetContent,    \* device -> blocks, in the order of their making
    trainset, testset,      \* device -> blocks
    pc

vars == <<dataset, deviceTimeRawVecMap, todo, burstDatasetContent, trainset, testset, pc>>

Packet == [deviceId : Devices, tv_sec : Seconds]

Null == <<>>                \* no vector: an allocated one is never empty
NoStamp == 0                \* timespec {0,0}

Empty == [d \in {} |-> <<>>]

(* operator[] of a map, with the value a missing key gets.                  *)
At(map, key, default) == IF key \in DOMAIN map THEN map[key] ELSE default

Put(map, key, value) ==
    [k \in DOMAIN map \cup {key} |-> IF k = key THEN value ELSE map[k]]

Drop(map, key) == [k \in DOMAIN map \ {key} |-> map[k]]

Init ==
    /\ dataset = <<>>
    /\ deviceTimeRawVecMap = Empty
    /\ todo = Empty
    /\ burstDatasetContent = Empty
    /\ trainset = Empty
    /\ testset = Empty
    /\ pc = "group"

SlotOf(packet) == packet.tv_sec \div TIMESLOT

AddPacket_OneVectorPerDevice(packet) ==    \* mutant: the slot of the device's first packet
    /\ pc = "group"
    /\ dataset' = Append(dataset, packet)
    /\ LET d == packet.deviceId
           slots == At(deviceTimeRawVecMap, d, Empty)
           slot == IF slots = Empty THEN SlotOf(packet) ELSE CHOOSE s \in DOMAIN slots : TRUE
       IN  deviceTimeRawVecMap' =
               Put(deviceTimeRawVecMap, d, Put(slots, slot, Append(At(slots, slot, Null), packet)))
    /\ UNCHANGED <<todo, burstDatasetContent, trainset, testset, pc>>

(* One round of the loop of PktDatasetCvtoBursts, AddPacket with it.        *)
AddPacket(packet) ==
    /\ pc = "group"
    /\ dataset' = Append(dataset, packet)
    /\ LET d == packet.deviceId
           slots == At(deviceTimeRawVecMap, d, Empty)
           slot == SlotOf(packet)
       IN  deviceTimeRawVecMap' =
               Put(deviceTimeRawVecMap, d, Put(slots, slot, Append(At(slots, slot, Null), packet)))
    /\ UNCHANGED <<todo, burstDatasetContent, trainset, testset, pc>>

(* PacketDataset::Sort has run.                                             *)
InOrder(packet) == dataset # <<>> => Last(dataset).tv_sec <= packet.tv_sec

TimeSlots == UNION {DOMAIN deviceTimeRawVecMap[d] : d \in DOMAIN deviceTimeRawVecMap}

MinSlot == CHOOSE s \in TimeSlots : \A r \in TimeSlots : s <= r
MaxSlot == CHOOSE s \in TimeSlots : \A r \in TimeSlots : r <= s

SplitSlots_LastSlotMissed ==    \* mutant: end = *timeSlots.rbegin()
    /\ pc = "group"
    /\ dataset # <<>>
    /\ todo' = [d \in DOMAIN deviceTimeRawVecMap |->
                    [i \in 1 .. MaxSlot - MinSlot |-> MinSlot + i - 1]]
    /\ pc' = "split"
    /\ UNCHANGED <<dataset, deviceTimeRawVecMap, burstDatasetContent, trainset, testset>>

(* SplitSlots() and the loops of SplitSlots(start, end): every slot of the  *)
(* data set is visited for every device.                                    *)
SplitSlots ==
    /\ pc = "group"
    /\ dataset # <<>>
    /\ todo' = [d \in DOMAIN deviceTimeRawVecMap |->
                    [i \in 1 .. MaxSlot + 1 - MinSlot |-> MinSlot + i - 1]]
    /\ pc' = "split"
    /\ UNCHANGED <<dataset, deviceTimeRawVecMap, burstDatasetContent, trainset, testset>>

(* With no packet at all *timeSlots.begin() is undefined: a build may stop  *)
(* there, or take any two numbers for start and end and loop over no device. *)
SplitSlotsOfNothing ==
    /\ pc = "group"
    /\ dataset = <<>>
    /\ pc' \in {"crashed", "split"}
    /\ UNCHANGED <<dataset, deviceTimeRawVecMap, todo, burstDatasetContent, trainset, testset>>

(* CreateBurstVec. A cut takes two packets.                                 *)
Block(packets, stamp) == [packets |-> packets, stamp |-> stamp]

FrontStamps(packets) ==
    {Head(packets).tv_sec} \cup (IF Len(packets) > 1 THEN {NoStamp} ELSE {})

(* One slot of one device. Devices come in the order of the unordered_map,  *)
(* one after the other. A slot without packets gets a null entry by         *)
(* operator[], which stays.                                                 *)
SplitSlot(d) ==
    /\ pc = "split"
    /\ d \in DOMAIN todo
    /\ todo[d] # <<>>
    /\ \A other \in DOMAIN todo \ {d} :
          todo[other] = <<>> \/ Len(todo[other]) >= Len(todo[d])
    /\ LET slot == Head(todo[d])
           slots == deviceTimeRawVecMap[d]
           pktVec == At(slots, slot, Null)
       IN  IF pktVec = Null
           THEN /\ deviceTimeRawVecMap' = Put(deviceTimeRawVecMap, d, Put(slots, slot, Null))
                /\ UNCHANGED burstDatasetContent
           ELSE /\ \E stamp \in FrontStamps(pktVec) :
                      burstDatasetContent' =
                          Put(burstDatasetContent, d,
                              Append(At(burstDatasetContent, d, <<>>), Block(pktVec, stamp)))
                /\ deviceTimeRawVecMap' = Put(deviceTimeRawVecMap, d, Drop(slots, slot))
    /\ todo' = [todo EXCEPT ![d] = Tail(@)]
    /\ UNCHANGED <<dataset, trainset, testset, pc>>

(* deviceTimeRawVecMap.clear(), and the packets are released.               *)
EndSplitSlots ==
    /\ pc = "split"
    /\ \A d \in DOMAIN todo : todo[d] = <<>>
    /\ deviceTimeRawVecMap' = Empty
    /\ pc' = "TrainTestSplit"
    /\ UNCHANGED <<dataset, todo, burstDatasetContent, trainset, testset>>

StableSort_Descending(blocks) ==    \* mutant: the later block first
    LET Place(i) == Cardinality({j \in DOMAIN blocks :
                       \/ blocks[j].stamp > blocks[i].stamp
                       \/ blocks[j].stamp = blocks[i].stamp /\ j <= i})
    IN  [k \in DOMAIN blocks |-> blocks[CHOOSE i \in DOMAIN blocks : Place(i) = k]]

(* std::stable_sort by the stamp of the front burst, and where it puts the  *)
(* i-th block: behind the blocks of earlier stamps, and of equal ones       *)
(* behind those that were before it.                                        *)
Place(blocks, i) ==
    Cardinality({j \in DOMAIN blocks :
                    \/ blocks[j].stamp < blocks[i].stamp
                    \/ blocks[j].stamp = blocks[i].stamp /\ j <= i})

StableSort(blocks) ==
    [k \in DOMAIN blocks |-> blocks[CHOOSE i \in DOMAIN blocks : Place(blocks, i) = k]]

TrainNum_Floor(n) == (n * TRAIN_PERCENT) \div 100    \* mutant: no ceil

(* std::ceil(n * TRAIN_PERCENT / 100.0)                                     *)
TrainNum(n) == (n * TRAIN_PERCENT + 99) \div 100

TrainTestSplit ==
    /\ pc = "TrainTestSplit"
    /\ LET rawMap == [d \in DOMAIN burstDatasetContent |-> StableSort(burstDatasetContent[d])]
           cut(d) == TrainNum(Len(rawMap[d]))
       IN  /\ burstDatasetContent' = rawMap
           /\ trainset' = [d \in DOMAIN rawMap |-> SubSeq(rawMap[d], 1, cut(d))]
           /\ testset' = [d \in DOMAIN rawMap |-> SubSeq(rawMap[d], cut(d) + 1, Len(rawMap[d]))]
    /\ pc' = "done"
    /\ UNCHANGED <<dataset, deviceTimeRawVecMap, todo>>

Terminating == pc \in {"done", "crashed"} /\ UNCHANGED vars

Next ==
    \/ \E packet \in Packet : Len(dataset) < MaxPackets /\ InOrder(packet) /\ AddPacket(packet)
    \/ SplitSlots
    \/ SplitSlotsOfNothing
    \/ \E d \in Devices : SplitSlot(d)
    \/ EndSplitSlots
    \/ TrainTestSplit
    \/ Terminating

Spec == Init /\ [][Next]_vars

-----------------------------------------------------------------------------
(* Properties *)

(* Where the packets of a device are, and those of one of its slots.        *)
Of(packets, d) == {i \in DOMAIN packets : packets[i].deviceId = d}
Slots(packets, d) == {SlotOf(packets[i]) : i \in Of(packets, d)}
InSlot(packets, d, slot) == {i \in Of(packets, d) : SlotOf(packets[i]) = slot}

(* The k-th of a set of numbers.                                            *)
Nth(S, k) == CHOOSE x \in S : Cardinality({y \in S : y <= x}) = k

(* The packets of a device in a slot, in order.                             *)
Traffic(packets, d, slot) ==
    LET S == InSlot(packets, d, slot)
    IN  [k \in 1 .. Cardinality(S) |-> packets[Nth(S, k)]]

(* A block is the traffic of one device in one slot, the whole of it and in *)
(* the order of the data set, which is what Predict scores as one group:    *)
(* nothing is lost, doubled or reordered, the last slot's packets included. *)
WholeSlots ==
    pc = "TrainTestSplit" =>
        \A d \in Devices :
            LET blocks == At(burstDatasetContent, d, <<>>)
            IN  [i \in DOMAIN blocks |-> blocks[i].packets]
                    = [i \in 1 .. Cardinality(Slots(dataset, d)) |->
                          Traffic(dataset, d, Nth(Slots(dataset, d), i))]

(* The split is chronological but for one thing: a training block may be    *)
(* of a later slot than a test block only when its front burst was never    *)
(* stamped, and the test block's was.                                       *)
TrainsOnThePast ==
    pc = "done" =>
        \A d \in DOMAIN trainset :
            \A a \in ToSet(trainset[d]), b \in ToSet(testset[d]) :
                Head(a.packets).tv_sec > Head(b.packets).tv_sec =>
                    a.stamp = NoStamp /\ b.stamp # NoStamp

(* Every device that sent anything has a block to train on, which           *)
(* BlockAvgPktNum relies on when it takes the middle one; and no block is   *)
(* in both sets or in none.                                                 *)
EveryDeviceTrains ==
    pc = "done" =>
        \A d \in Devices :
            Of(dataset, d) # {} =>
                /\ d \in DOMAIN trainset
                /\ trainset[d] # <<>>
                /\ trainset[d] \o testset[d] = burstDatasetContent[d]
=============================================================================
