------------------------ MODULE DeviceBurstGenerator ------------------------
(***************************************************************************)
(* The constructor of DeviceBurstGenerator: from the time-sorted packets   *)
(* of one device in one time slot to its burst block.                      *)
(*                                                                         *)
(*   LongShortSplit     cuts the packets at silences into "short" raw      *)
(*                      bursts, and off a lasting stream into "long" ones;  *)
(*   SeparateBy5Tuple   regroups the packets of all long ones by flow;     *)
(*   MakeNormalBurstVec and MakeLongBurstVec run StrictToBursts on each    *)
(*                      short raw burst and on each flow;                  *)
(*   SortInOrder        sorts the bursts by firstPacketStamp.              *)
(*                                                                         *)
(* pktVec is revealed packet by packet as LongShortSplit reads it.         *)
(***************************************************************************)
EXTENDS BurstDivision, FiniteSets

ASSUME SigAssumption == Sig \subseteq Int

VARIABLES
    pktVec,             \* what the loop has read
    rawBurst,           \* LongShortSplit's local
    m_shortBurstVec, m_longburstVec,
    m_flowMap,          \* a function on the hashes seen so far
    m_burstVec,
    phase               \* the method of the constructor that runs next

vars == <<pktVec, rawBurst, m_shortBurstVec, m_longburstVec, m_flowMap,
          m_burstVec, phase>>

(* StrictToBursts, its loop folded and its last push_back included.         *)
StrictToBursts(packetVec) ==
    LET s == FoldLeft(StrictStep, [burst |-> NewBurst(Label), burstVec |-> <<>>],
                      packetVec)
    IN  Append(s.burstVec, s.burst)

Init ==
    /\ pktVec = <<>>
    /\ rawBurst = <<>>
    /\ m_shortBurstVec = <<>> /\ m_longburstVec = <<>>
    /\ m_flowMap = <<>>
    /\ m_burstVec = <<>>
    /\ phase = "LongShortSplit"

Silence(packet) ==
    /\ rawBurst # <<>>
    /\ FloorDuration(packet.timestamp, Last(rawBurst).timestamp) >= BURST_MAX_INTERVAL

Lasting ==
    /\ rawBurst # <<>>
    /\ FloorDuration(Last(rawBurst).timestamp, Head(rawBurst).timestamp)
            > BURST_MAX_DURATION

(* One iteration of LongShortSplit. The packet that ends a raw burst starts *)
(* the next one.                                                            *)
LongShortSplit(packet) ==
    /\ phase = "LongShortSplit"
    /\ Len(pktVec) < MaxPackets
    /\ InOrder(pktVec, packet)
    /\ pktVec' = Append(pktVec, packet)
    /\ \/ /\ Silence(packet)
          /\ m_shortBurstVec' = Append(m_shortBurstVec, rawBurst)
          /\ rawBurst' = <<packet>>
          /\ UNCHANGED m_longburstVec
       \/ /\ ~Silence(packet) /\ Lasting
          /\ m_longburstVec' = Append(m_longburstVec, rawBurst)
          /\ rawBurst' = <<packet>>
          /\ UNCHANGED m_shortBurstVec
       \/ /\ ~Silence(packet) /\ ~Lasting
          /\ rawBurst' = Append(rawBurst, packet)
          /\ UNCHANGED <<m_shortBurstVec, m_longburstVec>>
    /\ UNCHANGED <<m_flowMap, m_burstVec, phase>>

EndLongShortSplit_NoPush ==             \* mutant: the rest is not pushed
    /\ phase = "LongShortSplit"
    /\ pktVec # <<>>
    /\ rawBurst' = <<>>
    /\ phase' = "SeparateBy5Tuple"
    /\ UNCHANGED <<pktVec, m_shortBurstVec, m_longburstVec, m_flowMap, m_burstVec>>

(* The loop is over: what is left counts as short. SplitSlot never hands    *)
(* over an empty vector (a slot without packets has no vector).             *)
EndLongShortSplit ==
    /\ phase = "LongShortSplit"
    /\ pktVec # <<>>
    /\ m_shortBurstVec' = Append(m_shortBurstVec, rawBurst)
    /\ rawBurst' = <<>>
    /\ phase' = "SeparateBy5Tuple"
    /\ UNCHANGED <<pktVec, m_longburstVec, m_flowMap, m_burstVec>>

Selected_PushFront(packets, hash) ==     \* mutant: packets put in front
    FoldLeft(LAMBDA acc, p : IF p.hash5tuple = hash THEN <<p>> \o acc ELSE acc,
             <<>>, packets)

(* What push_back makes of the vector of one hash.                          *)
Selected(packets, hash) ==
    FoldLeft(LAMBDA acc, p : IF p.hash5tuple = hash THEN Append(acc, p) ELSE acc,
             <<>>, packets)

SeparateBy5Tuple ==
    /\ phase = "SeparateBy5Tuple"
    /\ LET packets == FlattenSeq(m_longburstVec)
       IN  m_flowMap' = [hash \in {p.hash5tuple : p \in ToSet(packets)} |->
                            Selected(packets, hash)]
    /\ phase' = "MakeNormalBurstVec"
    /\ UNCHANGED <<pktVec, rawBurst, m_shortBurstVec, m_longburstVec, m_burstVec>>

MakeNormalBurstVec ==
    /\ phase = "MakeNormalBurstVec"
    /\ m_burstVec' = m_burstVec \o FlattenSeq([i \in DOMAIN m_shortBurstVec |->
                                          StrictToBursts(m_shortBurstVec[i])])
    /\ phase' = "MakeLongBurstVec"
    /\ UNCHANGED <<pktVec, rawBurst, m_shortBurstVec, m_longburstVec, m_flowMap>>

(* The order in which an unordered_map lists its keys is anybody's guess.   *)
MakeLongBurstVec ==
    /\ phase = "MakeLongBurstVec"
    /\ \E hashes \in SetToSeqs(DOMAIN m_flowMap) :
          m_burstVec' = m_burstVec \o FlattenSeq([i \in DOMAIN hashes |->
                                          StrictToBursts(m_flowMap[hashes[i]])])
    /\ phase' = "SortInOrder"
    /\ UNCHANGED <<pktVec, rawBurst, m_shortBurstVec, m_longburstVec, m_flowMap>>

Sorted_NotAtAll(vec) == {vec}           \* mutant: no sort

(* What std::sort may turn vec into: an order without descents, any order   *)
(* among bursts with equal stamps.                                          *)
Sorted(vec) ==
    LET first(i) == vec[i].firstPacketStamp
    IN  {[i \in DOMAIN vec |-> vec[order[i]]] :
            order \in {p \in SetToSeqs(DOMAIN vec) : \A i, j \in DOMAIN vec :
                          i < j => ~Earlier(first(p[j]), first(p[i]))}}

SortDetail_Descending(b) ==             \* mutant: > for <
    LET detail == b.packetDetail
        order == CHOOSE p \in SetToSeqs(DOMAIN detail) : \A i, j \in DOMAIN detail :
                    i < j => detail[p[i]].sig >= detail[p[j]].sig
    IN  [b EXCEPT !.packetDetail = [i \in DOMAIN detail |-> detail[order[i]]]]

SortDetail(b) ==
    LET detail == b.packetDetail
        order == CHOOSE p \in SetToSeqs(DOMAIN detail) : \A i, j \in DOMAIN detail :
                    i < j => detail[p[i]].sig <= detail[p[j]].sig
    IN  [b EXCEPT !.packetDetail = [i \in DOMAIN detail |-> detail[order[i]]]]

SortInOrder ==
    /\ phase = "SortInOrder"
    /\ \E vec \in Sorted(m_burstVec) :
          m_burstVec' = [i \in DOMAIN vec |-> SortDetail(vec[i])]
    /\ phase' = "done"
    /\ UNCHANGED <<pktVec, rawBurst, m_shortBurstVec, m_longburstVec, m_flowMap>>

Terminating == phase = "done" /\ UNCHANGED vars

Next ==
    \/ \E packet \in Packets : LongShortSplit(packet)
    \/ EndLongShortSplit
    \/ SeparateBy5Tuple
    \/ MakeNormalBurstVec
    \/ MakeLongBurstVec
    \/ SortInOrder
    \/ Terminating

Spec == Init /\ [][Next]_vars

-----------------------------------------------------------------------------
PacketsWith(sig, vec) == Cardinality({i \in DOMAIN vec : vec[i].signedLen = sig})

Tally(sig, bursts) == Total([i \in DOMAIN bursts |-> CountOf(sig, bursts[i])])

(* Through two ways of splitting, a regrouping and a sort, every packet of  *)
(* the slot ends in exactly one burst: for each signed length the bursts    *)
(* count as many packets as pktVec holds.                                   *)
Conserved ==
    phase = "done" =>
        \A sig \in Sig : Tally(sig, m_burstVec) = PacketsWith(sig, pktVec)

(* StrictToBursts is only ever given what it relies on: vectors that are    *)
(* not empty and sorted by time, although a flow is pieced together from    *)
(* several long bursts.                                                     *)
StrictInputs ==
    phase \in {"MakeNormalBurstVec", "MakeLongBurstVec"} =>
        \A raw \in ToSet(m_shortBurstVec) \cup Range(m_flowMap) :
            /\ raw # <<>>
            /\ \A i \in 1 .. Len(raw) - 1 :
                  ~Earlier(raw[i + 1].timestamp, raw[i].timestamp)

(* Every burst of the block is one TrainOneDevice accepts: it passes        *)
(* Validate, and it is not empty (pktNumCount[pktNum - 1]); sorting its     *)
(* packetDetail puts equal bursts into the one form that Burst::operator==  *)
(* and the hash compare.                                                    *)
Trainable ==
    phase = "done" =>
        \A b \in ToSet(m_burstVec) :
            /\ Validate(b) = "OK"
            /\ b.pktNum >= 1
            /\ \A i \in 1 .. Len(b.packetDetail) - 1 :
                  b.packetDetail[i].sig < b.packetDetail[i + 1].sig

(* TrainTestSplit orders blocks by front()->firstPacketStamp. The front     *)
(* burst carries the stamp of the slot's earliest packet, unless a burst    *)
(* was never stamped at all: then such a burst is in front and the block    *)
(* sorts before every other one.                                            *)
FrontStamp ==
    phase = "done" =>
        Head(m_burstVec).firstPacketStamp =
            IF \E b \in ToSet(m_burstVec) : b.firstPacketStamp = Zero
            THEN Zero
            ELSE Head(pktVec).timestamp
=============================================================================
