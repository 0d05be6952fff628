--------------------------- MODULE StrictToBursts ---------------------------
(***************************************************************************)
(* DeviceBurstGenerator::StrictToBursts as a state machine: one step per   *)
(* packet of packetVec, then the final push_back and the return.  The      *)
(* packet vector is revealed as the loop reads it; it is sorted by time,   *)
(* as PacketDataset::Sort leaves it, and not empty, as its two callers     *)
(* guarantee.                                                              *)
(*                                                                         *)
(* lo is a history variable: lo[k] is the position in packetVec of the     *)
(* first packet of the k-th burst, the one under construction included.    *)
(***************************************************************************)
EXTENDS BurstDivision

VARIABLES packetVec, burst, burstVec, returned, lo

strictVars == <<packetVec, burst, burstVec, returned, lo>>

StrictInit ==
    /\ packetVec = <<>>
    /\ burst = NewBurst(Label)
    /\ burstVec = <<>>
    /\ returned = FALSE
    /\ lo = <<1>>

NextPacket(packet) ==
    /\ ~returned
    /\ Len(packetVec) < MaxPackets
    /\ InOrder(packetVec, packet)
    /\ packetVec' = Append(packetVec, packet)
    /\ LET s == StrictStep([burst |-> burst, burstVec |-> burstVec], packet)
       IN  /\ burst' = s.burst
           /\ burstVec' = s.burstVec
    /\ lo' = IF burstVec' # burstVec THEN Append(lo, Len(packetVec) + 1) ELSE lo
    /\ UNCHANGED returned

Return ==
    /\ ~returned
    /\ packetVec # <<>>
    /\ burstVec' = Append(burstVec, burst)
    /\ returned' = TRUE
    /\ UNCHANGED <<packetVec, burst, lo>>

StrictTerminating == returned /\ UNCHANGED strictVars

StrictNext ==
    \/ \E packet \in Packets : NextPacket(packet)
    \/ Return
    \/ StrictTerminating

StrictSpec == StrictInit /\ [][StrictNext]_strictVars

-----------------------------------------------------------------------------
(* The bursts made so far, the one under construction last.                 *)
Bursts == IF returned THEN burstVec ELSE Append(burstVec, burst)

Hi(k) == IF k < Len(lo) THEN lo[k + 1] - 1 ELSE Len(packetVec)

Stamp(i) == packetVec[i].timestamp

(* Types of all variables: no count in a packetDetail goes below zero and   *)
(* the uint8_t uniPktNum stays in its range.                                *)
TypeOK ==
    /\ packetVec \in Seq(Packets)
    /\ burst \in BurstType
    /\ burstVec \in Seq(BurstType)
    /\ returned \in BOOLEAN
    /\ lo \in Seq(Nat \ {0})

(* No packet is lost, duplicated or counted in two bursts: the bursts tile   *)
(* packetVec, in order, none of them is empty once a packet was read, and   *)
(* each one's pktNum is the number of packets of its tile.  (The empty      *)
(* burst would make Train write pktNumCount[-1].)                           *)
Tiling ==
    /\ Len(lo) = Len(Bursts)
    /\ lo[1] = 1
    /\ \A k \in 1 .. Len(lo) :
          /\ packetVec # <<>> => lo[k] <= Hi(k)
          /\ Bursts[k].pktNum = Hi(k) - lo[k] + 1

(* packetDetail is exactly the set of signed lengths of the burst's own     *)
(* packets, each listed once, and uniPktNum is its size: the uint8_t that   *)
(* every later scan (Distance, operator==, the hash) is bounded by neither  *)
(* wraps nor leaves an entry out.                                           *)
UniqueSigs ==
    \A k \in 1 .. Len(lo) :
        LET b == Bursts[k]
        IN  /\ b.uniPktNum = Len(b.packetDetail)
            /\ b.uniPktNum <= BURST_MAX_UNISIG
            /\ \A i, j \in 1 .. Len(b.packetDetail) :
                  b.packetDetail[i].sig = b.packetDetail[j].sig => i = j
            /\ \A i \in lo[k] .. Hi(k) : \E j \in 1 .. Len(b.packetDetail) :
                  b.packetDetail[j].sig = packetVec[i].signedLen
            /\ \A j \in 1 .. Len(b.packetDetail) : \E i \in lo[k] .. Hi(k) :
                  b.packetDetail[j].sig = packetVec[i].signedLen

(* "The interval of a burst is within X seconds" (BURST_MAX_INTERVAL): two  *)
(* packets in a row of one burst are less than that many seconds apart.     *)
IntervalBound ==
    \A k \in 1 .. Len(lo) : \A i \in lo[k] .. Hi(k) - 1 :
        FloorDuration(Stamp(i + 1), Stamp(i)) < BURST_MAX_INTERVAL

(* What firstPacketStamp really holds. Only the first burst is stamped with *)
(* its first packet. The burst started by a cut is stamped by the packet    *)
(* AFTER the one that started it, even when that packet is cut off into the  *)
(* next burst, and stays {0,0} when there is none.                          *)
StampLag ==
    \A k \in 1 .. Len(lo) :
        LET i == IF k = 1 THEN 1 ELSE lo[k] + 1
        IN  Bursts[k].firstPacketStamp =
                IF i <= Len(packetVec) THEN Stamp(i) ELSE Zero

(* The longest a burst can really last: the duration test starts one packet *)
(* late in every burst but the first, so that burst may outlast             *)
(* BURST_MAX_DURATION by almost BURST_MAX_INTERVAL, but not by more.        *)
DurationSlack ==
    \A k \in 1 .. Len(lo) : packetVec # <<>> =>
        FloorDuration(Stamp(Hi(k)), Stamp(lo[k]))
            < BURST_MAX_DURATION + (IF k = 1 THEN 0 ELSE BURST_MAX_INTERVAL)

(* What the comment on BURST_MAX_DURATION says: a burst is cut off after    *)
(* that many seconds. StrictToBursts does not keep it.                      *)
DurationWithinMax ==
    \A k \in 1 .. Len(lo) : packetVec # <<>> =>
        FloorDuration(Stamp(Hi(k)), Stamp(lo[k])) <= BURST_MAX_DURATION
=============================================================================
