---------------------------- MODULE BurstDivision ----------------------------
(***************************************************************************)
(* The body of the loop of DeviceBurstGenerator::StrictToBursts: what one  *)
(* packet does to the burst under construction and to the bursts already   *)
(* pushed.                                                                 *)
(***************************************************************************)
EXTENDS Burst

CONSTANTS
    BURST_MAX_INTERVAL,     \* seconds between two packets that cut a burst
    BURST_MAX_DURATION,     \* seconds since firstPacketStamp that cut it
    Label,                  \* GetFormattedName() of the device
    Packets,                \* the packets a vector may hold
    MaxPackets              \* bound: how many of them it holds

ASSUME DivisionAssumption ==
    /\ BURST_MAX_INTERVAL \in Nat \ {0}
    /\ BURST_MAX_DURATION \in Nat \ {0}

ASSUME LabelAssumption == Label \in STRING \ {""}

(* KPacket without deviceId, which is the same for a whole vector.  Captured *)
(* packets are stamped after 1970-01-01 00:00:00, so tv_sec is never 0.      *)
Packet == [signedLen : Sig, hash5tuple : Nat,
           timestamp : {t \in Timespec : t.tv_sec > 0}]

ASSUME PacketsAssumption ==
    /\ Packets \subseteq Packet
    /\ MaxPackets \in Nat

(* The next packet is not earlier than the one before it: vectors come      *)
(* sorted by time, as PacketDataset::Sort leaves them.                      *)
InOrder(vec, packet) ==
    vec # <<>> => ~Earlier(packet.timestamp, Last(vec).timestamp)

Stamped_Always(b, packet) ==        \* mutant: the guard dropped
    [b EXCEPT !.firstPacketStamp = packet.timestamp]

(* SetFirstPacketStamp, which runs only while the stamp is still unset, and *)
(* before the decision to cut.                                             *)
Stamped(b, packet) ==
    IF b.firstPacketStamp.tv_sec = 0
    THEN [b EXCEPT !.firstPacketStamp = packet.timestamp]
    ELSE b

(* nearDiff and farDiff keep their initial 0 for the very first packet; a    *)
(* burst started by a cut already holds the packet that caused the cut.      *)
NearDiff(b, packet) ==
    IF b.pktNum > 0 THEN FloorDuration(packet.timestamp, b.lastPacketStamp) ELSE 0

FarDiff(b, packet) ==
    IF b.pktNum > 0 THEN FloorDuration(packet.timestamp, b.firstPacketStamp) ELSE 0

MustCut_NearLate(b, packet) ==      \* mutant: > for >=
    \/ b.uniPktNum >= BURST_MAX_UNISIG
    \/ NearDiff(b, packet) > BURST_MAX_INTERVAL
    \/ FarDiff(b, packet) >= BURST_MAX_DURATION

MustCut_FarLate(b, packet) ==       \* mutant: > for >=
    \/ b.uniPktNum >= BURST_MAX_UNISIG
    \/ NearDiff(b, packet) >= BURST_MAX_INTERVAL
    \/ FarDiff(b, packet) > BURST_MAX_DURATION

MustCut(b, packet) ==
    \/ b.uniPktNum >= BURST_MAX_UNISIG
    \/ NearDiff(b, packet) >= BURST_MAX_INTERVAL
    \/ FarDiff(b, packet) >= BURST_MAX_DURATION

StrictStep_CutDropsPacket(s, packet) ==     \* mutant: the cut skips AddPacket
    LET b == Stamped(s.burst, packet)
    IN  IF MustCut(b, packet)
        THEN [burst |-> NewBurst(Label), burstVec |-> Append(s.burstVec, b)]
        ELSE [burst |-> AddPacket(b, packet), burstVec |-> s.burstVec]

(* One iteration on s = [burst, burstVec]. The burst that a cut starts gets *)
(* its packet and its lastPacketStamp, but no firstPacketStamp.             *)
StrictStep(s, packet) ==
    LET b == Stamped(s.burst, packet)
    IN  IF MustCut(b, packet)
        THEN [burst    |-> AddPacket(NewBurst(Label), packet),
              burstVec |-> Append(s.burstVec, b)]
        ELSE [burst    |-> AddPacket(b, packet),
              burstVec |-> s.burstVec]
=============================================================================
