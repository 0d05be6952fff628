------------------------------- MODULE Burst -------------------------------
(***************************************************************************)
(* A burst: what Burst.h / Burst.cpp keep of a run of packets of one       *)
(* device.  packetDetail is the vector of (signed length, count) pairs in  *)
(* order of first appearance; uniPktNum is the uint8_t that bounds every   *)
(* scan of that vector, pktNum the number of packets added.                *)
(* instanceLabel is the device's name; only Validate looks at it, and all  *)
(* that it asks is whether the name is empty.                              *)
(***************************************************************************)
EXTENDS Integers, Sequences, SequencesExt

CONSTANTS
    BURST_MAX_UNISIG,   \* at most this many distinct signed lengths a burst
    UINT8,              \* 2^8: the modulus of the uint8_t uniPktNum
    Sig                 \* the signed lengths packets may have

ASSUME UnisigAssumption ==
    /\ UINT8 \in Nat
    /\ BURST_MAX_UNISIG \in 1 .. UINT8 - 1      \* a positive uint8_t

(* timespec; {0,0} is also the "not set yet" value of a new burst's stamps. *)
Timespec == [tv_sec : Nat, tv_nsec : Nat]
Zero == [tv_sec |-> 0, tv_nsec |-> 0]

(* Whole seconds from start to end: one less when the nanoseconds borrow.   *)
FloorDuration(end, start) ==
    LET sec == end.tv_sec - start.tv_sec
    IN  IF end.tv_nsec - start.tv_nsec < 0 THEN sec - 1 ELSE sec

(* The comparison of KPacket::operator<, Burst::operator<, EarlierThan and   *)
(* the comparator of SortInOrder: seconds first, then nanoseconds.          *)
Earlier(s, t) ==
    \/ s.tv_sec < t.tv_sec
    \/ s.tv_sec = t.tv_sec /\ s.tv_nsec < t.tv_nsec

Detail == [sig : Sig, num : Nat]

BurstType ==
    [instanceLabel    : STRING,
     uniPktNum        : 0 .. UINT8 - 1,
     pktNum           : Nat,
     firstPacketStamp : Timespec,
     lastPacketStamp  : Timespec,
     packetDetail     : Seq(Detail)]

(* Burst::Burst(device) *)
NewBurst(label) ==
    [instanceLabel    |-> label,
     uniPktNum        |-> 0,
     pktNum           |-> 0,
     firstPacketStamp |-> Zero,
     lastPacketStamp  |-> Zero,
     packetDetail     |-> <<>>]

Hits_LastEntryMissed(b, sig) ==         \* mutant: i < uniPktNum - 1
    {i \in 1 .. b.uniPktNum - 1 : b.packetDetail[i].sig = sig}

(* The entries of packetDetail that PiggyBack's scan meets with this        *)
(* signature: it stops at uniPktNum, not at the end of the vector.          *)
Hits(b, sig) == {i \in 1 .. b.uniPktNum : b.packetDetail[i].sig = sig}

PiggyBack_CountsDown(b, sig) ==         \* mutant: second-- for second++
    LET i == CHOOSE i \in Hits(b, sig) : \A j \in Hits(b, sig) : i <= j
    IN  [b EXCEPT !.packetDetail[i].num = @ - 1, !.pktNum = @ + 1]

PiggyBack_NoPktNum(b, sig) ==           \* mutant: pktNum++ forgotten
    LET i == CHOOSE i \in Hits(b, sig) : \A j \in Hits(b, sig) : i <= j
    IN  [b EXCEPT !.packetDetail[i].num = @ + 1]

(* Burst::PiggyBack, when it finds the signature: the first entry counts.   *)
PiggyBack(b, sig) ==
    LET i == CHOOSE i \in Hits(b, sig) : \A j \in Hits(b, sig) : i <= j
    IN  [b EXCEPT !.packetDetail[i].num = @ + 1, !.pktNum = @ + 1]

(* Burst::AddSig *)
AddSig(b, sig) ==
    IF Hits(b, sig) # {}
    THEN PiggyBack(b, sig)
    ELSE [b EXCEPT !.packetDetail = Append(@, [sig |-> sig, num |-> 1]),
                   !.pktNum = @ + 1,
                   !.uniPktNum = (@ + 1) % UINT8]

(* Burst::AddPacket followed by SetLastPacketStamp, as StrictToBursts does. *)
AddPacket(b, packet) ==
    [AddSig(b, packet.signedLen) EXCEPT !.lastPacketStamp = packet.timestamp]

Total(numbers) == FoldLeft(LAMBDA acc, n : acc + n, 0, numbers)

PacketCount(detail) == Total([i \in DOMAIN detail |-> detail[i].num])

(* The packets of one signed length that a burst counts.                    *)
CountOf(sig, b) ==
    Total([i \in DOMAIN b.packetDetail |->
              IF b.packetDetail[i].sig = sig THEN b.packetDetail[i].num ELSE 0])

(* Burst::Validate: the exception it throws, "OK" when it returns.          *)
Validate(b) ==
    CASE b.instanceLabel = ""                   -> "UNKNOWN_BURST_DEVICE"
      [] Len(b.packetDetail) # b.uniPktNum      -> "BURST_UNI_NUMBER_MISMATCH"
      [] PacketCount(b.packetDetail) # b.pktNum -> "BURST_NUMBER_MISMATCH"
      [] b.uniPktNum > BURST_MAX_UNISIG         -> "BURST_UNI_NUMBER_OVERFLOW"
      [] OTHER                                  -> "OK"
=============================================================================
