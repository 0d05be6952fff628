-------------------- MODULE DeviceBurstGenerator_proofs --------------------
(***************************************************************************)
(* DeviceBurstGenerator makes a correct burst block of every time-sorted   *)
(* packet vector, whatever its length, its packets, the order in which the *)
(* flow map lists its keys and the parameters of the division. MaxPackets  *)
(* bounds the length but may be any natural number.                        *)
(*                                                                         *)
(* First the loop of StrictToBursts as a state machine. The inductive      *)
(* invariant IInv describes the burst under construction by the packets it *)
(* holds (Open) and every burst pushed (Closed): its signatures are        *)
(* distinct and are those of its tile, gaps in it are short (Describes),   *)
(* its first stamp is that of one known packet (HasStamp) and the duration *)
(* test held from that packet on (Lasts).                                  *)
(*                                                                         *)
(* Then the constructor, which uses the loop as an operator: what the      *)
(* folds and the sorts return (StrictToBurstsFacts, SelectedFacts,         *)
(* FlowsCount, SortedFacts, SortDetailFacts), and the inductive invariant  *)
(* DInv, by which the raw bursts and the rest divide the packets read      *)
(* (Partition) and the bursts made so far are sound and count exactly the  *)
(* packets of the raw bursts already divided (Made).                       *)
(***************************************************************************)
EXTENDS StrictToBursts, DeviceBurstGenerator, FiniteSetTheorems, SequenceTheorems,
        NaturalsInduction, WellFoundedInduction, TLAPS

-----------------------------------------------------------------------------
(* StrictToBursts, the state machine *)

(* FloorDuration of two stamps is an integer.                               *)
LEMMA FloorInt ==
    ASSUME NEW a \in Timespec, NEW b \in Timespec
    PROVE  FloorDuration(a, b) \in Int
BY DEF FloorDuration, Timespec

(* Splitting a span of time in two loses less than a second: this is what   *)
(* lets the interval bound and the duration bound add up.                   *)
LEMMA FloorTriangle ==
    ASSUME NEW a \in Timespec, NEW b \in Timespec, NEW c \in Timespec
    PROVE  FloorDuration(a, c) <= FloorDuration(a, b) + FloorDuration(b, c) + 1
BY DEF FloorDuration, Timespec

(* A burst whose packetDetail lists distinct signatures, uniPktNum of them. *)
Exact(b) ==
    /\ b \in BurstType
    /\ b.uniPktNum = Len(b.packetDetail)
    /\ b.uniPktNum <= BURST_MAX_UNISIG
    /\ \A i, j \in 1 .. Len(b.packetDetail) :
          b.packetDetail[i].sig = b.packetDetail[j].sig => i = j

Sigs(b) == {b.packetDetail[j].sig : j \in 1 .. Len(b.packetDetail)}

(* The only three fields AddSig changes.                                    *)
Update(b, d, n, u) ==
    [b EXCEPT !.packetDetail = d, !.pktNum = n, !.uniPktNum = u]

(* What remains and what changes in a burst whose counters are updated.     *)
LEMMA BurstUpdate ==
    ASSUME NEW b \in BurstType, NEW d \in Seq(Detail), NEW n \in Nat,
           NEW u \in 0 .. UINT8 - 1
    PROVE  /\ Update(b, d, n, u) \in BurstType
           /\ Update(b, d, n, u).packetDetail = d
           /\ Update(b, d, n, u).pktNum = n
           /\ Update(b, d, n, u).uniPktNum = u
           /\ Update(b, d, n, u).firstPacketStamp = b.firstPacketStamp
BY DEF BurstType, Update

(* The increments of PiggyBack, written as one such update.                 *)
LEMMA PiggyBackUpdate ==
    ASSUME NEW b \in BurstType, NEW i \in 1 .. Len(b.packetDetail), NEW c,
           c = [b EXCEPT !.packetDetail[i].num = @ + 1, !.pktNum = @ + 1]
    PROVE  c = Update(b, [b.packetDetail EXCEPT ![i].num = @ + 1],
                      b.pktNum + 1, b.uniPktNum)
BY DEF BurstType, Update

(* The fields of a burst have their types.                                  *)
LEMMA BurstFields ==
    ASSUME NEW b \in BurstType
    PROVE  /\ b.packetDetail \in Seq(Detail) /\ Len(b.packetDetail) \in Nat
           /\ b.uniPktNum \in 0 .. UINT8 - 1
           /\ b.pktNum \in Nat
           /\ b.firstPacketStamp \in Timespec
           /\ b.lastPacketStamp \in Timespec
BY DEF BurstType

(* A number below the modulus is not wrapped.                               *)
LEMMA ModSmall ==
    ASSUME NEW n \in Nat, NEW m \in Nat, n < m
    PROVE  n % m = n
OBVIOUS

(* AddSig, on a burst with room for one more signature, keeps packetDetail  *)
(* free of duplicates, adds the signature and counts one packet.            *)
LEMMA AddSigFacts ==
    ASSUME NEW b, Exact(b), NEW sig \in Sig,
           b.uniPktNum < BURST_MAX_UNISIG
    PROVE  LET c == AddSig(b, sig)
           IN  /\ Exact(c)
               /\ Sigs(c) = Sigs(b) \cup {sig}
               /\ c.pktNum = b.pktNum + 1
               /\ c.firstPacketStamp = b.firstPacketStamp
<1> DEFINE c == AddSig(b, sig)
<1>0. /\ b \in BurstType
      /\ b.packetDetail \in Seq(Detail)
      /\ b.uniPktNum = Len(b.packetDetail)
      /\ b.uniPktNum \in 0 .. UINT8 - 1
      /\ b.uniPktNum \in Nat
      /\ b.pktNum \in Nat
      /\ b.uniPktNum + 1 < UINT8
  BY BurstFields, UnisigAssumption DEF Exact
<1>1. CASE Hits(b, sig) # {}
  <2>1. PICK i \in 1 .. b.uniPktNum : b.packetDetail[i].sig = sig
    BY <1>1 DEF Hits
  <2>2. Hits(b, sig) = {i}
    BY <2>1, <1>0 DEF Hits, Exact
  <2>3. (CHOOSE k \in Hits(b, sig) : \A j \in Hits(b, sig) : k <= j) = i
    BY <2>1, <2>2, <1>0
  <2> DEFINE d == [b.packetDetail EXCEPT ![i].num = @ + 1]
  <2>4. c = [b EXCEPT !.packetDetail[i].num = @ + 1, !.pktNum = @ + 1]
    BY <2>3, <1>1 DEF AddSig, PiggyBack
  <2>5. /\ d \in Seq(Detail) 
        /\ Len(d) = Len(b.packetDetail)
        /\ \A j \in 1 .. Len(d) : d[j].sig = b.packetDetail[j].sig
    <3>1. i \in 1 .. Len(b.packetDetail) BY <1>0, <2>1
    <3>2. b.packetDetail[i] \in Detail BY <3>1, <1>0
    <3>3. [b.packetDetail[i] EXCEPT !.num = @ + 1] \in Detail 
       BY <3>2 DEF Detail
    <3>4. [b.packetDetail[i] EXCEPT !.num = @ + 1].sig = b.packetDetail[i].sig
       BY <3>2 DEF Detail
    <3> QED BY <3>1, <3>3, <3>4, <1>0
  <2>6. c = Update(b, d, b.pktNum + 1, b.uniPktNum)
    <3> HIDE DEF c
    <3> QED BY <1>0, <2>1, <2>4, PiggyBackUpdate
  <2> HIDE DEF c, d
  <2>7. /\ c \in BurstType
        /\ c.packetDetail = d /\ c.uniPktNum = b.uniPktNum 
        /\ c.pktNum = b.pktNum + 1 /\ c.firstPacketStamp = b.firstPacketStamp
    <3>1. b.pktNum + 1 \in Nat BY <1>0
    <3>2. d \in Seq(Detail) /\ b \in BurstType /\ b.uniPktNum \in 0 .. UINT8 - 1
      BY <1>0, <2>5
    <3> HIDE <2>5
    <3> QED BY <2>6, <3>1, <3>2, BurstUpdate
  <2>8. sig \in Sigs(b)
    BY <1>0, <2>1 DEF Sigs
  <2>9. Sigs(c) = Sigs(b)
    BY <2>5, <2>7 DEF Sigs
  <2>10. Exact(c)
    BY <2>5, <2>7, <1>0 DEF Exact
  <2> QED BY <2>7, <2>8, <2>9, <2>10 DEF c
<1>2. CASE Hits(b, sig) = {}
  <2> DEFINE d == Append(b.packetDetail, [sig |-> sig, num |-> 1])
  <2>1. (b.uniPktNum + 1) % UINT8 = b.uniPktNum + 1
    <3>1. b.uniPktNum + 1 \in Nat /\ UINT8 \in Nat
      BY <1>0, UnisigAssumption
    <3> QED BY <1>0, <3>1, ModSmall
  <2>2. c = Update(b, d, b.pktNum + 1, b.uniPktNum + 1)
    BY <1>2, <2>1 DEF AddSig, Update
  <2>3. [sig |-> sig, num |-> 1] \in Detail
    BY DEF Detail
  <2>4. /\ d \in Seq(Detail)
        /\ Len(d) = Len(b.packetDetail) + 1
        /\ \A j \in 1 .. Len(b.packetDetail) : d[j] = b.packetDetail[j]
        /\ d[Len(b.packetDetail) + 1] = [sig |-> sig, num |-> 1]
        /\ d[Len(b.packetDetail) + 1].sig = sig
    BY <2>3, <1>0
  <2> HIDE DEF c, d
  <2>5. /\ c \in BurstType
        /\ c.packetDetail = d /\ c.uniPktNum = b.uniPktNum + 1 
        /\ c.pktNum = b.pktNum + 1 /\ c.firstPacketStamp = b.firstPacketStamp
    <3>1. b.uniPktNum + 1 \in 0 .. UINT8 - 1 /\ b.pktNum + 1 \in Nat
      BY <1>0, UnisigAssumption
    <3>2. d \in Seq(Detail) /\ b \in BurstType
      BY <1>0, <2>4
    <3> QED BY <2>2, <3>1, <3>2, BurstUpdate
  <2>6. \A j \in 1 .. Len(b.packetDetail) : b.packetDetail[j].sig # sig
    BY <1>2, <1>0 DEF Hits
  <2>7. Exact(c)
    <3> DEFINE n == Len(b.packetDetail)
    <3>1. n \in Nat /\ Len(d) = n + 1
      BY <1>0, <2>4
    <3>2. \A j \in 1 .. Len(d) : j \in 1 .. n \/ j = n + 1
      BY <3>1
    <3>3. \A i, j \in 1 .. n : d[i].sig = d[j].sig => i = j
      BY <2>4 DEF Exact
    <3>4. \A i \in 1 .. n : d[i].sig # d[n + 1].sig
      BY <2>4, <2>6
    <3>5. \A i, j \in 1 .. Len(d) : d[i].sig = d[j].sig => i = j
      BY <3>2, <3>3, <3>4
    <3>6. c.uniPktNum = Len(d) /\ c.uniPktNum <= BURST_MAX_UNISIG
      BY <1>0, <2>5, <3>1, UnisigAssumption
    <3> QED BY <2>5, <3>5, <3>6 DEF Exact
  <2>8. Sigs(c) = Sigs(b) \cup {sig}
    <3> DEFINE n == Len(b.packetDetail)
    <3>1. n \in Nat /\ Len(d) = n + 1
      BY <1>0, <2>4
    <3>2. 1 .. Len(d) = (1 .. n) \cup {n + 1}
      BY <3>1
    <3>3. {d[j].sig : j \in 1 .. n} = Sigs(b)
      BY <2>4 DEF Sigs
    <3> HIDE DEF n
    <3>4. Sigs(c) = {d[j].sig : j \in (1 .. n) \cup {n + 1}}
      BY <2>5, <3>2 DEF Sigs
    <3>5. d[n + 1].sig = sig
      BY <2>4 DEF n
    <3> QED BY <3>3, <3>4, <3>5
  <2> QED BY <2>5, <2>7, <2>8 DEF c
<1> QED BY <1>1, <1>2

(* A new burst is empty and has no stamp.                                   *)
LEMMA NewBurstFacts ==
    /\ Exact(NewBurst(Label))
    /\ Sigs(NewBurst(Label)) = {}
    /\ NewBurst(Label).pktNum = 0
    /\ NewBurst(Label).uniPktNum = 0
    /\ NewBurst(Label).firstPacketStamp = Zero
<1> DEFINE b == NewBurst(Label)
<1>1. b \in BurstType /\ b.packetDetail = <<>> /\ b.uniPktNum = 0
      /\ b.pktNum = 0 /\ b.firstPacketStamp = Zero
  <2>1. Zero \in Timespec
    BY DEF Zero, Timespec
  <2>2. <<>> \in Seq(Detail)
    OBVIOUS
  <2>3. 0 \in 0 .. UINT8 - 1
    BY UnisigAssumption
  <2>4. Label \in STRING
    BY LabelAssumption, Zenon
  <2> QED BY <2>1, <2>2, <2>3, <2>4 DEF BurstType, NewBurst
<1> HIDE DEF b
<1>2. Exact(b)
  BY <1>1, UnisigAssumption DEF Exact
<1>3. Sigs(b) = {}
  BY <1>1 DEF Sigs
<1> QED BY <1>1, <1>2, <1>3 DEF b

(* SetFirstPacketStamp changes the first stamp only, and only while unset.  *)
LEMMA StampedFacts ==
    ASSUME NEW b \in BurstType, NEW x \in Packet
    PROVE  /\ Stamped(b, x) \in BurstType
           /\ Stamped(b, x).packetDetail = b.packetDetail
           /\ Stamped(b, x).uniPktNum = b.uniPktNum
           /\ Stamped(b, x).pktNum = b.pktNum
           /\ Stamped(b, x).lastPacketStamp = b.lastPacketStamp
           /\ Stamped(b, x).firstPacketStamp =
                IF b.firstPacketStamp.tv_sec = 0 THEN x.timestamp
                                                 ELSE b.firstPacketStamp
<1>1. x.timestamp \in Timespec
  BY DEF Packet
<1> QED BY <1>1 DEF BurstType, Stamped

(* SetLastPacketStamp changes the last stamp only.                          *)
LEMMA SetLastFacts ==
    ASSUME NEW b \in BurstType, NEW t \in Timespec
    PROVE  LET c == [b EXCEPT !.lastPacketStamp = t]
           IN  /\ c \in BurstType
               /\ c.packetDetail = b.packetDetail
               /\ c.uniPktNum = b.uniPktNum
               /\ c.pktNum = b.pktNum
               /\ c.lastPacketStamp = t
               /\ c.firstPacketStamp = b.firstPacketStamp
BY DEF BurstType

(* AddPacket adds the signature of the packet and sets the last stamp.      *)
LEMMA AddPacketFacts ==
    ASSUME NEW b, Exact(b), NEW x \in Packet, b.uniPktNum < BURST_MAX_UNISIG
    PROVE  /\ Exact(AddPacket(b, x))
           /\ Sigs(AddPacket(b, x)) = Sigs(b) \cup {x.signedLen}
           /\ AddPacket(b, x).pktNum = b.pktNum + 1
           /\ AddPacket(b, x).firstPacketStamp = b.firstPacketStamp
           /\ AddPacket(b, x).lastPacketStamp = x.timestamp
<1> DEFINE a == AddSig(b, x.signedLen)
           c == AddPacket(b, x)
<1>1. x.signedLen \in Sig /\ x.timestamp \in Timespec
  BY DEF Packet
<1>2. /\ Exact(a)
      /\ Sigs(a) = Sigs(b) \cup {x.signedLen}
      /\ a.pktNum = b.pktNum + 1
      /\ a.firstPacketStamp = b.firstPacketStamp
  BY <1>1, AddSigFacts
<1>3. c = [a EXCEPT !.lastPacketStamp = x.timestamp]
  BY DEF AddPacket
<1> HIDE DEF a, c
<1>4. a \in BurstType
  BY <1>2 DEF Exact
<1>5. /\ c \in BurstType
      /\ c.packetDetail = a.packetDetail
      /\ c.uniPktNum = a.uniPktNum
      /\ c.pktNum = a.pktNum
      /\ c.lastPacketStamp = x.timestamp
      /\ c.firstPacketStamp = a.firstPacketStamp
  BY <1>1, <1>3, <1>4, SetLastFacts
<1>6. Exact(c) /\ Sigs(c) = Sigs(a)
  BY <1>2, <1>5 DEF Exact, Sigs
<1> QED BY <1>2, <1>5, <1>6 DEF c

-----------------------------------------------------------------------------
(* Burst b is what the packets l .. h of p add up to.                       *)
Describes(b, p, l, h) ==
    /\ Exact(b)
    /\ b.pktNum = h - l + 1
    /\ Sigs(b) = {p[i].signedLen : i \in l .. h}
    /\ \A i \in l .. h - 1 :
          FloorDuration(p[i + 1].timestamp, p[i].timestamp) < BURST_MAX_INTERVAL

(* The packet that stamps the k-th burst when it starts at packet l, ...     *)
Stamper(k, l) == IF k = 1 THEN 1 ELSE l + 1

(* ... b has that packet's stamp as soon as there is such a packet, ...      *)
HasStamp(b, p, i) ==
    b.firstPacketStamp = IF i <= Len(p) THEN p[i].timestamp ELSE Zero

(* ... and the packets from it to h are within the maximal duration.        *)
Lasts(p, i, h) ==
    i <= h => FloorDuration(p[h].timestamp, p[i].timestamp) < BURST_MAX_DURATION

(* The inductive invariant: all that StrictToBursts relies on about the     *)
(* bursts it has closed and about the one it is filling.                    *)
Closed(k) ==
    /\ lo[k] < lo[k + 1]
    /\ Describes(burstVec[k], packetVec, lo[k], lo[k + 1] - 1)
    /\ HasStamp(burstVec[k], packetVec, Stamper(k, lo[k]))
    /\ Lasts(packetVec, Stamper(k, lo[k]), lo[k + 1] - 1)

Open(k) ==
    /\ Describes(burst, packetVec, lo[k], Len(packetVec))
    /\ HasStamp(burst, packetVec, Stamper(k, lo[k]))
    /\ Lasts(packetVec, Stamper(k, lo[k]), Len(packetVec))
    /\ packetVec # <<>> =>
          burst.lastPacketStamp = packetVec[Len(packetVec)].timestamp

Shape ==
    /\ packetVec \in Seq(Packets)
    /\ burstVec \in Seq(BurstType)
    /\ returned \in BOOLEAN
    /\ lo \in Seq(Nat \ {0})
    /\ Len(lo) = IF returned THEN Len(burstVec) ELSE Len(burstVec) + 1
    /\ Len(lo) > 0
    /\ lo[1] = 1
    /\ packetVec = <<>> => Len(lo) = 1 /\ ~returned
    /\ packetVec # <<>> => \A k \in 1 .. Len(lo) : lo[k] <= Len(packetVec)
    /\ returned => burstVec[Len(burstVec)] = burst

IInv ==
    /\ Shape
    /\ \A k \in 1 .. Len(lo) - 1 : Closed(k)
    /\ Open(Len(lo))

(* A closed burst is not affected by the packets read after it.              *)
LEMMA DescribesStable ==
    ASSUME NEW p \in Seq(Packet), NEW x \in Packet, NEW b,
           NEW l \in Nat \ {0}, NEW h \in Nat, h <= Len(p),
           Describes(b, p, l, h)
    PROVE  Describes(b, Append(p, x), l, h)
<1>1. \A i \in l .. h : Append(p, x)[i] = p[i]
  OBVIOUS
<1>2. \A i \in l .. h - 1 : i \in l .. h /\ i + 1 \in l .. h
  OBVIOUS
<1> QED BY <1>1, <1>2 DEF Describes

(* A packet that does not cut extends the burst it is added to.             *)
LEMMA DescribesExtend ==
    ASSUME NEW p \in Seq(Packet), NEW x \in Packet, NEW b,
           NEW l \in Nat \ {0}, l <= Len(p) + 1,
           Describes(b, p, l, Len(p)),
           b.uniPktNum < BURST_MAX_UNISIG,
           l <= Len(p) => FloorDuration(x.timestamp, p[Len(p)].timestamp)
                            < BURST_MAX_INTERVAL
    PROVE  Describes(AddPacket(b, x), Append(p, x), l, Len(p) + 1)
<1> DEFINE q == Append(p, x)
           n == Len(p)
           c == AddPacket(b, x)
<1>0. n \in Nat /\ b.pktNum \in Nat
  BY BurstFields DEF Describes, Exact
<1>1. \A i \in l .. n : q[i] = p[i]
  BY <1>0
<1>2. q[n + 1] = x
  BY <1>0
<1> HIDE DEF q, c
<1>3. /\ Exact(c)
      /\ Sigs(c) = Sigs(b) \cup {x.signedLen}
      /\ c.pktNum = b.pktNum + 1
  BY AddPacketFacts DEF Describes, c
<1>4. Sigs(c) = {q[i].signedLen : i \in l .. n + 1}
  <2>1. l .. n + 1 = (l .. n) \cup {n + 1}
    BY <1>0
  <2>2. {q[i].signedLen : i \in l .. n + 1} =
            {q[i].signedLen : i \in l .. n} \cup {q[n + 1].signedLen}
    BY <2>1
  <2>3. {q[i].signedLen : i \in l .. n} = Sigs(b)
    BY <1>1 DEF Describes
  <2> QED BY <1>2, <1>3, <2>2, <2>3
<1>5. ASSUME NEW i \in l .. n
      PROVE  FloorDuration(q[i + 1].timestamp, q[i].timestamp) < BURST_MAX_INTERVAL
  <2>1. CASE i = n
    BY <1>0, <1>1, <1>2, <2>1
  <2>2. CASE i # n
    <3>1. i \in l .. n - 1 /\ i + 1 \in l .. n
      BY <1>0, <2>2
    <3> QED BY <1>1, <3>1 DEF Describes
  <2> QED BY <2>1, <2>2
<1>6. c.pktNum = (n + 1) - l + 1
  BY <1>0, <1>3 DEF Describes
<1>7. (n + 1) - 1 = n
  BY <1>0
<1> QED BY <1>3, <1>4, <1>5, <1>6, <1>7 DEF Describes, c, q

-----------------------------------------------------------------------------
(* The invariant holds before the first packet.                             *)
LEMMA InitIInv == StrictInit => IInv
<1> SUFFICES ASSUME StrictInit PROVE IInv
  OBVIOUS
<1>1. /\ packetVec = <<>> /\ burstVec = <<>> /\ lo = <<1>> /\ returned = FALSE
      /\ burst = NewBurst(Label)
  BY DEF StrictInit
<1>2. Len(lo) = 1 /\ lo[1] = 1 /\ Len(packetVec) = 0 /\ Len(burstVec) = 0
  BY <1>1
<1>3. Shape
  <2>1. /\ packetVec \in Seq(Packets) /\ burstVec \in Seq(BurstType)
        /\ lo \in Seq(Nat \ {0}) /\ Len(lo) = Len(burstVec) + 1 /\ Len(lo) > 0
    BY <1>1, <1>2
  <2>2. returned \in BOOLEAN /\ ~returned
    BY <1>1
  <2> QED BY <1>1, <1>2, <2>1, <2>2 DEF Shape
<1>4. Describes(burst, packetVec, 1, 0)
  BY <1>1, NewBurstFacts DEF Describes
<1>5. Stamper(1, 1) = 1
  BY DEF Stamper
<1>6. HasStamp(burst, packetVec, 1)
  BY <1>1, <1>2, NewBurstFacts DEF HasStamp
<1>7. Lasts(packetVec, 1, 0)
  BY DEF Lasts
<1>8. Open(1)
  BY <1>1, <1>2, <1>4, <1>5, <1>6, <1>7 DEF Open
<1>9. \A k \in 1 .. Len(lo) - 1 : Closed(k)
  BY <1>2
<1> QED BY <1>2, <1>3, <1>8, <1>9 DEF IInv

(* The burst under construction once the packet x has stamped it.           *)
LEMMA StampedOpen ==
    ASSUME NEW x \in Packets, IInv
    PROVE  LET b == Stamped(burst, x)
               k == Len(lo)
           IN  /\ Describes(b, packetVec, lo[k], Len(packetVec))
               /\ HasStamp(b, Append(packetVec, x), Stamper(k, lo[k]))
               /\ b.lastPacketStamp = burst.lastPacketStamp
               /\ b \in BurstType
<1> DEFINE b == Stamped(burst, x)
           k == Len(lo)
           i == Stamper(k, lo[k])
           n == Len(packetVec)
<1>0. x \in Packet /\ packetVec \in Seq(Packet)
  BY PacketsAssumption DEF IInv, Shape
<1>1. /\ n \in Nat /\ k \in Nat /\ k > 0 /\ lo[k] \in Nat
      /\ i \in Nat /\ i > 0 /\ i <= n + 1
  <2>1. n \in Nat /\ k \in Nat /\ k > 0 /\ lo[k] \in Nat \ {0}
    BY DEF IInv, Shape
  <2>2. k = 1 \/ lo[k] <= n
    BY <2>1 DEF IInv, Shape
  <2> QED BY <2>1, <2>2 DEF Stamper
<1>2. burst \in BurstType /\ Exact(burst)
  BY DEF IInv, Open, Describes, Exact
<1>3. /\ b \in BurstType
      /\ b.packetDetail = burst.packetDetail
      /\ b.uniPktNum = burst.uniPktNum
      /\ b.pktNum = burst.pktNum
      /\ b.lastPacketStamp = burst.lastPacketStamp
      /\ b.firstPacketStamp = IF burst.firstPacketStamp.tv_sec = 0
                              THEN x.timestamp ELSE burst.firstPacketStamp
  BY <1>0, <1>2, StampedFacts
<1> HIDE DEF b, i, n, k
<1>4. Exact(b) /\ Sigs(b) = Sigs(burst)
  BY <1>2, <1>3 DEF Exact, Sigs
<1>5. Describes(burst, packetVec, lo[k], n) /\ HasStamp(burst, packetVec, i)
  BY DEF IInv, Open, k, i, n
<1>6. Describes(b, packetVec, lo[k], n)
  BY <1>3, <1>4, <1>5 DEF Describes
<1>7. HasStamp(b, Append(packetVec, x), i)
  <2>1. Len(Append(packetVec, x)) = n + 1
    BY <1>0 DEF n
  <2>2. CASE i <= n
    <3>1. burst.firstPacketStamp = packetVec[i].timestamp
      BY <1>5, <2>2 DEF HasStamp, n
    <3>2. packetVec[i].timestamp.tv_sec # 0
      <4>1. packetVec[i] \in Packet
        BY <1>0, <1>1, <2>2 DEF n
      <4> QED BY <4>1 DEF Packet, Timespec
    <3>3. Append(packetVec, x)[i] = packetVec[i]
      BY <1>0, <1>1, <2>2 DEF n
    <3> QED BY <1>1, <1>3, <2>1, <2>2, <3>1, <3>2, <3>3 DEF HasStamp
  <2>3. CASE i = n + 1
    <3>1. burst.firstPacketStamp = Zero
      BY <1>1, <1>5, <2>3 DEF HasStamp, n
    <3>2. Append(packetVec, x)[i] = x
      BY <1>0, <2>3 DEF n
    <3> QED BY <1>1, <1>3, <2>1, <2>3, <3>1, <3>2 DEF HasStamp, Zero
  <2> QED BY <1>1, <2>2, <2>3
<1> QED BY <1>3, <1>6, <1>7 DEF b, k, i, n

(* Every closed burst stays closed when a packet is read.                   *)
LEMMA ClosedStable ==
    ASSUME NEW p \in Seq(Packet), NEW x \in Packet, NEW b,
           NEW l \in Nat \ {0}, NEW h \in Nat, NEW i \in Nat \ {0},
           l <= h, h < Len(p), i <= h + 1,
           Describes(b, p, l, h), HasStamp(b, p, i), Lasts(p, i, h)
    PROVE  /\ Describes(b, Append(p, x), l, h)
           /\ HasStamp(b, Append(p, x), i)
           /\ Lasts(Append(p, x), i, h)
<1>1. Describes(b, Append(p, x), l, h)
  BY DescribesStable
<1>2. /\ i <= Len(p) /\ i <= Len(Append(p, x))
      /\ Append(p, x)[i] = p[i] /\ Append(p, x)[h] = p[h]
  OBVIOUS
<1> QED BY <1>1, <1>2 DEF HasStamp, Lasts

(* The first packet never cuts: the burst before it is still empty.         *)
LEMMA FirstNoCut ==
    ASSUME IInv, NEW x \in Packets, MustCut(Stamped(burst, x), x)
    PROVE  packetVec # <<>>
<1> SUFFICES ASSUME packetVec = <<>> PROVE FALSE
  OBVIOUS
<1> DEFINE b == Stamped(burst, x)
<1>1. Len(lo) = 1 /\ lo[1] = 1 /\ Len(packetVec) = 0
  BY DEF IInv, Shape
<1>2. Describes(b, packetVec, 1, 0)
  BY <1>1, StampedOpen
<1> HIDE DEF b
<1>3. b.pktNum = 0 /\ Sigs(b) = {} /\ Exact(b)
  BY <1>2 DEF Describes
<1>4. /\ b.packetDetail \in Seq(Detail) /\ Len(b.packetDetail) \in Nat
      /\ b.uniPktNum = Len(b.packetDetail)
  BY <1>3, BurstFields DEF Exact
<1>5. Len(b.packetDetail) = 0
  <2> SUFFICES ASSUME Len(b.packetDetail) # 0 PROVE FALSE
    OBVIOUS
  <2>1. 1 \in 1 .. Len(b.packetDetail)
    BY <1>4
  <2>2. b.packetDetail[1].sig \in Sigs(b)
    BY <2>1 DEF Sigs
  <2> QED BY <1>3, <2>2
<1>6. NearDiff(b, x) = 0 /\ FarDiff(b, x) = 0
  BY <1>3 DEF NearDiff, FarDiff
<1>7. MustCut(b, x)
  BY DEF b
<1>8. b.uniPktNum = 0
  BY <1>4, <1>5
<1>9. ~(0 >= BURST_MAX_UNISIG) /\ ~(0 >= BURST_MAX_INTERVAL) /\ ~(0 >= BURST_MAX_DURATION)
  BY UnisigAssumption, DivisionAssumption
<1> QED BY <1>6, <1>7, <1>8, <1>9 DEF MustCut

(* The bursts closed before stay closed, whatever the next packet does.     *)
LEMMA ClosedStep ==
    ASSUME IInv, ~returned, NEW x \in Packets, NEW j \in 1 .. Len(lo) - 1,
           packetVec' = Append(packetVec, x),
           lo'[j] = lo[j], lo'[j + 1] = lo[j + 1], burstVec'[j] = burstVec[j]
    PROVE  Closed(j)'
<1> DEFINE l == lo[j]
           h == lo[j + 1] - 1
           i == Stamper(j, l)
<1>0. x \in Packet /\ packetVec \in Seq(Packet) /\ packetVec # <<>>
  BY PacketsAssumption DEF IInv, Shape
<1>1. Closed(j)
  BY DEF IInv
<1>2. /\ l \in Nat \ {0} /\ lo[j + 1] \in Nat \ {0} /\ l < lo[j + 1]
      /\ lo[j + 1] <= Len(packetVec) /\ Len(packetVec) \in Nat
  BY <1>0, <1>1 DEF IInv, Shape, Closed
<1>3. h \in Nat /\ l <= h /\ h < Len(packetVec) /\ i \in Nat \ {0} /\ i <= h + 1
  BY <1>2 DEF Stamper
<1>4. /\ Describes(burstVec[j], packetVec, l, h)
      /\ HasStamp(burstVec[j], packetVec, i)
      /\ Lasts(packetVec, i, h)
  BY <1>1 DEF Closed
<1> HIDE DEF l, h, i
<1>5. /\ Describes(burstVec[j], packetVec', l, h)
      /\ HasStamp(burstVec[j], packetVec', i)
      /\ Lasts(packetVec', i, h)
  BY <1>0, <1>2, <1>3, <1>4, ClosedStable
<1> QED BY <1>2, <1>5 DEF Closed, l, h, i

(* A cut closes the burst under construction and opens one that holds       *)
(* exactly the packet read, without a first stamp.                          *)
LEMMA CutStep ==
    ASSUME IInv, ~returned, NEW x \in Packets,
           packetVec' = Append(packetVec, x),
           MustCut(Stamped(burst, x), x),
           burst' = AddPacket(NewBurst(Label), x),
           burstVec' = Append(burstVec, Stamped(burst, x)),
           lo' = Append(lo, Len(packetVec) + 1),
           returned' = returned
    PROVE  IInv'
<1> DEFINE b == Stamped(burst, x)
<1>a. PICK k \in Nat : k = Len(lo)
  BY DEF IInv, Shape
<1>b. PICK n \in Nat : n = Len(packetVec)
  BY DEF IInv, Shape
<1>0. x \in Packet /\ packetVec \in Seq(Packet) /\ packetVec' \in Seq(Packet)
  BY PacketsAssumption DEF IInv, Shape
<1>1. /\ k \in Nat \ {0} /\ k = Len(burstVec) + 1
      /\ lo \in Seq(Nat \ {0}) /\ lo[k] \in Nat \ {0}
      /\ burstVec \in Seq(BurstType)
  BY <1>a DEF IInv, Shape
<1>2. /\ Describes(b, packetVec, lo[k], n)
      /\ HasStamp(b, packetVec', Stamper(k, lo[k]))
      /\ b \in BurstType
  BY <1>a, <1>b, StampedOpen
<1>3. packetVec # <<>> /\ \A j \in 1 .. k : lo[j] <= n
  BY FirstNoCut, <1>a, <1>b DEF IInv, Shape
<1> HIDE DEF b
<1>5. /\ packetVec' # <<>> /\ Len(packetVec') = n + 1
      /\ packetVec'[n + 1] = x /\ packetVec' \in Seq(Packets)
      /\ \A i \in 1 .. n : packetVec'[i] = packetVec[i]
  BY <1>0, <1>b DEF IInv, Shape
<1>6. /\ Len(lo') = k + 1 /\ lo' \in Seq(Nat \ {0})
      /\ \A j \in 1 .. k : lo'[j] = lo[j]
      /\ lo'[k + 1] = n + 1
  BY <1>1, <1>a, <1>b
<1>7. /\ Len(burstVec') = k /\ burstVec' \in Seq(BurstType)
      /\ \A j \in 1 .. k - 1 : burstVec'[j] = burstVec[j]
      /\ burstVec'[k] = b
  BY <1>1, <1>2 DEF b
<1>8. Shape'
  <2>1. lo'[1] = 1
    BY <1>1, <1>6 DEF IInv, Shape
  <2>2. Len(lo') = Len(burstVec') + 1 /\ Len(lo') > 0
    BY <1>1, <1>6, <1>7
  <2>3. \A j \in 1 .. Len(lo') : lo'[j] <= Len(packetVec')
    <3>1. \A j \in 1 .. k + 1 : j \in 1 .. k \/ j = k + 1
      OBVIOUS
    <3>2. \A j \in 1 .. k : lo[j] \in Nat /\ lo[j] <= n + 1
      BY <1>1, <1>3, <1>a
    <3> QED BY <3>1, <3>2, <1>5, <1>6
  <2>4. returned' \in BOOLEAN /\ ~returned'
    BY DEF IInv, Shape
  <2> QED BY <1>5, <1>6, <1>7, <2>1, <2>2, <2>3, <2>4 DEF Shape
<1>9. ASSUME NEW j \in 1 .. k - 1
      PROVE  Closed(j)'
  <2>1. j \in 1 .. k /\ j + 1 \in 1 .. k
    BY <1>1
  <2>2. lo'[j] = lo[j] /\ lo'[j + 1] = lo[j + 1] /\ burstVec'[j] = burstVec[j]
    BY <1>6, <1>7, <2>1
  <2> QED BY <1>a, <2>2, ClosedStep
<1>10. Closed(k)'
  <2>1. lo'[k] = lo[k] /\ lo'[k + 1] - 1 = n /\ lo[k] < n + 1
    BY <1>1, <1>3, <1>6
  <2>2. Describes(b, packetVec', lo[k], n)
    <3>1. n <= Len(packetVec)
      BY <1>b
    <3> QED BY <1>0, <1>1, <1>2, <3>1, DescribesStable
  <2>3. Lasts(packetVec', Stamper(k, lo[k]), n)
    <3>1. Lasts(packetVec, Stamper(k, lo[k]), n)
      BY <1>a, <1>b DEF IInv, Open
    <3>2. Stamper(k, lo[k]) \in Nat \ {0}
      BY <1>1 DEF Stamper
    <3>3. CASE Stamper(k, lo[k]) <= n
      <4>1. Stamper(k, lo[k]) \in 1 .. n /\ n \in 1 .. n
        BY <3>2, <3>3
      <4> QED BY <3>1, <4>1, <1>5 DEF Lasts
    <3> QED BY <3>3 DEF Lasts
  <2> QED BY <1>2, <1>6, <1>7, <2>1, <2>2, <2>3 DEF Closed
<1>11. Open(k + 1)'
  <2> DEFINE c == AddPacket(NewBurst(Label), x)
  <2>1. /\ Exact(c) /\ Sigs(c) = {x.signedLen}
        /\ c.pktNum = 1
        /\ c.firstPacketStamp = Zero
        /\ c.lastPacketStamp = x.timestamp
    BY <1>0, NewBurstFacts, AddPacketFacts, UnisigAssumption
  <2> HIDE DEF c
  <2>2. burst' = c
    BY DEF c
  <2>3. Describes(c, packetVec', n + 1, n + 1)
    <3>1. (n + 1) .. (n + 1) = {n + 1} /\ (n + 1) .. (n + 1) - 1 = {}
      OBVIOUS
    <3>2. {packetVec'[i].signedLen : i \in (n + 1) .. (n + 1)} = {x.signedLen}
      BY <1>5, <3>1
    <3>3. c.pktNum = (n + 1) - (n + 1) + 1
      BY <2>1
    <3> QED BY <2>1, <3>1, <3>2, <3>3 DEF Describes
  <2>4. Stamper(k + 1, n + 1) = n + 2
    BY <1>1 DEF Stamper
  <2>5. HasStamp(c, packetVec', n + 2) /\ Lasts(packetVec', n + 2, n + 1)
    BY <1>5, <2>1 DEF HasStamp, Lasts
  <2> QED BY <1>5, <1>6, <2>1, <2>2, <2>3, <2>4, <2>5 DEF Open
<1>12. \A j \in 1 .. Len(lo') - 1 : j \in 1 .. k - 1 \/ j = k
  BY <1>1, <1>6
<1>13. (\A j \in 1 .. Len(lo) - 1 : Closed(j))'
  BY <1>9, <1>10, <1>12
<1>14. Open(Len(lo))'
  BY <1>6, <1>11
<1> QED
  BY <1>8, <1>13, <1>14 DEF IInv

(* Without a cut the packet joins the burst under construction.             *)
LEMMA NoCutStep ==
    ASSUME IInv, ~returned, NEW x \in Packets,
           packetVec' = Append(packetVec, x),
           ~MustCut(Stamped(burst, x), x),
           burst' = AddPacket(Stamped(burst, x), x),
           burstVec' = burstVec,
           lo' = lo,
           returned' = returned
    PROVE  IInv'
<1> DEFINE b == Stamped(burst, x)
<1>a. PICK k \in Nat : k = Len(lo)
  BY DEF IInv, Shape
<1>b. PICK n \in Nat : n = Len(packetVec)
  BY DEF IInv, Shape
<1>0. x \in Packet /\ packetVec \in Seq(Packet) /\ packetVec' \in Seq(Packet)
  BY PacketsAssumption DEF IInv, Shape
<1>1. /\ k \in Nat \ {0}
      /\ lo \in Seq(Nat \ {0}) /\ lo[k] \in Nat \ {0}
      /\ lo[k] <= n + 1 /\ (packetVec # <<>> => lo[k] <= n)
      /\ (packetVec = <<>> => n = 0 /\ k = 1 /\ lo[k] = 1)
  BY <1>a, <1>b DEF IInv, Shape
<1>2. /\ Describes(b, packetVec, lo[k], n)
      /\ HasStamp(b, packetVec', Stamper(k, lo[k]))
      /\ b.lastPacketStamp = burst.lastPacketStamp
      /\ b \in BurstType
  BY <1>a, <1>b, StampedOpen
<1> DEFINE i == Stamper(k, lo[k])
<1>3. i \in 1 .. n + 1
  BY <1>1, <1>b DEF Stamper
<1>4. /\ packetVec' # <<>> /\ Len(packetVec') = n + 1
      /\ packetVec'[n + 1] = x /\ packetVec' \in Seq(Packets)
  BY <1>0, <1>b DEF IInv, Shape
<1>5. ~MustCut(b, x) /\ burst' = AddPacket(b, x)
  OBVIOUS
<1> HIDE DEF b, i
<1>6. /\ b.uniPktNum < BURST_MAX_UNISIG
      /\ NearDiff(b, x) < BURST_MAX_INTERVAL
      /\ FarDiff(b, x) < BURST_MAX_DURATION
  <2>1. b.uniPktNum \in Nat /\ b.pktNum \in Nat
    BY <1>2, BurstFields DEF Exact
  <2>2. b.firstPacketStamp \in Timespec /\ b.lastPacketStamp \in Timespec
    BY <1>2, BurstFields
  <2>3. x.timestamp \in Timespec
    BY <1>0 DEF Packet
  <2>4. NearDiff(b, x) \in Int /\ FarDiff(b, x) \in Int
    BY <2>2, <2>3, FloorInt DEF NearDiff, FarDiff
  <2> QED BY <1>5, <2>1, <2>4, UnisigAssumption, DivisionAssumption DEF MustCut
<1>7. packetVec # <<>> => /\ b.pktNum > 0
                          /\ b.lastPacketStamp = packetVec[n].timestamp
  <2>1. b.pktNum = n - lo[k] + 1
    BY <1>2 DEF Describes
  <2>2. packetVec # <<>> => burst.lastPacketStamp = packetVec[n].timestamp
    BY <1>a, <1>b DEF IInv, Open
  <2> QED BY <1>1, <1>2, <2>1, <2>2
<1>8. Shape'
  <2>1. \A j \in 1 .. k : lo[j] <= n + 1
    <3>1. CASE packetVec = <<>>
      <4>1. \A j \in 1 .. k : j = 1
        BY <1>1, <3>1
      <4> QED BY <1>1, <3>1, <4>1
    <3>2. CASE packetVec # <<>>
      <4>1. \A j \in 1 .. k : lo[j] \in Nat /\ lo[j] <= n
        BY <1>1, <1>a, <1>b, <3>2 DEF IInv, Shape
      <4> QED BY <4>1
    <3> QED BY <3>1, <3>2
  <2> QED BY <1>4, <1>a, <2>1 DEF IInv, Shape
<1>9. ASSUME NEW j \in 1 .. k - 1
      PROVE  Closed(j)'
  BY <1>a, ClosedStep
<1>10. Open(k)'
  <2> DEFINE c == AddPacket(b, x)
  <2>1. Describes(c, packetVec', lo[k], n + 1)
    <3>1. lo[k] <= n => FloorDuration(x.timestamp, packetVec[n].timestamp)
                            < BURST_MAX_INTERVAL
      <4> SUFFICES ASSUME lo[k] <= n
                   PROVE  FloorDuration(x.timestamp, packetVec[n].timestamp)
                            < BURST_MAX_INTERVAL
        OBVIOUS
      <4>1. packetVec # <<>>
        BY <1>1, <1>b
      <4> QED BY <1>6, <1>7, <4>1 DEF NearDiff
    <3> QED BY <1>0, <1>1, <1>2, <1>6, <1>b, <3>1, DescribesExtend
  <2>2. c.firstPacketStamp = b.firstPacketStamp /\ c.lastPacketStamp = x.timestamp
    BY <1>0, <1>2, <1>6, AddPacketFacts DEF Describes
  <2> HIDE DEF c
  <2>3. HasStamp(c, packetVec', i)
    BY <1>2, <2>2 DEF HasStamp, i
  <2>4. Lasts(packetVec', i, n + 1)
    <3>1. b.firstPacketStamp = packetVec'[i].timestamp
      BY <1>2, <1>3, <1>4 DEF HasStamp, i
    <3>2. CASE packetVec # <<>>
      BY <1>4, <1>6, <1>7, <3>1, <3>2 DEF Lasts, FarDiff
    <3>3. CASE packetVec = <<>>
      <4>1. i = n + 1
        BY <1>1, <1>3, <3>3
      <4>2. x.timestamp \in Timespec
        BY <1>0 DEF Packet
      <4>3. FloorDuration(x.timestamp, x.timestamp) = 0
        BY <4>2 DEF FloorDuration, Timespec
      <4>4. 0 < BURST_MAX_DURATION
        BY DivisionAssumption
      <4> QED BY <1>4, <4>1, <4>3, <4>4 DEF Lasts
    <3> QED BY <3>2, <3>3
  <2>5. burst' = c /\ lo'[k] = lo[k]
    BY <1>5 DEF c
  <2> QED BY <1>4, <2>1, <2>2, <2>3, <2>4, <2>5 DEF Open, i
<1>11. Len(lo') = k
  BY <1>a
<1>12. (\A j \in 1 .. Len(lo) - 1 : Closed(j))'
  BY <1>9, <1>11
<1>13. Open(Len(lo))'
  BY <1>10, <1>11
<1> QED BY <1>8, <1>12, <1>13 DEF IInv

(* The final push_back closes the last burst.                               *)
LEMMA ReturnStep == IInv /\ Return => IInv'
<1> SUFFICES ASSUME IInv, Return PROVE IInv'
  OBVIOUS
<1>a. PICK k \in Nat : k = Len(lo)
  BY DEF IInv, Shape
<1>1. /\ packetVec' = packetVec /\ lo' = lo /\ burst' = burst
      /\ burstVec' = Append(burstVec, burst) /\ packetVec # <<>>
      /\ burstVec \in Seq(BurstType)
  BY DEF Return, IInv, Shape
<1>2. returned' /\ ~returned /\ returned' \in BOOLEAN
  BY DEF Return
<1>3. k = Len(burstVec) + 1 /\ k \in Nat \ {0}
  BY <1>a, <1>2 DEF IInv, Shape
<1>4. burst \in BurstType
  BY DEF IInv, Open, Describes, Exact
<1>5. /\ burstVec' \in Seq(BurstType) /\ Len(burstVec') = k
      /\ burstVec'[k] = burst
      /\ \A j \in 1 .. k - 1 : burstVec'[j] = burstVec[j]
  BY <1>1, <1>3, <1>4
<1>6. Shape'
  BY <1>1, <1>2, <1>3, <1>5, <1>a DEF IInv, Shape
<1>7. (\A j \in 1 .. Len(lo) - 1 : Closed(j))'
  BY <1>1, <1>5, <1>a DEF IInv, Closed
<1>8. Open(Len(lo))'
  BY <1>1 DEF IInv, Open
<1> QED BY <1>6, <1>7, <1>8 DEF IInv

(* One iteration of the loop is a cut or not.                               *)
LEMMA NextPacketStep ==
    ASSUME IInv, NEW x \in Packets, NextPacket(x)
    PROVE  IInv'
<1> DEFINE b == Stamped(burst, x)
<1>1. ~returned /\ returned' = returned /\ packetVec' = Append(packetVec, x)
  BY DEF NextPacket
<1>2. CASE MustCut(b, x)
  <2>1. burst' = AddPacket(NewBurst(Label), x) /\ burstVec' = Append(burstVec, b)
    BY <1>2 DEF NextPacket, StrictStep
  <2>2. burstVec' # burstVec
    <3>1. burstVec \in Seq(BurstType)
      BY DEF IInv, Shape
    <3>2. Len(burstVec') # Len(burstVec)
      BY <2>1, <3>1
    <3> QED BY <3>2
  <2>3. lo' = Append(lo, Len(packetVec) + 1)
    BY <2>2 DEF NextPacket
  <2> QED BY <1>1, <1>2, <2>1, <2>3, CutStep
<1>3. CASE ~MustCut(b, x)
  <2>1. burst' = AddPacket(b, x) /\ burstVec' = burstVec
    BY <1>3 DEF NextPacket, StrictStep
  <2>2. lo' = lo
    BY <2>1 DEF NextPacket
  <2> QED BY <1>1, <1>3, <2>1, <2>2, NoCutStep
<1> QED BY <1>2, <1>3

(* The invariant reads nothing but the variables of the specification.      *)
LEMMA StutterStep == IInv /\ UNCHANGED strictVars => IInv'
<1> SUFFICES ASSUME IInv, UNCHANGED strictVars PROVE IInv'
  OBVIOUS
<1>1. /\ packetVec' = packetVec /\ lo' = lo /\ burst' = burst
      /\ burstVec' = burstVec /\ returned' = returned
  BY DEF strictVars
<1>2. Shape'
  BY <1>1 DEF IInv, Shape
<1>3. (\A j \in 1 .. Len(lo) - 1 : Closed(j))'
  BY <1>1 DEF IInv, Closed
<1>4. Open(Len(lo))'
  BY <1>1 DEF IInv, Open
<1> QED BY <1>2, <1>3, <1>4 DEF IInv

(* The invariant is inductive: StrictToBursts keeps it packet by packet.    *)
THEOREM Inductive == StrictSpec => []IInv
<1>1. IInv /\ [StrictNext]_strictVars => IInv'
  <2> SUFFICES ASSUME IInv, [StrictNext]_strictVars PROVE IInv'
    OBVIOUS
  <2>1. CASE \E x \in Packets : NextPacket(x)
    BY <2>1, NextPacketStep
  <2>2. CASE Return
    BY <2>2, ReturnStep
  <2>3. CASE StrictTerminating
    BY <2>3, StutterStep DEF StrictTerminating
  <2>4. CASE UNCHANGED strictVars
    BY <2>4, StutterStep
  <2> QED BY <2>1, <2>2, <2>3, <2>4 DEF StrictNext
<1> QED BY <1>1, InitIInv, PTL DEF StrictSpec

-----------------------------------------------------------------------------
(* What the invariant says of the k-th burst, closed or not.                *)
LEMMA BurstAt ==
    ASSUME IInv, NEW k \in 1 .. Len(lo)
    PROVE  /\ Len(Bursts) = Len(lo)
           /\ Bursts[k] \in BurstType
           /\ lo[k] \in Nat \ {0} /\ Hi(k) \in Nat /\ Hi(k) <= Len(packetVec)
           /\ packetVec # <<>> => lo[k] <= Hi(k)
           /\ Describes(Bursts[k], packetVec, lo[k], Hi(k))
           /\ HasStamp(Bursts[k], packetVec, Stamper(k, lo[k]))
           /\ Lasts(packetVec, Stamper(k, lo[k]), Hi(k))
<1>0. /\ packetVec \in Seq(Packets) /\ Len(packetVec) \in Nat
      /\ burstVec \in Seq(BurstType) /\ lo \in Seq(Nat \ {0})
      /\ Len(lo) \in Nat \ {0} /\ lo[k] \in Nat \ {0}
      /\ Len(burstVec) \in Nat
  BY DEF IInv, Shape
<1>1. burst \in BurstType
  BY DEF IInv, Open, Describes, Exact
<1>2. /\ Len(Bursts) = Len(lo) /\ Bursts[Len(lo)] = burst
      /\ \A j \in 1 .. Len(lo) - 1 : Bursts[j] = burstVec[j]
  <2>1. CASE returned
    <3>1. Bursts = burstVec /\ Len(lo) = Len(burstVec) /\ burstVec[Len(burstVec)] = burst
      BY <2>1 DEF Bursts, IInv, Shape
    <3> QED BY <1>0, <3>1
  <2>2. CASE ~returned
    <3>1. Bursts = Append(burstVec, burst) /\ Len(lo) = Len(burstVec) + 1
      BY <2>2 DEF Bursts, IInv, Shape
    <3> QED BY <1>0, <1>1, <3>1
  <2> QED BY <2>1, <2>2
<1>3. CASE k = Len(lo)
  <2>1. Hi(k) = Len(packetVec) /\ Bursts[k] = burst
    BY <1>0, <1>2, <1>3 DEF Hi
  <2>2. packetVec # <<>> => lo[k] <= Len(packetVec)
    BY DEF IInv, Shape
  <2>3. Open(k)
    BY <1>3 DEF IInv
  <2> QED BY <1>0, <1>1, <1>2, <2>1, <2>2, <2>3 DEF Open
<1>4. CASE k # Len(lo)
  <2>1. k \in 1 .. Len(lo) - 1 /\ k + 1 \in 1 .. Len(lo)
    BY <1>0, <1>4
  <2>2. Hi(k) = lo[k + 1] - 1 /\ Bursts[k] = burstVec[k]
    BY <1>0, <1>2, <2>1 DEF Hi
  <2>3. Closed(k)
    BY <2>1 DEF IInv
  <2>4. packetVec # <<>>
    BY <1>0, <2>1 DEF IInv, Shape
  <2>5. lo[k + 1] \in Nat \ {0} /\ lo[k + 1] <= Len(packetVec) /\ lo[k] < lo[k + 1]
    BY <1>0, <2>1, <2>3, <2>4 DEF IInv, Shape, Closed
  <2>6. Bursts[k] \in BurstType
    BY <2>2, <2>3 DEF Closed, Describes, Exact
  <2>7. Hi(k) \in Nat /\ Hi(k) <= Len(packetVec) /\ lo[k] <= Hi(k)
    <3>1. PICK l \in Nat \ {0}, m \in Nat \ {0} : l = lo[k] /\ m = lo[k + 1]
      BY <1>0, <2>5
    <3>2. Hi(k) = m - 1 /\ m <= Len(packetVec) /\ l < m
      BY <2>2, <2>5, <3>1
    <3>3. Len(packetVec) \in Nat
      BY <1>0
    <3> QED BY <3>1, <3>2, <3>3
  <2> QED BY <1>0, <1>2, <2>2, <2>3, <2>6, <2>7 DEF Closed
<1> QED BY <1>3, <1>4

(* The invariant implies the types,                                         *)
LEMMA IInvTypeOK == IInv => TypeOK
<1> SUFFICES ASSUME IInv PROVE TypeOK
  OBVIOUS
<1>1. burst \in BurstType
  BY DEF IInv, Open, Describes, Exact
<1> QED BY <1>1 DEF IInv, Shape, TypeOK

(* that the bursts tile the packet vector,                                  *)
LEMMA IInvTiling == IInv => Tiling
<1> SUFFICES ASSUME IInv PROVE Tiling
  OBVIOUS
<1>1. Len(lo) \in Nat \ {0} /\ lo[1] = 1
  BY DEF IInv, Shape
<1>2. Len(lo) = Len(Bursts)
  BY <1>1, BurstAt
<1>3. ASSUME NEW k \in 1 .. Len(lo)
      PROVE  /\ packetVec # <<>> => lo[k] <= Hi(k)
             /\ Bursts[k].pktNum = Hi(k) - lo[k] + 1
  BY BurstAt DEF Describes
<1> QED BY <1>1, <1>2, <1>3 DEF Tiling

(* that packetDetail is the exact set of signatures,                        *)
LEMMA IInvUniqueSigs == IInv => UniqueSigs
<1> SUFFICES ASSUME IInv, NEW k \in 1 .. Len(lo)
             PROVE  LET b == Bursts[k]
                    IN  /\ b.uniPktNum = Len(b.packetDetail)
                        /\ b.uniPktNum <= BURST_MAX_UNISIG
                        /\ \A i, j \in 1 .. Len(b.packetDetail) :
                              b.packetDetail[i].sig = b.packetDetail[j].sig => i = j
                        /\ \A i \in lo[k] .. Hi(k) :
                              \E j \in 1 .. Len(b.packetDetail) :
                                b.packetDetail[j].sig = packetVec[i].signedLen
                        /\ \A j \in 1 .. Len(b.packetDetail) :
                              \E i \in lo[k] .. Hi(k) :
                                b.packetDetail[j].sig = packetVec[i].signedLen
  BY DEF UniqueSigs
<1>1. Exact(Bursts[k])
  BY BurstAt DEF Describes
<1>2. Sigs(Bursts[k]) = {packetVec[i].signedLen : i \in lo[k] .. Hi(k)}
  BY BurstAt DEF Describes
<1>3. \A i \in lo[k] .. Hi(k) : packetVec[i].signedLen \in Sigs(Bursts[k])
  BY <1>2
<1>4. \A j \in 1 .. Len(Bursts[k].packetDetail) :
        Bursts[k].packetDetail[j].sig \in {packetVec[i].signedLen : i \in lo[k] .. Hi(k)}
  BY <1>2 DEF Sigs
<1> QED BY <1>1, <1>3, <1>4 DEF Exact, Sigs

(* that no gap is inside a burst,                                           *)
LEMMA IInvIntervalBound == IInv => IntervalBound
<1> SUFFICES ASSUME IInv, NEW k \in 1 .. Len(lo), NEW i \in lo[k] .. Hi(k) - 1
             PROVE  FloorDuration(Stamp(i + 1), Stamp(i)) < BURST_MAX_INTERVAL
  BY DEF IntervalBound
<1>1. Describes(Bursts[k], packetVec, lo[k], Hi(k))
  BY BurstAt
<1> QED BY <1>1 DEF Describes, Stamp

(* and which packet stamped each burst.                                     *)
LEMMA IInvStampLag == IInv => StampLag
<1> SUFFICES ASSUME IInv, NEW k \in 1 .. Len(lo)
             PROVE  LET i == IF k = 1 THEN 1 ELSE lo[k] + 1
                    IN  Bursts[k].firstPacketStamp =
                            IF i <= Len(packetVec) THEN Stamp(i) ELSE Zero
  BY DEF StampLag
<1>1. HasStamp(Bursts[k], packetVec, Stamper(k, lo[k]))
  BY BurstAt
<1> QED BY <1>1 DEF HasStamp, Stamper, Stamp

(* The interval bound covers the step from the first packet to the second,  *)
(* which stamps the burst; the duration bound covers the rest.              *)
LEMMA IInvDurationSlack == IInv => DurationSlack
<1> SUFFICES ASSUME IInv, NEW k \in 1 .. Len(lo), packetVec # <<>>
             PROVE  FloorDuration(Stamp(Hi(k)), Stamp(lo[k])) <
                        BURST_MAX_DURATION + (IF k = 1 THEN 0 ELSE BURST_MAX_INTERVAL)
  BY DEF DurationSlack
<1> DEFINE l == lo[k]
           h == Hi(k)
<1>1. /\ l \in Nat \ {0} /\ h \in Nat /\ h <= Len(packetVec) /\ l <= h
      /\ Lasts(packetVec, Stamper(k, l), h)
      /\ Describes(Bursts[k], packetVec, l, h)
  BY BurstAt
<1>2. k = 1 => l = 1
  BY DEF IInv, Shape
<1>3. \A i \in l .. h : Stamp(i) \in Timespec
  <2>1. packetVec \in Seq(Packet) /\ Len(packetVec) \in Nat
    BY PacketsAssumption DEF IInv, Shape
  <2>2. \A i \in l .. h : packetVec[i] \in Packet
    BY <1>1, <2>1
  <2> QED BY <2>2 DEF Packet, Stamp
<1>4. l \in l .. h /\ h \in l .. h
  BY <1>1
<1> HIDE DEF h, l
<1>5. CASE k = 1
  <2>1. Lasts(packetVec, l, h)
    BY <1>1, <1>2, <1>5 DEF Stamper
  <2> QED BY <1>1, <1>5, <2>1, DivisionAssumption DEF Lasts, Stamp, h, l
<1>6. CASE k # 1 /\ l = h
  <2>1. FloorDuration(Stamp(h), Stamp(l)) = 0
    BY <1>3, <1>4, <1>6 DEF FloorDuration, Timespec
  <2> QED BY <1>6, <2>1, DivisionAssumption DEF h, l
<1>7. CASE k # 1 /\ l < h
  <2>1. l + 1 \in l .. h /\ l \in l .. h - 1 /\ l + 1 <= h
    BY <1>1, <1>7
  <2>2. FloorDuration(Stamp(h), Stamp(l + 1)) < BURST_MAX_DURATION
    BY <1>1, <1>7, <2>1 DEF Lasts, Stamper, Stamp
  <2>3. FloorDuration(Stamp(l + 1), Stamp(l)) < BURST_MAX_INTERVAL
    BY <1>1, <2>1 DEF Describes, Stamp
  <2>4. FloorDuration(Stamp(h), Stamp(l)) <=
          FloorDuration(Stamp(h), Stamp(l + 1)) + FloorDuration(Stamp(l + 1), Stamp(l)) + 1
    BY <1>3, <1>4, <2>1, FloorTriangle
  <2>5. /\ FloorDuration(Stamp(h), Stamp(l)) \in Int
        /\ FloorDuration(Stamp(h), Stamp(l + 1)) \in Int
        /\ FloorDuration(Stamp(l + 1), Stamp(l)) \in Int
    BY <1>3, <1>4, <2>1, FloorInt
  <2>6. FloorDuration(Stamp(h), Stamp(l)) < BURST_MAX_DURATION + BURST_MAX_INTERVAL
    BY <2>2, <2>3, <2>4, <2>5, DivisionAssumption
  <2> QED BY <1>7, <2>6 DEF h, l
<1> QED BY <1>1, <1>5, <1>6, <1>7

-----------------------------------------------------------------------------
(* Every state of StrictToBursts is well typed; in particular the counts of *)
(* packetDetail never go below zero and the uint8_t uniPktNum stays in its  *)
(* range.                                                                   *)
THEOREM TypeCorrect == StrictSpec => []TypeOK
BY Inductive, IInvTypeOK, PTL

(* StrictToBursts divides every time-sorted packet vector into consecutive, *)
(* non-empty bursts that together hold each packet exactly once.            *)
THEOREM TilingCorrect == StrictSpec => []Tiling
BY Inductive, IInvTiling, PTL

(* Whatever the packets, packetDetail is the exact set of the signed        *)
(* lengths of the burst, without duplicates, at most BURST_MAX_UNISIG long, *)
(* and the uint8_t uniPktNum that AddSig increments has not wrapped.        *)
THEOREM UniqueSigsCorrect == StrictSpec => []UniqueSigs
BY Inductive, IInvUniqueSigs, PTL

(* No burst that StrictToBursts makes spans a gap of BURST_MAX_INTERVAL.    *)
THEOREM IntervalBoundCorrect == StrictSpec => []IntervalBound
BY Inductive, IInvIntervalBound, PTL

(* firstPacketStamp is exactly the stamp of the packet after the cut, for   *)
(* every burst but the first.                                               *)
THEOREM StampLagCorrect == StrictSpec => []StampLag
BY Inductive, IInvStampLag, PTL

(* A burst lasts less than BURST_MAX_DURATION if it is the first, and less  *)
(* than BURST_MAX_DURATION + BURST_MAX_INTERVAL otherwise.                  *)
THEOREM DurationSlackCorrect == StrictSpec => []DurationSlack
BY Inductive, IInvDurationSlack, PTL

-----------------------------------------------------------------------------
(* Folds, sums and joined sequences *)

(* A nonempty set of naturals has a least element.                          *)
LEMMA LeastOfNaturals ==
    ASSUME NEW S, S \subseteq Nat, S # {}
    PROVE  \E m \in S : \A n \in S : m <= n
  <1> DEFINE R == {p \in Nat \X Nat : p[1] < p[2]}
  <1>1. IsWellFoundedOn(R, Nat)
    BY NatLessThanWellFounded DEF OpToRel
  <1>2. PICK m \in S : \A n \in S : <<n, m>> \notin R
    <2> HIDE DEF R
    <2> QED BY <1>1, WFMin
  <1>3. ASSUME NEW n \in S PROVE m <= n
    <2>1. m \in Nat /\ n \in Nat
      OBVIOUS
    <2>2. ~(n < m)
      BY <1>2, <2>1
    <2> QED BY <2>1, <2>2
  <1> QED BY <1>3

(* What holds of 0 and passes from a number to the next up to n holds up to *)
(* n.                                                                       *)
LEMMA UpTo ==
    ASSUME NEW n \in Nat, NEW S, 0 \in S,
           \A k \in 1 .. n : k - 1 \in S => k \in S
    PROVE  0 .. n \subseteq S
  <1> SUFFICES ASSUME (0 .. n) \ S # {} PROVE FALSE
    OBVIOUS
  <1>1. PICK m \in (0 .. n) \ S : \A k \in (0 .. n) \ S : m <= k
    <2>1. (0 .. n) \ S \subseteq Nat
      OBVIOUS
    <2> QED BY <2>1, LeastOfNaturals
  <1>2. m # 0 /\ m \in Nat /\ m <= n
    OBVIOUS
  <1>3. m - 1 \in 0 .. n /\ m \in 1 .. n /\ ~(m <= m - 1)
    BY <1>2
  <1>4. m - 1 \in S
    BY <1>1, <1>3
  <1> QED BY <1>1, <1>3, <1>4

(* The largest of the first k numbers.                                      *)
LEMMA MaxUpTo ==
    ASSUME NEW k \in Nat \ {0}
    PROVE  Max(1 .. k) = k /\ (1 .. k) \ {Max(1 .. k)} = 1 .. k - 1 /\ 1 .. k # {}
  <1>1. \A x \in 1 .. k : (\A y \in 1 .. k : x >= y) => x = k
    <2> SUFFICES ASSUME NEW x \in 1 .. k, \A y \in 1 .. k : x >= y PROVE x = k
      OBVIOUS
    <2>1. k \in 1 .. k
      OBVIOUS
    <2> QED BY <2>1
  <1>2. k \in 1 .. k /\ \A y \in 1 .. k : k >= y
    OBVIOUS
  <1>3. Max(1 .. k) = k
    BY <1>1, <1>2 DEF Max
  <1> QED BY <1>2, <1>3

(* The largest member of a set of numbers up to k.                          *)
LEMMA MaxOfSome ==
    ASSUME NEW k \in Nat, NEW s \in SUBSET (1 .. k), s # {}
    PROVE  Max(s) \in s /\ \A y \in s : Max(s) >= y
  <1> DEFINE Above == {k - y : y \in s}
  <1>1. Above \subseteq Nat /\ Above # {}
    <2>1. \A y \in s : k - y \in Nat
      OBVIOUS
    <2> QED BY <2>1
  <1>2. PICK m \in Above : \A n \in Above : m <= n
    <2> HIDE DEF Above
    <2> QED BY <1>1, LeastOfNaturals
  <1>3. PICK x \in s : m = k - x
    OBVIOUS
  <1>4. \A y \in s : x >= y
    <2> SUFFICES ASSUME NEW y \in s PROVE x >= y
      OBVIOUS
    <2>1. k - x <= k - y
      BY <1>2, <1>3
    <2> QED BY <2>1
  <1> QED BY <1>3, <1>4 DEF Max

(* FoldLeft adds the largest index last: a function from the sets of        *)
(* indices that does this by step, where step keeps to the set S.           *)
Folds(f, n, base, step) ==
    \A s \in SUBSET (1 .. n) : f[s] = IF s = {} THEN base ELSE step[Max(s)][f[s \ {Max(s)}]]

(* A function follows the fold's recursion, whatever its steps are.         *)
LEMMA FoldExists ==
    ASSUME NEW n \in Nat, NEW S, NEW base \in S, NEW step,
           \A k \in 1 .. n : \A a \in S : step[k][a] \in S
    PROVE  \E f \in [SUBSET (1 .. n) -> S] : Folds(f, n, base, step)
  <1> DEFINE Upto(m) == \E f \in [SUBSET (1 .. m) -> S] : Folds(f, m, base, step)
             Good == {m \in 0 .. n : Upto(m)}
  <1>1. 0 \in Good
    <2>1. PICK f : f = [s \in SUBSET (1 .. 0) |-> base]
      OBVIOUS
    <2>2. \A s \in SUBSET (1 .. 0) : s = {}
      OBVIOUS
    <2>3. f \in [SUBSET (1 .. 0) -> S] /\ \A s \in SUBSET (1 .. 0) : f[s] = base
      BY <2>1
    <2>4. Folds(f, 0, base, step)
      BY <2>2, <2>3 DEF Folds
    <2> QED BY <2>3, <2>4
  <1>2. ASSUME NEW m \in 1 .. n, m - 1 \in Good PROVE m \in Good
    <2>1. PICK f \in [SUBSET (1 .. m - 1) -> S] : Folds(f, m - 1, base, step)
      BY <1>2
    <2>2. PICK h : h = [s \in SUBSET (1 .. m) |->
                           IF m \in s THEN step[m][f[s \ {m}]] ELSE f[s]]
      OBVIOUS
    <2>3. ASSUME NEW s \in SUBSET (1 .. m)
          PROVE  /\ m \in s => s \ {m} \in SUBSET (1 .. m - 1) /\ h[s] = step[m][f[s \ {m}]]
                 /\ m \notin s => s \in SUBSET (1 .. m - 1) /\ h[s] = f[s]
      <3>1. \A x \in s : x # m => x \in 1 .. m - 1
        OBVIOUS
      <3>2. h[s] = IF m \in s THEN step[m][f[s \ {m}]] ELSE f[s]
        BY <2>2
      <3> QED BY <3>1, <3>2
    <2>4. h \in [SUBSET (1 .. m) -> S]
      <3>1. ASSUME NEW s \in SUBSET (1 .. m) PROVE h[s] \in S
        <4>1. CASE m \in s
          <5>1. f[s \ {m}] \in S
            BY <2>1, <2>3, <4>1
          <5> QED BY <2>3, <4>1, <5>1
        <4>2. CASE m \notin s
          BY <2>1, <2>3, <4>2
        <4> QED BY <4>1, <4>2
      <3> QED BY <2>2, <3>1
    <2>5. ASSUME NEW s \in SUBSET (1 .. m), s # {}
          PROVE  h[s] = step[Max(s)][h[s \ {Max(s)}]]
      <3>1. Max(s) \in s /\ \A y \in s : Max(s) >= y
        <4>1. m \in Nat
          OBVIOUS
        <4> QED BY <2>5, <4>1, MaxOfSome
      <3>2. PICK x \in s : x = Max(s)
        BY <3>1
      <3>3. s \ {x} \in SUBSET (1 .. m)
        OBVIOUS
      <3>4. CASE m \in s
        <4>1. x = m
          BY <3>1, <3>2, <3>4
        <4>2. m \notin s \ {m} /\ h[s \ {m}] = f[s \ {m}]
          BY <2>3, <3>3, <4>1
        <4> QED BY <2>3, <3>2, <3>4, <4>1, <4>2
      <3>5. CASE m \notin s
        <4>1. s \in SUBSET (1 .. m - 1) /\ h[s] = f[s]
          BY <2>3, <3>5
        <4>2. h[s \ {x}] = f[s \ {x}]
          BY <2>3, <3>3, <3>5
        <4>3. f[s] = step[x][f[s \ {x}]]
          BY <2>1, <2>5, <3>2, <4>1 DEF Folds
        <4> QED BY <3>2, <4>1, <4>2, <4>3
      <3> QED BY <3>4, <3>5
    <2>6. h[{}] = base
      <3>1. {} \in SUBSET (1 .. m) /\ {} \in SUBSET (1 .. m - 1) /\ m \notin {}
        OBVIOUS
      <3>2. h[{}] = f[{}]
        BY <2>3, <3>1
      <3> QED BY <2>1, <3>1, <3>2 DEF Folds
    <2>7. Folds(h, m, base, step)
      BY <2>5, <2>6 DEF Folds
    <2>8. m \in 0 .. n
      OBVIOUS
    <2> QED BY <2>4, <2>7, <2>8
  <1>3. Upto(n)
    <2>1. n \in 0 .. n
      OBVIOUS
    <2>2. 0 .. n \subseteq Good
      <3> HIDE DEF Good
      <3> QED BY <1>1, <1>2, UpTo
    <2> HIDE DEF Upto
    <2> QED BY <2>1, <2>2
  <1> QED BY <1>3

(* The first k indices, as FoldLeft comes to them.                          *)
LEMMA FirstIndices ==
    ASSUME NEW n \in Nat, NEW k \in 1 .. n
    PROVE  /\ 1 .. k \in SUBSET (1 .. n) /\ 1 .. k # {}
           /\ Max(1 .. k) = k /\ (1 .. k) \ {Max(1 .. k)} = 1 .. k - 1
           /\ k \in 0 .. n /\ k - 1 \in 0 .. n
  <1>1. k \in Nat \ {0} /\ k \in 0 .. n /\ k - 1 \in 0 .. n
    OBVIOUS
  <1>2. \A i \in 1 .. k : i \in 1 .. n
    OBVIOUS
  <1> QED BY <1>1, <1>2, MaxUpTo

(* A sum of numbers, and each partial sum, is a number.                     *)
Sums(h, v, n) == h[0] = 0 /\ \A k \in 1 .. n : h[k] = h[k - 1] + v[k]

(* The total is the last of the partial sums.                               *)
LEMMA TotalFacts ==
    ASSUME NEW v \in Seq(Nat)
    PROVE  \E h \in [0 .. Len(v) -> Nat] : h[Len(v)] = Total(v) /\ Sums(h, v, Len(v))
  <1>1. PICK n \in Nat : n = Len(v) /\ DOMAIN v = 1 .. n
    OBVIOUS
  <1> DEFINE Is(f) == f = [s \in SUBSET DOMAIN v |->
                              IF s = {} THEN 0 ELSE f[s \ {Max(s)}] + v[Max(s)]]
  <1>2. Total(v) = (CHOOSE f : Is(f))[DOMAIN v]
    BY Zenon DEF Total, FoldLeft, MapThenFoldSet
  <1>3. PICK step : step = [k \in 1 .. n |-> [a \in Nat |-> a + v[k]]]
    OBVIOUS
  <1>4. ASSUME NEW k \in 1 .. n, NEW a \in Nat PROVE step[k][a] = a + v[k] /\ step[k][a] \in Nat
    <2>1. PICK b \in Nat : b = v[k]
      BY <1>1
    <2>2. step[k] = [x \in Nat |-> x + b]
      BY <1>3, <2>1
    <2>3. step[k][a] = a + b
      BY <2>2
    <2> QED BY <2>1, <2>3
  <1>5. ASSUME NEW f \in [SUBSET (1 .. n) -> Nat], NEW s \in SUBSET (1 .. n), s # {}
        PROVE  step[Max(s)][f[s \ {Max(s)}]] = f[s \ {Max(s)}] + v[Max(s)]
    <2>1. Max(s) \in 1 .. n
      BY <1>5, MaxOfSome
    <2>2. f[s \ {Max(s)}] \in Nat
      OBVIOUS
    <2> QED BY <1>4, <2>1, <2>2
  <1>6. \E f \in [SUBSET (1 .. n) -> Nat] : Is(f)
    <2>1. \A k \in 1 .. n : \A a \in Nat : step[k][a] \in Nat
      BY <1>4
    <2>2. PICK f \in [SUBSET (1 .. n) -> Nat] : Folds(f, n, 0, step)
      BY <2>1, FoldExists
    <2>3. \A s \in SUBSET (1 .. n) : f[s] = IF s = {} THEN 0 ELSE f[s \ {Max(s)}] + v[Max(s)]
      BY <1>5, <2>2 DEF Folds
    <2>4. f = [s \in SUBSET DOMAIN v |-> f[s]]
      BY <1>1
    <2>5. f = [s \in SUBSET DOMAIN v |-> IF s = {} THEN 0 ELSE f[s \ {Max(s)}] + v[Max(s)]]
      BY <1>1, <2>3, <2>4
    <2> QED BY <2>5
  <1>7. PICK g : Is(g) /\ Total(v) = g[1 .. n]
    <2> DEFINE chosen == CHOOSE f : Is(f)
    <2>1. Is(chosen)
      <3> HIDE DEF Is
      <3> QED BY <1>6
    <2>2. Total(v) = chosen[1 .. n]
      BY <1>1, <1>2
    <2> HIDE DEF chosen
    <2> QED BY <2>1, <2>2
  <1>8. PICK h : h = [k \in 0 .. n |-> g[1 .. k]]
    OBVIOUS
  <1>9. h[0] = 0 /\ h[n] = Total(v)
    <2>1. 0 \in 0 .. n /\ n \in 0 .. n /\ 1 .. 0 = {} /\ {} \in SUBSET DOMAIN v
      OBVIOUS
    <2>2. g[{}] = 0
      BY <1>7, <2>1
    <2> QED BY <1>7, <1>8, <2>1, <2>2
  <1>10. ASSUME NEW k \in 1 .. n PROVE h[k] = h[k - 1] + v[k]
    <2>1. /\ 1 .. k \in SUBSET DOMAIN v /\ 1 .. k # {}
          /\ Max(1 .. k) = k /\ (1 .. k) \ {Max(1 .. k)} = 1 .. k - 1
          /\ k \in 0 .. n /\ k - 1 \in 0 .. n
      BY <1>1, FirstIndices
    <2>2. g[1 .. k] = g[1 .. k - 1] + v[k]
      BY <1>7, <2>1
    <2> QED BY <1>8, <2>1, <2>2
  <1>11. h \in [0 .. n -> Nat]
    <2> DEFINE In == {k \in 0 .. n : h[k] \in Nat}
    <2>1. 0 \in In
      BY <1>9
    <2>2. ASSUME NEW k \in 1 .. n, k - 1 \in In PROVE k \in In
      <3>1. v[k] \in Nat /\ h[k - 1] \in Nat /\ k \in 0 .. n
        BY <1>1, <2>2
      <3> QED BY <1>10, <3>1
    <2>3. 0 .. n \subseteq In
      <3> HIDE DEF In
      <3> QED BY <2>1, <2>2, UpTo
    <2> QED BY <1>8, <2>3
  <1> QED BY <1>1, <1>9, <1>10, <1>11 DEF Sums

(* Equal numbers have equal partial sums.                                   *)
Agree(v, w, m) == \A k \in 1 .. m : v[k] = w[k]

(* Partial sums of the same numbers are the same.                           *)
LEMMA SumsAgree ==
    ASSUME NEW n \in Nat, NEW v, NEW w, NEW g, NEW h, Sums(g, v, n), Sums(h, w, n),
           Agree(v, w, n)
    PROVE  g[n] = h[n]
  <1> DEFINE In == {k \in 0 .. n : g[k] = h[k]}
  <1>1. 0 \in In
    BY DEF Sums
  <1>2. ASSUME NEW k \in 1 .. n, k - 1 \in In PROVE k \in In
    <2>1. k \in 0 .. n /\ v[k] = w[k] /\ g[k - 1] = h[k - 1]
      BY <1>2 DEF Agree
    <2>2. g[k] = g[k - 1] + v[k] /\ h[k] = h[k - 1] + w[k]
      BY <2>1 DEF Sums
    <2> QED BY <2>1, <2>2
  <1>3. 0 .. n \subseteq In
    <2> HIDE DEF In
    <2> QED BY <1>1, <1>2, UpTo
  <1>4. n \in 0 .. n
    OBVIOUS
  <1> QED BY <1>3, <1>4

(* The sum is the one that partial sums lead to.                            *)
LEMMA TotalIs ==
    ASSUME NEW v \in Seq(Nat), NEW h, Sums(h, v, Len(v))
    PROVE  h[Len(v)] = Total(v) /\ Total(v) \in Nat
  <1>1. PICK g \in [0 .. Len(v) -> Nat] : g[Len(v)] = Total(v) /\ Sums(g, v, Len(v))
    BY TotalFacts
  <1>2. Len(v) \in Nat /\ Len(v) \in 0 .. Len(v)
    OBVIOUS
  <1>3. g[Len(v)] = h[Len(v)]
    <2>1. Agree(v, v, Len(v))
      BY DEF Agree
    <2> QED BY <1>1, <1>2, <2>1, SumsAgree
  <1> QED BY <1>1, <1>2, <1>3

(* One more number.                                                         *)
LEMMA TotalAppend ==
    ASSUME NEW v \in Seq(Nat), NEW x \in Nat
    PROVE  Total(Append(v, x)) = Total(v) + x
  <1>1. PICK n \in Nat : n = Len(v)
    OBVIOUS
  <1>2. PICK w \in Seq(Nat) : w = Append(v, x)
    <2>1. Append(v, x) \in Seq(Nat)
      OBVIOUS
    <2> QED BY <2>1
  <1>3. Len(w) = n + 1 /\ w[n + 1] = x /\ \A k \in 1 .. n : w[k] = v[k]
    BY <1>1, <1>2
  <1>4. PICK g \in [0 .. n -> Nat] : g[n] = Total(v) /\ Sums(g, v, n)
    BY <1>1, TotalFacts
  <1>5. PICK h \in [0 .. n + 1 -> Nat] : h[n + 1] = Total(w) /\ Sums(h, w, n + 1)
    BY <1>3, TotalFacts
  <1>6. Sums(h, w, n)
    <2>1. \A k \in 1 .. n : k \in 1 .. n + 1
      BY <1>1
    <2> QED BY <1>5, <2>1 DEF Sums
  <1>7. g[n] = h[n]
    <2>1. Agree(v, w, n)
      BY <1>3 DEF Agree
    <2>2. Sums(g, v, n) /\ Sums(h, w, n)
      BY <1>4, <1>6
    <2> QED BY <2>1, <2>2, SumsAgree
  <1>8. h[n + 1] = h[n] + w[n + 1]
    <2>1. n + 1 \in 1 .. n + 1 /\ (n + 1) - 1 = n
      OBVIOUS
    <2> QED BY <1>5, <2>1 DEF Sums
  <1> QED BY <1>2, <1>3, <1>4, <1>5, <1>7, <1>8

(* One of the numbers is larger by one.                                     *)
LEMMA TotalOneMore ==
    ASSUME NEW v \in Seq(Nat), NEW w \in Seq(Nat), Len(w) = Len(v), NEW i \in 1 .. Len(v),
           w[i] = v[i] + 1, \A k \in 1 .. Len(v) : k # i => w[k] = v[k]
    PROVE  Total(w) = Total(v) + 1
  <1>1. PICK n \in Nat : n = Len(v) /\ n = Len(w) /\ i \in 1 .. n
    OBVIOUS
  <1>2. PICK g \in [0 .. n -> Nat] : g[n] = Total(v) /\ Sums(g, v, n)
    BY <1>1, TotalFacts
  <1>3. PICK h \in [0 .. n -> Nat] : h[n] = Total(w) /\ Sums(h, w, n)
    BY <1>1, TotalFacts
  <1> DEFINE In == {k \in 0 .. n : h[k] = g[k] + (IF i <= k THEN 1 ELSE 0)}
  <1>4. 0 \in In
    <2>1. g[0] = 0 /\ h[0] = 0 /\ ~(i <= 0)
      BY <1>1, <1>2, <1>3 DEF Sums
    <2> QED BY <2>1
  <1>5. ASSUME NEW k \in 1 .. n, k - 1 \in In PROVE k \in In
    <2>1. k \in 0 .. n /\ k - 1 \in 0 .. n
      OBVIOUS
    <2>2. PICK a \in Nat, b \in Nat : a = g[k - 1] /\ b = h[k - 1]
      BY <1>2, <1>3, <2>1
    <2>3. PICK x \in Nat, y \in Nat : x = v[k] /\ y = w[k]
      BY <1>1
    <2>4. g[k] = a + x /\ h[k] = b + y
      BY <1>2, <1>3, <2>2, <2>3 DEF Sums
    <2>5. b = a + (IF i <= k - 1 THEN 1 ELSE 0)
      BY <1>5, <2>2
    <2>6. y = x + (IF k = i THEN 1 ELSE 0)
      <3>1. CASE k = i
        <4>1. y = x + 1
          BY <2>3, <3>1
        <4> QED BY <3>1, <4>1
      <3>2. CASE k # i
        <4>1. w[k] = v[k]
          BY <1>1, <3>2
        <4>2. y = x
          BY <2>3, <4>1
        <4> QED BY <3>2, <4>2
      <3> QED BY <3>1, <3>2
    <2>7. b + y = a + x + (IF i <= k THEN 1 ELSE 0)
      BY <1>1, <2>5, <2>6
    <2>8. h[k] = g[k] + (IF i <= k THEN 1 ELSE 0)
      BY <2>4, <2>7
    <2> QED BY <2>1, <2>8
  <1>6. 0 .. n \subseteq In
    <2> HIDE DEF In
    <2> QED BY <1>4, <1>5, UpTo
  <1>7. n \in In /\ i <= n
    BY <1>1, <1>6
  <1> QED BY <1>2, <1>3, <1>7

(* The packets of one signature, entry by entry.                            *)
Counts(sig, detail) == [i \in DOMAIN detail |-> IF detail[i].sig = sig THEN detail[i].num ELSE 0]

(* The counts of one signature are numbers, and so is their total.          *)
LEMMA CountsFacts ==
    ASSUME NEW detail \in Seq(Detail), NEW sig
    PROVE  /\ Counts(sig, detail) \in Seq(Nat) /\ Len(Counts(sig, detail)) = Len(detail)
           /\ \A i \in 1 .. Len(detail) :
                 Counts(sig, detail)[i] = IF detail[i].sig = sig THEN detail[i].num ELSE 0
           /\ Total(Counts(sig, detail)) \in Nat
  <1>1. DOMAIN detail = 1 .. Len(detail) /\ Len(detail) \in Nat
    OBVIOUS
  <1>2. \A i \in 1 .. Len(detail) : (IF detail[i].sig = sig THEN detail[i].num ELSE 0) \in Nat
    <2> SUFFICES ASSUME NEW i \in 1 .. Len(detail) PROVE detail[i].num \in Nat
      OBVIOUS
    <2>1. detail[i] \in Detail
      OBVIOUS
    <2> QED BY <2>1 DEF Detail
  <1>3. PICK v : v = Counts(sig, detail)
    OBVIOUS
  <1>4. v = [i \in 1 .. Len(detail) |-> IF detail[i].sig = sig THEN detail[i].num ELSE 0]
    BY <1>1, <1>3 DEF Counts
  <1>5. v \in Seq(Nat) /\ Len(v) = Len(detail)
    BY <1>1, <1>2, <1>4
  <1>6. Total(v) \in Nat
    <2>1. PICK h \in [0 .. Len(v) -> Nat] : h[Len(v)] = Total(v)
      BY <1>5, TotalFacts
    <2>2. Len(v) \in 0 .. Len(v)
      BY <1>5
    <2> QED BY <2>1, <2>2
  <1> QED BY <1>3, <1>4, <1>5, <1>6

(* FlattenSeq, by the first k sequences.                                    *)
Joins(h, seqs, n) == h[0] = <<>> /\ \A k \in 1 .. n : h[k] = h[k - 1] \o seqs[k]

(* The empty sequence joined with another is the other one.                 *)
LEMMA EmptyJoin ==
    ASSUME NEW S, NEW s \in Seq(S)
    PROVE  <<>> \o s = s
OBVIOUS

(* FlattenSeq joins one sequence after the other.                           *)
LEMMA FlattenFacts ==
    ASSUME NEW S, NEW seqs \in Seq(Seq(S))
    PROVE  \E h \in [0 .. Len(seqs) -> Seq(S)] :
              h[Len(seqs)] = FlattenSeq(seqs) /\ Joins(h, seqs, Len(seqs))
  <1>1. PICK n \in Nat : n = Len(seqs)
    OBVIOUS
  <1>2. \A k \in 1 .. n : seqs[k] \in Seq(S)
    BY <1>1
  <1>3. PICK step : step = [k \in 1 .. n |-> [a \in Seq(S) |-> a \o seqs[k]]]
    OBVIOUS
  <1>4. ASSUME NEW k \in 1 .. n, NEW a \in Seq(S)
        PROVE  step[k][a] = a \o seqs[k] /\ step[k][a] \in Seq(S)
    <2>1. step[k][a] = a \o seqs[k]
      BY <1>3
    <2>2. a \o seqs[k] \in Seq(S)
      BY <1>2, ConcatProperties
    <2> QED BY <2>1, <2>2
  <1>5. PICK f \in [SUBSET (1 .. n) -> Seq(S)] : Folds(f, n, <<>>, step)
    <2>1. \A k \in 1 .. n : \A a \in Seq(S) : step[k][a] \in Seq(S)
      BY <1>4
    <2>2. <<>> \in Seq(S)
      OBVIOUS
    <2> QED BY <1>1, <2>1, <2>2, FoldExists
  <1>6. f[1 .. 0] = <<>>
    <2>1. 1 .. 0 = {} /\ {} \in SUBSET (1 .. n)
      OBVIOUS
    <2> QED BY <1>5, <2>1 DEF Folds
  <1>7. ASSUME NEW k \in 1 .. n
        PROVE  /\ f[1 .. k] = f[1 .. k - 1] \o seqs[k]
               /\ f[1 .. k] \in Seq(S) /\ f[1 .. k - 1] \in Seq(S)
    <2>1. /\ 1 .. k \in SUBSET (1 .. n) /\ 1 .. k # {}
          /\ Max(1 .. k) = k /\ (1 .. k) \ {Max(1 .. k)} = 1 .. k - 1
      BY <1>1, FirstIndices
    <2>2. f[1 .. k] = step[k][f[1 .. k - 1]]
      BY <1>5, <2>1 DEF Folds
    <2>3. 1 .. k - 1 \in SUBSET (1 .. n)
      BY <2>1
    <2> QED BY <1>4, <1>5, <2>1, <2>2, <2>3
  <1> DEFINE Is(g) == g = [i \in 1 .. Len(seqs) |->
                              IF i = 1 THEN seqs[i] ELSE g[i - 1] \o seqs[i]]
  <1>8. n # 0 => FlattenSeq(seqs) = (CHOOSE g : Is(g))[n]
    BY <1>1, Zenon DEF FlattenSeq
  <1>9. \E g : Is(g)
    <2>1. PICK g : g = [i \in 1 .. n |-> f[1 .. i]]
      OBVIOUS
    <2>2. ASSUME NEW i \in 1 .. n
          PROVE  g[i] = IF i = 1 THEN seqs[i] ELSE g[i - 1] \o seqs[i]
      <3>1. CASE i = 1
        <4>1. f[1 .. 1 - 1] = <<>>
          BY <1>6
        <4>2. f[1 .. 1] = <<>> \o seqs[1]
          BY <1>7, <3>1, <4>1
        <4> QED BY <1>2, <2>1, <3>1, <4>2, EmptyJoin
      <3>2. CASE i # 1
        <4>1. i - 1 \in 1 .. n
          BY <1>1, <3>2
        <4> QED BY <1>7, <2>1, <3>2, <4>1
      <3> QED BY <3>1, <3>2
    <2>3. g = [i \in 1 .. n |-> g[i]]
      BY <2>1
    <2>4. g = [i \in 1 .. n |-> IF i = 1 THEN seqs[i] ELSE g[i - 1] \o seqs[i]]
      BY <2>2, <2>3
    <2> QED BY <1>1, <2>4
  <1>10. PICK g : Is(g) /\ (n # 0 => FlattenSeq(seqs) = g[n])
    <2> DEFINE chosen == CHOOSE x : Is(x)
    <2>1. Is(chosen)
      <3> HIDE DEF Is
      <3> QED BY <1>9
    <2>2. n # 0 => FlattenSeq(seqs) = chosen[n]
      BY <1>8
    <2> HIDE DEF chosen
    <2> QED BY <2>1, <2>2
  <1>11. PICK h : h = [k \in 0 .. n |-> IF k = 0 THEN <<>> ELSE g[k]]
    OBVIOUS
  <1>12. h[0] = <<>>
    BY <1>1, <1>11
  <1>13. ASSUME NEW k \in 1 .. n PROVE h[k] = h[k - 1] \o seqs[k]
    <2>1. k \in 0 .. n /\ k - 1 \in 0 .. n /\ k # 0
      BY <1>1
    <2>2. g[k] = IF k = 1 THEN seqs[k] ELSE g[k - 1] \o seqs[k]
      BY <1>1, <1>10
    <2>3. CASE k = 1
      <3>1. h[k - 1] = <<>> /\ h[k] = seqs[k]
        BY <1>11, <2>1, <2>2, <2>3
      <3> QED BY <1>2, <3>1, EmptyJoin
    <2>4. CASE k # 1
      <3>1. k - 1 # 0 /\ h[k - 1] = g[k - 1] /\ h[k] = g[k]
        BY <1>11, <2>1, <2>4
      <3> QED BY <2>2, <2>4, <3>1
    <2> QED BY <2>3, <2>4
  <1>14. h \in [0 .. n -> Seq(S)]
    <2> DEFINE In == {k \in 0 .. n : h[k] \in Seq(S)}
    <2>1. 0 \in In
      <3>1. <<>> \in Seq(S) /\ 0 \in 0 .. n
        BY <1>1
      <3> QED BY <1>12, <3>1
    <2>2. ASSUME NEW k \in 1 .. n, k - 1 \in In PROVE k \in In
      <3>1. k \in 0 .. n /\ h[k - 1] \in Seq(S) /\ seqs[k] \in Seq(S)
        BY <1>1, <1>2, <2>2
      <3>2. h[k - 1] \o seqs[k] \in Seq(S)
        BY <3>1, ConcatProperties
      <3> QED BY <1>13, <3>1, <3>2
    <2>3. 0 .. n \subseteq In
      <3> HIDE DEF In
      <3> QED BY <1>1, <2>1, <2>2, UpTo
    <2> QED BY <1>11, <2>3
  <1>15. h[n] = FlattenSeq(seqs)
    <2>1. CASE n = 0
      <3>1. Len(seqs) = 0
        BY <1>1, <2>1
      <3>2. seqs = <<>>
        BY <3>1
      <3>3. FlattenSeq(seqs) = seqs
        BY <3>1, Zenon DEF FlattenSeq
      <3> QED BY <1>12, <2>1, <3>2, <3>3
    <2>2. CASE n # 0
      <3>1. n \in 0 .. n
        BY <1>1
      <3>2. h[n] = g[n]
        BY <1>11, <2>2, <3>1
      <3> QED BY <1>10, <2>2, <3>2
    <2> QED BY <2>1, <2>2
  <1> QED BY <1>1, <1>12, <1>13, <1>14, <1>15 DEF Joins

(* The sum of two sequences joined is the sum of both sums.                 *)
LEMMA TotalJoin ==
    ASSUME NEW v \in Seq(Nat), NEW w \in Seq(Nat)
    PROVE  Total(v \o w) = Total(v) + Total(w)
  <1>1. PICK n \in Nat, m \in Nat : n = Len(v) /\ m = Len(w)
    OBVIOUS
  <1>2. PICK u \in Seq(Nat) : u = v \o w
    <2>1. v \o w \in Seq(Nat)
      BY ConcatProperties
    <2> QED BY <2>1
  <1>3. /\ Len(u) = n + m
        /\ \A k \in 1 .. n : u[k] = v[k]
        /\ \A k \in 1 .. m : u[n + k] = w[k]
    BY <1>1, <1>2
  <1>4. PICK g \in [0 .. n -> Nat] : g[n] = Total(v) /\ Sums(g, v, n)
    BY <1>1, TotalFacts
  <1>5. PICK h \in [0 .. m -> Nat] : h[m] = Total(w) /\ Sums(h, w, m)
    BY <1>1, TotalFacts
  <1>6. PICK f \in [0 .. n + m -> Nat] : f[n + m] = Total(u) /\ Sums(f, u, n + m)
    BY <1>3, TotalFacts
  <1>7. f[n] = g[n]
    <2>1. Agree(u, v, n)
      BY <1>3 DEF Agree
    <2>2. \A k \in 1 .. n : k \in 1 .. n + m
      OBVIOUS
    <2>3. Sums(f, u, n)
      BY <1>6, <2>2 DEF Sums
    <2> QED BY <1>4, <2>1, <2>3, SumsAgree
  <1> DEFINE In == {k \in 0 .. m : f[n + k] = g[n] + h[k]}
  <1>8. 0 \in In
    <2>1. h[0] = 0 /\ g[n] \in Nat
      BY <1>4, <1>5 DEF Sums
    <2> QED BY <1>7, <2>1
  <1>9. ASSUME NEW k \in 1 .. m, k - 1 \in In PROVE k \in In
    <2>1. /\ k \in 0 .. m /\ k - 1 \in 0 .. m /\ n + k \in 1 .. n + m
          /\ (n + k) - 1 = n + (k - 1)
      OBVIOUS
    <2>2. f[n + k] = f[n + (k - 1)] + u[n + k] /\ h[k] = h[k - 1] + w[k]
      BY <1>5, <1>6, <2>1 DEF Sums
    <2>3. PICK a \in Nat, b \in Nat, x \in Nat : a = g[n] /\ b = h[k - 1] /\ x = w[k]
      <3>1. n \in 0 .. n /\ g[n] \in Nat /\ h[k - 1] \in Nat
        BY <2>1
      <3>2. w[k] \in Nat
        BY <1>1
      <3> QED BY <3>1, <3>2
    <2>4. f[n + (k - 1)] = a + b /\ u[n + k] = x
      BY <1>3, <1>9, <2>3
    <2>5. f[n + k] = (a + b) + x /\ h[k] = b + x
      BY <2>2, <2>3, <2>4
    <2>6. f[n + k] = g[n] + h[k]
      <3>1. (a + b) + x = a + (b + x)
        OBVIOUS
      <3> QED BY <2>3, <2>5, <3>1
    <2> QED BY <2>1, <2>6
  <1>10. 0 .. m \subseteq In
    <2> HIDE DEF In
    <2> QED BY <1>1, <1>8, <1>9, UpTo
  <1>11. m \in In
    BY <1>10
  <1> QED BY <1>2, <1>4, <1>5, <1>6, <1>11

(* A sum as the size of a set: v[i] tokens for every i up to m.             *)
Tokens(v, m) == {t \in (1 .. m) \X Nat : t[2] \in 1 .. v[t[1]]}

(* There are as many tokens as the numbers add up to.                       *)
LEMMA TokensCount ==
    ASSUME NEW v \in Seq(Nat)
    PROVE  /\ IsFiniteSet(Tokens(v, Len(v)))
           /\ Cardinality(Tokens(v, Len(v))) = Total(v)
  <1>1. PICK n \in Nat : n = Len(v)
    OBVIOUS
  <1>2. PICK h \in [0 .. n -> Nat] : h[n] = Total(v) /\ Sums(h, v, n)
    BY <1>1, TotalFacts
  <1> DEFINE In == {k \in 0 .. n : /\ IsFiniteSet(Tokens(v, k))
                                   /\ Cardinality(Tokens(v, k)) = h[k]}
  <1>3. 0 \in In
    <2>1. Tokens(v, 0) = {}
      BY DEF Tokens
    <2> QED BY <1>2, <2>1, FS_EmptySet DEF Sums
  <1>4. ASSUME NEW k \in 1 .. n, k - 1 \in In PROVE k \in In
    <2>1. k \in 0 .. n /\ k - 1 \in 0 .. n /\ k \in Nat /\ k - 1 \in Nat
      OBVIOUS
    <2>2. PICK x \in Nat, a \in Nat : x = v[k] /\ a = h[k - 1]
      BY <1>1, <1>2, <2>1
    <2>3. h[k] = a + x
      BY <1>2, <2>2 DEF Sums
    <2> DEFINE New == {k} \X (1 .. x)
               Old == Tokens(v, k - 1)
    <2>4. Tokens(v, k) = Old \cup New
      <3>1. ASSUME NEW t \in Tokens(v, k) PROVE t \in Old \cup New
        <4>1. t = <<t[1], t[2]>> /\ t[1] \in 1 .. k /\ t[2] \in Nat /\ t[2] \in 1 .. v[t[1]]
          BY DEF Tokens
        <4>2. CASE t[1] = k
          BY <2>2, <4>1, <4>2
        <4>3. CASE t[1] # k
          <5>1. t[1] \in 1 .. k - 1
            BY <2>1, <4>1, <4>3
          <5> QED BY <4>1, <5>1 DEF Tokens
        <4> QED BY <4>2, <4>3
      <3>2. ASSUME NEW t \in New PROVE t \in Tokens(v, k)
        <4>1. t = <<t[1], t[2]>> /\ t[1] = k /\ t[2] \in 1 .. x
          OBVIOUS
        <4>2. k \in 1 .. k /\ t[2] \in Nat
          BY <2>1, <4>1
        <4> QED BY <2>2, <4>1, <4>2 DEF Tokens
      <3>3. ASSUME NEW t \in Old PROVE t \in Tokens(v, k)
        <4>1. t = <<t[1], t[2]>> /\ t[1] \in 1 .. k - 1 /\ t[2] \in Nat /\ t[2] \in 1 .. v[t[1]]
          BY DEF Tokens
        <4>2. t[1] \in 1 .. k
          BY <2>1, <4>1
        <4> QED BY <4>1, <4>2 DEF Tokens
      <3> QED BY <3>1, <3>2, <3>3
    <2>5. Old \cap New = {}
      <3> SUFFICES ASSUME NEW t \in Old, t \in New PROVE FALSE
        OBVIOUS
      <3>1. t[1] = k /\ t[1] \in 1 .. k - 1
        BY DEF Tokens
      <3> QED BY <2>1, <3>1
    <2>6. IsFiniteSet(New) /\ Cardinality(New) = x
      <3>1. IsFiniteSet({k}) /\ Cardinality({k}) = 1
        BY FS_Singleton
      <3>2. IsFiniteSet(1 .. x) /\ Cardinality(1 .. x) = x
        <4>1. IsFiniteSet(1 .. x) /\ Cardinality(1 .. x) = IF 1 > x THEN 0 ELSE x - 1 + 1
          <5>1. 1 \in Int /\ x \in Int
            OBVIOUS
          <5> QED BY <5>1, FS_Interval
        <4>2. (IF 1 > x THEN 0 ELSE x - 1 + 1) = x
          OBVIOUS
        <4> QED BY <4>1, <4>2
      <3>3. IsFiniteSet(New) /\ Cardinality(New) = 1 * x
        <4>1. /\ IsFiniteSet({k} \X (1 .. x))
              /\ Cardinality({k} \X (1 .. x)) = Cardinality({k}) * Cardinality(1 .. x)
          BY <3>1, <3>2, FS_Product
        <4> QED BY <3>1, <3>2, <4>1
      <3> QED BY <3>3
    <2>7. IsFiniteSet(Old) /\ Cardinality(Old) = a
      BY <1>4, <2>2
    <2> HIDE DEF Old, New
    <2>8. /\ IsFiniteSet(Old \cup New)
          /\ Cardinality(Old \cup New) = a + x - Cardinality(Old \cap New)
      BY <2>6, <2>7, FS_Union
    <2>9. Cardinality(Old \cap New) = 0
      BY <2>5, FS_EmptySet
    <2>10. a + x - Cardinality(Old \cap New) = h[k]
      BY <2>3, <2>9
    <2> QED BY <2>1, <2>4, <2>8, <2>10
  <1>5. 0 .. n \subseteq In
    <2> HIDE DEF In
    <2> QED BY <1>3, <1>4, UpTo
  <1>6. n \in In
    BY <1>5
  <1> QED BY <1>1, <1>2, <1>6

(* SetToSeqs lists the arrangements of the indices of a sequence: each      *)
(* index is in exactly one place.                                           *)
LEMMA Arrangement ==
    ASSUME NEW n \in Nat
    PROVE  /\ SetToSeqs(1 .. n) = {f \in [1 .. n -> 1 .. n] :
                                      \A i, j \in 1 .. n : i # j => f[i] # f[j]}
           /\ \A p \in SetToSeqs(1 .. n) : \A j \in 1 .. n : \E i \in 1 .. n : p[i] = j
  <1>1. IsFiniteSet(1 .. n) /\ Cardinality(1 .. n) = n
    BY FS_Interval
  <1>2. SetToSeqs(1 .. n) = {f \in [1 .. n -> 1 .. n] :
                                \A i, j \in 1 .. n : i # j => f[i] # f[j]}
    BY <1>1 DEF SetToSeqs
  <1>3. ASSUME NEW p \in SetToSeqs(1 .. n), NEW j \in 1 .. n
        PROVE  \E i \in 1 .. n : p[i] = j
    <2>1. p \in Injection(1 .. n, 1 .. n)
      BY <1>2 DEF Injection, IsInjective
    <2>2. p \in Surjection(1 .. n, 1 .. n)
      BY <1>1, <2>1, FS_Injection
    <2> QED BY <2>2 DEF Surjection
  <1> QED BY <1>2, <1>3

(* A sum does not depend on the order in which the numbers are added.       *)
LEMMA TotalArranged ==
    ASSUME NEW v \in Seq(Nat), NEW w \in Seq(Nat), Len(w) = Len(v),
           NEW p \in SetToSeqs(1 .. Len(v)), \A i \in 1 .. Len(v) : w[i] = v[p[i]]
    PROVE  Total(w) = Total(v)
  <1>1. PICK n \in Nat : n = Len(v) /\ n = Len(w)
    OBVIOUS
  <1>2. /\ p \in [1 .. n -> 1 .. n]
        /\ \A i, j \in 1 .. n : i # j => p[i] # p[j]
        /\ \A j \in 1 .. n : \E i \in 1 .. n : p[i] = j
    <2>1. p \in SetToSeqs(1 .. n)
      BY <1>1
    <2>2. SetToSeqs(1 .. n) = {f \in [1 .. n -> 1 .. n] :
                                  \A i, j \in 1 .. n : i # j => f[i] # f[j]}
      BY Arrangement
    <2>3. \A j \in 1 .. n : \E i \in 1 .. n : p[i] = j
      BY <2>1, Arrangement
    <2> QED BY <2>1, <2>2, <2>3
  <1>3. PICK f : f = [t \in Tokens(w, n) |-> <<p[t[1]], t[2]>>]
    OBVIOUS
  <1>4. \A t \in Tokens(w, n) : t = <<t[1], t[2]>> /\ t[1] \in 1 .. n /\ t[2] \in Nat
                                /\ t[2] \in 1 .. w[t[1]]
    BY DEF Tokens
  <1>5. f \in [Tokens(w, n) -> Tokens(v, n)]
    <2>1. ASSUME NEW t \in Tokens(w, n) PROVE <<p[t[1]], t[2]>> \in Tokens(v, n)
      <3>1. p[t[1]] \in 1 .. n /\ w[t[1]] = v[p[t[1]]]
        BY <1>1, <1>2, <1>4
      <3> QED BY <1>4, <3>1 DEF Tokens
    <2> QED BY <1>3, <2>1
  <1>6. ASSUME NEW s \in Tokens(w, n), NEW t \in Tokens(w, n), f[s] = f[t] PROVE s = t
    <2>1. p[s[1]] = p[t[1]] /\ s[2] = t[2]
      BY <1>3, <1>6
    <2>2. s[1] = t[1]
      BY <1>2, <1>4, <2>1
    <2> QED BY <1>4, <2>1, <2>2
  <1>7. ASSUME NEW t \in Tokens(v, n) PROVE \E s \in Tokens(w, n) : f[s] = t
    <2>1. t = <<t[1], t[2]>> /\ t[1] \in 1 .. n /\ t[2] \in Nat /\ t[2] \in 1 .. v[t[1]]
      BY DEF Tokens
    <2>2. PICK i \in 1 .. n : p[i] = t[1]
      BY <1>2, <2>1
    <2>3. <<i, t[2]>> \in Tokens(w, n)
      BY <1>1, <2>1, <2>2 DEF Tokens
    <2>4. f[<<i, t[2]>>] = t
      BY <1>3, <2>1, <2>2, <2>3
    <2> QED BY <2>3, <2>4
  <1>8. f \in Bijection(Tokens(w, n), Tokens(v, n))
    BY <1>5, <1>6, <1>7 DEF Bijection, Injection, Surjection, IsInjective
  <1>9. Cardinality(Tokens(w, n)) = Total(w) /\ IsFiniteSet(Tokens(w, n))
        /\ Cardinality(Tokens(v, n)) = Total(v)
    BY <1>1, TokensCount
  <1>10. Cardinality(Tokens(v, n)) = Cardinality(Tokens(w, n))
    <2>1. ExistsBijection(Tokens(w, n), Tokens(v, n))
      BY <1>8 DEF ExistsBijection
    <2> QED BY <1>9, <2>1, FS_Bijection
  <1> QED BY <1>9, <1>10

(* One of finitely many integers is the least.                              *)
LEMMA LeastOfMany ==
    ASSUME NEW n \in Nat \ {0}, NEW s \in [1 .. n -> Int]
    PROVE  \E i \in 1 .. n : \A j \in 1 .. n : s[i] <= s[j]
  <1> DEFINE In == {k \in 0 .. n : k = 0 \/ \E i \in 1 .. k : \A j \in 1 .. k : s[i] <= s[j]}
  <1>1. 0 \in In
    OBVIOUS
  <1>2. ASSUME NEW k \in 1 .. n, k - 1 \in In PROVE k \in In
    <2>1. k \in 0 .. n /\ k \in 1 .. k /\ \A j \in 1 .. k : j \in 1 .. k - 1 \/ j = k
      OBVIOUS
    <2>2. \A j \in 1 .. k : s[j] \in Int
      OBVIOUS
    <2>3. CASE k - 1 = 0
      <3>1. \A j \in 1 .. k : s[k] <= s[j]
        BY <2>1, <2>2, <2>3
      <3> QED BY <2>1, <3>1
    <2>4. CASE k - 1 # 0
      <3>1. PICK i \in 1 .. k - 1 : \A j \in 1 .. k - 1 : s[i] <= s[j]
        BY <1>2, <2>4
      <3>2. i \in 1 .. k
        OBVIOUS
      <3>3. CASE s[i] <= s[k]
        BY <2>1, <3>1, <3>2, <3>3
      <3>4. CASE ~(s[i] <= s[k])
        <4>1. \A j \in 1 .. k : s[k] <= s[j]
          <5> SUFFICES ASSUME NEW j \in 1 .. k PROVE s[k] <= s[j]
            OBVIOUS
          <5>1. s[i] \in Int /\ s[j] \in Int /\ s[k] \in Int
            BY <2>1, <2>2, <3>2
          <5> QED BY <2>1, <3>1, <3>4, <5>1
        <4> QED BY <2>1, <4>1
      <3> QED BY <3>3, <3>4
    <2> QED BY <2>3, <2>4
  <1>3. 0 .. n \subseteq In
    <2> HIDE DEF In
    <2> QED BY <1>1, <1>2, UpTo
  <1>4. n \in In
    <2>1. n \in 0 .. n
      OBVIOUS
    <2> HIDE DEF In
    <2> QED BY <1>3, <2>1
  <1> QED BY <1>4

(* Any sequence of integers has an arrangement without descents, so what    *)
(* SortDetail chooses exists.                                               *)
LEMMA SortingOrder ==
    ASSUME NEW n \in Nat, NEW s \in [1 .. n -> Int]
    PROVE  \E p \in SetToSeqs(1 .. n) : \A i, j \in 1 .. n : i < j => s[p[i]] <= s[p[j]]
  <1> DEFINE Perms == {f \in [1 .. n -> 1 .. n] : \A i, j \in 1 .. n : i # j => f[i] # f[j]}
             Upto(p, k) == \A i, j \in 1 .. n : i <= k /\ i < j => s[p[i]] <= s[p[j]]
             In == {k \in 0 .. n : \E p \in Perms : Upto(p, k)}
  <1>1. 0 \in In
    <2>1. PICK p : p = [i \in 1 .. n |-> i]
      OBVIOUS
    <2>2. p \in Perms
      BY <2>1
    <2>3. Upto(p, 0) /\ 0 \in 0 .. n
      OBVIOUS
    <2> HIDE DEF Upto, Perms
    <2> QED BY <2>2, <2>3
  <1>2. ASSUME NEW k \in 1 .. n, k - 1 \in In PROVE k \in In
    <2>1. PICK p \in Perms : Upto(p, k - 1)
      BY <1>2
    <2>2. PICK c \in k .. n : \A j \in k .. n : s[p[c]] <= s[p[j]]
      <3>1. PICK m \in Nat \ {0} : m = (n - k) + 1
        OBVIOUS
      <3>2. PICK t : t = [j \in 1 .. m |-> s[p[(k - 1) + j]]]
        OBVIOUS
      <3>3. \A j \in 1 .. m : (k - 1) + j \in 1 .. n
        BY <3>1
      <3>4. t \in [1 .. m -> Int]
        BY <3>2, <3>3
      <3>5. PICK i \in 1 .. m : \A j \in 1 .. m : t[i] <= t[j]
        BY <3>4, LeastOfMany
      <3>6. (k - 1) + i \in k .. n
        BY <3>1
      <3>7. ASSUME NEW j \in k .. n PROVE s[p[(k - 1) + i]] <= s[p[j]]
        <4>1. j - (k - 1) \in 1 .. m /\ (k - 1) + (j - (k - 1)) = j
          BY <3>1
        <4>2. t[i] <= t[j - (k - 1)]
          BY <3>5, <4>1
        <4>3. t[j - (k - 1)] = s[p[j]]
          BY <3>2, <4>1
        <4> QED BY <3>2, <4>2, <4>3
      <3> QED BY <3>6, <3>7
    <2>3. PICK q : q = [p EXCEPT ![k] = p[c], ![c] = p[k]]
      OBVIOUS
    <2>4. c \in 1 .. n /\ k <= c
      OBVIOUS
    <2>5. \A i \in 1 .. n : q[i] = IF i = c THEN p[k] ELSE IF i = k THEN p[c] ELSE p[i]
      BY <2>3, <2>4
    <2>6. q \in Perms
      <3>1. q \in [1 .. n -> 1 .. n]
        BY <2>3, <2>4
      <3>2. ASSUME NEW i \in 1 .. n, NEW j \in 1 .. n, i # j PROVE q[i] # q[j]
        <4>1. \A a, b \in 1 .. n : a # b => p[a] # p[b]
          OBVIOUS
        <4> QED BY <2>4, <2>5, <3>2, <4>1
      <3> QED BY <3>1, <3>2
    <2>7. Upto(q, k)
      <3> SUFFICES ASSUME NEW i \in 1 .. n, NEW j \in 1 .. n, i <= k, i < j
                   PROVE  s[q[i]] <= s[q[j]]
        OBVIOUS
      <3>1. CASE i = k
        <4>1. s[q[k]] = s[p[c]]
          BY <2>4, <2>5
        <4>2. PICK a \in k .. n : q[j] = p[a]
          <5>1. j \in k .. n /\ k \in k .. n /\ j # k
            BY <3>1
          <5>2. q[j] = IF j = c THEN p[k] ELSE p[j]
            BY <2>5, <5>1
          <5> QED BY <5>1, <5>2
        <4> QED BY <2>2, <3>1, <4>1, <4>2
      <3>2. CASE i # k
        <4>1. i <= k - 1 /\ q[i] = p[i]
          BY <2>4, <2>5, <3>2
        <4>2. PICK a \in 1 .. n : q[j] = p[a] /\ i < a
          <5>1. CASE j = c
            <6>1. q[j] = p[k]
              BY <2>5, <5>1
            <6>2. i < k
              BY <4>1
            <6> QED BY <6>1, <6>2
          <5>2. CASE j # c /\ j = k
            <6>1. q[j] = p[c]
              BY <2>5, <5>2
            <6>2. i < c
              BY <2>4, <4>1
            <6> QED BY <2>4, <6>1, <6>2
          <5>3. CASE j # c /\ j # k
            BY <2>5, <5>3
          <5> QED BY <5>1, <5>2, <5>3
        <4> QED BY <2>1, <4>1, <4>2
      <3> QED BY <3>1, <3>2
    <2>8. k \in 0 .. n
      OBVIOUS
    <2> HIDE DEF Upto, Perms
    <2> QED BY <2>6, <2>7, <2>8
  <1>3. 0 .. n \subseteq In
    <2> HIDE DEF In
    <2> QED BY <1>1, <1>2, UpTo
  <1>4. PICK p \in Perms : Upto(p, n)
    <2>1. n \in 0 .. n
      OBVIOUS
    <2>2. n \in In
      BY <1>3, <2>1
    <2> HIDE DEF Upto, Perms
    <2> QED BY <2>2
  <1>5. p \in SetToSeqs(1 .. n)
    BY Arrangement
  <1>6. \A i, j \in 1 .. n : i < j => s[p[i]] <= s[p[j]]
    BY <1>4
  <1> QED BY <1>5, <1>6

-----------------------------------------------------------------------------
(* Counting packets, and what AddPacket adds *)

(* A 1 for every packet of one signed length.                               *)
Marks(sig, vec) == [i \in DOMAIN vec |-> IF vec[i].signedLen = sig THEN 1 ELSE 0]

(* The packets of one signed length, counted by their marks.                *)
LEMMA PacketsWithTotal ==
    ASSUME NEW S, NEW vec \in Seq(S), NEW sig
    PROVE  /\ Marks(sig, vec) \in Seq(Nat) /\ Len(Marks(sig, vec)) = Len(vec)
           /\ PacketsWith(sig, vec) = Total(Marks(sig, vec))
           /\ PacketsWith(sig, vec) \in Nat
  <1>1. PICK n \in Nat : n = Len(vec) /\ DOMAIN vec = 1 .. n
    OBVIOUS
  <1>2. PICK v : v = Marks(sig, vec)
    OBVIOUS
  <1>3. v = [i \in 1 .. n |-> IF vec[i].signedLen = sig THEN 1 ELSE 0]
    BY <1>1, <1>2 DEF Marks
  <1>4. v \in Seq(Nat) /\ Len(v) = n
    BY <1>3
  <1>5. PICK h \in [0 .. n -> Nat] : h[n] = Total(v) /\ Sums(h, v, n)
    BY <1>4, TotalFacts
  <1> DEFINE Set(k) == {i \in 1 .. k : vec[i].signedLen = sig}
             In == {k \in 0 .. n : IsFiniteSet(Set(k)) /\ Cardinality(Set(k)) = h[k]}
  <1>6. 0 \in In
    <2>1. Set(0) = {} /\ h[0] = 0
      BY <1>5 DEF Sums
    <2> QED BY <2>1, FS_EmptySet
  <1>7. ASSUME NEW k \in 1 .. n, k - 1 \in In PROVE k \in In
    <2>1. k \in 0 .. n /\ k - 1 \in 0 .. n
      OBVIOUS
    <2>2. h[k] = h[k - 1] + (IF vec[k].signedLen = sig THEN 1 ELSE 0)
      BY <1>3, <1>5 DEF Sums
    <2>3. h[k - 1] \in Nat
      BY <2>1
    <2>4. CASE vec[k].signedLen = sig
      <3>1. Set(k) = Set(k - 1) \cup {k} /\ k \notin Set(k - 1)
        BY <2>4
      <3>2. IsFiniteSet(Set(k - 1)) /\ Cardinality(Set(k - 1)) = h[k - 1]
        BY <1>7
      <3>3. h[k] = h[k - 1] + 1
        BY <2>2, <2>4
      <3> HIDE DEF Set
      <3>4. IsFiniteSet(Set(k)) /\ Cardinality(Set(k)) = h[k - 1] + 1
        <4>1. PICK old : old = Set(k - 1)
          OBVIOUS
        <4>2. IsFiniteSet(old) /\ Cardinality(old) = h[k - 1] /\ k \notin old
          BY <3>1, <3>2, <4>1
        <4>3. IsFiniteSet(old \cup {k}) /\ Cardinality(old \cup {k}) = Cardinality(old) + 1
          BY <4>2, FS_AddElement
        <4> QED BY <3>1, <4>1, <4>2, <4>3
      <3> QED BY <2>1, <3>3, <3>4
    <2>5. CASE vec[k].signedLen # sig
      <3>1. Set(k) = Set(k - 1)
        BY <2>5
      <3>2. h[k] = h[k - 1]
        BY <2>2, <2>3, <2>5
      <3>3. IsFiniteSet(Set(k - 1)) /\ Cardinality(Set(k - 1)) = h[k - 1]
        BY <1>7
      <3> HIDE DEF Set
      <3> QED BY <2>1, <3>1, <3>2, <3>3
    <2> QED BY <2>4, <2>5
  <1>8. Cardinality(Set(n)) = h[n]
    <2>1. n \in 0 .. n
      OBVIOUS
    <2>2. 0 .. n \subseteq In
      <3> HIDE DEF In
      <3> QED BY <1>6, <1>7, UpTo
    <2> HIDE DEF Set
    <2> QED BY <2>1, <2>2
  <1>9. PacketsWith(sig, vec) = Total(v)
    BY <1>1, <1>5, <1>8 DEF PacketsWith
  <1>10. Total(v) \in Nat
    <2>1. n \in 0 .. n
      OBVIOUS
    <2> QED BY <1>5, <2>1
  <1> QED BY <1>1, <1>2, <1>4, <1>9, <1>10

(* Joining two vectors adds the numbers of their packets.                   *)
LEMMA PacketsWithJoin ==
    ASSUME NEW S, NEW u \in Seq(S), NEW w \in Seq(S), NEW sig
    PROVE  PacketsWith(sig, u \o w) = PacketsWith(sig, u) + PacketsWith(sig, w)
  <1>1. PICK n \in Nat, m \in Nat : n = Len(u) /\ m = Len(w)
    OBVIOUS
  <1>2. PICK x \in Seq(S) : x = u \o w
    <2>1. u \o w \in Seq(S)
      BY ConcatProperties
    <2> QED BY <2>1
  <1>3. /\ Len(x) = n + m /\ \A k \in 1 .. n + m : x[k] = IF k <= n THEN u[k] ELSE w[k - n]
        /\ DOMAIN x = 1 .. n + m /\ DOMAIN u = 1 .. n /\ DOMAIN w = 1 .. m
    BY <1>1, <1>2
  <1>4. Marks(sig, x) = Marks(sig, u) \o Marks(sig, w)
    <2>1. PICK a, b, c : a = Marks(sig, u) /\ b = Marks(sig, w) /\ c = Marks(sig, x)
      OBVIOUS
    <2>2. /\ a = [i \in 1 .. n |-> IF u[i].signedLen = sig THEN 1 ELSE 0]
          /\ b = [i \in 1 .. m |-> IF w[i].signedLen = sig THEN 1 ELSE 0]
          /\ c = [i \in 1 .. n + m |-> IF x[i].signedLen = sig THEN 1 ELSE 0]
      BY <1>3, <2>1 DEF Marks
    <2>3. a \in Seq(Nat) /\ b \in Seq(Nat) /\ Len(a) = n /\ Len(b) = m
      BY <2>2
    <2>4. /\ a \o b \in Seq(Nat) /\ Len(a \o b) = n + m
          /\ \A i \in 1 .. n + m : (a \o b)[i] = IF i <= n THEN a[i] ELSE b[i - n]
      BY <2>3, ConcatProperties
    <2>5. ASSUME NEW i \in 1 .. n + m PROVE c[i] = IF i <= n THEN a[i] ELSE b[i - n]
      <3>1. CASE i <= n
        BY <1>3, <2>2, <3>1
      <3>2. CASE ~(i <= n)
        <4>1. i - n \in 1 .. m
          BY <3>2
        <4> QED BY <1>3, <2>2, <3>2, <4>1
      <3> QED BY <3>1, <3>2
    <2>6. c \in Seq(Nat) /\ Len(c) = n + m
      BY <2>2
    <2>7. c = a \o b
      <3>1. \A i \in 1 .. Len(c) : c[i] = (a \o b)[i]
        BY <2>4, <2>5, <2>6
      <3> QED BY <2>4, <2>6, <3>1, SeqEqual
    <2> QED BY <2>1, <2>7
  <1>5. /\ Marks(sig, u) \in Seq(Nat) /\ PacketsWith(sig, u) = Total(Marks(sig, u))
        /\ Marks(sig, w) \in Seq(Nat) /\ PacketsWith(sig, w) = Total(Marks(sig, w))
        /\ PacketsWith(sig, x) = Total(Marks(sig, x))
    BY PacketsWithTotal
  <1> QED BY <1>2, <1>4, <1>5, TotalJoin

(* One more packet.                                                         *)
LEMMA PacketsWithAppend ==
    ASSUME NEW S, NEW u \in Seq(S), NEW x \in S, NEW sig
    PROVE  PacketsWith(sig, Append(u, x))
             = PacketsWith(sig, u) + (IF x.signedLen = sig THEN 1 ELSE 0)
  <1>1. <<x>> \in Seq(S) /\ Append(u, x) = u \o <<x>>
    OBVIOUS
  <1>2. PacketsWith(sig, <<x>>) = IF x.signedLen = sig THEN 1 ELSE 0
    <2>1. DOMAIN <<x>> = {1} /\ <<x>>[1] = x
      OBVIOUS
    <2>2. CASE x.signedLen = sig
      <3>1. {i \in DOMAIN <<x>> : <<x>>[i].signedLen = sig} = {1}
        BY <2>1, <2>2
      <3> QED BY <2>2, <3>1, FS_Singleton DEF PacketsWith
    <2>3. CASE x.signedLen # sig
      <3>1. {i \in DOMAIN <<x>> : <<x>>[i].signedLen = sig} = {}
        BY <2>1, <2>3
      <3> QED BY <2>3, <3>1, FS_EmptySet DEF PacketsWith
    <2> QED BY <2>2, <2>3
  <1> QED BY <1>1, <1>2, PacketsWithJoin

(* No packets.                                                              *)
LEMMA PacketsWithNone ==
    ASSUME NEW sig
    PROVE  PacketsWith(sig, <<>>) = 0
  <1>1. {i \in DOMAIN <<>> : <<>>[i].signedLen = sig} = {}
    OBVIOUS
  <1> QED BY <1>1, FS_EmptySet DEF PacketsWith

-----------------------------------------------------------------------------
(* The counts of packetDetail, all signatures together.                     *)
Nums(detail) == [i \in DOMAIN detail |-> detail[i].num]

(* They are numbers.                                                        *)
LEMMA NumsFacts ==
    ASSUME NEW detail \in Seq(Detail)
    PROVE  /\ Nums(detail) \in Seq(Nat) /\ Len(Nums(detail)) = Len(detail)
           /\ \A i \in 1 .. Len(detail) : Nums(detail)[i] = detail[i].num
           /\ PacketCount(detail) = Total(Nums(detail)) /\ PacketCount(detail) \in Nat
  <1>1. PICK n \in Nat : n = Len(detail) /\ DOMAIN detail = 1 .. n
    OBVIOUS
  <1>2. PICK v : v = Nums(detail)
    OBVIOUS
  <1>3. v = [i \in 1 .. n |-> detail[i].num]
    BY <1>1, <1>2 DEF Nums
  <1>4. \A i \in 1 .. n : detail[i].num \in Nat
    <2> SUFFICES ASSUME NEW i \in 1 .. n PROVE detail[i].num \in Nat
      OBVIOUS
    <2>1. detail[i] \in Detail
      BY <1>1
    <2> QED BY <2>1 DEF Detail
  <1>5. v \in Seq(Nat) /\ Len(v) = n
    BY <1>3, <1>4
  <1>6. PacketCount(detail) = Total(v)
    BY <1>2 DEF PacketCount, Nums
  <1>7. Total(v) \in Nat
    <2>1. PICK h \in [0 .. n -> Nat] : h[n] = Total(v)
      BY <1>5, TotalFacts
    <2>2. n \in 0 .. n
      OBVIOUS
    <2> QED BY <2>1, <2>2
  <1> QED BY <1>1, <1>2, <1>3, <1>5, <1>6, <1>7

(* CountOf adds up the counts of one signature.                             *)
LEMMA CountOfFacts ==
    ASSUME NEW b, b.packetDetail \in Seq(Detail), NEW s
    PROVE  CountOf(s, b) = Total(Counts(s, b.packetDetail)) /\ CountOf(s, b) \in Nat
  <1>1. CountOf(s, b) = Total(Counts(s, b.packetDetail))
    BY DEF CountOf, Counts
  <1> QED BY <1>1, CountsFacts

(* AddSig on an exact burst with room: it raises one entry of packetDetail  *)
(* or adds one.                                                             *)
LEMMA AddSigDetail ==
    ASSUME NEW b, Exact(b), NEW sig \in Sig, b.uniPktNum < BURST_MAX_UNISIG
    PROVE  LET x == b.packetDetail
               y == AddSig(b, sig).packetDetail
           IN  /\ x \in Seq(Detail) /\ y \in Seq(Detail)
               /\ \/ y = Append(x, [sig |-> sig, num |-> 1])
                  \/ /\ Len(y) = Len(x)
                     /\ \E i \in 1 .. Len(x) :
                           /\ x[i].sig = sig /\ y[i].sig = sig /\ y[i].num = x[i].num + 1
                           /\ \A j \in 1 .. Len(x) : j # i => y[j] = x[j]
               /\ AddSig(b, sig).instanceLabel = b.instanceLabel
  <1>1. PICK x : x = b.packetDetail
    OBVIOUS
  <1>2. /\ b \in BurstType /\ x \in Seq(Detail) /\ b.uniPktNum = Len(x) /\ Len(x) \in Nat
        /\ b.pktNum \in Nat /\ b.uniPktNum \in 0 .. UINT8 - 1
    BY <1>1, BurstFields DEF Exact
  <1>3. Exact(AddSig(b, sig))
    BY AddSigFacts
  <1>4. AddSig(b, sig).packetDetail \in Seq(Detail)
    <2>1. AddSig(b, sig) \in BurstType
      BY <1>3 DEF Exact
    <2> QED BY <2>1, BurstFields
  <1>5. CASE Hits(b, sig) # {}
    <2>1. PICK i \in 1 .. Len(x) : x[i].sig = sig
      BY <1>1, <1>2, <1>5 DEF Hits
    <2>2. Hits(b, sig) = {i}
      BY <1>1, <1>2, <2>1 DEF Hits, Exact
    <2>3. (CHOOSE k \in Hits(b, sig) : \A j \in Hits(b, sig) : k <= j) = i
      BY <2>1, <2>2
    <2>4. AddSig(b, sig) = [b EXCEPT !.packetDetail[i].num = @ + 1, !.pktNum = @ + 1]
      BY <1>5, <2>3 DEF AddSig, PiggyBack
    <2>5. PICK y : y = [x EXCEPT ![i].num = @ + 1]
      OBVIOUS
    <2>6. AddSig(b, sig).packetDetail = y /\ AddSig(b, sig).instanceLabel = b.instanceLabel
      BY <1>1, <1>2, <2>4, <2>5 DEF BurstType
    <2>7. x[i] \in Detail
      BY <1>2
    <2>8. /\ Len(y) = Len(x) /\ y[i].sig = sig /\ y[i].num = x[i].num + 1
          /\ \A j \in 1 .. Len(x) : j # i => y[j] = x[j]
      <3>1. /\ [x[i] EXCEPT !.num = @ + 1].sig = x[i].sig
            /\ [x[i] EXCEPT !.num = @ + 1].num = x[i].num + 1
        BY <2>7 DEF Detail
      <3> QED BY <1>2, <2>1, <2>5, <3>1
    <2> QED BY <1>1, <1>2, <1>4, <2>1, <2>6, <2>8
  <1>6. CASE Hits(b, sig) = {}
    <2>1. AddSig(b, sig) = [b EXCEPT !.packetDetail = Append(@, [sig |-> sig, num |-> 1]),
                                     !.pktNum = @ + 1, !.uniPktNum = (@ + 1) % UINT8]
      BY <1>6 DEF AddSig
    <2>2. /\ AddSig(b, sig).packetDetail = Append(x, [sig |-> sig, num |-> 1])
          /\ AddSig(b, sig).instanceLabel = b.instanceLabel
      BY <1>1, <1>2, <2>1 DEF BurstType
    <2> QED BY <1>1, <1>2, <1>4, <2>2
  <1> QED BY <1>5, <1>6

(* It counts one packet more of its signature, and one more in all.         *)
LEMMA AddSigCounts ==
    ASSUME NEW b, Exact(b), NEW sig \in Sig, b.uniPktNum < BURST_MAX_UNISIG
    PROVE  /\ \A s \in Sig : CountOf(s, AddSig(b, sig))
                                = CountOf(s, b) + (IF s = sig THEN 1 ELSE 0)
           /\ PacketCount(AddSig(b, sig).packetDetail) = PacketCount(b.packetDetail) + 1
  <1>1. PICK x \in Seq(Detail), y \in Seq(Detail) :
            x = b.packetDetail /\ y = AddSig(b, sig).packetDetail
    BY AddSigDetail
  <1>2. /\ \A s : CountOf(s, b) = Total(Counts(s, x)) /\ Total(Counts(s, x)) \in Nat
        /\ \A s : CountOf(s, AddSig(b, sig)) = Total(Counts(s, y))
        /\ PacketCount(x) = Total(Nums(x)) /\ PacketCount(y) = Total(Nums(y))
    BY <1>1, CountOfFacts, CountsFacts, NumsFacts
  <1>3. /\ \A s : /\ Counts(s, x) \in Seq(Nat) /\ Len(Counts(s, x)) = Len(x)
                  /\ Counts(s, y) \in Seq(Nat) /\ Len(Counts(s, y)) = Len(y)
                  /\ \A j \in 1 .. Len(x) :
                        Counts(s, x)[j] = IF x[j].sig = s THEN x[j].num ELSE 0
                  /\ \A j \in 1 .. Len(y) :
                        Counts(s, y)[j] = IF y[j].sig = s THEN y[j].num ELSE 0
        /\ Nums(x) \in Seq(Nat) /\ Len(Nums(x)) = Len(x)
        /\ Nums(y) \in Seq(Nat) /\ Len(Nums(y)) = Len(y)
        /\ \A j \in 1 .. Len(x) : Nums(x)[j] = x[j].num
        /\ \A j \in 1 .. Len(y) : Nums(y)[j] = y[j].num
    BY CountsFacts, NumsFacts
  <1>4. CASE y = Append(x, [sig |-> sig, num |-> 1])
    <2>1. /\ Len(y) = Len(x) + 1 /\ Len(x) \in Nat
          /\ \A j \in 1 .. Len(x) : y[j] = x[j] /\ j \in 1 .. Len(y)
          /\ y[Len(x) + 1].sig = sig /\ y[Len(x) + 1].num = 1 /\ Len(x) + 1 \in 1 .. Len(y)
      <3>1. /\ Len(y) = Len(x) + 1 /\ Len(x) \in Nat
            /\ \A j \in 1 .. Len(x) : y[j] = x[j]
            /\ y[Len(x) + 1] = [sig |-> sig, num |-> 1]
        BY <1>4
      <3>2. Len(x) + 1 \in 1 .. Len(y) /\ \A j \in 1 .. Len(x) : j \in 1 .. Len(y)
        BY <3>1
      <3> QED BY <3>1, <3>2
    <2>2. ASSUME NEW s \in Sig
          PROVE  Total(Counts(s, y)) = Total(Counts(s, x)) + (IF s = sig THEN 1 ELSE 0)
      <3>1. PICK v \in Seq(Nat), w \in Seq(Nat), c \in Nat :
               v = Counts(s, x) /\ w = Counts(s, y) /\ c = IF s = sig THEN 1 ELSE 0
        BY <1>3
      <3>a. /\ Len(v) = Len(x) /\ Len(w) = Len(y)
            /\ \A j \in 1 .. Len(x) : v[j] = IF x[j].sig = s THEN x[j].num ELSE 0
            /\ \A j \in 1 .. Len(y) : w[j] = IF y[j].sig = s THEN y[j].num ELSE 0
        BY <1>3, <3>1
      <3>2. /\ Len(v) = Len(x) /\ Len(w) = Len(x) + 1 /\ w[Len(x) + 1] = c
            /\ \A j \in 1 .. Len(x) : w[j] = v[j]
        BY <2>1, <3>1, <3>a
      <3>3. w = Append(v, c)
        BY <3>2
      <3> QED BY <3>1, <3>3, TotalAppend
    <2>3. Total(Nums(y)) = Total(Nums(x)) + 1
      <3>1. PICK v \in Seq(Nat), w \in Seq(Nat) : v = Nums(x) /\ w = Nums(y)
        BY <1>3
      <3>a. /\ Len(v) = Len(x) /\ Len(w) = Len(y)
            /\ \A j \in 1 .. Len(x) : v[j] = x[j].num
            /\ \A j \in 1 .. Len(y) : w[j] = y[j].num
        BY <1>3, <3>1
      <3>2. /\ Len(v) = Len(x) /\ Len(w) = Len(x) + 1 /\ w[Len(x) + 1] = 1
            /\ \A j \in 1 .. Len(x) : w[j] = v[j]
        BY <2>1, <3>a
      <3>3. w = Append(v, 1)
        BY <3>2
      <3> QED BY <3>1, <3>3, TotalAppend
    <2> QED BY <1>1, <1>2, <2>2, <2>3
  <1>5. CASE /\ Len(y) = Len(x)
             /\ \E i \in 1 .. Len(x) :
                   /\ x[i].sig = sig /\ y[i].sig = sig /\ y[i].num = x[i].num + 1
                   /\ \A j \in 1 .. Len(x) : j # i => y[j] = x[j]
    <2>1. PICK i \in 1 .. Len(x) :
               /\ x[i].sig = sig /\ y[i].sig = sig /\ y[i].num = x[i].num + 1
               /\ \A j \in 1 .. Len(x) : j # i => y[j] = x[j]
      BY <1>5
    <2>2. ASSUME NEW s \in Sig
          PROVE  Total(Counts(s, y)) = Total(Counts(s, x)) + (IF s = sig THEN 1 ELSE 0)
      <3>1. PICK v \in Seq(Nat), w \in Seq(Nat) : v = Counts(s, x) /\ w = Counts(s, y)
        BY <1>3
      <3>a. /\ Len(v) = Len(x) /\ Len(w) = Len(x)
            /\ \A j \in 1 .. Len(x) : /\ v[j] = IF x[j].sig = s THEN x[j].num ELSE 0
                                      /\ w[j] = IF y[j].sig = s THEN y[j].num ELSE 0
        <4>1. Len(y) = Len(x)
          BY <1>5
        <4>2. Len(v) = Len(x) /\ \A j \in 1 .. Len(x) : v[j] = IF x[j].sig = s THEN x[j].num ELSE 0
          BY <3>1, CountsFacts
        <4>3. Len(w) = Len(y) /\ \A j \in 1 .. Len(y) : w[j] = IF y[j].sig = s THEN y[j].num ELSE 0
          BY <3>1, CountsFacts
        <4> QED BY <4>1, <4>2, <4>3
      <3>2. /\ Len(v) = Len(x) /\ Len(w) = Len(v) /\ \A j \in 1 .. Len(x) : j # i => w[j] = v[j]
        BY <2>1, <3>a
      <3>3. CASE s = sig
        <4>1. w[i] = v[i] + 1
          BY <2>1, <3>3, <3>a
        <4>2. Total(w) = Total(v) + 1
          BY <3>2, <4>1, TotalOneMore
        <4> QED BY <3>1, <3>3, <4>2
      <3>4. CASE s # sig
        <4>1. w[i] = v[i]
          BY <2>1, <3>4, <3>a
        <4>2. w = v
          <5>1. \A j \in 1 .. Len(v) : w[j] = v[j]
            BY <3>2, <3>a, <4>1
          <5> QED BY <3>2, <5>1, SeqEqual
        <4> QED BY <1>2, <3>1, <3>4, <4>2
      <3> QED BY <3>3, <3>4
    <2>3. Total(Nums(y)) = Total(Nums(x)) + 1
      <3>1. PICK v \in Seq(Nat), w \in Seq(Nat) : v = Nums(x) /\ w = Nums(y)
        BY <1>3
      <3>a. /\ Len(v) = Len(x) /\ Len(w) = Len(x)
            /\ \A j \in 1 .. Len(x) : v[j] = x[j].num /\ w[j] = y[j].num
        BY <1>3, <1>5, <3>1
      <3>2. /\ Len(v) = Len(x) /\ Len(w) = Len(v) /\ w[i] = v[i] + 1
            /\ \A j \in 1 .. Len(x) : j # i => w[j] = v[j]
        BY <2>1, <3>a
      <3>3. Total(w) = Total(v) + 1
        BY <3>2, TotalOneMore
      <3> QED BY <3>1, <3>3
    <2> QED BY <1>1, <1>2, <2>2, <2>3
  <1> QED BY <1>1, <1>4, <1>5, AddSigDetail

-----------------------------------------------------------------------------
(* A burst that counts what it holds, of the device whose name is Label.    *)
Sound(b) ==
    /\ Exact(b)
    /\ b.instanceLabel = Label
    /\ PacketCount(b.packetDetail) = b.pktNum

(* Such a burst passes Validate.                                            *)
LEMMA SoundValidates ==
    ASSUME NEW b, Sound(b)
    PROVE  Validate(b) = "OK"
  <1>1. Label # ""
    BY LabelAssumption, Zenon
  <1>2. /\ b.instanceLabel # "" /\ Len(b.packetDetail) = b.uniPktNum
        /\ PacketCount(b.packetDetail) = b.pktNum
    BY <1>1 DEF Sound, Exact
  <1>3. ~(b.uniPktNum > BURST_MAX_UNISIG)
    <2>1. b.uniPktNum \in Nat /\ BURST_MAX_UNISIG \in Nat
      BY BurstFields, UnisigAssumption DEF Sound, Exact
    <2> QED BY <2>1 DEF Sound, Exact
  <1> QED BY <1>2, <1>3 DEF Validate

(* A new burst counts nothing.                                              *)
LEMMA NewBurstSound ==
    Sound(NewBurst(Label)) /\ \A s : CountOf(s, NewBurst(Label)) = 0
  <1>1. PICK b : b = NewBurst(Label)
    OBVIOUS
  <1>2. b.packetDetail = <<>> /\ b.pktNum = 0 /\ b.instanceLabel = Label
    BY <1>1 DEF NewBurst
  <1>3. <<>> \in Seq(Detail) /\ Len(<<>>) = 0
    OBVIOUS
  <1>4. ASSUME NEW v \in Seq(Nat), Len(v) = 0 PROVE Total(v) = 0
    <2>1. PICK h \in [0 .. Len(v) -> Nat] : h[Len(v)] = Total(v) /\ Sums(h, v, Len(v))
      BY TotalFacts
    <2> QED BY <1>4, <2>1 DEF Sums
  <1>5. PacketCount(b.packetDetail) = 0
    BY <1>2, <1>3, <1>4, NumsFacts
  <1>6. \A s : CountOf(s, b) = 0
    <2> SUFFICES ASSUME NEW s PROVE CountOf(s, b) = 0
      OBVIOUS
    <2>1. CountOf(s, b) = Total(Counts(s, <<>>))
      BY <1>2, <1>3, CountOfFacts
    <2>2. Counts(s, <<>>) \in Seq(Nat) /\ Len(Counts(s, <<>>)) = 0
      BY <1>3, CountsFacts
    <2> QED BY <1>4, <2>1, <2>2
  <1>7. Exact(b)
    BY <1>1, NewBurstFacts
  <1> QED BY <1>1, <1>2, <1>5, <1>6, <1>7 DEF Sound

(* Setting a stamp changes no count.                                        *)
LEMMA StampedSound ==
    ASSUME NEW b, Sound(b), NEW x \in Packet
    PROVE  Sound(Stamped(b, x)) /\ \A s : CountOf(s, Stamped(b, x)) = CountOf(s, b)
  <1>1. b \in BurstType /\ x.timestamp \in Timespec
    BY DEF Sound, Exact, Packet
  <1>2. PICK c : c = Stamped(b, x)
    OBVIOUS
  <1>3. /\ c \in BurstType /\ c.packetDetail = b.packetDetail
        /\ c.uniPktNum = b.uniPktNum /\ c.pktNum = b.pktNum
    BY <1>1, <1>2, StampedFacts
  <1>4. c.instanceLabel = b.instanceLabel
    BY <1>1, <1>2 DEF Stamped, BurstType
  <1>5. Exact(c)
    BY <1>3 DEF Sound, Exact
  <1>6. \A s : CountOf(s, c) = CountOf(s, b)
    BY <1>3 DEF CountOf
  <1> QED BY <1>2, <1>3, <1>4, <1>5, <1>6 DEF Sound

(* AddPacket counts the packet it adds.                                     *)
LEMMA AddPacketSound ==
    ASSUME NEW b, Sound(b), NEW x \in Packet, b.uniPktNum < BURST_MAX_UNISIG
    PROVE  /\ Sound(AddPacket(b, x))
           /\ \A s \in Sig : CountOf(s, AddPacket(b, x))
                               = CountOf(s, b) + (IF s = x.signedLen THEN 1 ELSE 0)
  <1>1. x.signedLen \in Sig /\ x.timestamp \in Timespec /\ Exact(b)
    BY DEF Sound, Packet
  <1>2. PICK a : a = AddSig(b, x.signedLen)
    OBVIOUS
  <1>3. PICK c : c = AddPacket(b, x)
    OBVIOUS
  <1>4. /\ Exact(a) /\ a.pktNum = b.pktNum + 1 /\ a.instanceLabel = b.instanceLabel
        /\ PacketCount(a.packetDetail) = PacketCount(b.packetDetail) + 1
        /\ \A s \in Sig : CountOf(s, a) = CountOf(s, b) + (IF s = x.signedLen THEN 1 ELSE 0)
    BY <1>1, <1>2, AddSigFacts, AddSigDetail, AddSigCounts
  <1>5. c = [a EXCEPT !.lastPacketStamp = x.timestamp] /\ a \in BurstType
    BY <1>2, <1>3, <1>4 DEF AddPacket, Exact
  <1>6. /\ c.packetDetail = a.packetDetail /\ c.pktNum = a.pktNum
        /\ c.instanceLabel = a.instanceLabel
    BY <1>5 DEF BurstType
  <1>7. Exact(c)
    BY <1>1, <1>3, AddPacketFacts
  <1>8. \A s : CountOf(s, c) = CountOf(s, a)
    BY <1>6 DEF CountOf
  <1> QED BY <1>3, <1>4, <1>6, <1>7, <1>8 DEF Sound

(* The counts of one signed length, burst by burst.                         *)
BurstCounts(sig, bursts) == [i \in DOMAIN bursts |-> CountOf(sig, bursts[i])]

(* Tally adds them up.                                                      *)
LEMMA TallyFacts ==
    ASSUME NEW bursts \in Seq(BurstType), NEW sig
    PROVE  /\ BurstCounts(sig, bursts) \in Seq(Nat)
           /\ Len(BurstCounts(sig, bursts)) = Len(bursts)
           /\ \A i \in 1 .. Len(bursts) : BurstCounts(sig, bursts)[i] = CountOf(sig, bursts[i])
           /\ Tally(sig, bursts) = Total(BurstCounts(sig, bursts)) /\ Tally(sig, bursts) \in Nat
  <1>1. PICK n \in Nat : n = Len(bursts) /\ DOMAIN bursts = 1 .. n
    OBVIOUS
  <1>2. PICK v : v = BurstCounts(sig, bursts)
    OBVIOUS
  <1>3. v = [i \in 1 .. n |-> CountOf(sig, bursts[i])]
    BY <1>1, <1>2 DEF BurstCounts
  <1>4. \A i \in 1 .. n : CountOf(sig, bursts[i]) \in Nat
    <2> SUFFICES ASSUME NEW i \in 1 .. n PROVE CountOf(sig, bursts[i]) \in Nat
      OBVIOUS
    <2>1. bursts[i] \in BurstType
      BY <1>1
    <2>2. bursts[i].packetDetail \in Seq(Detail)
      BY <2>1, BurstFields
    <2> QED BY <2>2, CountOfFacts
  <1>5. v \in Seq(Nat) /\ Len(v) = n
    BY <1>3, <1>4
  <1>6. Tally(sig, bursts) = Total(v)
    BY <1>2 DEF Tally, BurstCounts
  <1>7. Total(v) \in Nat
    <2>1. PICK h \in [0 .. n -> Nat] : h[n] = Total(v)
      BY <1>5, TotalFacts
    <2>2. n \in 0 .. n
      OBVIOUS
    <2> QED BY <2>1, <2>2
  <1> QED BY <1>1, <1>2, <1>3, <1>5, <1>6, <1>7

(* Bursts joined count what both parts count.                               *)
LEMMA TallyJoin ==
    ASSUME NEW u \in Seq(BurstType), NEW w \in Seq(BurstType), NEW sig
    PROVE  Tally(sig, u \o w) = Tally(sig, u) + Tally(sig, w)
  <1>1. PICK n \in Nat, m \in Nat : n = Len(u) /\ m = Len(w)
    OBVIOUS
  <1>2. PICK x \in Seq(BurstType) : x = u \o w
    <2>1. u \o w \in Seq(BurstType)
      BY ConcatProperties
    <2> QED BY <2>1
  <1>3. Len(x) = n + m /\ \A k \in 1 .. n + m : x[k] = IF k <= n THEN u[k] ELSE w[k - n]
    BY <1>1, <1>2
  <1> DEFINE Adds(d, s) == /\ d \in Seq(Nat) /\ Len(d) = Len(s)
                           /\ \A i \in 1 .. Len(s) : d[i] = CountOf(sig, s[i])
                           /\ Tally(sig, s) = Total(d)
  <1>a. ASSUME NEW s \in Seq(BurstType) PROVE \E d \in Seq(Nat) : Adds(d, s)
    <2>1. Adds(BurstCounts(sig, s), s) /\ BurstCounts(sig, s) \in Seq(Nat)
      BY TallyFacts
    <2> HIDE DEF Adds
    <2> QED BY <2>1
  <1>4. PICK a \in Seq(Nat), b \in Seq(Nat), c \in Seq(Nat) :
            Adds(a, u) /\ Adds(b, w) /\ Adds(c, x)
    <2> HIDE DEF Adds
    <2>1. PICK a \in Seq(Nat) : Adds(a, u)
      BY <1>a
    <2>2. PICK b \in Seq(Nat) : Adds(b, w)
      BY <1>a
    <2>3. PICK c \in Seq(Nat) : Adds(c, x)
      BY <1>a
    <2> QED BY <2>1, <2>2, <2>3
  <1>5. /\ Len(a) = n /\ \A i \in 1 .. n : a[i] = CountOf(sig, u[i])
        /\ Len(b) = m /\ \A i \in 1 .. m : b[i] = CountOf(sig, w[i])
        /\ Len(c) = n + m /\ \A i \in 1 .. n + m : c[i] = CountOf(sig, x[i])
    <2>1. Len(a) = n /\ \A i \in 1 .. n : a[i] = CountOf(sig, u[i])
      BY <1>1, <1>4
    <2>2. Len(b) = m /\ \A i \in 1 .. m : b[i] = CountOf(sig, w[i])
      BY <1>1, <1>4
    <2>3. Len(c) = n + m /\ \A i \in 1 .. n + m : c[i] = CountOf(sig, x[i])
      BY <1>3, <1>4
    <2> QED BY <2>1, <2>2, <2>3
  <1>6. /\ a \o b \in Seq(Nat) /\ Len(a \o b) = n + m
        /\ \A i \in 1 .. n + m : (a \o b)[i] = IF i <= n THEN a[i] ELSE b[i - n]
    <2>1. Len(a) = n /\ Len(b) = m
      BY <1>5
    <2> QED BY <2>1, ConcatProperties
  <1>7. ASSUME NEW i \in 1 .. n + m PROVE c[i] = (a \o b)[i]
    <2> HIDE DEF Adds
    <2>a. c[i] = CountOf(sig, x[i])
      BY <1>5
    <2>1. CASE i <= n
      <3>1. i \in 1 .. n
        BY <2>1
      <3>2. x[i] = u[i]
        BY <1>3, <2>1
      <3>3. (a \o b)[i] = a[i]
        BY <1>6, <2>1
      <3>4. a[i] = CountOf(sig, u[i])
        BY <1>5, <3>1
      <3> QED BY <2>a, <3>2, <3>3, <3>4
    <2>2. CASE ~(i <= n)
      <3>1. i - n \in 1 .. m
        BY <2>2
      <3>2. x[i] = w[i - n]
        BY <1>3, <2>2
      <3>3. (a \o b)[i] = b[i - n]
        BY <1>6, <2>2
      <3>4. b[i - n] = CountOf(sig, w[i - n])
        BY <1>5, <3>1
      <3> QED BY <2>a, <3>2, <3>3, <3>4
    <2> QED BY <2>1, <2>2
  <1>8. c = a \o b
    BY <1>5, <1>6, <1>7, SeqEqual
  <1>9. Total(c) = Total(a) + Total(b)
    BY <1>8, TotalJoin
  <1> QED BY <1>2, <1>4, <1>9

(* One burst more.                                                          *)
LEMMA TallyAppend ==
    ASSUME NEW u \in Seq(BurstType), NEW b \in BurstType, NEW sig
    PROVE  Tally(sig, Append(u, b)) = Tally(sig, u) + CountOf(sig, b)
  <1>1. PICK n \in Nat : n = Len(u)
    OBVIOUS
  <1>2. PICK x \in Seq(BurstType) : x = Append(u, b)
    <2>1. Append(u, b) \in Seq(BurstType)
      OBVIOUS
    <2> QED BY <2>1
  <1>3. Len(x) = n + 1 /\ x[n + 1] = b /\ \A k \in 1 .. n : x[k] = u[k]
    BY <1>1, <1>2
  <1>4. PICK a \in Seq(Nat) : /\ Len(a) = n /\ \A i \in 1 .. n : a[i] = CountOf(sig, u[i])
                              /\ Tally(sig, u) = Total(a)
    BY <1>1, TallyFacts
  <1>a. PICK y \in Nat : y = CountOf(sig, b)
    <2>1. b.packetDetail \in Seq(Detail)
      BY BurstFields
    <2> QED BY <2>1, CountOfFacts
  <1>5. PICK c \in Seq(Nat) : /\ Len(c) = n + 1 /\ \A i \in 1 .. n + 1 : c[i] = CountOf(sig, x[i])
                              /\ Tally(sig, x) = Total(c)
    BY <1>3, TallyFacts
  <1>6. c = Append(a, y)
    <2>1. Append(a, y) \in Seq(Nat) /\ Len(Append(a, y)) = n + 1
      BY <1>4
    <2>2. ASSUME NEW i \in 1 .. n + 1 PROVE c[i] = Append(a, y)[i]
      BY <1>3, <1>4, <1>a, <1>5
    <2> QED BY <1>5, <2>1, <2>2, SeqEqual
  <1>7. Total(c) = Total(a) + y
    BY <1>6, TotalAppend
  <1> QED BY <1>2, <1>4, <1>a, <1>5, <1>7

-----------------------------------------------------------------------------
(* StrictToBursts as a fold *)

(* The locals of the loop: the burst under construction has not overflown.  *)
Locals == [burst : {b \in BurstType : Exact(b)}, burstVec : Seq(BurstType)]

Fresh == [burst |-> NewBurst(Label), burstVec |-> <<>>]

(* One iteration keeps the types of the locals.                             *)
LEMMA StrictStepType ==
    ASSUME NEW s \in Locals, NEW x \in Packet
    PROVE  StrictStep(s, x) \in Locals
  <1>1. s.burst \in BurstType /\ Exact(s.burst) /\ s.burstVec \in Seq(BurstType)
    BY DEF Locals
  <1>2. PICK b : b = Stamped(s.burst, x)
    OBVIOUS
  <1>3. b \in BurstType /\ Exact(b)
    BY <1>1, <1>2, StampedFacts DEF Exact
  <1>4. ASSUME NEW c, Exact(c), NEW vec \in Seq(BurstType)
        PROVE  [burst |-> c, burstVec |-> vec] \in Locals
    BY <1>4 DEF Locals, Exact
  <1>5. CASE MustCut(b, x)
    <2>1. Exact(NewBurst(Label)) /\ NewBurst(Label).uniPktNum < BURST_MAX_UNISIG
      BY NewBurstFacts, UnisigAssumption
    <2>2. Exact(AddPacket(NewBurst(Label), x))
      BY <2>1, AddPacketFacts
    <2>3. Append(s.burstVec, b) \in Seq(BurstType)
      BY <1>1, <1>3
    <2>4. StrictStep(s, x) = [burst |-> AddPacket(NewBurst(Label), x),
                              burstVec |-> Append(s.burstVec, b)]
      BY <1>2, <1>5 DEF StrictStep
    <2> QED BY <1>4, <2>2, <2>3, <2>4
  <1>6. CASE ~MustCut(b, x)
    <2>1. b.uniPktNum < BURST_MAX_UNISIG
      <3>1. b.uniPktNum \in Nat /\ BURST_MAX_UNISIG \in Nat
        BY <1>3, BurstFields, UnisigAssumption
      <3> QED BY <1>6, <3>1 DEF MustCut
    <2>2. Exact(AddPacket(b, x))
      BY <1>3, <2>1, AddPacketFacts
    <2>3. StrictStep(s, x) = [burst |-> AddPacket(b, x), burstVec |-> s.burstVec]
      BY <1>2, <1>6 DEF StrictStep
    <2> QED BY <1>1, <1>4, <2>2, <2>3
  <1> QED BY <1>5, <1>6

(* The loop, iteration by iteration.                                        *)
Loops(h, vec, n) == h[0] = Fresh /\ \A k \in 1 .. n : h[k] = StrictStep(h[k - 1], vec[k])

(* The locals after the loop.                                               *)
Looped(vec) == FoldLeft(StrictStep, Fresh, vec)

(* StrictToBursts goes through the iterations and pushes the last burst.    *)
LEMMA StrictLoops ==
    ASSUME NEW vec \in Seq(Packet)
    PROVE  \E h \in [0 .. Len(vec) -> Locals] :
              /\ Loops(h, vec, Len(vec)) /\ h[Len(vec)] = Looped(vec)
              /\ StrictToBursts(vec) = Append(h[Len(vec)].burstVec, h[Len(vec)].burst)
  <1>1. PICK n \in Nat : n = Len(vec) /\ DOMAIN vec = 1 .. n
    OBVIOUS
  <1>2. Fresh \in Locals
    <2>1. Exact(NewBurst(Label)) /\ <<>> \in Seq(BurstType)
      BY NewBurstFacts
    <2>2. NewBurst(Label) \in BurstType
      BY <2>1 DEF Exact
    <2> HIDE DEF NewBurst
    <2> QED BY <2>1, <2>2 DEF Fresh, Locals
  <1> DEFINE Is(f) == f = [s \in SUBSET DOMAIN vec |->
                              IF s = {} THEN Fresh ELSE StrictStep(f[s \ {Max(s)}], vec[Max(s)])]
  <1> DEFINE last == (CHOOSE f : Is(f))[DOMAIN vec]
  <1>3. StrictToBursts(vec) = Append(last.burstVec, last.burst)
    BY Zenon DEF StrictToBursts, FoldLeft, MapThenFoldSet, Fresh
  <1>13. Looped(vec) = last
    BY Zenon DEF Looped, FoldLeft, MapThenFoldSet
  <1>4. PICK step : step = [k \in 1 .. n |-> [a \in Locals |-> StrictStep(a, vec[k])]]
    OBVIOUS
  <1>5. ASSUME NEW k \in 1 .. n, NEW a \in Locals
        PROVE  step[k][a] = StrictStep(a, vec[k]) /\ step[k][a] \in Locals
    <2>1. vec[k] \in Packet
      BY <1>1
    <2>2. step[k][a] = StrictStep(a, vec[k])
      BY <1>4
    <2> QED BY <2>1, <2>2, StrictStepType
  <1>6. ASSUME NEW f \in [SUBSET (1 .. n) -> Locals], NEW s \in SUBSET (1 .. n), s # {}
        PROVE  step[Max(s)][f[s \ {Max(s)}]] = StrictStep(f[s \ {Max(s)}], vec[Max(s)])
    <2>1. Max(s) \in 1 .. n
      BY <1>6, MaxOfSome
    <2>2. f[s \ {Max(s)}] \in Locals
      OBVIOUS
    <2> QED BY <1>5, <2>1, <2>2
  <1>7. \E f \in [SUBSET (1 .. n) -> Locals] : Is(f)
    <2>1. \A k \in 1 .. n : \A a \in Locals : step[k][a] \in Locals
      BY <1>5
    <2>2. PICK f \in [SUBSET (1 .. n) -> Locals] : Folds(f, n, Fresh, step)
      BY <1>2, <2>1, FoldExists
    <2>3. \A s \in SUBSET (1 .. n) :
              f[s] = IF s = {} THEN Fresh ELSE StrictStep(f[s \ {Max(s)}], vec[Max(s)])
      BY <1>6, <2>2 DEF Folds
    <2>4. f = [s \in SUBSET DOMAIN vec |-> f[s]]
      BY <1>1
    <2>5. f = [s \in SUBSET DOMAIN vec |->
                  IF s = {} THEN Fresh ELSE StrictStep(f[s \ {Max(s)}], vec[Max(s)])]
      BY <1>1, <2>3, <2>4
    <2> QED BY <2>5
  <1>8. PICK g : Is(g) /\ last = g[1 .. n]
    <2> DEFINE chosen == CHOOSE f : Is(f)
    <2>1. Is(chosen)
      <3> HIDE DEF Is
      <3> QED BY <1>7
    <2>2. last = chosen[1 .. n]
      BY <1>1
    <2> HIDE DEF chosen
    <2> QED BY <2>1, <2>2
  <1> HIDE DEF last
  <1>9. PICK h : h = [k \in 0 .. n |-> g[1 .. k]]
    OBVIOUS
  <1>10. h[0] = Fresh /\ h[n] = last
    <2>1. 0 \in 0 .. n /\ n \in 0 .. n /\ 1 .. 0 = {} /\ {} \in SUBSET DOMAIN vec
      OBVIOUS
    <2>2. g[{}] = Fresh
      BY <1>8, <2>1
    <2> QED BY <1>8, <1>9, <2>1, <2>2
  <1>11. ASSUME NEW k \in 1 .. n PROVE h[k] = StrictStep(h[k - 1], vec[k])
    <2>1. /\ 1 .. k \in SUBSET DOMAIN vec /\ 1 .. k # {}
          /\ Max(1 .. k) = k /\ (1 .. k) \ {Max(1 .. k)} = 1 .. k - 1
          /\ k \in 0 .. n /\ k - 1 \in 0 .. n
      BY <1>1, FirstIndices
    <2>2. g[1 .. k] = StrictStep(g[1 .. k - 1], vec[k])
      BY <1>8, <2>1
    <2> QED BY <1>9, <2>1, <2>2
  <1>12. h \in [0 .. n -> Locals]
    <2> DEFINE In == {k \in 0 .. n : h[k] \in Locals}
    <2>1. 0 \in In
      BY <1>2, <1>10
    <2>2. ASSUME NEW k \in 1 .. n, k - 1 \in In PROVE k \in In
      <3>1. vec[k] \in Packet /\ h[k - 1] \in Locals /\ k \in 0 .. n
        BY <1>1, <2>2
      <3> QED BY <1>11, <3>1, StrictStepType
    <2>3. 0 .. n \subseteq In
      <3> HIDE DEF In
      <3> QED BY <2>1, <2>2, UpTo
    <2> QED BY <1>9, <2>3
  <1> QED BY <1>1, <1>3, <1>10, <1>11, <1>12, <1>13 DEF Loops

(* The first k packets of a vector.                                         *)
Prefix(vec, k) == [i \in 1 .. k |-> vec[i]]

(* One packet longer.                                                       *)
LEMMA PrefixFacts ==
    ASSUME NEW S, NEW vec \in Seq(S)
    PROVE  /\ Prefix(vec, 0) = <<>> /\ Prefix(vec, Len(vec)) = vec
           /\ \A k \in 1 .. Len(vec) : /\ Prefix(vec, k - 1) \in Seq(S)
                                       /\ Prefix(vec, k) = Append(Prefix(vec, k - 1), vec[k])
  <1>1. PICK n \in Nat : n = Len(vec) /\ DOMAIN vec = 1 .. n
    OBVIOUS
  <1>2. Prefix(vec, 0) = <<>>
    BY DEF Prefix
  <1>3. Prefix(vec, n) = vec
    BY <1>1 DEF Prefix
  <1>4. ASSUME NEW k \in 1 .. n
        PROVE  /\ Prefix(vec, k - 1) \in Seq(S)
               /\ Prefix(vec, k) = Append(Prefix(vec, k - 1), vec[k])
    <2>1. PICK m \in Nat : m = k - 1
      BY <1>1
    <2>2. PICK u : u = Prefix(vec, m)
      OBVIOUS
    <2>3. \A i \in 1 .. m : vec[i] \in S
      BY <1>1, <2>1
    <2>4. u = [i \in 1 .. m |-> vec[i]]
      BY <2>2 DEF Prefix
    <2>5. u \in Seq(S) /\ Len(u) = m
      BY <2>3, <2>4
    <2>6. vec[k] \in S
      BY <1>1
    <2>7. /\ Append(u, vec[k]) \in Seq(S) /\ Len(Append(u, vec[k])) = k
          /\ \A i \in 1 .. k : Append(u, vec[k])[i] = vec[i]
      BY <2>1, <2>4, <2>5, <2>6
    <2>8. Append(u, vec[k]) = [i \in 1 .. k |-> vec[i]]
      BY <2>7
    <2> QED BY <2>1, <2>2, <2>5, <2>8 DEF Prefix
  <1> QED BY <1>1, <1>2, <1>3, <1>4

(* The bursts that StrictToBursts may make of the packets P: none of them   *)
(* is empty, each has the stamp of one of the packets or none.              *)
StampedIn(b, P) == b.firstPacketStamp = Zero \/ \E p \in P : b.firstPacketStamp = p.timestamp

BurstsOn(P) == {b \in BurstType : Sound(b) /\ b.pktNum >= 1 /\ StampedIn(b, P)}

(* What its locals are after k packets.                                     *)
After(s, vec, k, P) ==
    /\ Sound(s.burst) /\ StampedIn(s.burst, P)
    /\ s.burstVec \in Seq(BurstsOn(P))
    /\ k = 0 => s = Fresh
    /\ k > 0 => /\ s.burst.pktNum >= 1
                /\ (IF s.burstVec = <<>> THEN s.burst ELSE s.burstVec[1]).firstPacketStamp
                        = vec[1].timestamp
    /\ \A sig \in Sig : Tally(sig, s.burstVec) + CountOf(sig, s.burst)
                            = PacketsWith(sig, Prefix(vec, k))

(* A burst of BurstsOn has the fields a burst has.                          *)
LEMMA BurstsOnType ==
    ASSUME NEW P
    PROVE  BurstsOn(P) \subseteq BurstType /\ Seq(BurstsOn(P)) \subseteq Seq(BurstType)
  <1>1. BurstsOn(P) \subseteq BurstType
    BY DEF BurstsOn
  <1> QED BY <1>1

(* No burst, no count.                                                      *)
LEMMA TallyNone ==
    ASSUME NEW sig
    PROVE  Tally(sig, <<>>) = 0
  <1>1. <<>> \in Seq(BurstType) /\ Len(<<>>) = 0
    OBVIOUS
  <1>2. PICK v \in Seq(Nat) : Len(v) = 0 /\ Tally(sig, <<>>) = Total(v)
    BY <1>1, TallyFacts
  <1>3. PICK h \in [0 .. 0 -> Nat] : h[0] = Total(v) /\ Sums(h, v, 0)
    BY <1>2, TotalFacts
  <1> QED BY <1>2, <1>3 DEF Sums

(* The loop starts like this ...                                            *)
LEMMA AfterNone ==
    ASSUME NEW P, NEW vec \in Seq(P)
    PROVE  After(Fresh, vec, 0, P)
  <1>1. PICK b : b = NewBurst(Label)
    OBVIOUS
  <1>2. Sound(b) /\ StampedIn(b, P) /\ \A sig : CountOf(sig, b) = 0
    BY <1>1, NewBurstSound, NewBurstFacts DEF StampedIn
  <1>3. Fresh = [burst |-> b, burstVec |-> <<>>]
    BY <1>1 DEF Fresh
  <1>4. Fresh.burst = b /\ Fresh.burstVec = <<>>
    BY <1>3
  <1>5. ASSUME NEW sig \in Sig
        PROVE  Tally(sig, <<>>) + CountOf(sig, b) = PacketsWith(sig, Prefix(vec, 0))
    BY <1>2, PrefixFacts, PacketsWithNone, TallyNone
  <1>6. <<>> \in Seq(BurstsOn(P))
    OBVIOUS
  <1> QED BY <1>2, <1>4, <1>5, <1>6 DEF After

(* ... and goes on like this.                                               *)
LEMMA AfterOne ==
    ASSUME NEW P, P \subseteq Packet, NEW vec \in Seq(P), NEW k \in 1 .. Len(vec),
           NEW s, After(s, vec, k - 1, P)
    PROVE  After(StrictStep(s, vec[k]), vec, k, P)
  <1>1. PICK x \in P : x = vec[k]
    OBVIOUS
  <1>2. x \in Packet /\ x.timestamp \in Timespec /\ x.timestamp.tv_sec > 0 /\ x.signedLen \in Sig
    BY <1>1 DEF Packet
  <1>3. /\ Sound(s.burst) /\ StampedIn(s.burst, P) /\ s.burst \in BurstType
        /\ s.burstVec \in Seq(BurstsOn(P)) /\ s.burstVec \in Seq(BurstType)
    BY BurstsOnType DEF After, Sound, Exact
  <1>4. PICK b : b = Stamped(s.burst, x)
    OBVIOUS
  <1>5. Sound(b) /\ \A sig : CountOf(sig, b) = CountOf(sig, s.burst)
    BY <1>2, <1>3, <1>4, StampedSound
  <1>6. /\ b \in BurstType /\ b.uniPktNum = s.burst.uniPktNum /\ b.pktNum = s.burst.pktNum
        /\ b.firstPacketStamp = IF s.burst.firstPacketStamp.tv_sec = 0 THEN x.timestamp
                                                    ELSE s.burst.firstPacketStamp
    BY <1>2, <1>3, <1>4, StampedFacts
  <1>7. StampedIn(b, P)
    BY <1>1, <1>3, <1>6 DEF StampedIn
  <1>8. ASSUME k = 1
        PROVE  s.burst = NewBurst(Label) /\ s.burstVec = <<>> /\ b.firstPacketStamp = vec[1].timestamp
    <2>1. s = Fresh
      BY <1>8 DEF After
    <2>2. s.burst = NewBurst(Label) /\ s.burstVec = <<>>
      BY <2>1 DEF Fresh
    <2>3. s.burst.firstPacketStamp = Zero
      BY <2>2, NewBurstFacts
    <2>4. b.firstPacketStamp = x.timestamp
      BY <1>6, <2>3 DEF Zero
    <2> QED BY <1>1, <1>8, <2>2, <2>4
  <1>9. (IF s.burstVec = <<>> THEN b ELSE s.burstVec[1]).firstPacketStamp = vec[1].timestamp
    <2>1. CASE k = 1
      BY <1>8, <2>1
    <2>2. CASE k # 1 /\ s.burstVec # <<>>
      BY <2>2 DEF After
    <2>3. CASE k # 1 /\ s.burstVec = <<>>
      <3>1. s.burst.firstPacketStamp = vec[1].timestamp
        BY <2>3 DEF After
      <3>2. vec[1] \in Packet
        BY <2>3
      <3>3. vec[1].timestamp.tv_sec > 0 /\ vec[1].timestamp \in Timespec
        BY <3>2 DEF Packet
      <3> QED BY <1>6, <2>3, <3>1, <3>3 DEF Timespec
    <2> QED BY <2>1, <2>2, <2>3
  <1>10. \A sig \in Sig : /\ Tally(sig, s.burstVec) + CountOf(sig, b)
                                = PacketsWith(sig, Prefix(vec, k - 1))
                          /\ Tally(sig, s.burstVec) \in Nat /\ CountOf(sig, b) \in Nat
    <2> SUFFICES ASSUME NEW sig \in Sig
                 PROVE  /\ Tally(sig, s.burstVec) + CountOf(sig, b)
                                = PacketsWith(sig, Prefix(vec, k - 1))
                        /\ Tally(sig, s.burstVec) \in Nat /\ CountOf(sig, b) \in Nat
      OBVIOUS
    <2>1. Tally(sig, s.burstVec) \in Nat
      BY <1>3, TallyFacts
    <2>2. CountOf(sig, b) \in Nat
      <3>1. b.packetDetail \in Seq(Detail)
        BY <1>6, BurstFields
      <3> QED BY <3>1, CountOfFacts
    <2>3. Tally(sig, s.burstVec) + CountOf(sig, s.burst) = PacketsWith(sig, Prefix(vec, k - 1))
      BY DEF After
    <2> QED BY <1>5, <2>1, <2>2, <2>3
  <1>11. \A sig \in Sig : PacketsWith(sig, Prefix(vec, k))
             = PacketsWith(sig, Prefix(vec, k - 1)) + (IF sig = x.signedLen THEN 1 ELSE 0)
    <2>1. Prefix(vec, k - 1) \in Seq(P) /\ Prefix(vec, k) = Append(Prefix(vec, k - 1), x)
      BY <1>1, PrefixFacts
    <2> QED BY <2>1, PacketsWithAppend
  <1>12. CASE MustCut(b, x)
    <2>1. PICK c : c = AddPacket(NewBurst(Label), x)
      OBVIOUS
    <2>2. PICK w : w = Append(s.burstVec, b)
      OBVIOUS
    <2>3. StrictStep(s, x) = [burst |-> c, burstVec |-> w]
      BY <1>4, <1>12, <2>1, <2>2 DEF StrictStep
    <2>4. NewBurst(Label).uniPktNum < BURST_MAX_UNISIG
      BY NewBurstFacts, UnisigAssumption
    <2>5. /\ Sound(c) /\ c.pktNum = 1 /\ c.firstPacketStamp = Zero
          /\ \A sig \in Sig : CountOf(sig, c) = IF sig = x.signedLen THEN 1 ELSE 0
      <3>1. Sound(c) /\ \A sig \in Sig : CountOf(sig, c) = CountOf(sig, NewBurst(Label))
                                                            + (IF sig = x.signedLen THEN 1 ELSE 0)
        BY <1>2, <2>1, <2>4, NewBurstSound, AddPacketSound
      <3>2. c.pktNum = 0 + 1 /\ c.firstPacketStamp = Zero
        BY <1>2, <2>1, <2>4, NewBurstFacts, AddPacketFacts
      <3> QED BY <3>1, <3>2, NewBurstSound
    <2>6. k # 1
      <3> SUFFICES ASSUME k = 1 PROVE FALSE
        OBVIOUS
      <3>1. b.pktNum = 0 /\ b.uniPktNum = 0
        BY <1>6, <1>8, NewBurstFacts
      <3>2. NearDiff(b, x) = 0 /\ FarDiff(b, x) = 0
        BY <3>1 DEF NearDiff, FarDiff
      <3> QED BY <1>12, <3>1, <3>2, UnisigAssumption, DivisionAssumption DEF MustCut
    <2>7. b \in BurstsOn(P)
      <3>1. s.burst.pktNum >= 1
        BY <2>6 DEF After
      <3> QED BY <1>5, <1>6, <1>7, <3>1 DEF BurstsOn
    <2>8. w \in Seq(BurstsOn(P)) /\ w # <<>>
      BY <1>3, <2>2, <2>7
    <2>9. w[1].firstPacketStamp = vec[1].timestamp
      <3>1. CASE s.burstVec = <<>>
        <4>1. w[1] = b
          BY <2>2, <3>1
        <4> QED BY <1>9, <3>1, <4>1
      <3>2. CASE s.burstVec # <<>>
        <4>1. w[1] = s.burstVec[1]
          BY <1>3, <2>2, <3>2
        <4> QED BY <1>9, <3>2, <4>1
      <3> QED BY <3>1, <3>2
    <2>10. ASSUME NEW sig \in Sig
           PROVE  Tally(sig, w) + CountOf(sig, c) = PacketsWith(sig, Prefix(vec, k))
      <3>1. Tally(sig, w) = Tally(sig, s.burstVec) + CountOf(sig, b)
        BY <1>3, <1>6, <2>2, TallyAppend
      <3> QED BY <1>10, <1>11, <2>5, <3>1
    <2>11. PICK r : r = [burst |-> c, burstVec |-> w]
      OBVIOUS
    <2>12. r.burst = c /\ r.burstVec = w
      BY <2>11
    <2>13. After(r, vec, k, P)
      BY <2>5, <2>8, <2>9, <2>10, <2>12 DEF After, StampedIn
    <2> QED BY <1>1, <2>3, <2>11, <2>13
  <1>13. CASE ~MustCut(b, x)
    <2>1. PICK c : c = AddPacket(b, x)
      OBVIOUS
    <2>2. PICK w : w = s.burstVec
      OBVIOUS
    <2>3. StrictStep(s, x) = [burst |-> c, burstVec |-> w]
      BY <1>4, <1>13, <2>1, <2>2 DEF StrictStep
    <2>4. b.uniPktNum < BURST_MAX_UNISIG
      <3>1. b.uniPktNum \in Nat /\ BURST_MAX_UNISIG \in Nat
        BY <1>6, BurstFields, UnisigAssumption
      <3> QED BY <1>13, <3>1 DEF MustCut
    <2>5. /\ Sound(c)
          /\ \A sig \in Sig : CountOf(sig, c) = CountOf(sig, b)
                                                    + (IF sig = x.signedLen THEN 1 ELSE 0)
      BY <1>2, <1>5, <2>1, <2>4, AddPacketSound
    <2>6. c.pktNum = b.pktNum + 1 /\ c.firstPacketStamp = b.firstPacketStamp
      <3>1. Exact(b)
        BY <1>5 DEF Sound
      <3> QED BY <1>2, <2>1, <2>4, <3>1, AddPacketFacts
    <2>7. c.pktNum >= 1 /\ StampedIn(c, P)
      <3>1. b.pktNum \in Nat
        BY <1>6, BurstFields
      <3> QED BY <1>7, <2>6, <3>1 DEF StampedIn
    <2>8. (IF w = <<>> THEN c ELSE w[1]).firstPacketStamp = vec[1].timestamp
      BY <1>9, <2>2, <2>6
    <2>9. ASSUME NEW sig \in Sig
          PROVE  Tally(sig, w) + CountOf(sig, c) = PacketsWith(sig, Prefix(vec, k))
      BY <1>10, <1>11, <2>2, <2>5
    <2>10. PICK r : r = [burst |-> c, burstVec |-> w]
      OBVIOUS
    <2>11. r.burst = c /\ r.burstVec = w
      BY <2>10
    <2>12. After(r, vec, k, P)
      BY <1>3, <2>2, <2>5, <2>7, <2>8, <2>9, <2>11 DEF After
    <2> QED BY <1>1, <2>3, <2>10, <2>12
  <1> QED BY <1>12, <1>13

(* What StrictToBursts makes of a vector with at least one packet: bursts   *)
(* that TrainOneDevice accepts, the first of them stamped with the first    *)
(* packet, and no packet lost or counted twice.                             *)
LEMMA StrictToBurstsFacts ==
    ASSUME NEW P, P \subseteq Packet, NEW vec \in Seq(P), vec # <<>>
    PROVE  /\ StrictToBursts(vec) \in Seq(BurstsOn(P)) /\ StrictToBursts(vec) # <<>>
           /\ StrictToBursts(vec)[1].firstPacketStamp = vec[1].timestamp
           /\ \A sig \in Sig : Tally(sig, StrictToBursts(vec)) = PacketsWith(sig, vec)
  <1>1. PICK n \in Nat : n = Len(vec) /\ n >= 1
    OBVIOUS
  <1>2. vec \in Seq(Packet)
    OBVIOUS
  <1>3. PICK h \in [0 .. n -> Locals] :
            Loops(h, vec, n) /\ StrictToBursts(vec) = Append(h[n].burstVec, h[n].burst)
    BY <1>1, <1>2, StrictLoops
  <1> DEFINE In == {k \in 0 .. n : After(h[k], vec, k, P)}
  <1>4. 0 \in In
    <2>1. h[0] = Fresh /\ 0 \in 0 .. n
      BY <1>3 DEF Loops
    <2> QED BY <2>1, AfterNone
  <1>5. ASSUME NEW k \in 1 .. n, k - 1 \in In PROVE k \in In
    <2>1. h[k] = StrictStep(h[k - 1], vec[k]) /\ k \in 0 .. n /\ k \in 1 .. Len(vec)
      BY <1>1, <1>3 DEF Loops
    <2>2. After(h[k - 1], vec, k - 1, P)
      BY <1>5
    <2>3. After(StrictStep(h[k - 1], vec[k]), vec, k, P)
      BY <2>1, <2>2, AfterOne
    <2> QED BY <2>1, <2>3
  <1>6. 0 .. n \subseteq In
    <2> HIDE DEF In
    <2> QED BY <1>4, <1>5, UpTo
  <1>7. After(h[n], vec, n, P)
    <2>1. n \in 0 .. n
      OBVIOUS
    <2> QED BY <1>6, <2>1
  <1>8. PICK b, w : b = h[n].burst /\ w = h[n].burstVec
    OBVIOUS
  <1>9. /\ Sound(b) /\ StampedIn(b, P) /\ w \in Seq(BurstsOn(P)) /\ b.pktNum >= 1
        /\ (IF w = <<>> THEN b ELSE w[1]).firstPacketStamp = vec[1].timestamp
        /\ \A sig \in Sig : Tally(sig, w) + CountOf(sig, b) = PacketsWith(sig, Prefix(vec, n))
    BY <1>1, <1>7, <1>8 DEF After
  <1>10. b \in BurstsOn(P) /\ b \in BurstType /\ w \in Seq(BurstType)
    BY <1>9, BurstsOnType DEF BurstsOn, Sound, Exact
  <1>11. PICK r : r = Append(w, b)
    OBVIOUS
  <1>12. r \in Seq(BurstsOn(P)) /\ r # <<>>
    BY <1>9, <1>10, <1>11
  <1>13. r[1].firstPacketStamp = vec[1].timestamp
    <2>1. CASE w = <<>>
      <3>1. r[1] = b
        BY <1>11, <2>1
      <3> QED BY <1>9, <2>1, <3>1
    <2>2. CASE w # <<>>
      <3>1. r[1] = w[1]
        BY <1>9, <1>11, <2>2
      <3> QED BY <1>9, <2>2, <3>1
    <2> QED BY <2>1, <2>2
  <1>14. ASSUME NEW sig \in Sig PROVE Tally(sig, r) = PacketsWith(sig, vec)
    <2>1. Tally(sig, r) = Tally(sig, w) + CountOf(sig, b)
      BY <1>10, <1>11, TallyAppend
    <2>2. Prefix(vec, n) = vec
      BY <1>1, PrefixFacts
    <2> QED BY <1>9, <2>1, <2>2
  <1> QED BY <1>3, <1>8, <1>11, <1>12, <1>13, <1>14

-----------------------------------------------------------------------------
(* Joined blocks *)

(* What joins the same sequences is the same.                               *)
LEMMA JoinsAgree ==
    ASSUME NEW n \in Nat, NEW v, NEW w, NEW g, NEW h, Joins(g, v, n), Joins(h, w, n),
           Agree(v, w, n)
    PROVE  g[n] = h[n]
  <1> DEFINE In == {k \in 0 .. n : g[k] = h[k]}
  <1>1. 0 \in In
    BY DEF Joins
  <1>2. ASSUME NEW k \in 1 .. n, k - 1 \in In PROVE k \in In
    <2>1. k \in 0 .. n /\ v[k] = w[k] /\ g[k - 1] = h[k - 1]
      BY <1>2 DEF Agree
    <2>2. g[k] = g[k - 1] \o v[k] /\ h[k] = h[k - 1] \o w[k]
      BY DEF Joins
    <2> QED BY <2>1, <2>2
  <1>3. 0 .. n \subseteq In
    <2> HIDE DEF In
    <2> QED BY <1>1, <1>2, UpTo
  <1>4. n \in 0 .. n
    OBVIOUS
  <1> QED BY <1>3, <1>4

(* Nothing joined is nothing; one sequence more is joined at the end.       *)
LEMMA FlattenAppend ==
    ASSUME NEW S, NEW seqs \in Seq(Seq(S)), NEW x \in Seq(S)
    PROVE  /\ FlattenSeq(<<>>) = <<>> /\ FlattenSeq(seqs) \in Seq(S)
           /\ FlattenSeq(Append(seqs, x)) = FlattenSeq(seqs) \o x
  <1>1. PICK n \in Nat : n = Len(seqs)
    OBVIOUS
  <1>2. PICK all \in Seq(Seq(S)) : all = Append(seqs, x)
    <2>1. Append(seqs, x) \in Seq(Seq(S))
      OBVIOUS
    <2> QED BY <2>1
  <1>3. Len(all) = n + 1 /\ all[n + 1] = x /\ \A k \in 1 .. n : all[k] = seqs[k]
    BY <1>1, <1>2
  <1>4. PICK g \in [0 .. n -> Seq(S)] : g[n] = FlattenSeq(seqs) /\ Joins(g, seqs, n)
    BY <1>1, FlattenFacts
  <1>5. PICK h \in [0 .. n + 1 -> Seq(S)] : h[n + 1] = FlattenSeq(all) /\ Joins(h, all, n + 1)
    BY <1>3, FlattenFacts
  <1>6. Joins(h, all, n) /\ Agree(seqs, all, n)
    <2>1. \A k \in 1 .. n : k \in 1 .. n + 1
      BY <1>1
    <2> QED BY <1>3, <1>5, <2>1 DEF Joins, Agree
  <1>7. g[n] = h[n]
    BY <1>4, <1>6, JoinsAgree
  <1>8. h[n + 1] = h[n] \o x
    <2>1. n + 1 \in 1 .. n + 1 /\ (n + 1) - 1 = n
      OBVIOUS
    <2> QED BY <1>3, <1>5, <2>1 DEF Joins
  <1>9. FlattenSeq(seqs) \in Seq(S)
    <2>1. n \in 0 .. n
      OBVIOUS
    <2> QED BY <1>4, <2>1
  <1>10. FlattenSeq(<<>>) = <<>>
    <2>1. <<>> \in Seq(Seq(S)) /\ Len(<<>>) = 0
      OBVIOUS
    <2>2. PICK f : f[0] = FlattenSeq(<<>>) /\ Joins(f, <<>>, 0)
      BY <2>1, FlattenFacts
    <2> QED BY <2>2 DEF Joins
  <1> QED BY <1>2, <1>4, <1>5, <1>7, <1>8, <1>9, <1>10

(* Every member of a sequence that is joined is in the result.              *)
LEMMA FlattenMember ==
    ASSUME NEW S, NEW seqs \in Seq(Seq(S)), NEW i \in 1 .. Len(seqs), NEW j \in 1 .. Len(seqs[i])
    PROVE  \E m \in 1 .. Len(FlattenSeq(seqs)) : FlattenSeq(seqs)[m] = seqs[i][j]
  <1>1. PICK n \in Nat : n = Len(seqs)
    OBVIOUS
  <1>2. PICK h \in [0 .. n -> Seq(S)] : h[n] = FlattenSeq(seqs) /\ Joins(h, seqs, n)
    BY <1>1, FlattenFacts
  <1>3. PICK y : y = seqs[i][j]
    OBVIOUS
  <1> DEFINE In == {k \in 0 .. n : k >= i => \E m \in 1 .. Len(h[k]) : h[k][m] = y}
  <1>4. 0 \in In
    BY <1>1
  <1>5. ASSUME NEW k \in 1 .. n, k - 1 \in In PROVE k \in In
    <2>0. k \in 0 .. n /\ k - 1 \in 0 .. n /\ k \in Nat /\ i \in Nat
      BY <1>1
    <2>1. h[k] = h[k - 1] \o seqs[k]
      BY <1>2 DEF Joins
    <2>2. PICK u \in Seq(S), w \in Seq(S) : u = h[k - 1] /\ w = seqs[k]
      <3>1. h[k - 1] \in Seq(S)
        BY <1>2, <2>0
      <3>2. seqs[k] \in Seq(S)
        BY <1>1
      <3> QED BY <3>1, <3>2
    <2>3. /\ Len(u \o w) = Len(u) + Len(w)
          /\ \A m \in 1 .. Len(u) + Len(w) :
                (u \o w)[m] = IF m <= Len(u) THEN u[m] ELSE w[m - Len(u)]
      BY ConcatProperties
    <2>4. CASE k = i
      <3>1. j \in 1 .. Len(w) /\ w[j] = y
        BY <1>3, <2>2, <2>4
      <3>2. PICK m \in Nat : m = Len(u) + j
        BY <3>1
      <3>3. m \in 1 .. Len(u) + Len(w) /\ ~(m <= Len(u)) /\ m - Len(u) = j
        BY <3>1, <3>2
      <3>4. (u \o w)[m] = w[j]
        BY <2>3, <3>3
      <3>5. m \in 1 .. Len(u \o w) /\ (u \o w)[m] = y
        BY <2>3, <3>1, <3>3, <3>4
      <3> QED BY <2>0, <2>1, <2>2, <3>5
    <2>5. CASE k > i
      <3>1. k - 1 >= i
        BY <1>1, <2>5
      <3>2. PICK m \in 1 .. Len(u) : u[m] = y
        BY <1>5, <2>2, <3>1
      <3>3. m \in 1 .. Len(u \o w) /\ (u \o w)[m] = y
        BY <2>3, <3>2
      <3> QED BY <2>0, <2>1, <2>2, <3>3
    <2>6. CASE k < i
      <3>1. ~(k >= i)
        BY <2>0, <2>6
      <3> QED BY <2>0, <3>1
    <2> QED BY <2>0, <2>4, <2>5, <2>6
  <1>6. 0 .. n \subseteq In
    <2> HIDE DEF In
    <2> QED BY <1>4, <1>5, UpTo
  <1>7. n \in 0 .. n /\ n >= i
    BY <1>1
  <1> QED BY <1>2, <1>3, <1>6, <1>7

(* Joined blocks count what all of them count.                              *)
LEMMA TallyFlatten ==
    ASSUME NEW blocks \in Seq(Seq(BurstType)), NEW sig, NEW v \in Seq(Nat), Len(v) = Len(blocks),
           \A i \in 1 .. Len(blocks) : v[i] = Tally(sig, blocks[i])
    PROVE  Tally(sig, FlattenSeq(blocks)) = Total(v)
  <1>1. PICK n \in Nat : n = Len(blocks)
    OBVIOUS
  <1>2. PICK h \in [0 .. n -> Seq(BurstType)] : h[n] = FlattenSeq(blocks) /\ Joins(h, blocks, n)
    BY <1>1, FlattenFacts
  <1>3. PICK g : g = [k \in 0 .. n |-> Tally(sig, h[k])]
    OBVIOUS
  <1>4. g[0] = 0
    <2>1. 0 \in 0 .. n
      OBVIOUS
    <2> QED BY <1>2, <1>3, <2>1, TallyNone DEF Joins
  <1>5. ASSUME NEW k \in 1 .. n PROVE g[k] = g[k - 1] + v[k]
    <2>1. k \in 0 .. n /\ k - 1 \in 0 .. n
      OBVIOUS
    <2>2. h[k] = h[k - 1] \o blocks[k] /\ h[k - 1] \in Seq(BurstType) /\ blocks[k] \in Seq(BurstType)
      <3>1. h[k] = h[k - 1] \o blocks[k]
        BY <1>2 DEF Joins
      <3>2. h[k - 1] \in Seq(BurstType)
        BY <1>2, <2>1
      <3>3. blocks[k] \in Seq(BurstType)
        BY <1>1
      <3> QED BY <3>1, <3>2, <3>3
    <2>3. Tally(sig, h[k]) = Tally(sig, h[k - 1]) + Tally(sig, blocks[k])
      BY <2>2, TallyJoin
    <2> QED BY <1>1, <1>3, <2>1, <2>3
  <1>6. Sums(g, v, Len(v))
    BY <1>1, <1>4, <1>5 DEF Sums
  <1>7. g[n] = Total(v)
    BY <1>1, <1>6, TotalIs
  <1>8. n \in 0 .. n
    OBVIOUS
  <1> QED BY <1>2, <1>3, <1>7, <1>8

-----------------------------------------------------------------------------
(* SeparateBy5Tuple: the vector of one hash *)

(* What one packet does to the vector of a hash.                            *)
Push(acc, p, hash) == IF p.hash5tuple = hash THEN Append(acc, p) ELSE acc

Pushes(h, packets, hash, n) == h[0] = <<>> /\ \A k \in 1 .. n : h[k] = Push(h[k - 1], packets[k], hash)

(* Selected goes through the packets one by one.                            *)
LEMMA SelectedLoops ==
    ASSUME NEW P, NEW packets \in Seq(P), NEW hash
    PROVE  \E h \in [0 .. Len(packets) -> Seq(P)] :
              h[Len(packets)] = Selected(packets, hash) /\ Pushes(h, packets, hash, Len(packets))
  <1>1. PICK n \in Nat : n = Len(packets) /\ DOMAIN packets = 1 .. n
    OBVIOUS
  <1>2. <<>> \in Seq(P)
    OBVIOUS
  <1> DEFINE Is(f) == f = [s \in SUBSET DOMAIN packets |->
                              IF s = {} THEN <<>>
                              ELSE Push(f[s \ {Max(s)}], packets[Max(s)], hash)]
  <1> DEFINE all == (CHOOSE f : Is(f))[DOMAIN packets]
  <1>3. Selected(packets, hash) = all
    BY Zenon DEF Selected, FoldLeft, MapThenFoldSet, Push
  <1>4. PICK step : step = [k \in 1 .. n |-> [a \in Seq(P) |-> Push(a, packets[k], hash)]]
    OBVIOUS
  <1>5. ASSUME NEW k \in 1 .. n, NEW a \in Seq(P)
        PROVE  step[k][a] = Push(a, packets[k], hash) /\ step[k][a] \in Seq(P)
    <2>1. packets[k] \in P
      BY <1>1
    <2>2. step[k][a] = Push(a, packets[k], hash)
      BY <1>4
    <2>3. Append(a, packets[k]) \in Seq(P)
      BY <2>1
    <2> QED BY <2>2, <2>3 DEF Push
  <1>6. ASSUME NEW f \in [SUBSET (1 .. n) -> Seq(P)], NEW s \in SUBSET (1 .. n), s # {}
        PROVE  step[Max(s)][f[s \ {Max(s)}]] = Push(f[s \ {Max(s)}], packets[Max(s)], hash)
    <2>1. Max(s) \in 1 .. n
      BY <1>6, MaxOfSome
    <2>2. f[s \ {Max(s)}] \in Seq(P)
      OBVIOUS
    <2> QED BY <1>5, <2>1, <2>2
  <1>7. \E f \in [SUBSET (1 .. n) -> Seq(P)] : Is(f)
    <2>1. \A k \in 1 .. n : \A a \in Seq(P) : step[k][a] \in Seq(P)
      BY <1>5
    <2>2. PICK f \in [SUBSET (1 .. n) -> Seq(P)] : Folds(f, n, <<>>, step)
      BY <1>2, <2>1, FoldExists
    <2>3. \A s \in SUBSET (1 .. n) :
              f[s] = IF s = {} THEN <<>> ELSE Push(f[s \ {Max(s)}], packets[Max(s)], hash)
      BY <1>6, <2>2 DEF Folds
    <2>4. f = [s \in SUBSET DOMAIN packets |-> f[s]]
      BY <1>1
    <2>5. f = [s \in SUBSET DOMAIN packets |->
                  IF s = {} THEN <<>> ELSE Push(f[s \ {Max(s)}], packets[Max(s)], hash)]
      BY <1>1, <2>3, <2>4
    <2> QED BY <2>5
  <1>8. PICK g : Is(g) /\ all = g[1 .. n]
    <2> DEFINE chosen == CHOOSE f : Is(f)
    <2>1. Is(chosen)
      <3> HIDE DEF Is
      <3> QED BY <1>7
    <2>2. all = chosen[1 .. n]
      BY <1>1
    <2> HIDE DEF chosen
    <2> QED BY <2>1, <2>2
  <1> HIDE DEF all
  <1>9. PICK h : h = [k \in 0 .. n |-> g[1 .. k]]
    OBVIOUS
  <1>10. h[0] = <<>> /\ h[n] = all
    <2>1. 0 \in 0 .. n /\ n \in 0 .. n /\ 1 .. 0 = {} /\ {} \in SUBSET DOMAIN packets
      OBVIOUS
    <2>2. g[{}] = <<>>
      BY <1>8, <2>1
    <2> QED BY <1>8, <1>9, <2>1, <2>2
  <1>11. ASSUME NEW k \in 1 .. n PROVE h[k] = Push(h[k - 1], packets[k], hash)
    <2>1. /\ 1 .. k \in SUBSET DOMAIN packets /\ 1 .. k # {}
          /\ Max(1 .. k) = k /\ (1 .. k) \ {Max(1 .. k)} = 1 .. k - 1
          /\ k \in 0 .. n /\ k - 1 \in 0 .. n
      BY <1>1, FirstIndices
    <2>2. g[1 .. k] = Push(g[1 .. k - 1], packets[k], hash)
      BY <1>8, <2>1
    <2> QED BY <1>9, <2>1, <2>2
  <1>12. h \in [0 .. n -> Seq(P)]
    <2> DEFINE In == {k \in 0 .. n : h[k] \in Seq(P)}
    <2>1. 0 \in In
      <3>1. 0 \in 0 .. n
        OBVIOUS
      <3> QED BY <1>2, <1>10, <3>1
    <2>2. ASSUME NEW k \in 1 .. n, k - 1 \in In PROVE k \in In
      <3>1. packets[k] \in P /\ h[k - 1] \in Seq(P) /\ k \in 0 .. n
        BY <1>1, <2>2
      <3>2. Append(h[k - 1], packets[k]) \in Seq(P)
        BY <3>1
      <3> QED BY <1>11, <3>1, <3>2 DEF Push
    <2>3. 0 .. n \subseteq In
      <3> HIDE DEF In
      <3> QED BY <2>1, <2>2, UpTo
    <2> QED BY <1>9, <2>3
  <1> QED BY <1>1, <1>3, <1>10, <1>11, <1>12 DEF Pushes

(* No packet selected from none; one packet more is pushed or not.          *)
LEMMA SelectedAppend ==
    ASSUME NEW P, NEW packets \in Seq(P), NEW x \in P, NEW hash
    PROVE  /\ Selected(<<>>, hash) = <<>> /\ Selected(packets, hash) \in Seq(P)
           /\ Selected(Append(packets, x), hash) = Push(Selected(packets, hash), x, hash)
  <1>1. PICK n \in Nat : n = Len(packets)
    OBVIOUS
  <1>2. PICK more \in Seq(P) : more = Append(packets, x)
    <2>1. Append(packets, x) \in Seq(P)
      OBVIOUS
    <2> QED BY <2>1
  <1>3. Len(more) = n + 1 /\ more[n + 1] = x /\ \A k \in 1 .. n : more[k] = packets[k]
    BY <1>1, <1>2
  <1>4. PICK g \in [0 .. n -> Seq(P)] :
            g[n] = Selected(packets, hash) /\ Pushes(g, packets, hash, n)
    BY <1>1, SelectedLoops
  <1>5. PICK h \in [0 .. n + 1 -> Seq(P)] :
            h[n + 1] = Selected(more, hash) /\ Pushes(h, more, hash, n + 1)
    <2>1. n + 1 = Len(more)
      BY <1>3
    <2>2. PICK h \in [0 .. Len(more) -> Seq(P)] :
              h[Len(more)] = Selected(more, hash) /\ Pushes(h, more, hash, Len(more))
      BY SelectedLoops
    <2> QED BY <2>1, <2>2
  <1> DEFINE In == {k \in 0 .. n : g[k] = h[k]}
  <1>6. 0 \in In
    BY <1>4, <1>5 DEF Pushes
  <1>7. ASSUME NEW k \in 1 .. n, k - 1 \in In PROVE k \in In
    <2>1. k \in 0 .. n /\ k \in 1 .. n + 1 /\ g[k - 1] = h[k - 1] /\ more[k] = packets[k]
      <3>1. k \in 0 .. n /\ k \in 1 .. n + 1
        OBVIOUS
      <3>2. g[k - 1] = h[k - 1]
        BY <1>7
      <3>3. more[k] = packets[k]
        BY <1>3
      <3> QED BY <3>1, <3>2, <3>3
    <2>2. g[k] = Push(g[k - 1], packets[k], hash)
      BY <1>4 DEF Pushes
    <2>3. h[k] = Push(h[k - 1], more[k], hash)
      BY <1>5, <2>1 DEF Pushes
    <2> QED BY <2>1, <2>2, <2>3
  <1>8. 0 .. n \subseteq In
    <2> HIDE DEF In
    <2> QED BY <1>6, <1>7, UpTo
  <1>9. g[n] = h[n] /\ g[n] \in Seq(P)
    <2>1. n \in 0 .. n
      OBVIOUS
    <2> QED BY <1>4, <1>8, <2>1
  <1>10. h[n + 1] = Push(h[n], x, hash)
    <2>1. n + 1 \in 1 .. n + 1 /\ (n + 1) - 1 = n
      OBVIOUS
    <2> QED BY <1>3, <1>5, <2>1 DEF Pushes
  <1>11. Selected(<<>>, hash) = <<>>
    <2>1. <<>> \in Seq(P) /\ Len(<<>>) = 0
      OBVIOUS
    <2>2. PICK f : f[0] = Selected(<<>>, hash) /\ Pushes(f, <<>>, hash, 0)
      BY <2>1, SelectedLoops
    <2> QED BY <2>2 DEF Pushes
  <1> QED BY <1>2, <1>4, <1>5, <1>9, <1>10, <1>11

(* Vectors without a packet that is earlier than one before it.             *)
ByTime(vec) ==
    \A i, j \in 1 .. Len(vec) : i < j => ~Earlier(vec[j].timestamp, vec[i].timestamp)

(* What holds of the vector of a hash: its packets are some of those        *)
(* separated, in order; it is not empty when one of them has the hash, and  *)
(* starts with the very first if that one has it.                           *)
SelectedOf(r, packets, k, hash) ==
    /\ \A i \in 1 .. Len(r) : \E j \in 1 .. k : r[i] = packets[j]
    /\ ByTime(r)
    /\ (\E j \in 1 .. k : packets[j].hash5tuple = hash) => r # <<>>
    /\ k > 0 /\ packets[1].hash5tuple = hash => r # <<>> /\ r[1] = packets[1]

(* Each of the packets may be the next one.                                 *)
LEMMA SelectedStep ==
    ASSUME NEW P, NEW packets \in Seq(P), ByTime(packets), NEW k \in 1 .. Len(packets),
           NEW r \in Seq(P), NEW hash, SelectedOf(r, packets, k - 1, hash)
    PROVE  SelectedOf(Push(r, packets[k], hash), packets, k, hash)
  <1>1. PICK x \in P : x = packets[k]
    OBVIOUS
  <1>2. k \in Nat /\ \A j \in 1 .. k - 1 : j \in 1 .. k
    OBVIOUS
  <1>3. CASE x.hash5tuple # hash
    <2>1. Push(r, x, hash) = r
      BY <1>3 DEF Push
    <2>2. \A i \in 1 .. Len(r) : \E j \in 1 .. k : r[i] = packets[j]
      BY <1>2 DEF SelectedOf
    <2>3. ASSUME NEW j \in 1 .. k, packets[j].hash5tuple = hash PROVE r # <<>>
      <3>1. j # k
        BY <1>1, <1>3, <2>3
      <3>2. j \in 1 .. k - 1
        BY <3>1
      <3> QED BY <2>3, <3>2 DEF SelectedOf
    <2>4. ASSUME packets[1].hash5tuple = hash PROVE r # <<>> /\ r[1] = packets[1]
      <3>1. k # 1
        BY <1>1, <1>3, <2>4
      <3>2. k - 1 > 0
        BY <3>1
      <3> QED BY <2>4, <3>2 DEF SelectedOf
    <2> QED BY <1>1, <2>1, <2>2, <2>3, <2>4 DEF SelectedOf
  <1>4. CASE x.hash5tuple = hash
    <2>1. PICK m \in Nat : m = Len(r)
      OBVIOUS
    <2>2. PICK w \in Seq(P) : w = Append(r, x)
      <3>1. Append(r, x) \in Seq(P)
        OBVIOUS
      <3> QED BY <3>1
    <2>3. Len(w) = m + 1 /\ w[m + 1] = x /\ w # <<>> /\ \A i \in 1 .. m : w[i] = r[i]
      BY <2>1, <2>2
    <2>4. Push(r, x, hash) = w
      BY <1>4, <2>2 DEF Push
    <2>5. ASSUME NEW i \in 1 .. m PROVE \E j \in 1 .. k - 1 : w[i] = packets[j]
      BY <2>1, <2>3 DEF SelectedOf
    <2>6. ASSUME NEW i \in 1 .. m + 1 PROVE \E j \in 1 .. k : w[i] = packets[j]
      <3>1. CASE i = m + 1
        <4>1. k \in 1 .. k
          OBVIOUS
        <4> QED BY <1>1, <2>3, <3>1, <4>1
      <3>2. CASE i # m + 1
        <4>1. i \in 1 .. m
          BY <3>2
        <4> QED BY <1>2, <2>5, <4>1
      <3> QED BY <3>1, <3>2
    <2>7. ASSUME NEW i \in 1 .. m + 1, NEW j \in 1 .. m + 1, i < j
          PROVE  ~Earlier(w[j].timestamp, w[i].timestamp)
      <3>1. i \in 1 .. m
        BY <2>7
      <3>2. CASE j = m + 1
        <4>1. PICK l \in 1 .. k - 1 : w[i] = packets[l]
          BY <2>5, <3>1
        <4>2. l \in 1 .. Len(packets) /\ l < k
          BY <1>2
        <4>3. ~Earlier(packets[k].timestamp, packets[l].timestamp)
          BY <4>2 DEF ByTime
        <4> QED BY <1>1, <2>3, <3>2, <4>1, <4>3
      <3>3. CASE j # m + 1
        <4>1. j \in 1 .. m
          BY <3>3
        <4> QED BY <2>1, <2>3, <2>7, <3>1, <4>1 DEF SelectedOf, ByTime
      <3> QED BY <3>2, <3>3
    <2>8. ASSUME packets[1].hash5tuple = hash PROVE w[1] = packets[1]
      <3>1. CASE k = 1
        <4>1. m = 0
          <5> SUFFICES ASSUME m # 0 PROVE FALSE
            OBVIOUS
          <5>1. 1 \in 1 .. m
            OBVIOUS
          <5>2. \E j \in 1 .. k - 1 : w[1] = packets[j]
            BY <2>5, <5>1
          <5> QED BY <3>1, <5>2
        <4> QED BY <1>1, <2>3, <3>1, <4>1
      <3>2. CASE k # 1
        <4>1. k - 1 > 0
          BY <3>2
        <4>2. r # <<>> /\ r[1] = packets[1]
          BY <2>8, <4>1 DEF SelectedOf
        <4>3. 1 \in 1 .. m
          BY <2>1, <4>2
        <4> QED BY <2>3, <4>2, <4>3
      <3> QED BY <3>1, <3>2
    <2>9. ByTime(w)
      BY <2>3, <2>7 DEF ByTime
    <2>10. SelectedOf(w, packets, k, hash)
      <3>1. \A i \in 1 .. Len(w) : \E j \in 1 .. k : w[i] = packets[j]
        BY <2>3, <2>6
      <3> QED BY <2>3, <2>8, <2>9, <3>1 DEF SelectedOf
    <2> QED BY <1>1, <2>4, <2>10
  <1> QED BY <1>3, <1>4

(* The vector of a hash.                                                    *)
LEMMA SelectedFacts ==
    ASSUME NEW P, NEW packets \in Seq(P), ByTime(packets), NEW hash
    PROVE  /\ Selected(packets, hash) \in Seq(P)
           /\ SelectedOf(Selected(packets, hash), packets, Len(packets), hash)
  <1>1. PICK n \in Nat : n = Len(packets)
    OBVIOUS
  <1>2. PICK h \in [0 .. n -> Seq(P)] :
            h[n] = Selected(packets, hash) /\ Pushes(h, packets, hash, n)
    BY <1>1, SelectedLoops
  <1> DEFINE In == {k \in 0 .. n : SelectedOf(h[k], packets, k, hash)}
  <1>3. 0 \in In
    <2>1. h[0] = <<>> /\ Len(<<>>) = 0 /\ 0 \in 0 .. n
      BY <1>2 DEF Pushes
    <2> QED BY <2>1 DEF SelectedOf, ByTime
  <1>4. ASSUME NEW k \in 1 .. n, k - 1 \in In PROVE k \in In
    <2>1. k \in 0 .. n /\ h[k - 1] \in Seq(P) /\ SelectedOf(h[k - 1], packets, k - 1, hash)
      BY <1>2, <1>4
    <2>2. h[k] = Push(h[k - 1], packets[k], hash)
      BY <1>2 DEF Pushes
    <2> QED BY <1>1, <2>1, <2>2, SelectedStep
  <1>5. 0 .. n \subseteq In
    <2> HIDE DEF In
    <2> QED BY <1>3, <1>4, UpTo
  <1>6. n \in 0 .. n
    OBVIOUS
  <1> QED BY <1>1, <1>2, <1>5, <1>6

(* The sum of zeros.                                                        *)
LEMMA TotalZeros ==
    ASSUME NEW v \in Seq(Nat), \A k \in 1 .. Len(v) : v[k] = 0
    PROVE  Total(v) = 0
  <1>1. PICK n \in Nat : n = Len(v)
    OBVIOUS
  <1>2. PICK g : g = [k \in 0 .. n |-> 0]
    OBVIOUS
  <1>3. Sums(g, v, Len(v))
    BY <1>1, <1>2 DEF Sums
  <1>4. n \in 0 .. n
    OBVIOUS
  <1> QED BY <1>1, <1>2, <1>3, <1>4, TotalIs

(* When every hash is listed once, each packet is in exactly one of the     *)
(* vectors of the hashes.                                                   *)
LEMMA FlowsCount ==
    ASSUME NEW P, NEW packets \in Seq(P), NEW sig, NEW v \in Seq(Nat), NEW hs,
           \A i, j \in 1 .. Len(v) : i # j => hs[i] # hs[j],
           \A k \in 1 .. Len(packets) : \E i \in 1 .. Len(v) : hs[i] = packets[k].hash5tuple,
           \A i \in 1 .. Len(v) : v[i] = PacketsWith(sig, Selected(packets, hs[i]))
    PROVE  Total(v) = PacketsWith(sig, packets)
  <1>1. PICK m \in Nat, n \in Nat : m = Len(v) /\ n = Len(packets)
    OBVIOUS
  <1> DEFINE V(k) == [i \in 1 .. m |-> PacketsWith(sig, Selected(Prefix(packets, k), hs[i]))]
  <1> DEFINE In == {k \in 0 .. n : V(k) \in Seq(Nat) /\ Total(V(k)) = PacketsWith(sig, Prefix(packets, k))}
  <1>2. 0 \in In
    <2>1. ASSUME NEW i \in 1 .. m PROVE PacketsWith(sig, Selected(Prefix(packets, 0), hs[i])) = 0
      <3>1. Prefix(packets, 0) = <<>>
        BY PrefixFacts
      <3>2. \E h \in [0 .. 0 -> Seq(P)] : h[0] = Selected(<<>>, hs[i]) /\ Pushes(h, <<>>, hs[i], 0)
        <4>1. <<>> \in Seq(P) /\ Len(<<>>) = 0
          OBVIOUS
        <4> QED BY <4>1, SelectedLoops
      <3>3. Selected(<<>>, hs[i]) = <<>>
        BY <3>2 DEF Pushes
      <3> QED BY <3>1, <3>3, PacketsWithNone
    <2>2. PICK w : w = V(0)
      OBVIOUS
    <2>3. w \in Seq(Nat) /\ Len(w) = m /\ \A i \in 1 .. m : w[i] = 0
      BY <2>1, <2>2
    <2>4. Total(w) = 0
      BY <2>3, TotalZeros
    <2>5. PacketsWith(sig, Prefix(packets, 0)) = 0
      BY PrefixFacts, PacketsWithNone
    <2>6. 0 \in 0 .. n
      OBVIOUS
    <2> HIDE DEF V
    <2> QED BY <2>2, <2>3, <2>4, <2>5, <2>6
  <1>3. ASSUME NEW k \in 1 .. n, k - 1 \in In PROVE k \in In
    <2>1. k \in 0 .. n /\ k \in 1 .. Len(packets)
      BY <1>1
    <2>2. PICK x \in P : x = packets[k]
      BY <2>1
    <2>3. PICK u \in Seq(P) : u = Prefix(packets, k - 1) /\ Prefix(packets, k) = Append(u, x)
      BY <2>1, <2>2, PrefixFacts
    <2>4. PICK c : c = IF x.signedLen = sig THEN 1 ELSE 0
      OBVIOUS
    <2>5. ASSUME NEW hash
          PROVE  /\ PacketsWith(sig, Selected(u, hash)) \in Nat
                 /\ PacketsWith(sig, Selected(Append(u, x), hash))
                       = PacketsWith(sig, Selected(u, hash)) + (IF x.hash5tuple = hash THEN c ELSE 0)
      <3>1. PICK r \in Seq(P) : r = Selected(u, hash)
        BY SelectedAppend
      <3>2. Selected(Append(u, x), hash) = IF x.hash5tuple = hash THEN Append(r, x) ELSE r
        BY <3>1, SelectedAppend DEF Push
      <3>3. PacketsWith(sig, Append(r, x)) = PacketsWith(sig, r) + c
        BY <2>4, PacketsWithAppend
      <3>4. PacketsWith(sig, r) \in Nat
        BY PacketsWithTotal
      <3> QED BY <3>1, <3>2, <3>3, <3>4
    <2>6. PICK a \in Seq(Nat) : a = V(k - 1)
      BY <1>3
    <2>7. Len(a) = m /\ \A i \in 1 .. m : a[i] = PacketsWith(sig, Selected(u, hs[i]))
      BY <2>3, <2>6
    <2>8. Total(a) = PacketsWith(sig, u)
      BY <1>3, <2>3, <2>6
    <2>9. PICK w : w = V(k)
      OBVIOUS
    <2>10. w = [i \in 1 .. m |-> PacketsWith(sig, Selected(Append(u, x), hs[i]))]
      BY <2>3, <2>9
    <2>11. \A i \in 1 .. m : w[i] = a[i] + (IF x.hash5tuple = hs[i] THEN c ELSE 0)
      BY <2>5, <2>7, <2>10
    <2>12. w \in Seq(Nat) /\ Len(w) = m
      <3>1. ASSUME NEW i \in 1 .. m PROVE w[i] \in Nat
        <4>1. a[i] \in Nat
          BY <2>7
        <4>2. w[i] = a[i] + (IF x.hash5tuple = hs[i] THEN c ELSE 0)
          BY <2>11
        <4> QED BY <2>4, <4>1, <4>2
      <3> QED BY <2>10, <3>1
    <2>13. PacketsWith(sig, Append(u, x)) = PacketsWith(sig, u) + c
      BY <2>4, PacketsWithAppend
    <2>14. PICK i0 \in 1 .. m : hs[i0] = x.hash5tuple
      BY <1>1, <2>1, <2>2
    <2>15. \A i \in 1 .. m : i # i0 => w[i] = a[i]
      <3> SUFFICES ASSUME NEW i \in 1 .. m, i # i0 PROVE w[i] = a[i]
        OBVIOUS
      <3>1. hs[i] # x.hash5tuple
        BY <1>1, <2>14
      <3>2. a[i] \in Nat
        BY <2>7
      <3> QED BY <2>11, <3>1, <3>2
    <2>16. w[i0] = a[i0] + c
      BY <2>11, <2>14
    <2>17. Total(w) = Total(a) + c
      <3>1. CASE c = 1
        BY <2>7, <2>12, <2>15, <2>16, <3>1, TotalOneMore
      <3>2. CASE c = 0
        <4>1. \A i \in 1 .. m : a[i] \in Nat
          BY <2>7
        <4>2. w[i0] = a[i0]
          BY <2>16, <3>2, <4>1
        <4>3. \A i \in 1 .. m : w[i] = a[i]
          BY <2>15, <4>2
        <4>4. w = a
          BY <2>7, <2>12, <4>3, SeqEqual
        <4>5. Total(a) \in Nat
          <5>1. \E h \in [0 .. Len(a) -> Nat] : h[Len(a)] = Total(a) /\ Sums(h, a, Len(a))
            BY TotalFacts
          <5>2. Len(a) \in 0 .. Len(a)
            OBVIOUS
          <5> QED BY <5>1, <5>2
        <4> QED BY <3>2, <4>4, <4>5
      <3> QED BY <2>4, <3>1, <3>2
    <2> HIDE DEF V
    <2> QED BY <2>1, <2>3, <2>8, <2>9, <2>12, <2>13, <2>17
  <1>4. 0 .. n \subseteq In
    <2> HIDE DEF In
    <2> QED BY <1>2, <1>3, UpTo
  <1>5. Total(V(n)) = PacketsWith(sig, packets) /\ V(n) \in Seq(Nat)
    <2>1. n \in 0 .. n /\ Prefix(packets, n) = packets
      BY <1>1, PrefixFacts
    <2>2. n \in In
      BY <1>4, <2>1
    <2> HIDE DEF V
    <2> QED BY <2>1, <2>2
  <1>6. V(n) = v
    <2>1. Prefix(packets, n) = packets
      BY <1>1, PrefixFacts
    <2>2. Len(V(n)) = m /\ \A i \in 1 .. m : V(n)[i] = PacketsWith(sig, Selected(packets, hs[i]))
      BY <1>5, <2>1
    <2> HIDE DEF V
    <2> QED BY <1>1, <1>5, <2>2, SeqEqual
  <1> QED BY <1>5, <1>6

(* The hashes of finitely many packets, in whatever order they are listed.  *)
LEMMA HashesListed ==
    ASSUME NEW P, NEW packets \in Seq(P), NEW S, S = {p.hash5tuple : p \in ToSet(packets)},
           NEW hs \in SetToSeqs(S)
    PROVE  /\ \E m \in Nat : hs \in [1 .. m -> S] /\ DOMAIN hs = 1 .. m /\ hs \in Seq(S) /\ Len(hs) = m
           /\ \A i, j \in DOMAIN hs : i # j => hs[i] # hs[j]
           /\ \A k \in 1 .. Len(packets) : \E i \in DOMAIN hs : hs[i] = packets[k].hash5tuple
  <1>1. PICK n \in Nat : n = Len(packets) /\ DOMAIN packets = 1 .. n
    OBVIOUS
  <1>2. IsFiniteSet(S)
    <2>1. IsFiniteSet(1 .. n)
      BY FS_Interval
    <2>2. PICK f : f = [i \in 1 .. n |-> packets[i].hash5tuple]
      OBVIOUS
    <2>3. S = {f[i] : i \in 1 .. n}
      BY <1>1, <2>2 DEF ToSet
    <2>4. f \in Surjection(1 .. n, S)
      BY <2>2, <2>3 DEF Surjection
    <2> QED BY <2>1, <2>4, FS_Surjection
  <1>3. PICK m \in Nat : m = Cardinality(S)
    BY <1>2, FS_CardinalityType
  <1>4. hs \in [1 .. m -> S] /\ \A i, j \in 1 .. m : i # j => hs[i] # hs[j]
    BY <1>3 DEF SetToSeqs
  <1>5. hs \in Injection(1 .. m, S)
    BY <1>4 DEF Injection, IsInjective
  <1>6. hs \in Surjection(1 .. m, S)
    <2>1. IsFiniteSet(1 .. m) /\ Cardinality(1 .. m) = m
      BY FS_Interval
    <2> QED BY <1>2, <1>3, <1>5, <2>1, FS_Injection
  <1>7. ASSUME NEW k \in 1 .. Len(packets) PROVE \E i \in 1 .. m : hs[i] = packets[k].hash5tuple
    <2>1. packets[k].hash5tuple \in S
      BY <1>1 DEF ToSet
    <2> QED BY <1>6, <2>1 DEF Surjection
  <1>8. DOMAIN hs = 1 .. m /\ hs \in Seq(S) /\ Len(hs) = m
    BY <1>4
  <1> QED BY <1>4, <1>7, <1>8

-----------------------------------------------------------------------------
(* LongShortSplit: raw bursts and the rest *)

(* Not being earlier is transitive, and nothing is earlier than itself.     *)
LEMMA NotEarlier ==
    ASSUME NEW a \in Timespec, NEW b \in Timespec, NEW c \in Timespec
    PROVE  ~Earlier(a, a) /\ (~Earlier(b, a) /\ ~Earlier(c, b) => ~Earlier(c, a))
BY DEF Earlier, Timespec

(* A packet that is not earlier than the others may be put at the end.      *)
LEMMA ByTimeAppend ==
    ASSUME NEW P, NEW u \in Seq(P), NEW x \in P, ByTime(u),
           \A p \in P : ~Earlier(x.timestamp, p.timestamp)
    PROVE  ByTime(Append(u, x))
  <1>1. PICK n \in Nat : n = Len(u)
    OBVIOUS
  <1>2. PICK w : w = Append(u, x)
    OBVIOUS
  <1>3. Len(w) = n + 1 /\ w[n + 1] = x /\ \A k \in 1 .. n : w[k] = u[k] /\ u[k] \in P
    BY <1>1, <1>2
  <1>4. ASSUME NEW i \in 1 .. n + 1, NEW j \in 1 .. n + 1, i < j
        PROVE  ~Earlier(w[j].timestamp, w[i].timestamp)
    <2>1. i \in 1 .. n
      BY <1>4
    <2>2. CASE j = n + 1
      BY <1>3, <2>1, <2>2
    <2>3. CASE j # n + 1
      <3>1. j \in 1 .. n
        BY <2>3
      <3> QED BY <1>1, <1>3, <1>4, <2>1, <3>1 DEF ByTime
    <2> QED BY <2>2, <2>3
  <1> QED BY <1>2, <1>3, <1>4 DEF ByTime

(* Both parts of a vector that is sorted by time are sorted.                *)
LEMMA ByTimeParts ==
    ASSUME NEW P, NEW u \in Seq(P), NEW w \in Seq(P), ByTime(u \o w)
    PROVE  ByTime(u) /\ ByTime(w)
  <1>1. PICK n \in Nat, m \in Nat : n = Len(u) /\ m = Len(w)
    OBVIOUS
  <1>2. PICK x : x = u \o w
    OBVIOUS
  <1>3. Len(x) = n + m /\ \A k \in 1 .. n + m : x[k] = IF k <= n THEN u[k] ELSE w[k - n]
    BY <1>1, <1>2
  <1>4. ASSUME NEW i \in 1 .. n, NEW j \in 1 .. n, i < j
        PROVE  ~Earlier(u[j].timestamp, u[i].timestamp)
    <2>1. i \in 1 .. n + m /\ j \in 1 .. n + m /\ x[i] = u[i] /\ x[j] = u[j]
      BY <1>3
    <2> QED BY <1>2, <1>3, <1>4, <2>1 DEF ByTime
  <1>5. ASSUME NEW i \in 1 .. m, NEW j \in 1 .. m, i < j
        PROVE  ~Earlier(w[j].timestamp, w[i].timestamp)
    <2>1. PICK i2 \in Nat, j2 \in Nat : i2 = n + i /\ j2 = n + j
      OBVIOUS
    <2>2. /\ i2 \in 1 .. n + m /\ j2 \in 1 .. n + m /\ i2 < j2
          /\ ~(i2 <= n) /\ ~(j2 <= n) /\ i2 - n = i /\ j2 - n = j
      BY <1>5, <2>1
    <2>3. x[i2] = w[i] /\ x[j2] = w[j]
      BY <1>3, <2>2
    <2> QED BY <1>2, <1>3, <2>2, <2>3 DEF ByTime
  <1> QED BY <1>1, <1>4, <1>5 DEF ByTime

(* Appending to the second part is appending to the whole.                  *)
LEMMA JoinOneMore ==
    ASSUME NEW P, NEW u \in Seq(P), NEW w \in Seq(P), NEW x \in P
    PROVE  u \o Append(w, x) = Append(u \o w, x) /\ u \o <<x>> = Append(u, x)
  <1>1. PICK n \in Nat, m \in Nat : n = Len(u) /\ m = Len(w)
    OBVIOUS
  <1>2. PICK a \in Seq(P), b \in Seq(P) : a = u \o Append(w, x) /\ b = Append(u \o w, x)
    <2>1. Append(w, x) \in Seq(P) /\ u \o w \in Seq(P)
      BY ConcatProperties
    <2>2. u \o Append(w, x) \in Seq(P) /\ Append(u \o w, x) \in Seq(P)
      BY <2>1, ConcatProperties
    <2> QED BY <2>2
  <1>3. PICK c \in Seq(P) : c = Append(w, x) /\ Len(c) = m + 1 /\ c[m + 1] = x /\ \A k \in 1 .. m : c[k] = w[k]
    <2>1. Append(w, x) \in Seq(P)
      OBVIOUS
    <2>2. /\ Len(Append(w, x)) = m + 1 /\ Append(w, x)[m + 1] = x
          /\ \A k \in 1 .. m : Append(w, x)[k] = w[k]
      BY <1>1
    <2> QED BY <2>1, <2>2
  <1>4. PICK d \in Seq(P) : /\ d = u \o w /\ Len(d) = n + m
                            /\ \A k \in 1 .. n + m : d[k] = IF k <= n THEN u[k] ELSE w[k - n]
    <2>1. u \o w \in Seq(P)
      BY ConcatProperties
    <2>2. /\ Len(u \o w) = n + m
          /\ \A k \in 1 .. n + m : (u \o w)[k] = IF k <= n THEN u[k] ELSE w[k - n]
      BY <1>1, ConcatProperties
    <2> QED BY <2>1, <2>2
  <1>5. Len(a) = n + m + 1 /\ \A k \in 1 .. n + m + 1 : a[k] = IF k <= n THEN u[k] ELSE c[k - n]
    <2>1. a = u \o c /\ Len(u) = n /\ Len(c) = m + 1
      BY <1>1, <1>2, <1>3
    <2>2. /\ Len(u \o c) = Len(u) + Len(c)
          /\ \A k \in 1 .. Len(u) + Len(c) : (u \o c)[k] = IF k <= Len(u) THEN u[k] ELSE c[k - Len(u)]
      BY ConcatProperties
    <2>3. Len(u) + Len(c) = n + m + 1
      BY <2>1
    <2> QED BY <2>1, <2>2, <2>3
  <1>6. Len(b) = n + m + 1 /\ b[n + m + 1] = x /\ \A k \in 1 .. n + m : b[k] = d[k]
    BY <1>2, <1>4
  <1>7. ASSUME NEW k \in 1 .. n + m + 1 PROVE a[k] = b[k]
    <2>1. CASE k <= n
      <3>1. k \in 1 .. n + m
        BY <2>1
      <3> QED BY <1>4, <1>5, <1>6, <2>1, <3>1
    <2>2. CASE k > n /\ k <= n + m
      <3>1. k \in 1 .. n + m /\ ~(k <= n) /\ k - n \in 1 .. m
        BY <2>2
      <3> QED BY <1>3, <1>4, <1>5, <1>6, <3>1
    <2>3. CASE k = n + m + 1
      <3>1. ~(k <= n) /\ k - n = m + 1
        BY <2>3
      <3> QED BY <1>3, <1>5, <1>6, <2>3, <3>1
    <2>4. k \in Nat /\ k <= n + m + 1
      OBVIOUS
    <2>5. k <= n \/ (k > n /\ k <= n + m) \/ k = n + m + 1
      BY <2>4
    <2> QED BY <2>1, <2>2, <2>3, <2>5
  <1>8. a = b
    BY <1>5, <1>6, <1>7, SeqEqual
  <1> QED BY <1>2, <1>8

-----------------------------------------------------------------------------
(* How many packets of one signed length each raw burst holds.              *)
Held(sig, raws) == [i \in DOMAIN raws |-> PacketsWith(sig, raws[i])]

(* The first packet of vec starts one of the raw bursts.                    *)
Starts(vec, raws) == \E i \in 1 .. Len(raws) : raws[i][1] = vec[1]

(* vec is divided into raw bursts and a rest: everything is sorted by time, *)
(* no packet is lost or taken twice, and the first packet stays in front.   *)
Partition(vec, raws, rest) ==
    /\ ByTime(vec) /\ ByTime(rest)
    /\ \A i \in 1 .. Len(raws) : raws[i] # <<>> /\ ByTime(raws[i])
    /\ vec # <<>> => Starts(vec, raws) \/ (rest # <<>> /\ rest[1] = vec[1])
    /\ \A sig \in Sig :
          PacketsWith(sig, vec) = Total(Held(sig, raws)) + PacketsWith(sig, rest)

(* The numbers of packets in the raw bursts.                                *)
LEMMA HeldFacts ==
    ASSUME NEW P, NEW raws \in Seq(Seq(P)), NEW sig
    PROVE  /\ Held(sig, raws) \in Seq(Nat) /\ Len(Held(sig, raws)) = Len(raws)
           /\ \A i \in 1 .. Len(raws) : Held(sig, raws)[i] = PacketsWith(sig, raws[i])
           /\ Total(Held(sig, raws)) \in Nat
  <1>1. PICK n \in Nat : n = Len(raws) /\ DOMAIN raws = 1 .. n
    OBVIOUS
  <1>2. PICK v : v = Held(sig, raws)
    OBVIOUS
  <1>3. v = [i \in 1 .. n |-> PacketsWith(sig, raws[i])]
    BY <1>1, <1>2 DEF Held
  <1>4. \A i \in 1 .. n : PacketsWith(sig, raws[i]) \in Nat
    <2> SUFFICES ASSUME NEW i \in 1 .. n PROVE PacketsWith(sig, raws[i]) \in Nat
      OBVIOUS
    <2>1. raws[i] \in Seq(P)
      BY <1>1
    <2> QED BY <2>1, PacketsWithTotal
  <1>5. v \in Seq(Nat) /\ Len(v) = n
    BY <1>3, <1>4
  <1>6. Total(v) \in Nat
    <2>1. PICK h \in [0 .. n -> Nat] : h[n] = Total(v)
      BY <1>5, TotalFacts
    <2>2. n \in 0 .. n
      OBVIOUS
    <2> QED BY <2>1, <2>2
  <1> QED BY <1>1, <1>2, <1>3, <1>5, <1>6

(* One raw burst more.                                                      *)
LEMMA HeldAppend ==
    ASSUME NEW P, NEW raws \in Seq(Seq(P)), NEW raw \in Seq(P), NEW sig
    PROVE  Total(Held(sig, Append(raws, raw))) = Total(Held(sig, raws)) + PacketsWith(sig, raw)
  <1>1. PICK n \in Nat : n = Len(raws)
    OBVIOUS
  <1>2. PICK more \in Seq(Seq(P)) : more = Append(raws, raw)
    <2>1. Append(raws, raw) \in Seq(Seq(P))
      OBVIOUS
    <2> QED BY <2>1
  <1>3. Len(more) = n + 1 /\ more[n + 1] = raw /\ \A k \in 1 .. n : more[k] = raws[k]
    BY <1>1, <1>2
  <1>4. PICK y \in Nat : y = PacketsWith(sig, raw)
    BY PacketsWithTotal
  <1>5. PICK a \in Seq(Nat) : /\ a = Held(sig, raws) /\ Len(a) = n
                              /\ \A i \in 1 .. n : a[i] = PacketsWith(sig, raws[i])
    BY <1>1, HeldFacts
  <1>6. PICK c \in Seq(Nat) : /\ c = Held(sig, more) /\ Len(c) = n + 1
                              /\ \A i \in 1 .. n + 1 : c[i] = PacketsWith(sig, more[i])
    <2>1. PICK c \in Seq(Nat) : /\ c = Held(sig, more) /\ Len(c) = Len(more)
                                /\ \A i \in 1 .. Len(more) : c[i] = PacketsWith(sig, more[i])
      BY HeldFacts
    <2>2. Len(more) = n + 1
      BY <1>3
    <2> QED BY <2>1, <2>2
  <1>7. c = Append(a, y)
    <2>1. Append(a, y) \in Seq(Nat) /\ Len(Append(a, y)) = n + 1
      BY <1>5
    <2>2. ASSUME NEW i \in 1 .. n + 1 PROVE c[i] = Append(a, y)[i]
      BY <1>3, <1>4, <1>5, <1>6
    <2> QED BY <1>6, <2>1, <2>2, SeqEqual
  <1> QED BY <1>2, <1>4, <1>5, <1>6, <1>7, TotalAppend

(* One packet more, read and put at the end of the rest.                    *)
LEMMA PartitionTake ==
    ASSUME NEW P, NEW vec \in Seq(P), NEW raws \in Seq(Seq(P)), NEW rest \in Seq(P), NEW x \in P,
           Partition(vec, raws, rest), vec = <<>> => rest = <<>>,
           \A p \in P : ~Earlier(x.timestamp, p.timestamp)
    PROVE  Partition(Append(vec, x), raws, Append(rest, x))
  <1>1. ByTime(Append(vec, x)) /\ ByTime(Append(rest, x))
    BY ByTimeAppend DEF Partition
  <1>2. Starts(Append(vec, x), raws) \/ (Append(rest, x) # <<>> /\ Append(rest, x)[1] = Append(vec, x)[1])
    <2>1. Append(rest, x) # <<>>
      <3>1. Len(Append(rest, x)) = Len(rest) + 1 /\ Len(rest) \in Nat
        OBVIOUS
      <3>2. Len(<<>>) = 0
        OBVIOUS
      <3> QED BY <3>1, <3>2
    <2>2. CASE vec = <<>>
      BY <2>1, <2>2
    <2>3. CASE vec # <<>>
      <3>1. Append(vec, x)[1] = vec[1]
        BY <2>3
      <3>2. CASE Starts(vec, raws)
        BY <3>1, <3>2 DEF Starts
      <3>3. CASE rest # <<>> /\ rest[1] = vec[1]
        <4>1. Append(rest, x)[1] = rest[1]
          BY <3>3
        <4> QED BY <2>1, <3>1, <3>3, <4>1
      <3> QED BY <2>3, <3>2, <3>3 DEF Partition
    <2> QED BY <2>2, <2>3
  <1>3. ASSUME NEW sig \in Sig
        PROVE  PacketsWith(sig, Append(vec, x)) = Total(Held(sig, raws)) + PacketsWith(sig, Append(rest, x))
    <2>1. PICK c \in Nat : c = IF x.signedLen = sig THEN 1 ELSE 0
      OBVIOUS
    <2>2. /\ PacketsWith(sig, Append(vec, x)) = PacketsWith(sig, vec) + c
          /\ PacketsWith(sig, Append(rest, x)) = PacketsWith(sig, rest) + c
      BY <2>1, PacketsWithAppend
    <2>3. PacketsWith(sig, vec) \in Nat /\ PacketsWith(sig, rest) \in Nat /\ Total(Held(sig, raws)) \in Nat
      BY PacketsWithTotal, HeldFacts
    <2>4. PacketsWith(sig, vec) = Total(Held(sig, raws)) + PacketsWith(sig, rest)
      BY DEF Partition
    <2> QED BY <2>2, <2>3, <2>4
  <1> QED BY <1>1, <1>2, <1>3 DEF Partition

(* The end of the rest becomes a raw burst of its own.                      *)
LEMMA PartitionCut ==
    ASSUME NEW P, NEW vec \in Seq(P), NEW raws \in Seq(Seq(P)), NEW rest \in Seq(P), NEW raw \in Seq(P),
           raw # <<>>, Partition(vec, raws, rest \o raw)
    PROVE  Partition(vec, Append(raws, raw), rest)
  <1>1. ByTime(vec) /\ ByTime(rest) /\ ByTime(raw)
    BY ByTimeParts DEF Partition
  <1>2. PICK n \in Nat : n = Len(raws)
    OBVIOUS
  <1>3. PICK more : more = Append(raws, raw)
    OBVIOUS
  <1>4. Len(more) = n + 1 /\ more[n + 1] = raw /\ \A k \in 1 .. n : more[k] = raws[k]
    BY <1>2, <1>3
  <1>5. ASSUME NEW i \in 1 .. n + 1 PROVE more[i] # <<>> /\ ByTime(more[i])
    <2>1. CASE i = n + 1
      BY <1>1, <1>4, <2>1
    <2>2. CASE i # n + 1
      <3>1. i \in 1 .. n
        BY <2>2
      <3> QED BY <1>2, <1>4, <3>1 DEF Partition
    <2> QED BY <2>1, <2>2
  <1>6. ASSUME vec # <<>>
        PROVE  Starts(vec, more) \/ (rest # <<>> /\ rest[1] = vec[1])
    <2>1. CASE Starts(vec, raws)
      <3>1. PICK i \in 1 .. n : raws[i][1] = vec[1]
        BY <1>2, <2>1 DEF Starts
      <3>2. i \in 1 .. n + 1 /\ more[i][1] = vec[1]
        BY <1>4, <3>1
      <3> QED BY <1>4, <3>2 DEF Starts
    <2>2. CASE rest \o raw # <<>> /\ (rest \o raw)[1] = vec[1]
      <3>1. CASE rest = <<>>
        <4>1. rest \o raw = raw
          BY <3>1, EmptyJoin
        <4>2. n + 1 \in 1 .. n + 1 /\ more[n + 1][1] = vec[1]
          BY <1>4, <2>2, <4>1
        <4> QED BY <1>4, <4>2 DEF Starts
      <3>2. CASE rest # <<>>
        <4>1. (rest \o raw)[1] = rest[1]
          BY <3>2
        <4> QED BY <2>2, <3>2, <4>1
      <3> QED BY <3>1, <3>2
    <2> QED BY <1>6, <2>1, <2>2 DEF Partition
  <1>7. ASSUME NEW sig \in Sig
        PROVE  PacketsWith(sig, vec) = Total(Held(sig, more)) + PacketsWith(sig, rest)
    <2>1. Total(Held(sig, more)) = Total(Held(sig, raws)) + PacketsWith(sig, raw)
      BY <1>3, HeldAppend
    <2>2. PacketsWith(sig, rest \o raw) = PacketsWith(sig, rest) + PacketsWith(sig, raw)
      BY PacketsWithJoin
    <2>3. PacketsWith(sig, raw) \in Nat /\ PacketsWith(sig, rest) \in Nat /\ Total(Held(sig, raws)) \in Nat
      BY PacketsWithTotal, HeldFacts
    <2>4. PacketsWith(sig, vec) = Total(Held(sig, raws)) + PacketsWith(sig, rest \o raw)
      BY DEF Partition
    <2> QED BY <2>1, <2>2, <2>3, <2>4
  <1> QED BY <1>1, <1>3, <1>4, <1>5, <1>6, <1>7 DEF Partition

-----------------------------------------------------------------------------
(* All raw bursts; the sorts *)

(* The bursts of all raw bursts, in their order.                            *)
BurstsFrom(raws) == FlattenSeq([i \in DOMAIN raws |-> StrictToBursts(raws[i])])

(* Dividing raw bursts one by one: the bursts are sound, count the packets  *)
(* of all raw bursts, and each raw burst's first packet gave its stamp.     *)
LEMMA DivideAll ==
    ASSUME NEW P, P \subseteq Packet, NEW raws \in Seq(Seq(P)),
           \A i \in 1 .. Len(raws) : raws[i] # <<>>
    PROVE  /\ BurstsFrom(raws) \in Seq(BurstsOn(P))
           /\ \A sig \in Sig : Tally(sig, BurstsFrom(raws)) = Total(Held(sig, raws))
           /\ \A i \in 1 .. Len(raws) : \E j \in 1 .. Len(BurstsFrom(raws)) :
                 BurstsFrom(raws)[j].firstPacketStamp = raws[i][1].timestamp
  <1>0. PICK all : all = BurstsFrom(raws)
    OBVIOUS
  <1>1. PICK n \in Nat : n = Len(raws) /\ DOMAIN raws = 1 .. n
    OBVIOUS
  <1>2. PICK blocks : blocks = [i \in 1 .. n |-> StrictToBursts(raws[i])]
    OBVIOUS
  <1>3. all = FlattenSeq(blocks)
    BY <1>0, <1>1, <1>2 DEF BurstsFrom
  <1>4. ASSUME NEW i \in 1 .. n
        PROVE  /\ blocks[i] \in Seq(BurstsOn(P)) /\ blocks[i] # <<>>
               /\ blocks[i][1].firstPacketStamp = raws[i][1].timestamp
               /\ \A sig \in Sig : Tally(sig, blocks[i]) = PacketsWith(sig, raws[i])
    <2>1. raws[i] \in Seq(P) /\ raws[i] # <<>>
      BY <1>1
    <2> QED BY <1>2, <2>1, StrictToBurstsFacts
  <1>5. blocks \in Seq(Seq(BurstsOn(P))) /\ Len(blocks) = n
    BY <1>2, <1>4
  <1>6. all \in Seq(BurstsOn(P))
    <2>1. PICK h \in [0 .. n -> Seq(BurstsOn(P))] : h[n] = FlattenSeq(blocks)
      BY <1>5, FlattenFacts
    <2>2. n \in 0 .. n
      OBVIOUS
    <2> QED BY <1>3, <2>1, <2>2
  <1>7. ASSUME NEW sig \in Sig PROVE Tally(sig, all) = Total(Held(sig, raws))
    <2>1. PICK v \in Seq(Nat) : /\ v = Held(sig, raws) /\ Len(v) = n
                                /\ \A i \in 1 .. n : v[i] = PacketsWith(sig, raws[i])
      BY <1>1, HeldFacts
    <2>2. \A i \in 1 .. Len(blocks) : v[i] = Tally(sig, blocks[i])
      BY <1>4, <1>5, <2>1
    <2>3. blocks \in Seq(Seq(BurstType))
      <3>1. Seq(BurstsOn(P)) \subseteq Seq(BurstType)
        BY BurstsOnType
      <3>2. \A i \in 1 .. n : blocks[i] \in Seq(BurstType)
        BY <1>4, <3>1
      <3> QED BY <1>2, <3>2
    <2> QED BY <1>3, <1>5, <2>1, <2>2, <2>3, TallyFlatten
  <1>8. ASSUME NEW i \in 1 .. n
        PROVE  \E j \in 1 .. Len(all) : all[j].firstPacketStamp = raws[i][1].timestamp
    <2>1. 1 \in 1 .. Len(blocks[i])
      <3>1. PICK w \in Seq(BurstsOn(P)) : w = blocks[i] /\ w # <<>>
        BY <1>4
      <3>2. 1 \in 1 .. Len(w)
        BY <3>1
      <3> QED BY <3>1, <3>2
    <2>2. i \in 1 .. Len(blocks)
      BY <1>5
    <2>3. \E j \in 1 .. Len(FlattenSeq(blocks)) : FlattenSeq(blocks)[j] = blocks[i][1]
      <3>1. PICK S : S = BurstsOn(P)
        OBVIOUS
      <3>2. blocks \in Seq(Seq(S))
        BY <1>5, <3>1
      <3> QED BY <2>1, <2>2, <3>2, FlattenMember
    <2> QED BY <1>3, <1>4, <2>3
  <1> QED BY <1>0, <1>1, <1>6, <1>7, <1>8

(* The flows in the order in which their hashes are listed.                 *)
FlowsBy(packets, hs) == [i \in DOMAIN hs |-> Selected(packets, hs[i])]

Hashes(packets) == {p.hash5tuple : p \in ToSet(packets)}

(* The flows of the long raw bursts, in whatever order the hashes are       *)
(* listed, hold all their packets, and their first packet starts a flow.    *)
LEMMA FlowRaws ==
    ASSUME NEW P, NEW packets \in Seq(P), ByTime(packets),
           NEW S, S = Hashes(packets), NEW hs \in SetToSeqs(S),
           NEW raws, raws = FlowsBy(packets, hs)
    PROVE  /\ raws \in Seq(Seq(P)) /\ \A i \in 1 .. Len(raws) : raws[i] # <<>>
           /\ \A sig : Total(Held(sig, raws)) = PacketsWith(sig, packets)
           /\ packets # <<>> => \E i \in 1 .. Len(raws) : raws[i][1] = packets[1]
  <1>1. PICK m \in Nat : hs \in [1 .. m -> S] /\ DOMAIN hs = 1 .. m
    BY HashesListed DEF Hashes
  <1>2. /\ \A i, j \in 1 .. m : i # j => hs[i] # hs[j]
        /\ \A k \in 1 .. Len(packets) : \E i \in 1 .. m : hs[i] = packets[k].hash5tuple
    <2>1. \A i, j \in DOMAIN hs : i # j => hs[i] # hs[j]
      BY HashesListed DEF Hashes
    <2>2. \A k \in 1 .. Len(packets) : \E i \in DOMAIN hs : hs[i] = packets[k].hash5tuple
      BY HashesListed DEF Hashes
    <2> QED BY <1>1, <2>1, <2>2
  <1>3. raws = [i \in 1 .. m |-> Selected(packets, hs[i])]
    BY <1>1 DEF FlowsBy
  <1>4. ASSUME NEW i \in 1 .. m
        PROVE  raws[i] \in Seq(P) /\ SelectedOf(raws[i], packets, Len(packets), hs[i])
    BY <1>3, SelectedFacts
  <1>5. raws \in Seq(Seq(P)) /\ Len(raws) = m
    BY <1>3, <1>4
  <1>6. ASSUME NEW i \in 1 .. m PROVE raws[i] # <<>>
    <2>1. hs[i] \in S
      BY <1>1
    <2>2. PICK p \in ToSet(packets) : p.hash5tuple = hs[i]
      BY <2>1 DEF Hashes
    <2>3. \E k \in 1 .. Len(packets) : packets[k].hash5tuple = hs[i]
      BY <2>2 DEF ToSet
    <2> QED BY <1>4, <2>3 DEF SelectedOf
  <1>7. ASSUME NEW sig PROVE Total(Held(sig, raws)) = PacketsWith(sig, packets)
    <2>1. PICK v \in Seq(Nat) : /\ v = Held(sig, raws) /\ Len(v) = m
                                /\ \A i \in 1 .. m : v[i] = PacketsWith(sig, raws[i])
      BY <1>5, HeldFacts
    <2>2. \A i \in 1 .. m : v[i] = PacketsWith(sig, Selected(packets, hs[i]))
      BY <1>3, <2>1
    <2>3. /\ \A i, j \in 1 .. Len(v) : i # j => hs[i] # hs[j]
          /\ \A k \in 1 .. Len(packets) : \E i \in 1 .. Len(v) : hs[i] = packets[k].hash5tuple
          /\ \A i \in 1 .. Len(v) : v[i] = PacketsWith(sig, Selected(packets, hs[i]))
      BY <1>2, <2>1, <2>2
    <2>4. Total(v) = PacketsWith(sig, packets)
      BY <2>3, FlowsCount
    <2> QED BY <2>1, <2>4
  <1>8. ASSUME packets # <<>> PROVE \E i \in 1 .. m : raws[i][1] = packets[1]
    <2>1. 1 \in 1 .. Len(packets) /\ Len(packets) > 0
      BY <1>8
    <2>2. PICK i \in 1 .. m : hs[i] = packets[1].hash5tuple
      BY <1>2, <2>1
    <2>3. raws[i][1] = packets[1]
      BY <1>4, <2>1, <2>2 DEF SelectedOf
    <2> QED BY <2>3
  <1> QED BY <1>5, <1>6, <1>7, <1>8

-----------------------------------------------------------------------------
(* Sorting the bursts keeps all of them and puts none in front of an        *)
(* earlier one.                                                             *)
LEMMA SortedFacts ==
    ASSUME NEW S, S \subseteq BurstType, NEW vec \in Seq(S), NEW w \in Sorted(vec)
    PROVE  /\ w \in Seq(S) /\ Len(w) = Len(vec)
           /\ \A sig : Tally(sig, w) = Tally(sig, vec)
           /\ \A j \in 1 .. Len(vec) : \E i \in 1 .. Len(w) : w[i] = vec[j]
           /\ \A i \in 2 .. Len(w) : ~Earlier(w[i].firstPacketStamp, w[1].firstPacketStamp)
  <1>1. PICK n \in Nat : n = Len(vec) /\ DOMAIN vec = 1 .. n
    OBVIOUS
  <1>2. PICK p \in SetToSeqs(1 .. n) :
            /\ w = [i \in 1 .. n |-> vec[p[i]]]
            /\ \A i, j \in 1 .. n : i < j => ~Earlier(vec[p[j]].firstPacketStamp, vec[p[i]].firstPacketStamp)
    BY <1>1, Zenon DEF Sorted
  <1>3. p \in [1 .. n -> 1 .. n] /\ \A j \in 1 .. n : \E i \in 1 .. n : p[i] = j
    BY Arrangement
  <1>4. w \in Seq(S) /\ Len(w) = n
    <2>1. ASSUME NEW i \in 1 .. n PROVE vec[p[i]] \in S
      <3>1. p[i] \in 1 .. n
        BY <1>3
      <3> QED BY <1>1, <3>1
    <2> QED BY <1>2, <2>1
  <1>5. ASSUME NEW sig PROVE Tally(sig, w) = Tally(sig, vec)
    <2>1. vec \in Seq(BurstType) /\ w \in Seq(BurstType)
      BY <1>4
    <2>2. PICK a \in Seq(Nat) : /\ Len(a) = n /\ Tally(sig, vec) = Total(a)
                                /\ \A i \in 1 .. n : a[i] = CountOf(sig, vec[i])
      BY <1>1, <2>1, TallyFacts
    <2>3. PICK b \in Seq(Nat) : /\ Len(b) = n /\ Tally(sig, w) = Total(b)
                                /\ \A i \in 1 .. n : b[i] = CountOf(sig, w[i])
      BY <1>4, <2>1, TallyFacts
    <2>4. \A i \in 1 .. n : b[i] = a[p[i]]
      BY <1>2, <1>3, <2>2, <2>3
    <2>5. Total(b) = Total(a)
      <3>1. Len(b) = Len(a) /\ p \in SetToSeqs(1 .. Len(a))
        BY <1>2, <2>2, <2>3
      <3>2. \A i \in 1 .. Len(a) : b[i] = a[p[i]]
        BY <2>2, <2>4
      <3> QED BY <3>1, <3>2, TotalArranged
    <2> QED BY <2>2, <2>3, <2>5
  <1>6. ASSUME NEW j \in 1 .. n PROVE \E i \in 1 .. n : w[i] = vec[j]
    <2>1. PICK i \in 1 .. n : p[i] = j
      BY <1>3
    <2> QED BY <1>2, <2>1
  <1>7. ASSUME NEW i \in 2 .. n PROVE ~Earlier(w[i].firstPacketStamp, w[1].firstPacketStamp)
    <2>1. 1 \in 1 .. n /\ i \in 1 .. n /\ 1 < i
      OBVIOUS
    <2> QED BY <1>2, <2>1
  <1> QED BY <1>1, <1>4, <1>5, <1>6, <1>7

(* SortDetail rearranges the entries of packetDetail; their signatures,     *)
(* each listed once, ascend.                                                *)
LEMMA SortDetailArranges ==
    ASSUME NEW b, Exact(b)
    PROVE  \E p \in SetToSeqs(1 .. Len(b.packetDetail)), d \in Seq(Detail) :
              /\ SortDetail(b) = [b EXCEPT !.packetDetail = d]
              /\ Len(d) = Len(b.packetDetail)
              /\ \A i \in 1 .. Len(d) : d[i] = b.packetDetail[p[i]]
              /\ \A i, j \in 1 .. Len(d) : i < j => d[i].sig < d[j].sig
  <1>1. PICK x \in Seq(Detail), n \in Nat : x = b.packetDetail /\ n = Len(x) /\ DOMAIN x = 1 .. n
    BY BurstFields DEF Exact
  <1> DEFINE Ascends(p) == \A i, j \in 1 .. n : i < j => x[p[i]].sig <= x[p[j]].sig
  <1>2. \E p \in SetToSeqs(1 .. n) : Ascends(p)
    <2>1. PICK s : s = [i \in 1 .. n |-> x[i].sig]
      OBVIOUS
    <2>2. s \in [1 .. n -> Int]
      <3>1. \A i \in 1 .. n : x[i].sig \in Int
        <4> SUFFICES ASSUME NEW i \in 1 .. n PROVE x[i].sig \in Int
          OBVIOUS
        <4>1. x[i] \in Detail
          BY <1>1
        <4> QED BY <4>1, SigAssumption DEF Detail
      <3> QED BY <2>1, <3>1
    <2>3. PICK p \in SetToSeqs(1 .. n) : \A i, j \in 1 .. n : i < j => s[p[i]] <= s[p[j]]
      BY <2>2, SortingOrder
    <2>4. p \in [1 .. n -> 1 .. n]
      BY Arrangement
    <2>5. Ascends(p)
      BY <2>1, <2>3, <2>4
    <2> QED BY <2>5
  <1> DEFINE Listed(p) == \A i, j \in DOMAIN b.packetDetail :
                            i < j => b.packetDetail[p[i]].sig <= b.packetDetail[p[j]].sig
             chosen == CHOOSE p \in SetToSeqs(DOMAIN b.packetDetail) : Listed(p)
  <1>3. chosen \in SetToSeqs(1 .. n) /\ Ascends(chosen)
    <2>1. \E p \in SetToSeqs(DOMAIN b.packetDetail) : Listed(p)
      BY <1>1, <1>2
    <2>2. chosen \in SetToSeqs(DOMAIN b.packetDetail) /\ Listed(chosen)
      <3> HIDE DEF Listed
      <3> QED BY <2>1
    <2> HIDE DEF chosen
    <2> QED BY <1>1, <2>2
  <1>4. SortDetail(b) = [b EXCEPT !.packetDetail = [i \in DOMAIN b.packetDetail |-> b.packetDetail[chosen[i]]]]
    BY Zenon DEF SortDetail
  <1>5. PICK p \in SetToSeqs(1 .. n) : p = chosen /\ Ascends(p)
    <2> HIDE DEF Ascends, chosen
    <2> QED BY <1>3
  <1> HIDE DEF chosen
  <1>6. p \in [1 .. n -> 1 .. n] /\ \A i, j \in 1 .. n : i # j => p[i] # p[j]
    <2>1. SetToSeqs(1 .. n) = {f \in [1 .. n -> 1 .. n] : \A i, j \in 1 .. n : i # j => f[i] # f[j]}
      BY Arrangement
    <2> QED BY <2>1
  <1>7. PICK d : d = [i \in 1 .. n |-> x[p[i]]]
    OBVIOUS
  <1>8. d \in Seq(Detail) /\ Len(d) = n
    <2>1. \A i \in 1 .. n : x[p[i]] \in Detail
      BY <1>1, <1>6
    <2> QED BY <1>7, <2>1
  <1>9. ASSUME NEW i \in 1 .. n, NEW j \in 1 .. n, i < j PROVE d[i].sig < d[j].sig
    <2>1. x[p[i]].sig <= x[p[j]].sig
      BY <1>5, <1>9
    <2>2. p[i] \in 1 .. n /\ p[j] \in 1 .. n /\ p[i] # p[j]
      BY <1>6, <1>9
    <2>3. x[p[i]].sig # x[p[j]].sig
      BY <1>1, <2>2 DEF Exact
    <2>4. x[p[i]].sig \in Int /\ x[p[j]].sig \in Int
      <3>1. x[p[i]] \in Detail /\ x[p[j]] \in Detail
        BY <1>1, <2>2
      <3> QED BY <3>1, SigAssumption DEF Detail
    <2> QED BY <1>7, <2>1, <2>3, <2>4
  <1>10. SortDetail(b) = [b EXCEPT !.packetDetail = d]
    BY <1>1, <1>4, <1>5, <1>7
  <1>11. \A i \in 1 .. n : d[i] = x[p[i]]
    BY <1>7
  <1>12. /\ p \in SetToSeqs(1 .. Len(b.packetDetail)) /\ Len(d) = Len(b.packetDetail)
         /\ \A i \in 1 .. Len(d) : d[i] = b.packetDetail[p[i]]
         /\ \A i, j \in 1 .. Len(d) : i < j => d[i].sig < d[j].sig
    BY <1>1, <1>8, <1>9, <1>11
  <1> HIDE <1>1
  <1> QED BY <1>8, <1>10, <1>12

(* The burst that SortDetail returns is the same in every other respect.    *)
LEMMA SortDetailFacts ==
    ASSUME NEW P, NEW b \in BurstsOn(P)
    PROVE  /\ SortDetail(b) \in BurstsOn(P)
           /\ SortDetail(b).firstPacketStamp = b.firstPacketStamp
           /\ \A sig : CountOf(sig, SortDetail(b)) = CountOf(sig, b)
           /\ \A i, j \in 1 .. Len(SortDetail(b).packetDetail) :
                 i < j => SortDetail(b).packetDetail[i].sig < SortDetail(b).packetDetail[j].sig
  <1>1. b \in BurstType /\ Exact(b) /\ Sound(b) /\ b.pktNum >= 1 /\ StampedIn(b, P)
    BY DEF BurstsOn, Sound
  <1>2. PICK x \in Seq(Detail), n \in Nat : x = b.packetDetail /\ n = Len(x)
    BY <1>1, BurstFields
  <1>3. PICK p \in SetToSeqs(1 .. n), d \in Seq(Detail) :
            /\ SortDetail(b) = [b EXCEPT !.packetDetail = d] /\ Len(d) = n
            /\ \A i \in 1 .. n : d[i] = x[p[i]]
            /\ \A i, j \in 1 .. n : i < j => d[i].sig < d[j].sig
    BY <1>1, <1>2, SortDetailArranges
  <1>4. PICK c : c = SortDetail(b)
    OBVIOUS
  <1>5. /\ c \in BurstType /\ c.packetDetail = d /\ c.instanceLabel = b.instanceLabel
        /\ c.uniPktNum = b.uniPktNum /\ c.pktNum = b.pktNum /\ c.firstPacketStamp = b.firstPacketStamp
    BY <1>1, <1>3, <1>4 DEF BurstType
  <1>6. p \in [1 .. n -> 1 .. n]
    BY Arrangement
  <1>7. ASSUME NEW sig PROVE CountOf(sig, c) = CountOf(sig, b)
    <2>1. PICK u \in Seq(Nat) : /\ Len(u) = n /\ CountOf(sig, b) = Total(u)
                                /\ \A i \in 1 .. n : u[i] = IF x[i].sig = sig THEN x[i].num ELSE 0
      <3>1. PICK z \in Seq(Nat) : /\ z = Counts(sig, x) /\ Len(z) = n
                                  /\ \A i \in 1 .. n : z[i] = IF x[i].sig = sig THEN x[i].num ELSE 0
        BY <1>2, CountsFacts
      <3>2. CountOf(sig, b) = Total(Counts(sig, x))
        BY <1>2, CountOfFacts
      <3> QED BY <3>1, <3>2
    <2>2. PICK v \in Seq(Nat) : /\ Len(v) = n /\ CountOf(sig, c) = Total(v)
                                /\ \A i \in 1 .. n : v[i] = IF d[i].sig = sig THEN d[i].num ELSE 0
      <3>1. PICK z \in Seq(Nat) : /\ z = Counts(sig, d) /\ Len(z) = n
                                  /\ \A i \in 1 .. n : z[i] = IF d[i].sig = sig THEN d[i].num ELSE 0
        BY <1>3, CountsFacts
      <3>2. CountOf(sig, c) = Total(Counts(sig, d))
        BY <1>3, <1>5, CountOfFacts
      <3> QED BY <3>1, <3>2
    <2>3. ASSUME NEW i \in 1 .. n PROVE v[i] = u[p[i]]
      <3>1. p[i] \in 1 .. n /\ d[i] = x[p[i]]
        BY <1>3, <1>6
      <3> QED BY <2>1, <2>2, <3>1
    <2>4. Total(v) = Total(u)
      <3>1. Len(v) = Len(u) /\ p \in SetToSeqs(1 .. Len(u)) /\ \A i \in 1 .. Len(u) : v[i] = u[p[i]]
        BY <1>3, <2>1, <2>2, <2>3
      <3> HIDE <2>1, <2>2
      <3> QED BY <3>1, TotalArranged
    <2> QED BY <2>1, <2>2, <2>4
  <1>8. PacketCount(c.packetDetail) = PacketCount(b.packetDetail)
    <2>1. PICK u \in Seq(Nat) : /\ Len(u) = n /\ PacketCount(x) = Total(u)
                                /\ \A i \in 1 .. n : u[i] = x[i].num
      BY <1>2, NumsFacts
    <2>2. PICK v \in Seq(Nat) : /\ Len(v) = n /\ PacketCount(d) = Total(v)
                                /\ \A i \in 1 .. n : v[i] = d[i].num
      BY <1>3, NumsFacts
    <2>3. ASSUME NEW i \in 1 .. n PROVE v[i] = u[p[i]]
      <3>1. p[i] \in 1 .. n /\ d[i] = x[p[i]]
        BY <1>3, <1>6
      <3> QED BY <2>1, <2>2, <3>1
    <2>4. Total(v) = Total(u)
      <3>1. Len(v) = Len(u) /\ p \in SetToSeqs(1 .. Len(u)) /\ \A i \in 1 .. Len(u) : v[i] = u[p[i]]
        BY <1>3, <2>1, <2>2, <2>3
      <3> HIDE <2>1, <2>2
      <3> QED BY <3>1, TotalArranged
    <2> QED BY <1>2, <1>5, <2>1, <2>2, <2>4
  <1>9. Exact(c)
    <2>1. ASSUME NEW i \in 1 .. n, NEW j \in 1 .. n, d[i].sig = d[j].sig PROVE i = j
      <3>1. d[i].sig \in Int /\ d[j].sig \in Int
        <4>1. d[i] \in Detail /\ d[j] \in Detail
          BY <1>3
        <4> QED BY <4>1, SigAssumption DEF Detail
      <3>2. ~(i < j) /\ ~(j < i)
        BY <1>3, <2>1, <3>1
      <3> QED BY <3>2
    <2>2. c.uniPktNum = Len(c.packetDetail) /\ c.uniPktNum <= BURST_MAX_UNISIG
      BY <1>1, <1>2, <1>3, <1>5 DEF Exact
    <2> QED BY <1>3, <1>5, <2>1, <2>2 DEF Exact
  <1>10. Sound(c)
    BY <1>1, <1>5, <1>8, <1>9 DEF Sound
  <1>11. c \in BurstsOn(P)
    BY <1>1, <1>5, <1>10 DEF BurstsOn, StampedIn
  <1> QED BY <1>3, <1>4, <1>5, <1>7, <1>11

-----------------------------------------------------------------------------
(* The inductive invariant *)

(* The packets read so far; those of the long raw bursts, as                *)
(* SeparateBy5Tuple meets them; those that are in no short raw burst yet.   *)
Seen == ToSet(pktVec)
Longs == FlattenSeq(m_longburstVec)
Rest == Longs \o rawBurst

Phases == {"LongShortSplit", "SeparateBy5Tuple", "MakeNormalBurstVec", "MakeLongBurstVec",
           "SortInOrder", "done"}

(* The raw bursts hold packets that were read.                              *)
RawTypes ==
    /\ phase \in Phases
    /\ pktVec \in Seq(Packets)
    /\ rawBurst \in Seq(Seen)
    /\ m_shortBurstVec \in Seq(Seq(Seen)) /\ m_longburstVec \in Seq(Seq(Seen))

(* LongShortSplit divides what it read, and leaves nothing over.            *)
Divided ==
    /\ Partition(pktVec, m_shortBurstVec, Rest)
    /\ phase = "LongShortSplit" /\ pktVec # <<>> => rawBurst # <<>>
    /\ phase # "LongShortSplit" => rawBurst = <<>> /\ pktVec # <<>>

(* The flows are those of the long raw bursts.                              *)
Regrouped ==
    phase \in {"MakeNormalBurstVec", "MakeLongBurstVec"} =>
        m_flowMap = [hash \in {p.hash5tuple : p \in ToSet(Longs)} |-> Selected(Longs, hash)]

(* Some burst carries the stamp of the first packet.                        *)
FirstStamped ==
    \E i \in 1 .. Len(m_burstVec) : m_burstVec[i].firstPacketStamp = pktVec[1].timestamp

(* The bursts made so far: sound, none empty, and complete when all raw     *)
(* bursts have been divided.                                                *)
Made ==
    /\ m_burstVec \in Seq(BurstsOn(Seen))
    /\ phase \in {"LongShortSplit", "SeparateBy5Tuple", "MakeNormalBurstVec"} => m_burstVec = <<>>
    /\ phase = "MakeLongBurstVec" =>
          /\ \A sig \in Sig : Tally(sig, m_burstVec) = Total(Held(sig, m_shortBurstVec))
          /\ Starts(pktVec, m_shortBurstVec) => FirstStamped
    /\ phase \in {"SortInOrder", "done"} =>
          /\ \A sig \in Sig : Tally(sig, m_burstVec) = PacketsWith(sig, pktVec)
          /\ FirstStamped

(* What SortInOrder leaves: no burst is earlier than the front one, and     *)
(* every packetDetail is in the order of its signatures.                    *)
Ordered ==
    phase = "done" => \A i \in 1 .. Len(m_burstVec) :
        /\ ~Earlier(m_burstVec[i].firstPacketStamp, m_burstVec[1].firstPacketStamp)
        /\ \A j, k \in 1 .. Len(m_burstVec[i].packetDetail) :
              j < k => m_burstVec[i].packetDetail[j].sig < m_burstVec[i].packetDetail[k].sig

DInv == RawTypes /\ Divided /\ Regrouped /\ Made /\ Ordered

(* Packets read are packets, with stamps.                                   *)
LEMMA SeenFacts ==
    ASSUME RawTypes
    PROVE  /\ Seen \subseteq Packet /\ Seen \subseteq Packets /\ pktVec \in Seq(Seen)
           /\ Longs \in Seq(Seen) /\ Rest \in Seq(Seen)
           /\ pktVec = <<>> => Rest = <<>> /\ rawBurst = <<>>
  <1>1. PICK n \in Nat : n = Len(pktVec) /\ DOMAIN pktVec = 1 .. n /\ \A i \in 1 .. n : pktVec[i] \in Packets
    BY DEF RawTypes
  <1>2. Seen \subseteq Packets
    BY <1>1 DEF Seen, ToSet
  <1>3. Seen \subseteq Packet
    BY <1>2, PacketsAssumption
  <1>4. pktVec \in Seq(Seen)
    <2>1. \A i \in 1 .. n : pktVec[i] \in Seen
      BY <1>1 DEF Seen, ToSet
    <2>2. pktVec \in Seq(Packets) /\ Len(pktVec) = n
      BY <1>1 DEF RawTypes
    <2>3. pktVec \in [1 .. n -> Seen]
      BY <1>1, <2>1, <2>2
    <2> QED BY <2>3
  <1>5. Longs \in Seq(Seen)
    <2>1. PICK S : S = Seen
      OBVIOUS
    <2>2. m_longburstVec \in Seq(Seq(S)) /\ <<>> \in Seq(S)
      BY <2>1 DEF RawTypes
    <2>3. FlattenSeq(m_longburstVec) \in Seq(S)
      BY <2>2, FlattenAppend
    <2> QED BY <2>1, <2>3 DEF Longs
  <1>6. Rest \in Seq(Seen)
    BY <1>5, ConcatProperties DEF Rest, RawTypes
  <1>7. ASSUME pktVec = <<>> PROVE Rest = <<>> /\ rawBurst = <<>>
    <2>1. Seen = {}
      BY <1>1, <1>7 DEF Seen, ToSet
    <2>2. ASSUME NEW s \in Seq(Seen) PROVE s = <<>>
      BY <2>1
    <2> QED BY <1>6, <2>2 DEF RawTypes
  <1> QED BY <1>2, <1>3, <1>4, <1>5, <1>6, <1>7

(* Nothing read, nothing divided.                                           *)
LEMMA InitDInv == Init => DInv
  <1> SUFFICES ASSUME Init PROVE DInv
    OBVIOUS
  <1>1. /\ pktVec = <<>> /\ rawBurst = <<>> /\ m_shortBurstVec = <<>> /\ m_longburstVec = <<>>
        /\ m_burstVec = <<>> /\ phase = "LongShortSplit"
    BY DEF Init
  <1>2. ASSUME NEW S PROVE <<>> \in Seq(S)
    OBVIOUS
  <1>3. RawTypes
    <2>1. "LongShortSplit" \in Phases
      BY DEF Phases
    <2>2. <<>> \in Seq(Packets) /\ <<>> \in Seq(Seen) /\ <<>> \in Seq(Seq(Seen))
      BY <1>2
    <2> QED BY <1>1, <2>1, <2>2 DEF RawTypes
  <1>4. Rest = <<>>
    BY <1>1, <1>3, SeenFacts
  <1>5. Partition(<<>>, <<>>, <<>>)
    <2>1. ByTime(<<>>)
      BY DEF ByTime
    <2>2. ASSUME NEW sig \in Sig
          PROVE  PacketsWith(sig, <<>>) = Total(Held(sig, <<>>)) + PacketsWith(sig, <<>>)
      <3>1. <<>> \in Seq(Seq({})) /\ Len(<<>>) = 0
        OBVIOUS
      <3>2. Held(sig, <<>>) \in Seq(Nat) /\ Len(Held(sig, <<>>)) = 0
        BY <3>1, HeldFacts
      <3>3. Total(Held(sig, <<>>)) = 0
        BY <3>2, TotalZeros
      <3> QED BY <3>3, PacketsWithNone
    <2> QED BY <2>1, <2>2 DEF Partition
  <1>6. Divided
    BY <1>1, <1>4, <1>5 DEF Divided
  <1>7. Regrouped /\ Ordered
    BY <1>1 DEF Regrouped, Ordered
  <1>8. Made
    BY <1>1, <1>2 DEF Made
  <1> QED BY <1>3, <1>6, <1>7, <1>8 DEF DInv

(* A packet read now is not earlier than any read before.                   *)
LEMMA Latest ==
    ASSUME RawTypes, ByTime(pktVec), NEW x \in Packets, InOrder(pktVec, x)
    PROVE  \A p \in Seen \cup {x} : ~Earlier(x.timestamp, p.timestamp)
  <1> SUFFICES ASSUME NEW p \in Seen \cup {x} PROVE ~Earlier(x.timestamp, p.timestamp)
    OBVIOUS
  <1>1. x \in Packet /\ x.timestamp \in Timespec
    BY PacketsAssumption DEF Packet
  <1>2. CASE p = x
    BY <1>1, <1>2, NotEarlier
  <1>3. CASE p \in Seen
    <2>1. PICK n \in Nat : n = Len(pktVec) /\ DOMAIN pktVec = 1 .. n
      BY DEF RawTypes
    <2>2. PICK i \in 1 .. n : p = pktVec[i]
      BY <1>3, <2>1 DEF Seen, ToSet
    <2>3. n > 0 /\ n \in 1 .. n /\ pktVec # <<>>
      BY <2>1, <2>2
    <2>4. PICK q : q = pktVec[n]
      OBVIOUS
    <2>5. p \in Packet /\ q \in Packet
      BY <2>1, <2>2, <2>3, <2>4, PacketsAssumption DEF RawTypes
    <2>6. p.timestamp \in Timespec /\ q.timestamp \in Timespec
      BY <2>5 DEF Packet
    <2>7. ~Earlier(x.timestamp, q.timestamp)
      BY <2>1, <2>3, <2>4 DEF InOrder, Last
    <2>8. ~Earlier(q.timestamp, p.timestamp)
      <3>1. CASE i = n
        BY <2>2, <2>4, <2>6, <3>1, NotEarlier
      <3>2. CASE i # n
        <4>1. i < n
          BY <2>1, <3>2
        <4> QED BY <2>1, <2>2, <2>3, <2>4, <4>1 DEF ByTime
      <3> QED BY <3>1, <3>2
    <2> QED BY <1>1, <2>6, <2>7, <2>8, NotEarlier
  <1> QED BY <1>2, <1>3

(* One iteration of LongShortSplit.                                         *)
LEMMA SplitStep ==
    ASSUME DInv, NEW x \in Packets, LongShortSplit(x)
    PROVE  DInv'
  <1>1. RawTypes /\ Divided /\ Made /\ phase = "LongShortSplit" /\ phase' = phase
        /\ m_burstVec = <<>> /\ m_burstVec' = <<>>
        /\ pktVec' = Append(pktVec, x) /\ InOrder(pktVec, x)
    BY DEF DInv, LongShortSplit, Made
  <1>2. PICK P : P = Seen \cup {x}
    OBVIOUS
  <1>3. /\ pktVec \in Seq(Packets) /\ pktVec \in Seq(Seen) /\ rawBurst \in Seq(Seen) /\ Longs \in Seq(Seen)
        /\ m_shortBurstVec \in Seq(Seq(Seen)) /\ m_longburstVec \in Seq(Seq(Seen))
        /\ pktVec = <<>> => Rest = <<>> /\ rawBurst = <<>>
    BY <1>1, SeenFacts DEF RawTypes
  <1>4. Seen' = P
    <2>1. PICK n \in Nat : n = Len(pktVec) /\ DOMAIN pktVec = 1 .. n
      BY <1>3
    <2>2. PICK w : w = Append(pktVec, x)
      OBVIOUS
    <2>3. DOMAIN w = 1 .. n + 1 /\ w[n + 1] = x /\ \A i \in 1 .. n : w[i] = pktVec[i]
      BY <1>3, <2>1, <2>2
    <2>4. {w[i] : i \in 1 .. n + 1} = {pktVec[i] : i \in 1 .. n} \cup {x}
      <3>1. ASSUME NEW i \in 1 .. n + 1 PROVE w[i] \in {pktVec[j] : j \in 1 .. n} \cup {x}
        <4>1. CASE i = n + 1
          BY <2>3, <4>1
        <4>2. CASE i # n + 1
          <5>1. i \in 1 .. n
            BY <4>2
          <5> QED BY <2>3, <5>1
        <4> QED BY <4>1, <4>2
      <3>2. ASSUME NEW i \in 1 .. n PROVE pktVec[i] \in {w[j] : j \in 1 .. n + 1}
        <4>1. i \in 1 .. n + 1 /\ w[i] = pktVec[i]
          BY <2>3
        <4> QED BY <4>1
      <3>3. n + 1 \in 1 .. n + 1
        OBVIOUS
      <3>4. x \in {w[j] : j \in 1 .. n + 1}
        BY <2>3, <3>3
      <3> QED BY <3>1, <3>2, <3>4
    <2> QED BY <1>1, <1>2, <2>1, <2>2, <2>3, <2>4 DEF Seen, ToSet
  <1>5. Seen \subseteq P /\ x \in P
    BY <1>2
  <1>6. /\ pktVec \in Seq(P) /\ rawBurst \in Seq(P) /\ Longs \in Seq(P)
        /\ m_shortBurstVec \in Seq(Seq(P)) /\ m_longburstVec \in Seq(Seq(P))
    <2>1. Seq(Seen) \subseteq Seq(P)
      BY <1>5
    <2>2. Seq(Seq(Seen)) \subseteq Seq(Seq(P))
      BY <2>1
    <2> QED BY <1>3, <2>1, <2>2
  <1>7. Partition(pktVec, m_shortBurstVec, Rest) /\ Rest = Longs \o rawBurst /\ Rest \in Seq(P)
    BY <1>1, <1>6, ConcatProperties DEF Divided, Rest
  <1>8. \A p \in P : ~Earlier(x.timestamp, p.timestamp)
    BY <1>1, <1>2, <1>7, Latest DEF Partition
  <1>9. <<x>> \in Seq(P) /\ <<x>> # <<>>
    BY <1>5
  <1>10. /\ rawBurst' \in Seq(P) /\ rawBurst' # <<>>
         /\ m_shortBurstVec' \in Seq(Seq(P)) /\ m_longburstVec' \in Seq(Seq(P))
         /\ Partition(Append(pktVec, x), m_shortBurstVec', Longs' \o rawBurst')
    <2>1. CASE Silence(x) /\ m_shortBurstVec' = Append(m_shortBurstVec, rawBurst)
               /\ rawBurst' = <<x>> /\ UNCHANGED m_longburstVec
      <3>1. rawBurst # <<>> /\ pktVec # <<>>
        BY <1>3, <2>1 DEF Silence
      <3>2. Longs' = Longs
        BY <2>1 DEF Longs
      <3>3. PICK raws \in Seq(Seq(P)) : raws = Append(m_shortBurstVec, rawBurst)
        <4>1. Append(m_shortBurstVec, rawBurst) \in Seq(Seq(P))
          BY <1>6
        <4> QED BY <4>1
      <3>4. Partition(pktVec, raws, Longs)
        BY <1>6, <1>7, <3>1, <3>3, PartitionCut
      <3>5. Partition(Append(pktVec, x), raws, Append(Longs, x))
        BY <1>5, <1>6, <1>8, <3>1, <3>4, PartitionTake
      <3>6. Longs \o <<x>> = Append(Longs, x)
        BY <1>5, <1>6, JoinOneMore
      <3> QED BY <1>6, <1>9, <2>1, <3>2, <3>3, <3>5, <3>6
    <2>2. Partition(Append(pktVec, x), m_shortBurstVec, Append(Rest, x))
      BY <1>3, <1>5, <1>6, <1>7, <1>8, PartitionTake
    <2>3. CASE m_longburstVec' = Append(m_longburstVec, rawBurst) /\ rawBurst' = <<x>>
               /\ UNCHANGED m_shortBurstVec
      <3>1. Append(m_longburstVec, rawBurst) \in Seq(Seq(P))
        BY <1>6
      <3>2. Longs' = Longs \o rawBurst
        <4>1. FlattenSeq(Append(m_longburstVec, rawBurst)) = FlattenSeq(m_longburstVec) \o rawBurst
          BY <1>6, FlattenAppend
        <4> QED BY <2>3, <4>1 DEF Longs
      <3>3. Rest \o <<x>> = Append(Rest, x)
        BY <1>5, <1>7, JoinOneMore
      <3> QED BY <1>6, <1>7, <1>9, <2>2, <2>3, <3>1, <3>2, <3>3
    <2>4. CASE rawBurst' = Append(rawBurst, x) /\ UNCHANGED <<m_shortBurstVec, m_longburstVec>>
      <3>1. Longs' = Longs
        BY <2>4 DEF Longs
      <3>2. Longs \o Append(rawBurst, x) = Append(Longs \o rawBurst, x)
        BY <1>5, <1>6, JoinOneMore
      <3>3. Append(rawBurst, x) \in Seq(P) /\ Append(rawBurst, x) # <<>>
        <4>1. Append(rawBurst, x) \in Seq(P) /\ Len(Append(rawBurst, x)) = Len(rawBurst) + 1 /\ Len(rawBurst) \in Nat
          BY <1>5, <1>6
        <4>2. Len(<<>>) = 0
          OBVIOUS
        <4> QED BY <4>1, <4>2
      <3> QED BY <1>6, <1>7, <2>2, <2>4, <3>1, <3>2, <3>3
    <2> QED BY <2>1, <2>3, <2>4 DEF LongShortSplit
  <1>11. RawTypes'
    <2>1. pktVec' \in Seq(Packets)
      BY <1>1, <1>3
    <2>2. (phase \in Phases)'
      BY <1>1 DEF RawTypes
    <2> QED BY <1>4, <1>10, <2>1, <2>2 DEF RawTypes
  <1>12. Divided'
    BY <1>1, <1>10 DEF Divided, Rest
  <1>13. Made'
    <2>1. <<>> \in Seq(BurstsOn(P))
      OBVIOUS
    <2> QED BY <1>1, <1>4, <2>1 DEF Made
  <1>14. Regrouped' /\ Ordered'
    BY <1>1 DEF Regrouped, Ordered
  <1> QED BY <1>11, <1>12, <1>13, <1>14 DEF DInv

(* The end of LongShortSplit: the rest becomes the last short raw burst.    *)
LEMMA EndSplitStep ==
    ASSUME DInv, EndLongShortSplit
    PROVE  DInv'
  <1>1. /\ RawTypes /\ Divided /\ Made /\ phase = "LongShortSplit" /\ phase' = "SeparateBy5Tuple"
        /\ pktVec # <<>> /\ pktVec' = pktVec /\ m_longburstVec' = m_longburstVec
        /\ m_burstVec = <<>> /\ m_burstVec' = <<>> /\ rawBurst' = <<>>
        /\ m_shortBurstVec' = Append(m_shortBurstVec, rawBurst)
    BY DEF DInv, EndLongShortSplit, Made
  <1>2. PICK P : P = Seen
    OBVIOUS
  <1>3. /\ pktVec \in Seq(Packets) /\ pktVec \in Seq(P) /\ rawBurst \in Seq(P) /\ Longs \in Seq(P)
        /\ m_shortBurstVec \in Seq(Seq(P)) /\ m_longburstVec \in Seq(Seq(P))
    BY <1>1, <1>2, SeenFacts DEF RawTypes
  <1>4. Seen' = P /\ Longs' = Longs
    BY <1>1, <1>2 DEF Seen, Longs
  <1>5. rawBurst # <<>> /\ Partition(pktVec, m_shortBurstVec, Longs \o rawBurst)
    BY <1>1 DEF Divided, Rest
  <1>6. Partition(pktVec, Append(m_shortBurstVec, rawBurst), Longs)
    BY <1>3, <1>5, PartitionCut
  <1>7. Rest' = Longs
    <2>1. Longs \o <<>> = Longs
      BY <1>3
    <2> QED BY <1>1, <1>4, <2>1 DEF Rest
  <1>8. RawTypes'
    <2>1. Append(m_shortBurstVec, rawBurst) \in Seq(Seq(P)) /\ <<>> \in Seq(P)
      BY <1>3
    <2>2. (phase \in Phases)'
      BY <1>1 DEF Phases
    <2> QED BY <1>1, <1>3, <1>4, <2>1, <2>2 DEF RawTypes
  <1>9. Divided'
    BY <1>1, <1>6, <1>7 DEF Divided
  <1>10. Made'
    <2>1. <<>> \in Seq(BurstsOn(P))
      OBVIOUS
    <2> QED BY <1>1, <1>4, <2>1 DEF Made
  <1>11. Regrouped' /\ Ordered'
    BY <1>1 DEF Regrouped, Ordered
  <1> QED BY <1>8, <1>9, <1>10, <1>11 DEF DInv

(* The methods that follow leave the packets and the raw bursts alone.      *)
LEMMA Later ==
    ASSUME DInv, phase # "LongShortSplit",
           UNCHANGED <<pktVec, rawBurst, m_shortBurstVec, m_longburstVec>>,
           phase' \in Phases \ {"LongShortSplit"}
    PROVE  /\ RawTypes' /\ Divided' /\ Seen' = Seen /\ Longs' = Longs
           /\ Starts(pktVec, m_shortBurstVec)' = Starts(pktVec, m_shortBurstVec)
           /\ rawBurst = <<>> /\ pktVec # <<>> /\ Rest = Longs
           /\ Seen \subseteq Packet /\ pktVec \in Seq(Seen) /\ Longs \in Seq(Seen)
           /\ Partition(pktVec, m_shortBurstVec, Longs)
  <1>1. RawTypes /\ Divided
    BY DEF DInv
  <1>2. Seen' = Seen /\ Longs' = Longs /\ Rest' = Rest
    BY DEF Seen, Longs, Rest
  <1>3. rawBurst = <<>> /\ pktVec # <<>>
    BY <1>1 DEF Divided
  <1>4. Seen \subseteq Packet /\ pktVec \in Seq(Seen) /\ Longs \in Seq(Seen)
    BY <1>1, SeenFacts
  <1>5. Rest = Longs
    <2>1. Longs \o <<>> = Longs
      BY <1>4
    <2> QED BY <1>3, <2>1 DEF Rest
  <1>6. Partition(pktVec, m_shortBurstVec, Longs)
    BY <1>1, <1>5 DEF Divided
  <1>7. RawTypes'
    <2>1. (phase \in Phases)'
      OBVIOUS
    <2> QED BY <1>1, <1>2, <2>1 DEF RawTypes
  <1>8. Divided'
    BY <1>1, <1>2, <1>3 DEF Divided
  <1>9. Starts(pktVec, m_shortBurstVec)' = Starts(pktVec, m_shortBurstVec)
    BY DEF Starts
  <1> QED BY <1>2, <1>3, <1>4, <1>5, <1>6, <1>7, <1>8, <1>9

(* The regrouping.                                                          *)
LEMMA SeparateStep ==
    ASSUME DInv, SeparateBy5Tuple
    PROVE  DInv'
  <1>1. /\ phase = "SeparateBy5Tuple" /\ phase' = "MakeNormalBurstVec"
        /\ UNCHANGED <<pktVec, rawBurst, m_shortBurstVec, m_longburstVec, m_burstVec>>
        /\ m_flowMap' = [hash \in {p.hash5tuple : p \in ToSet(Longs)} |-> Selected(Longs, hash)]
    BY DEF SeparateBy5Tuple, Longs
  <1>2. RawTypes' /\ Divided' /\ Seen' = Seen /\ Longs' = Longs
    <2>1. phase' \in Phases \ {"LongShortSplit"}
      BY <1>1 DEF Phases
    <2> QED BY <1>1, <2>1, Later
  <1>3. Regrouped'
    BY <1>1, <1>2 DEF Regrouped
  <1>4. Made'
    BY <1>1, <1>2 DEF DInv, Made
  <1>5. Ordered'
    BY <1>1 DEF Ordered
  <1> QED BY <1>2, <1>3, <1>4, <1>5 DEF DInv

(* The bursts of the short raw bursts.                                      *)
LEMMA NormalStep ==
    ASSUME DInv, MakeNormalBurstVec
    PROVE  DInv'
  <1>1. /\ phase = "MakeNormalBurstVec" /\ phase' = "MakeLongBurstVec"
        /\ UNCHANGED <<pktVec, rawBurst, m_shortBurstVec, m_longburstVec, m_flowMap>>
    BY DEF MakeNormalBurstVec
  <1>2. /\ RawTypes' /\ Divided' /\ Seen' = Seen /\ Longs' = Longs
        /\ Seen \subseteq Packet
        /\ Partition(pktVec, m_shortBurstVec, Longs)
    <2>1. phase' \in Phases \ {"LongShortSplit"}
      BY <1>1 DEF Phases
    <2> QED BY <1>1, <2>1, Later
  <1>3. PICK P : P = Seen
    OBVIOUS
  <1>4. m_shortBurstVec \in Seq(Seq(P)) /\ P \subseteq Packet
    BY <1>2, <1>3 DEF DInv, RawTypes
  <1>5. PICK all : all = BurstsFrom(m_shortBurstVec)
    OBVIOUS
  <1>6. /\ all \in Seq(BurstsOn(P))
        /\ \A sig \in Sig : Tally(sig, all) = Total(Held(sig, m_shortBurstVec))
        /\ \A i \in 1 .. Len(m_shortBurstVec) : \E j \in 1 .. Len(all) :
              all[j].firstPacketStamp = m_shortBurstVec[i][1].timestamp
    <2>1. \A i \in 1 .. Len(m_shortBurstVec) : m_shortBurstVec[i] # <<>>
      BY <1>2 DEF Partition
    <2>2. PICK raws \in Seq(Seq(P)) : raws = m_shortBurstVec
      BY <1>4
    <2>3. raws \in Seq(Seq(P)) /\ (\A i \in 1 .. Len(raws) : raws[i] # <<>>) /\ all = BurstsFrom(raws)
      BY <1>5, <2>1, <2>2
    <2>4. P \subseteq Packet
      BY <1>4
    <2>5. /\ BurstsFrom(raws) \in Seq(BurstsOn(P))
          /\ \A sig \in Sig : Tally(sig, BurstsFrom(raws)) = Total(Held(sig, raws))
          /\ \A i \in 1 .. Len(raws) : \E j \in 1 .. Len(BurstsFrom(raws)) :
                BurstsFrom(raws)[j].firstPacketStamp = raws[i][1].timestamp
      BY <2>3, <2>4, DivideAll
    <2> QED BY <2>2, <2>3, <2>5
  <1>7. m_burstVec' = all
    <2>1. m_burstVec = <<>>
      BY <1>1 DEF DInv, Made
    <2>2. m_burstVec' = <<>> \o all
      BY <1>5, <2>1 DEF MakeNormalBurstVec, BurstsFrom
    <2> QED BY <1>6, <2>2, EmptyJoin
  <1>8. ASSUME Starts(pktVec, m_shortBurstVec) PROVE FirstStamped'
    <2>1. PICK i \in 1 .. Len(m_shortBurstVec) : m_shortBurstVec[i][1] = pktVec[1]
      BY <1>8 DEF Starts
    <2>2. PICK j \in 1 .. Len(all) : all[j].firstPacketStamp = pktVec[1].timestamp
      BY <1>6, <2>1
    <2> QED BY <1>1, <1>7, <2>2 DEF FirstStamped
  <1>9. Made'
    <2>1. (m_burstVec \in Seq(BurstsOn(Seen)))'
      BY <1>2, <1>3, <1>6, <1>7
    <2>2. \A sig \in Sig : Tally(sig, m_burstVec)' = Total(Held(sig, m_shortBurstVec))'
      BY <1>1, <1>6, <1>7
    <2>3. Starts(pktVec, m_shortBurstVec)' => FirstStamped'
      BY <1>1, <1>8
    <2> QED BY <1>1, <2>1, <2>2, <2>3 DEF Made
  <1>10. Regrouped'
    BY <1>1, <1>2 DEF DInv, Regrouped
  <1>11. Ordered'
    BY <1>1 DEF Ordered
  <1> QED BY <1>2, <1>9, <1>10, <1>11 DEF DInv

(* The bursts of the flows, in whatever order the map lists its keys.       *)
LEMMA LongStep ==
    ASSUME DInv, MakeLongBurstVec
    PROVE  DInv'
  <1>1. /\ phase = "MakeLongBurstVec" /\ phase' = "SortInOrder"
        /\ UNCHANGED <<pktVec, rawBurst, m_shortBurstVec, m_longburstVec, m_flowMap>>
    BY DEF MakeLongBurstVec
  <1>2. PICK hs \in SetToSeqs(DOMAIN m_flowMap) :
            m_burstVec' = m_burstVec \o FlattenSeq([i \in DOMAIN hs |-> StrictToBursts(m_flowMap[hs[i]])])
    BY DEF MakeLongBurstVec
  <1>3. /\ RawTypes' /\ Divided' /\ Seen' = Seen /\ Longs' = Longs /\ pktVec # <<>>
        /\ Seen \subseteq Packet /\ pktVec \in Seq(Seen) /\ Longs \in Seq(Seen)
        /\ Partition(pktVec, m_shortBurstVec, Longs)
    <2>1. phase' \in Phases \ {"LongShortSplit"}
      BY <1>1 DEF Phases
    <2> QED BY <1>1, <2>1, Later
  <1>4. PICK P : P = Seen
    OBVIOUS
  <1>5. PICK S : S = Hashes(Longs)
    OBVIOUS
  <1>6. m_flowMap = [hash \in S |-> Selected(Longs, hash)] /\ hs \in SetToSeqs(S)
    BY <1>1, <1>2, <1>5 DEF DInv, Regrouped, Hashes
  <1>7. PICK raws : raws = FlowsBy(Longs, hs)
    OBVIOUS
  <1>8. ByTime(Longs) /\ Longs \in Seq(P)
    BY <1>3, <1>4 DEF Partition
  <1>9. /\ raws \in Seq(Seq(P)) /\ \A i \in 1 .. Len(raws) : raws[i] # <<>>
        /\ \A sig : Total(Held(sig, raws)) = PacketsWith(sig, Longs)
        /\ Longs # <<>> => \E i \in 1 .. Len(raws) : raws[i][1] = Longs[1]
    <2>1. PICK L \in Seq(P) : L = Longs
      BY <1>8
    <2>2. ByTime(L) /\ S = Hashes(L) /\ raws = FlowsBy(L, hs)
      BY <1>5, <1>7, <1>8, <2>1
    <2>3. hs \in SetToSeqs(S)
      BY <1>6
    <2>4. /\ raws \in Seq(Seq(P)) /\ \A i \in 1 .. Len(raws) : raws[i] # <<>>
          /\ \A sig : Total(Held(sig, raws)) = PacketsWith(sig, L)
          /\ L # <<>> => \E i \in 1 .. Len(raws) : raws[i][1] = L[1]
      BY ONLY <2>1, <2>2, <2>3, FlowRaws
    <2> QED BY <2>1, <2>4
  <1>10. PICK all : all = BurstsFrom(raws)
    OBVIOUS
  <1>11. m_burstVec' = m_burstVec \o all
    <2>1. PICK m \in Nat : hs \in [1 .. m -> S] /\ DOMAIN hs = 1 .. m
      BY <1>5, <1>6, <1>8, HashesListed DEF Hashes
    <2>2. \A i \in DOMAIN hs : m_flowMap[hs[i]] = raws[i]
      BY <1>6, <1>7, <2>1 DEF FlowsBy
    <2>3. DOMAIN raws = DOMAIN hs
      BY <1>7 DEF FlowsBy
    <2>4. [i \in DOMAIN hs |-> StrictToBursts(m_flowMap[hs[i]])]
             = [i \in DOMAIN raws |-> StrictToBursts(raws[i])]
      BY <2>2, <2>3
    <2> QED BY <1>2, <1>10, <2>4 DEF BurstsFrom
  <1>12. /\ all \in Seq(BurstsOn(P))
         /\ \A sig \in Sig : Tally(sig, all) = PacketsWith(sig, Longs)
         /\ \A i \in 1 .. Len(raws) : \E j \in 1 .. Len(all) :
              all[j].firstPacketStamp = raws[i][1].timestamp
    <2>1. P \subseteq Packet
      BY <1>3, <1>4
    <2>2. /\ BurstsFrom(raws) \in Seq(BurstsOn(P))
          /\ \A sig \in Sig : Tally(sig, BurstsFrom(raws)) = Total(Held(sig, raws))
          /\ \A i \in 1 .. Len(raws) : \E j \in 1 .. Len(BurstsFrom(raws)) :
                BurstsFrom(raws)[j].firstPacketStamp = raws[i][1].timestamp
      BY <1>9, <2>1, DivideAll
    <2> QED BY <1>9, <1>10, <2>2
  <1>13. /\ m_burstVec \in Seq(BurstsOn(P))
         /\ \A sig \in Sig : Tally(sig, m_burstVec) = Total(Held(sig, m_shortBurstVec))
         /\ Starts(pktVec, m_shortBurstVec) => FirstStamped
    BY <1>1, <1>4 DEF DInv, Made
  <1>14. PICK n \in Nat, m \in Nat : n = Len(m_burstVec) /\ m = Len(all)
    BY <1>12, <1>13
  <1>15. PICK w \in Seq(BurstsOn(P)) : w = m_burstVec \o all /\ Len(w) = n + m
                /\ \A k \in 1 .. n + m : w[k] = IF k <= n THEN m_burstVec[k] ELSE all[k - n]
    <2>1. m_burstVec \o all \in Seq(BurstsOn(P))
      BY <1>12, <1>13, ConcatProperties
    <2>2. /\ Len(m_burstVec \o all) = n + m
          /\ \A k \in 1 .. n + m :
                (m_burstVec \o all)[k] = IF k <= n THEN m_burstVec[k] ELSE all[k - n]
      BY <1>12, <1>13, <1>14, ConcatProperties
    <2> QED BY <2>1, <2>2
  <1>16. ASSUME NEW sig \in Sig PROVE Tally(sig, w) = PacketsWith(sig, pktVec)
    <2>1. m_burstVec \in Seq(BurstType) /\ all \in Seq(BurstType)
      BY <1>12, <1>13, BurstsOnType
    <2>2. Tally(sig, w) = Tally(sig, m_burstVec) + Tally(sig, all)
      BY <1>15, <2>1, TallyJoin
    <2>3. PacketsWith(sig, pktVec) = Total(Held(sig, m_shortBurstVec)) + PacketsWith(sig, Longs)
      BY <1>3 DEF Partition
    <2> QED BY <1>12, <1>13, <2>2, <2>3
  <1>17. \E k \in 1 .. n + m : w[k].firstPacketStamp = pktVec[1].timestamp
    <2>1. CASE Starts(pktVec, m_shortBurstVec)
      <3>1. PICK k \in 1 .. n : m_burstVec[k].firstPacketStamp = pktVec[1].timestamp
        BY <1>13, <1>14, <2>1 DEF FirstStamped
      <3>2. k \in 1 .. n + m /\ w[k] = m_burstVec[k]
        BY <1>15, <3>1
      <3> QED BY <3>1, <3>2
    <2>2. CASE Longs # <<>> /\ Longs[1] = pktVec[1]
      <3>1. PICK i \in 1 .. Len(raws) : raws[i][1] = pktVec[1]
        BY <1>9, <2>2
      <3>2. PICK j \in 1 .. m : all[j].firstPacketStamp = pktVec[1].timestamp
        BY <1>12, <1>14, <3>1
      <3>3. PICK k \in Nat : k = n + j
        OBVIOUS
      <3>4. k \in 1 .. n + m /\ ~(k <= n) /\ k - n = j
        BY <3>3
      <3>5. w[k] = all[j]
        BY <1>15, <3>4
      <3> QED BY <3>2, <3>4, <3>5
    <2> QED BY <1>3, <2>1, <2>2 DEF Partition
  <1>18. Made'
    <2>1. m_burstVec' = w /\ pktVec' = pktVec
      BY <1>1, <1>11, <1>15
    <2>2. (m_burstVec \in Seq(BurstsOn(Seen)))'
      BY <1>3, <1>4, <2>1
    <2>3. \A sig \in Sig : Tally(sig, m_burstVec)' = PacketsWith(sig, pktVec)'
      BY <1>16, <2>1
    <2>4. FirstStamped'
      BY <1>15, <1>17, <2>1 DEF FirstStamped
    <2> QED BY <1>1, <2>2, <2>3, <2>4 DEF Made
  <1>19. Regrouped' /\ Ordered'
    BY <1>1 DEF Regrouped, Ordered
  <1> QED BY <1>3, <1>18, <1>19 DEF DInv

(* The sort.                                                                *)
LEMMA SortStep ==
    ASSUME DInv, SortInOrder
    PROVE  DInv'
  <1>1. /\ phase = "SortInOrder" /\ phase' = "done"
        /\ UNCHANGED <<pktVec, rawBurst, m_shortBurstVec, m_longburstVec, m_flowMap>>
    BY DEF SortInOrder
  <1>2. PICK vec \in Sorted(m_burstVec) : m_burstVec' = [i \in DOMAIN vec |-> SortDetail(vec[i])]
    BY DEF SortInOrder
  <1>3. RawTypes' /\ Divided' /\ Seen' = Seen
    <2>1. phase' \in Phases \ {"LongShortSplit"}
      BY <1>1 DEF Phases
    <2> QED BY <1>1, <2>1, Later
  <1>4. PICK P : P = Seen
    OBVIOUS
  <1>5. /\ m_burstVec \in Seq(BurstsOn(P)) /\ FirstStamped
        /\ \A sig \in Sig : Tally(sig, m_burstVec) = PacketsWith(sig, pktVec)
    BY <1>1, <1>4 DEF DInv, Made
  <1>6. PICK n \in Nat : n = Len(m_burstVec)
    BY <1>5
  <1>7. /\ vec \in Seq(BurstsOn(P)) /\ Len(vec) = n
        /\ \A sig : Tally(sig, vec) = Tally(sig, m_burstVec)
        /\ \A j \in 1 .. n : \E i \in 1 .. n : vec[i] = m_burstVec[j]
        /\ \A i \in 2 .. n : ~Earlier(vec[i].firstPacketStamp, vec[1].firstPacketStamp)
    <2>1. BurstsOn(P) \subseteq BurstType
      BY BurstsOnType
    <2>2. PICK S : S = BurstsOn(P)
      OBVIOUS
    <2>3. /\ vec \in Seq(S) /\ Len(vec) = Len(m_burstVec)
          /\ \A sig : Tally(sig, vec) = Tally(sig, m_burstVec)
          /\ \A j \in 1 .. Len(m_burstVec) : \E i \in 1 .. Len(vec) : vec[i] = m_burstVec[j]
          /\ \A i \in 2 .. Len(vec) : ~Earlier(vec[i].firstPacketStamp, vec[1].firstPacketStamp)
      BY <1>5, <2>1, <2>2, SortedFacts
    <2> QED BY <1>6, <2>2, <2>3
  <1>8. PICK w : w = [i \in 1 .. n |-> SortDetail(vec[i])]
    OBVIOUS
  <1>9. m_burstVec' = w
    BY <1>2, <1>7, <1>8
  <1>10. ASSUME NEW i \in 1 .. n
         PROVE  /\ w[i] \in BurstsOn(P) /\ vec[i] \in BurstsOn(P)
                /\ w[i].firstPacketStamp = vec[i].firstPacketStamp
                /\ \A sig : CountOf(sig, w[i]) = CountOf(sig, vec[i])
                /\ \A j, k \in 1 .. Len(w[i].packetDetail) :
                      j < k => w[i].packetDetail[j].sig < w[i].packetDetail[k].sig
    <2>1. vec[i] \in BurstsOn(P)
      BY <1>7
    <2> QED BY <1>8, <2>1, SortDetailFacts
  <1>11. w \in Seq(BurstsOn(P)) /\ Len(w) = n
    BY <1>8, <1>10
  <1>12. ASSUME NEW sig \in Sig PROVE Tally(sig, w) = PacketsWith(sig, pktVec)
    <2>0. Len(vec) = n /\ Len(w) = n
      BY <1>7, <1>11
    <2>1. vec \in Seq(BurstType) /\ w \in Seq(BurstType)
      BY <1>7, <1>11, BurstsOnType
    <2>2. PICK a \in Seq(Nat) : /\ Len(a) = n /\ Tally(sig, vec) = Total(a)
                                /\ \A i \in 1 .. n : a[i] = CountOf(sig, vec[i])
      BY <2>0, <2>1, TallyFacts
    <2>3. PICK b \in Seq(Nat) : /\ Len(b) = n /\ Tally(sig, w) = Total(b)
                                /\ \A i \in 1 .. n : b[i] = CountOf(sig, w[i])
      BY <2>0, <2>1, TallyFacts
    <2>4. a = b
      <3>1. \A i \in 1 .. n : a[i] = b[i]
        BY <1>10, <2>2, <2>3
      <3> QED BY <2>2, <2>3, <3>1, SeqEqual
    <2> QED BY <1>5, <1>7, <2>2, <2>3, <2>4
  <1>13. \E i \in 1 .. n : w[i].firstPacketStamp = pktVec[1].timestamp
    <2>1. PICK j \in 1 .. n : m_burstVec[j].firstPacketStamp = pktVec[1].timestamp
      BY <1>5, <1>6 DEF FirstStamped
    <2>2. PICK i \in 1 .. n : vec[i] = m_burstVec[j]
      BY <1>7
    <2> QED BY <1>10, <2>1, <2>2
  <1>14. ASSUME NEW i \in 1 .. n
         PROVE  ~Earlier(w[i].firstPacketStamp, w[1].firstPacketStamp)
    <2>1. 1 \in 1 .. n
      OBVIOUS
    <2>2. w[i].firstPacketStamp = vec[i].firstPacketStamp /\ w[1].firstPacketStamp = vec[1].firstPacketStamp
      BY <1>10, <2>1
    <2>3. CASE i = 1
      <3>1. vec[1].firstPacketStamp \in Timespec
        <4>1. vec[1] \in BurstType
          BY <1>10, <2>1, BurstsOnType
        <4> QED BY <4>1, BurstFields
      <3> QED BY <2>2, <2>3, <3>1, NotEarlier
    <2>4. CASE i # 1
      <3>1. i \in 2 .. n
        BY <2>4
      <3> QED BY <1>7, <2>2, <3>1
    <2> QED BY <2>3, <2>4
  <1>15. Made'
    <2>1. (m_burstVec \in Seq(BurstsOn(Seen)))'
      BY <1>3, <1>4, <1>9, <1>11
    <2>2. \A sig \in Sig : Tally(sig, m_burstVec)' = PacketsWith(sig, pktVec)'
      BY <1>1, <1>9, <1>12
    <2>3. FirstStamped'
      BY <1>1, <1>9, <1>11, <1>13 DEF FirstStamped
    <2> QED BY <1>1, <2>1, <2>2, <2>3 DEF Made
  <1>16. Ordered'
    BY <1>9, <1>10, <1>11, <1>14 DEF Ordered
  <1>17. Regrouped'
    BY <1>1 DEF Regrouped
  <1> QED BY <1>3, <1>15, <1>16, <1>17 DEF DInv

(* Nothing changes when the constructor has returned.                       *)
LEMMA StayStep ==
    ASSUME DInv, UNCHANGED vars
    PROVE  DInv'
BY DEF DInv, vars, RawTypes, Divided, Partition, Regrouped, Made, Ordered, FirstStamped, Starts,
       Seen, Longs, Rest

(* DInv is inductive.                                                       *)
THEOREM DivisionInductive == Spec => []DInv
  <1>1. Init => DInv
    BY InitDInv
  <1>2. DInv /\ [Next]_vars => DInv'
    <2> SUFFICES ASSUME DInv, [Next]_vars PROVE DInv'
      OBVIOUS
    <2>1. CASE \E packet \in Packets : LongShortSplit(packet)
      BY <2>1, SplitStep
    <2>2. CASE EndLongShortSplit
      BY <2>2, EndSplitStep
    <2>3. CASE SeparateBy5Tuple
      BY <2>3, SeparateStep
    <2>4. CASE MakeNormalBurstVec
      BY <2>4, NormalStep
    <2>5. CASE MakeLongBurstVec
      BY <2>5, LongStep
    <2>6. CASE SortInOrder
      BY <2>6, SortStep
    <2>7. CASE Terminating
      BY <2>7, StayStep DEF Terminating
    <2>8. CASE UNCHANGED vars
      BY <2>8, StayStep
    <2> QED BY <2>1, <2>2, <2>3, <2>4, <2>5, <2>6, <2>7, <2>8 DEF Next
  <1> QED BY <1>1, <1>2, PTL DEF Spec

-----------------------------------------------------------------------------
(* The properties *)

(* The invariant implies each of the four properties.                      *)
LEMMA DInvConserved == DInv => Conserved
BY DEF DInv, Made, Conserved

(* ... the vectors given to StrictToBursts are sorted ...                  *)
LEMMA DInvStrictInputs == DInv => StrictInputs
  <1> SUFFICES ASSUME DInv, phase \in {"MakeNormalBurstVec", "MakeLongBurstVec"},
                      NEW raw \in ToSet(m_shortBurstVec) \cup Range(m_flowMap)
               PROVE  /\ raw # <<>>
                      /\ \A i \in 1 .. Len(raw) - 1 : ~Earlier(raw[i + 1].timestamp, raw[i].timestamp)
    BY DEF StrictInputs
  <1>1. PICK P : P = Seen
    OBVIOUS
  <1>2. m_shortBurstVec \in Seq(Seq(P)) /\ Longs \in Seq(P)
    BY <1>1, SeenFacts DEF DInv, RawTypes
  <1>3. Partition(pktVec, m_shortBurstVec, Rest) /\ rawBurst = <<>>
    BY DEF DInv, Divided
  <1>4. ByTime(Longs)
    <2>1. Longs \o <<>> = Longs
      BY <1>2
    <2> QED BY <1>3, <2>1 DEF Partition, Rest
  <1>5. raw \in Seq(P) /\ raw # <<>> /\ ByTime(raw)
    <2>1. CASE raw \in ToSet(m_shortBurstVec)
      <3>1. PICK i \in 1 .. Len(m_shortBurstVec) : raw = m_shortBurstVec[i]
        BY <1>2, <2>1 DEF ToSet
      <3>2. raw \in Seq(P)
        BY <1>2, <3>1
      <3> QED BY <1>3, <3>1, <3>2 DEF Partition
    <2>2. CASE raw \in Range(m_flowMap)
      <3>1. m_flowMap = [hash \in {p.hash5tuple : p \in ToSet(Longs)} |-> Selected(Longs, hash)]
        BY DEF DInv, Regrouped
      <3>2. PICK p \in ToSet(Longs) : raw = Selected(Longs, p.hash5tuple)
        BY <2>2, <3>1 DEF Range
      <3>3. \E k \in 1 .. Len(Longs) : Longs[k].hash5tuple = p.hash5tuple
        BY <1>2, <3>2 DEF ToSet
      <3>4. raw \in Seq(P) /\ SelectedOf(raw, Longs, Len(Longs), p.hash5tuple)
        BY <1>2, <1>4, <3>2, SelectedFacts
      <3> QED BY <3>3, <3>4 DEF SelectedOf
    <2> QED BY <2>1, <2>2
  <1>6. ASSUME NEW i \in 1 .. Len(raw) - 1
        PROVE  ~Earlier(raw[i + 1].timestamp, raw[i].timestamp)
    <2>1. Len(raw) \in Nat
      BY <1>5
    <2>2. i \in 1 .. Len(raw) /\ i + 1 \in 1 .. Len(raw) /\ i < i + 1
      BY <2>1
    <2> QED BY <1>5, <2>2 DEF ByTime
  <1> QED BY <1>5, <1>6

(* ... the finished bursts can be trained on ...                           *)
LEMMA DInvTrainable == DInv => Trainable
  <1> SUFFICES ASSUME DInv, phase = "done", NEW b \in ToSet(m_burstVec)
               PROVE  /\ Validate(b) = "OK"
                      /\ b.pktNum >= 1
                      /\ \A j \in 1 .. Len(b.packetDetail) - 1 :
                            b.packetDetail[j].sig < b.packetDetail[j + 1].sig
    BY DEF Trainable
  <1>1. m_burstVec \in Seq(BurstsOn(Seen))
    BY DEF DInv, Made
  <1>2. PICK i \in 1 .. Len(m_burstVec) : b = m_burstVec[i]
    BY <1>1 DEF ToSet
  <1>3. b \in BurstsOn(Seen)
    BY <1>1, <1>2
  <1>4. Sound(b) /\ b.pktNum >= 1 /\ b \in BurstType
    BY <1>3 DEF BurstsOn
  <1>5. \A j, k \in 1 .. Len(b.packetDetail) :
            j < k => b.packetDetail[j].sig < b.packetDetail[k].sig
    BY <1>2 DEF DInv, Ordered
  <1>6. ASSUME NEW j \in 1 .. Len(b.packetDetail) - 1
        PROVE  b.packetDetail[j].sig < b.packetDetail[j + 1].sig
    <2>1. Len(b.packetDetail) \in Nat
      BY <1>4, BurstFields
    <2>2. j \in 1 .. Len(b.packetDetail) /\ j + 1 \in 1 .. Len(b.packetDetail) /\ j < j + 1
      BY <2>1
    <2> QED BY <1>5, <2>2
  <1> QED BY <1>4, <1>6, SoundValidates

(* ... and the earliest stamp is in front: the first packet of the slot is *)
(* the earliest, and its stamp is on one of the bursts.                    *)
LEMMA DInvFrontStamp == DInv => FrontStamp
  <1> SUFFICES ASSUME DInv, phase = "done"
               PROVE  Head(m_burstVec).firstPacketStamp =
                          IF \E b \in ToSet(m_burstVec) : b.firstPacketStamp = Zero
                          THEN Zero ELSE Head(pktVec).timestamp
    BY DEF FrontStamp
  <1>1. /\ m_burstVec \in Seq(BurstsOn(Seen)) /\ FirstStamped
        /\ \A i \in 1 .. Len(m_burstVec) :
              ~Earlier(m_burstVec[i].firstPacketStamp, m_burstVec[1].firstPacketStamp)
    BY DEF DInv, Made, Ordered
  <1>2. PICK n \in Nat : n = Len(m_burstVec) /\ DOMAIN m_burstVec = 1 .. n
    BY <1>1
  <1>3. PICK i0 \in 1 .. n : m_burstVec[i0].firstPacketStamp = pktVec[1].timestamp
    BY <1>1, <1>2 DEF FirstStamped
  <1>4. 1 \in 1 .. n /\ Head(m_burstVec) = m_burstVec[1] /\ ToSet(m_burstVec) = {m_burstVec[i] : i \in 1 .. n}
    BY <1>1, <1>2, <1>3 DEF ToSet
  <1>5. /\ Seen \subseteq Packet /\ pktVec \in Seq(Seen) /\ pktVec # <<>> /\ ByTime(pktVec)
    BY SeenFacts DEF DInv, Divided, Partition
  <1>6. PICK m \in Nat : m = Len(pktVec) /\ DOMAIN pktVec = 1 .. m /\ m > 0
    BY <1>5
  <1>7. ASSUME NEW j \in 1 .. m
        PROVE  /\ pktVec[j].timestamp \in Timespec /\ pktVec[j].timestamp.tv_sec > 0
               /\ ~Earlier(pktVec[j].timestamp, pktVec[1].timestamp)
    <2>1. 1 \in 1 .. m
      BY <1>6
    <2>2. pktVec[j] \in Packet
      BY <1>5, <1>6
    <2>3. pktVec[j].timestamp \in Timespec /\ pktVec[j].timestamp.tv_sec > 0
      BY <2>2 DEF Packet
    <2>4. CASE j = 1
      BY <2>3, <2>4, NotEarlier
    <2>5. CASE j # 1
      <3>1. 1 < j
        BY <2>5
      <3> QED BY <1>5, <1>6, <2>1, <2>3, <3>1 DEF ByTime
    <2> QED BY <2>4, <2>5
  <1>8. PICK f : f = m_burstVec[1].firstPacketStamp
    OBVIOUS
  <1>9. f = Zero \/ \E j \in 1 .. m : f = pktVec[j].timestamp
    <2>1. m_burstVec[1] \in BurstsOn(Seen)
      BY <1>1, <1>2, <1>4
    <2>2. f = Zero \/ \E p \in Seen : f = p.timestamp
      BY <1>8, <2>1 DEF BurstsOn, StampedIn
    <2> QED BY <1>6, <2>2 DEF Seen, ToSet
  <1>10. CASE \E b \in ToSet(m_burstVec) : b.firstPacketStamp = Zero
    <2>1. PICK i \in 1 .. n : m_burstVec[i].firstPacketStamp = Zero
      BY <1>4, <1>10
    <2>2. ~Earlier(Zero, f)
      BY <1>1, <1>2, <1>8, <2>1
    <2>3. ASSUME NEW j \in 1 .. m, f = pktVec[j].timestamp PROVE FALSE
      <3>1. f \in Timespec /\ f.tv_sec > 0
        BY <1>7, <2>3
      <3> QED BY <2>2, <3>1 DEF Earlier, Zero, Timespec
    <2>4. f = Zero
      BY <1>9, <2>3
    <2> QED BY <1>4, <1>8, <1>10, <2>4
  <1>11. CASE ~(\E b \in ToSet(m_burstVec) : b.firstPacketStamp = Zero)
    <2>1. f # Zero
      BY <1>4, <1>8, <1>11
    <2>2. PICK j \in 1 .. m : f = pktVec[j].timestamp
      BY <1>9, <2>1
    <2>3. PICK g : g = pktVec[1].timestamp
      OBVIOUS
    <2>4. f \in Timespec /\ g \in Timespec
      <3>1. 1 \in 1 .. m
        BY <1>6
      <3> QED BY <1>7, <2>2, <2>3, <3>1
    <2>5. ~Earlier(f, g)
      BY <1>7, <2>2, <2>3
    <2>6. ~Earlier(g, f)
      BY <1>1, <1>2, <1>3, <1>8, <2>3
    <2>7. f = g
      BY <2>4, <2>5, <2>6 DEF Earlier, Timespec
    <2>8. Head(pktVec) = pktVec[1]
      BY <1>5, <1>6
    <2> QED BY <1>4, <1>8, <1>11, <2>3, <2>7, <2>8
  <1> QED BY <1>10, <1>11

(* However the packets are split, regrouped and sorted, every packet of the *)
(* slot is counted by exactly one burst.                                    *)
THEOREM ConservedCorrect == Spec => []Conserved
BY DivisionInductive, DInvConserved, PTL

(* StrictToBursts is only given vectors that are sorted and not empty.      *)
THEOREM StrictInputsCorrect == Spec => []StrictInputs
BY DivisionInductive, DInvStrictInputs, PTL

(* TrainOneDevice accepts every burst of the block.                         *)
THEOREM TrainableCorrect == Spec => []Trainable
BY DivisionInductive, DInvTrainable, PTL

(* The front burst carries the earliest stamp, or none if one has none.     *)
THEOREM FrontStampCorrect == Spec => []FrontStamp
BY DivisionInductive, DInvFrontStamp, PTL

-----------------------------------------------------------------------------
(* The state machine and the operator *)

(* The loop before the first packet, and after one packet more.             *)
LEMMA LoopedAppend ==
    ASSUME NEW vec \in Seq(Packet), NEW x \in Packet
    PROVE  /\ Looped(<<>>) = Fresh /\ Looped(vec) \in Locals
           /\ Looped(Append(vec, x)) = StrictStep(Looped(vec), x)
  <1>1. PICK n \in Nat : n = Len(vec)
    OBVIOUS
  <1>2. PICK more \in Seq(Packet) : more = Append(vec, x)
    <2>1. Append(vec, x) \in Seq(Packet)
      OBVIOUS
    <2> QED BY <2>1
  <1>3. Len(more) = n + 1 /\ more[n + 1] = x /\ \A k \in 1 .. n : more[k] = vec[k]
    BY <1>1, <1>2
  <1>4. PICK g \in [0 .. n -> Locals] : g[n] = Looped(vec) /\ Loops(g, vec, n)
    BY <1>1, StrictLoops
  <1>5. PICK h \in [0 .. n + 1 -> Locals] : h[n + 1] = Looped(more) /\ Loops(h, more, n + 1)
    <2>1. PICK h \in [0 .. Len(more) -> Locals] : h[Len(more)] = Looped(more) /\ Loops(h, more, Len(more))
      BY StrictLoops
    <2> QED BY <1>3, <2>1
  <1> DEFINE In == {k \in 0 .. n : g[k] = h[k]}
  <1>6. 0 \in In
    BY <1>4, <1>5 DEF Loops
  <1>7. ASSUME NEW k \in 1 .. n, k - 1 \in In PROVE k \in In
    <2>1. k \in 0 .. n /\ k \in 1 .. n + 1 /\ g[k - 1] = h[k - 1] /\ more[k] = vec[k]
      BY <1>3, <1>7
    <2>2. g[k] = StrictStep(g[k - 1], vec[k])
      BY <1>4 DEF Loops
    <2>3. h[k] = StrictStep(h[k - 1], more[k])
      BY <1>5, <2>1 DEF Loops
    <2> QED BY <2>1, <2>2, <2>3
  <1>8. 0 .. n \subseteq In
    <2> HIDE DEF In
    <2> QED BY <1>6, <1>7, UpTo
  <1>9. g[n] = h[n] /\ g[n] \in Locals
    <2>1. n \in 0 .. n
      OBVIOUS
    <2> QED BY <1>4, <1>8, <2>1
  <1>10. h[n + 1] = StrictStep(h[n], x)
    <2>1. n + 1 \in 1 .. n + 1 /\ (n + 1) - 1 = n
      OBVIOUS
    <2> QED BY <1>3, <1>5, <2>1 DEF Loops
  <1>11. Looped(<<>>) = Fresh
    <2>1. <<>> \in Seq(Packet) /\ Len(<<>>) = 0
      OBVIOUS
    <2>2. PICK f : f[0] = Looped(<<>>) /\ Loops(f, <<>>, 0)
      BY <2>1, StrictLoops
    <2> QED BY <2>2 DEF Loops
  <1> QED BY <1>2, <1>4, <1>5, <1>9, <1>10, <1>11

(* The state machine is in the loop after the packets of packetVec, or has  *)
(* returned what the operator gives.                                        *)
Linked ==
    /\ packetVec \in Seq(Packet)
    /\ ~returned => burst = Looped(packetVec).burst /\ burstVec = Looped(packetVec).burstVec
    /\ returned => burstVec = StrictToBursts(packetVec)

(* DeviceBurstGenerator uses StrictToBursts as an operator; the state       *)
(* machine returns the same bursts for every vector.                        *)
THEOREM OperatorIsMachine == StrictSpec => [](returned => burstVec = StrictToBursts(packetVec))
  <1>1. StrictInit => Linked
    <2> SUFFICES ASSUME StrictInit PROVE Linked
      OBVIOUS
    <2>1. /\ packetVec = <<>> /\ burst = NewBurst(Label) /\ burstVec = <<>> /\ ~returned
      BY DEF StrictInit
    <2>2. PICK b : b = NewBurst(Label)
      OBVIOUS
    <2>3. Fresh = [burst |-> b, burstVec |-> <<>>]
      BY <2>2 DEF Fresh
    <2>4. Looped(packetVec) = Fresh /\ packetVec \in Seq(Packet)
      <3>1. <<>> \in Seq(Packet) /\ Len(<<>>) = 0
        OBVIOUS
      <3>2. PICK f : f[0] = Looped(<<>>) /\ Loops(f, <<>>, 0)
        BY <3>1, StrictLoops
      <3> QED BY <2>1, <3>1, <3>2 DEF Loops
    <2> QED BY <2>1, <2>2, <2>3, <2>4 DEF Linked
  <1>2. Linked /\ [StrictNext]_strictVars => Linked'
    <2> SUFFICES ASSUME Linked, [StrictNext]_strictVars PROVE Linked'
      OBVIOUS
    <2>1. CASE \E packet \in Packets : NextPacket(packet)
      <3>1. PICK x \in Packets : NextPacket(x)
        BY <2>1
      <3>2. x \in Packet /\ ~returned /\ ~returned' /\ packetVec' = Append(packetVec, x)
        BY <3>1, PacketsAssumption DEF NextPacket
      <3>3. PICK s : s = Looped(packetVec)
        OBVIOUS
      <3>4. packetVec \in Seq(Packet) /\ burst = s.burst /\ burstVec = s.burstVec
        BY <3>2, <3>3 DEF Linked
      <3>5. s \in Locals /\ Looped(packetVec') = StrictStep(s, x)
        BY <3>2, <3>3, <3>4, LoopedAppend
      <3>6. [burst |-> burst, burstVec |-> burstVec] = s
        BY <3>4, <3>5 DEF Locals
      <3>7. burst' = StrictStep(s, x).burst /\ burstVec' = StrictStep(s, x).burstVec
        BY <3>1, <3>6 DEF NextPacket
      <3>8. packetVec' \in Seq(Packet)
        BY <3>2, <3>4
      <3> QED BY <3>2, <3>5, <3>7, <3>8 DEF Linked
    <2>2. CASE Return
      <3>1. ~returned /\ returned' /\ burstVec' = Append(burstVec, burst) /\ packetVec' = packetVec
        BY <2>2 DEF Return
      <3>2. packetVec \in Seq(Packet)
        BY DEF Linked
      <3>3. StrictToBursts(packetVec) = Append(Looped(packetVec).burstVec, Looped(packetVec).burst)
        BY <3>2, StrictLoops
      <3> QED BY <3>1, <3>2, <3>3 DEF Linked
    <2>3. CASE UNCHANGED strictVars
      BY <2>3 DEF Linked, strictVars
    <2>4. CASE StrictTerminating
      BY <2>4 DEF Linked, StrictTerminating, strictVars
    <2> QED BY <2>1, <2>2, <2>3, <2>4 DEF StrictNext
  <1>3. Linked => (returned => burstVec = StrictToBursts(packetVec))
    BY DEF Linked
  <1> QED BY <1>1, <1>2, <1>3, PTL DEF StrictSpec
=============================================================================
