----------------------------- MODULE TrainWindow -----------------------------
(***************************************************************************)
(* The two-dimensional table of training bursts, train[i][j], and the part *)
(* of it that PredictBurst looks at. A burst is filed by its number of     *)
(* distinct signatures and its number of packets; the last column takes    *)
(* all bursts of BURST_MAX_PACKET_INDEX packets or more.                   *)
(***************************************************************************)
EXTENDS Integers

CONSTANTS
    BURST_MAX_UNISIG,           \* rows
    BURST_MAX_PACKET_INDEX,     \* columns
    UNISIG_RANGE, PACKETNUM_RANGE,
    UINT8                       \* 2^8

ASSUME WindowAssumption ==
    /\ BURST_MAX_UNISIG \in Nat \ {0}
    /\ BURST_MAX_PACKET_INDEX \in Nat \ {0}
    /\ UNISIG_RANGE \in Nat \ {0}
    /\ PACKETNUM_RANGE \in Nat \ {0}
    /\ UINT8 \in Nat
    /\ BURST_MAX_UNISIG + UNISIG_RANGE < UINT8    \* the cast of line 358

Least(a, b) == IF a < b THEN a ELSE b
Greatest(a, b) == IF a < b THEN b ELSE a

(* A burst as far as the table is concerned: one that passed Validate and   *)
(* is not empty.                                                            *)
Sized(b) ==
    /\ b.uniPktNum \in 1 .. BURST_MAX_UNISIG
    /\ b.pktNum \in Nat \ {0}

(* The indices under which TrainOneDevice files a burst.                    *)
Row(b) == b.uniPktNum - 1
Column(b) == Least(b.pktNum, BURST_MAX_PACKET_INDEX) - 1

iMin(test) == Greatest(test.uniPktNum - UNISIG_RANGE, 0)

iMax(test) == Least((test.uniPktNum + UNISIG_RANGE) % UINT8, BURST_MAX_UNISIG)

jMin(test) == Least(Greatest(test.pktNum - PACKETNUM_RANGE, 0),
                    BURST_MAX_PACKET_INDEX - 1)

jMax(test) == Least(test.pktNum + PACKETNUM_RANGE, BURST_MAX_PACKET_INDEX)

(* The two outer loops of PredictBurst meet the training burst b.           *)
InWindow(test, b) ==
    /\ Row(b) \in iMin(test) .. iMax(test) - 1
    /\ Column(b) \in jMin(test) .. jMax(test) - 1
=============================================================================
