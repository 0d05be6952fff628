---------------------------- MODULE NearestOracle ----------------------------
(***************************************************************************)
(* What PredictBurst promises, without cache, locks or threads: every      *)
(* question about a test burst is answered, in one step, with the smallest *)
(* distance to a comparable training burst of the current experiment and   *)
(* with all the training bursts at that distance.                          *)
(***************************************************************************)
EXTENDS Integers, Sequences

CONSTANTS
    Distance(_, _),
    FAR,                        \* the initial min_distance, 100
    BURST_MAX_PACKET_INDEX,
    UNISIG_RANGE, PACKETNUM_RANGE,
    Tests,                      \* the bursts one may ask about
    Trainsets                   \* the training sets of the experiments

VARIABLES
    train,      \* the training bursts of the current experiment
    answers     \* the answers given in this experiment

vars == <<train, answers>>

(* Bursts are compared when their sizes are close; sizes beyond the last    *)
(* column of the table count as equal to it.                                *)
Capped(n) == IF n < BURST_MAX_PACKET_INDEX THEN n ELSE BURST_MAX_PACKET_INDEX

Comparable(test, b) ==
    /\ b.uniPktNum > test.uniPktNum - UNISIG_RANGE
    /\ b.uniPktNum <= test.uniPktNum + UNISIG_RANGE
    /\ \/ Capped(b.pktNum) > test.pktNum - PACKETNUM_RANGE
       \/ Capped(b.pktNum) = BURST_MAX_PACKET_INDEX
    /\ \/ b.pktNum <= test.pktNum + PACKETNUM_RANGE
       \/ test.pktNum + PACKETNUM_RANGE >= BURST_MAX_PACKET_INDEX

Answer(test) ==
    LET near == {i \in DOMAIN train : Comparable(test, train[i])}
        dist == {FAR} \cup {Distance(test, train[i]) : i \in near}
        min  == CHOOSE d \in dist : \A e \in dist : d <= e
    IN  [test |-> test, distance |-> min,
         nearest |-> {train[i] : i \in {j \in near : Distance(test, train[j]) = min}}]

Init ==
    /\ train = <<>>
    /\ answers = <<>>

Retrain ==
    /\ train' \in Trainsets
    /\ answers' = <<>>

Ask(test) ==
    /\ answers' = Append(answers, Answer(test))
    /\ UNCHANGED train

Next == Retrain \/ \E test \in Tests : Ask(test)

Spec == Init /\ [][Next]_vars
=============================================================================
