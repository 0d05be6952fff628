------------------------------ MODULE MCPredict ------------------------------
(* Three experiments in a row: two that ask about the same bursts with       *)
(* different training sets, and one with an empty test set. Small sizes for *)
(* a table of 3 rows and 4 columns; the bursts of size 6 are beyond the last *)
(* column.                                                                  *)
EXTENDS Predict

MCTrain(uni, pkt, label) == [uniPktNum |-> uni, pktNum |-> pkt, label |-> label]
Key(uni, pkt) == [uniPktNum |-> uni, pktNum |-> pkt]

Abs(n) == IF n < 0 THEN -n ELSE n

(* Ties between labels and between sizes; 9 is at least FAR.                *)
MCDistance(test, b) ==
    IF Abs(test.pktNum - b.pktNum) > 3 THEN 9
    ELSE Abs(test.pktNum - b.pktNum) + Abs(test.uniPktNum - b.uniPktNum)

A == Key(1, 1)
B == Key(2, 3)
C == Key(3, 6)

Train1 == <<MCTrain(1, 2, "cam"), MCTrain(1, 2, "plug"), MCTrain(2, 4, "cam"), MCTrain(3, 6, "plug")>>
Train2 == <<MCTrain(1, 1, "plug"), MCTrain(2, 2, "cam"), MCTrain(3, 1, "plug")>>

MCExperiments == <<
    [train |-> Train1, epochSlotNum |-> 2,
     testset |-> << << <<A>>, <<B, A, C>>, <<C, B>> >>, << <<C, A>>, <<A, B>> >> >>],
    [train |-> Train2, epochSlotNum |-> 1,
     testset |-> << << <<A, B>>, <<C, A>> >> >>],
    [train |-> Train1, epochSlotNum |-> 1, testset |-> <<>>]>>
=============================================================================
