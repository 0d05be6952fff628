--------------------------- MODULE BurstGroupPolicy ---------------------------
(***************************************************************************)
(* What BurstGroupPolicy computes from the answers of PredictBurst: the    *)
(* votes of a group (AddBurstPrediction), their ranking, and when the best *)
(* are too close, who among them gets compared (GenPrediction).            *)
(*                                                                         *)
(* Scores are logarithms and roots in the code; here they are units of an  *)
(* uninterpreted operator, of which only sums and order matter.            *)
(***************************************************************************)
EXTENDS Integers, SequencesExt, FiniteSetsExt

CONSTANTS
    Vote(_, _, _),      \* what one name gets of a burst: from its uniPktNum,
                        \* the number of names and the distance
    NEAR,               \* 0.5: a burst with no training burst as near is mute
    MIN_OUTPERFORM,     \* the lead that settles a group
    Type(_)             \* removeSuffix: a device's name without its number

ASSUME PolicyAssumption == MIN_OUTPERFORM \in Nat

Unreliable == "unreliable"
Empty == ""                 \* currPrediction, and the member before it is set

AddBurstPrediction_ByType(bucket, burst) ==    \* mutant: votes for types, not for devices
    LET voted == IF burst.distance > NEAR THEN {} ELSE {Type(n) : n \in burst.names}
    IN  [n \in DOMAIN bucket \cup voted |->
            (IF n \in DOMAIN bucket THEN bucket[n] ELSE 0)
              + (IF n \in voted THEN Vote(burst.uniPktNum, Cardinality(voted), burst.distance)
                                ELSE 0)]

(* predictBucket after one more burst of the group.                         *)
AddBurstPrediction(bucket, burst) ==
    LET voted == IF burst.distance > NEAR THEN {} ELSE burst.names
    IN  [n \in DOMAIN bucket \cup voted |->
            (IF n \in DOMAIN bucket THEN bucket[n] ELSE 0)
              + (IF n \in voted THEN Vote(burst.uniPktNum, Cardinality(voted), burst.distance)
                                ELSE 0)]

Bucket(group) ==
    LET after[k \in 0 .. Len(group)] ==
            IF k = 0 THEN [n \in {} |-> 0] ELSE AddBurstPrediction(after[k - 1], group[k])
    IN  after[Len(group)]

(* The names that enter rankedGroup, and what is left when there are none:  *)
(* every device of the Context, by its type, each with score 1.             *)
Ranked(bucket) == DOMAIN bucket \ {Unreliable}

TopScore(bucket) == Max({bucket[n] : n \in Ranked(bucket)})

(* The names that do not fall MIN_OUTPERFORM short of the best.             *)
Candidates(bucket) == {n \in Ranked(bucket) : bucket[n] >= TopScore(bucket) - MIN_OUTPERFORM}

(* The orders in which rbegin() meets them: by score, and equal scores as   *)
(* the unordered map happened to list them.                                 *)
Orders(bucket) ==
    {s \in [1 .. Cardinality(Candidates(bucket)) -> Candidates(bucket)] :
        /\ ToSet(s) = Candidates(bucket)
        /\ \A i, j \in DOMAIN s : i < j => bucket[s[i]] >= bucket[s[j]]}

(* The same for a group without votes: equal scores, last registered first. *)
SecondChance(devices) == [i \in DOMAIN devices |-> Type(Reverse(devices)[i])]

GroupPktNum(group) ==
    LET sum[k \in 0 .. Len(group)] == IF k = 0 THEN 0 ELSE sum[k - 1] + group[k].pktNum
    IN  sum[Len(group)]

Apart(m, n) == IF m < n THEN n - m ELSE m - n

(* How far the group is in packets from the nearest of some merged bursts;  *)
(* INT_MAX when there are none. minDistance is a float, which holds numbers *)
(* up to FLOAT_EXACT as they are.                                           *)
INT_MAX == 2147483647
FLOAT_EXACT == 16777216
Nearest(num, merged) == Min({INT_MAX} \cup {Apart(num, merged[i]) : i \in DOMAIN merged})
=============================================================================
