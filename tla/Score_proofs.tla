---------------------------- MODULE Score_proofs ----------------------------
(***************************************************************************)
(* The invariants of Score, for any series of experiments, devices, groups *)
(* and threads, from what its assumptions say of the constants: a data set *)
(* made of the devices of its mapping, votes that are whole numbers,       *)
(* groups small enough for a float, and names that are no placeholders.    *)
(*                                                                         *)
(* IInv has four parts. Where things are: the main thread, the context,    *)
(* the queue and the pool (MainOK to MutexOK). Where each group is: to be  *)
(* decided by one task at most, and by one if it has enough packets and is *)
(* not decided (PlacedOK). What has been counted: each row of the sheets   *)
(* is a count of decided groups, and the list of errors is the groups      *)
(* decided wrong or missed that nobody is pushing (SheetsOK, ErrorsOK).    *)
(* What has been found out: the best of the names compared so far, in the  *)
(* order of the votes (PolicyOK), and decisions that are among the answers *)
(* for what the task could see (ChosenOK). That a task sees the same from  *)
(* its first step to its last, whatever the others do, is SameView.        *)
(***************************************************************************)
EXTENDS Score, FiniteSetTheorems, WellFoundedInduction, NaturalsInduction, TLAPS

-----------------------------------------------------------------------------
(* Numbers, and what is computed burst by burst *)

(* A set of naturals has a least member.                                    *)
LEMMA LeastOfNaturals ==
    ASSUME NEW S, S \subseteq Nat, S # {}
    PROVE  \E m \in S : \A n \in S : m <= n
  <1> DEFINE R == {p \in Nat \X Nat : p[1] < p[2]}
  <1>1. IsWellFoundedOn(R, Nat)
    BY NatLessThanWellFounded DEF OpToRel
  <1>2. PICK m \in S : \A n \in S : <<n, m>> \notin R
    <2> HIDE DEF R
    <2> QED BY <1>1, WFMin
  <1>3. ASSUME NEW n \in S PROVE m <= n
    <2>1. m \in Nat /\ n \in Nat
      OBVIOUS
    <2>2. ~(n < m)
      BY <1>2, <2>1
    <2> QED BY <2>1, <2>2
  <1> QED BY <1>3

(* What holds of 0 and passes from a number to the next up to n holds up to *)
(* n.                                                                       *)
LEMMA UpTo ==
    ASSUME NEW n \in Nat, NEW S, 0 \in S,
           \A k \in 1 .. n : k - 1 \in S => k \in S
    PROVE  0 .. n \subseteq S
  <1> SUFFICES ASSUME (0 .. n) \ S # {} PROVE FALSE
    OBVIOUS
  <1>1. PICK m \in (0 .. n) \ S : \A k \in (0 .. n) \ S : m <= k
    <2>1. (0 .. n) \ S \subseteq Nat
      OBVIOUS
    <2> QED BY <2>1, LeastOfNaturals
  <1>2. m # 0 /\ m \in Nat /\ m <= n
    OBVIOUS
  <1>3. m - 1 \in 0 .. n /\ m \in 1 .. n /\ ~(m <= m - 1)
    BY <1>2
  <1>4. m - 1 \in S
    BY <1>1, <1>3
  <1> QED BY <1>1, <1>3, <1>4

(* A function on 0 .. n that starts at base and goes on by step, where step *)
(* keeps to the set S, exists: and whatever is defined like it is in S.     *)
Goes(f, n, base, step) ==
    f = [k \in 0 .. n |-> IF k = 0 THEN base ELSE step[k][f[k - 1]]]

LEMMA StepByStep ==
    ASSUME NEW n \in Nat, NEW S, NEW base \in S, NEW step,
           \A k \in 1 .. n : \A s \in S : step[k][s] \in S
    PROVE  /\ \E f : Goes(f, n, base, step)
           /\ \A f : Goes(f, n, base, step) => \A k \in 0 .. n : f[k] \in S
  <1> DEFINE Upto(m) == \E f : Goes(f, m, base, step)
             Good == {m \in 0 .. n : Upto(m)}
  <1>1. ASSUME NEW m \in 0 .. n, NEW f, Goes(f, m, base, step)
        PROVE  \A k \in 0 .. m : f[k] \in S
    <2> DEFINE In == {k \in 0 .. m : f[k] \in S}
    <2>1. f = [k \in 0 .. m |-> IF k = 0 THEN base ELSE step[k][f[k - 1]]]
      BY <1>1 DEF Goes
    <2>2. 0 \in In
      BY <2>1
    <2>3. ASSUME NEW k \in 1 .. m, k - 1 \in In PROVE k \in In
      <3>1. k \in 0 .. m /\ k # 0 /\ k \in 1 .. n
        OBVIOUS
      <3>2. f[k] = step[k][f[k - 1]]
        BY <2>1, <3>1
      <3> QED BY <2>3, <3>1, <3>2
    <2>4. m \in Nat
      OBVIOUS
    <2> HIDE DEF In
    <2>5. 0 .. m \subseteq In
      BY <2>2, <2>3, <2>4, UpTo
    <2> QED BY <2>5 DEF In
  <1>2. 0 \in Good
    <2>1. PICK f : f = [k \in 0 .. 0 |-> base]
      OBVIOUS
    <2>2. \A k \in 0 .. 0 : k = 0
      OBVIOUS
    <2>3. f = [k \in 0 .. 0 |-> IF k = 0 THEN base ELSE step[k][f[k - 1]]]
      BY <2>1, <2>2
    <2> QED BY <2>3 DEF Goes
  <1>3. ASSUME NEW m \in 1 .. n, m - 1 \in Good PROVE m \in Good
    <2>1. PICK f : Goes(f, m - 1, base, step)
      BY <1>3
    <2>2. f = [k \in 0 .. m - 1 |-> IF k = 0 THEN base ELSE step[k][f[k - 1]]]
      BY <2>1 DEF Goes
    <2>3. PICK h : h = [k \in 0 .. m |-> IF k = m THEN step[m][f[m - 1]] ELSE f[k]]
      OBVIOUS
    <2>4. ASSUME NEW k \in 0 .. m
          PROVE  h[k] = IF k = 0 THEN base ELSE step[k][h[k - 1]]
      <3>1. m # 0 /\ m - 1 # m /\ m \in Nat
        OBVIOUS
      <3>2. CASE k = m
        <4>1. h[m - 1] = f[m - 1] /\ h[m] = step[m][f[m - 1]]
          BY <2>3, <3>1
        <4> QED BY <3>1, <3>2, <4>1
      <3>3. CASE k # m
        <4>1. k \in 0 .. m - 1 /\ h[k] = f[k]
          BY <2>3, <3>3
        <4>2. k # 0 => k - 1 \in 0 .. m /\ k - 1 # m /\ h[k - 1] = f[k - 1]
          BY <2>3, <4>1
        <4> QED BY <2>2, <4>1, <4>2
      <3> QED BY <3>2, <3>3
    <2>5. h = [k \in 0 .. m |-> IF k = 0 THEN base ELSE step[k][h[k - 1]]]
      <3>1. h = [k \in 0 .. m |-> h[k]]
        BY <2>3
      <3> QED BY <2>4, <3>1
    <2> QED BY <2>5 DEF Goes
  <1>4. Upto(n)
    <2> HIDE DEF Upto
    <2>1. Good \subseteq 0 .. n
      OBVIOUS
    <2>2. 0 .. n \subseteq Good
      <3> HIDE DEF Good
      <3> QED BY <1>2, <1>3, UpTo
    <2> QED BY <2>2
  <1> QED BY <1>1, <1>4

(* The packets of a group are a number.                                     *)
LEMMA GroupPktNumFacts ==
    ASSUME NEW group, IsSeq(group), \A b \in ToSet(group) : b.pktNum \in Nat
    PROVE  GroupPktNum(group) \in Nat
  <1>1. PICK n \in Nat : n = Len(group) /\ DOMAIN group = 1 .. n
    BY DEF IsSeq
  <1>2. \A k \in 1 .. n : group[k].pktNum \in Nat
    BY <1>1 DEF ToSet
  <1>3. PICK step : step = [k \in 1 .. n |-> [s \in Nat |-> s + group[k].pktNum]]
    OBVIOUS
  <1>4. \A k \in 1 .. n : \A s \in Nat : step[k][s] = s + group[k].pktNum /\ step[k][s] \in Nat
    <2> TAKE k \in 1 .. n
    <2>1. PICK num \in Nat : num = group[k].pktNum
      BY <1>2
    <2>2. step[k] = [s \in Nat |-> s + num]
      BY <1>3, <2>1
    <2> QED BY <2>1, <2>2
  <1> DEFINE IsSum(f) == f = [k \in 0 .. n |-> IF k = 0 THEN 0 ELSE f[k - 1] + group[k].pktNum]
  <1>5. \E f : IsSum(f)
    <2>1. PICK f : Goes(f, n, 0, step)
      BY <1>4, StepByStep
    <2>2. \A k \in 0 .. n : f[k] \in Nat
      BY <1>4, <2>1, StepByStep
    <2>3. f = [k \in 0 .. n |-> IF k = 0 THEN 0 ELSE step[k][f[k - 1]]]
      BY <2>1 DEF Goes
    <2>4. ASSUME NEW k \in 0 .. n
          PROVE  f[k] = IF k = 0 THEN 0 ELSE f[k - 1] + group[k].pktNum
      <3>1. CASE k = 0
        BY <2>3, <3>1
      <3>2. CASE k # 0
        <4>1. k \in 1 .. n /\ k - 1 \in 0 .. n
          BY <3>2
        <4>2. f[k] = step[k][f[k - 1]] /\ f[k - 1] \in Nat
          BY <2>2, <2>3, <3>2, <4>1
        <4> QED BY <1>4, <3>2, <4>1, <4>2
      <3> QED BY <3>1, <3>2
    <2>5. f = [k \in 0 .. n |-> f[k]]
      BY <2>3
    <2>6. f = [k \in 0 .. n |-> IF k = 0 THEN 0 ELSE f[k - 1] + group[k].pktNum]
      BY <2>4, <2>5
    <2> QED BY <2>6
  <1>6. PICK f : IsSum(f) /\ GroupPktNum(group) = f[n]
    <2> DEFINE sum == CHOOSE f : IsSum(f)
    <2>1. IsSum(sum)
      <3> HIDE DEF IsSum
      <3> QED BY <1>5
    <2>2. GroupPktNum(group) = sum[n]
      BY <1>1 DEF GroupPktNum
    <2> HIDE DEF sum
    <2> QED BY <2>1, <2>2
  <1> DEFINE In == {k \in 0 .. n : f[k] \in Nat}
  <1>7. 0 \in In
    BY <1>6, <1>1
  <1>8. ASSUME NEW k \in 1 .. n, k - 1 \in In PROVE k \in In
    <2>1. k \in 0 .. n /\ k # 0
      BY <1>1
    <2>2. f[k] = f[k - 1] + group[k].pktNum
      BY <1>6, <2>1
    <2> QED BY <1>2, <1>8, <2>1, <2>2
  <1>9. n \in In
    <2>1. 0 .. n \subseteq In
      <3> HIDE DEF In
      <3> QED BY <1>1, <1>7, <1>8, UpTo
    <2> QED BY <1>1, <2>1
  <1> QED BY <1>6, <1>9

(* The votes of a group are for devices that its bursts name, in numbers.   *)
Votes(names) == UNION {[S -> Int] : S \in SUBSET names}

(* AddBurstPrediction adds votes for the devices the burst names, and only  *)
(* those.                                                                   *)
LEMMA OneMoreBurst ==
    ASSUME NEW names, NEW bucket \in Votes(names), NEW b, b.names \subseteq names,
           Vote(b.uniPktNum, Cardinality(b.names), b.distance) \in Int
    PROVE  AddBurstPrediction(bucket, b) \in Votes(names)
  <1>1. PICK S \in SUBSET names : bucket \in [S -> Int]
    BY DEF Votes
  <1>2. PICK voted : voted = IF b.distance > NEAR THEN {} ELSE b.names
    OBVIOUS
  <1>3. PICK vote : vote = Vote(b.uniPktNum, Cardinality(voted), b.distance)
    OBVIOUS
  <1>4. AddBurstPrediction(bucket, b) =
            [n \in S \cup voted |-> (IF n \in S THEN bucket[n] ELSE 0)
                                      + (IF n \in voted THEN vote ELSE 0)]
    BY <1>1, <1>2, <1>3 DEF AddBurstPrediction
  <1>5. ASSUME NEW n \in S \cup voted
        PROVE  (IF n \in S THEN bucket[n] ELSE 0) + (IF n \in voted THEN vote ELSE 0) \in Int
    <2>1. n \in S => bucket[n] \in Int
      BY <1>1
    <2>2. n \in voted => vote \in Int
      BY <1>2, <1>3
    <2> QED BY <2>1, <2>2
  <1>6. S \cup voted \in SUBSET names
    BY <1>1, <1>2
  <1>7. AddBurstPrediction(bucket, b) \in [S \cup voted -> Int]
    BY <1>4, <1>5
  <1> QED BY <1>6, <1>7 DEF Votes

(* The bucket of a group holds whole votes for devices its bursts name.     *)
LEMMA BucketFacts ==
    ASSUME NEW group, IsSeq(group), NEW names,
           \A b \in ToSet(group) :
              /\ b.names \subseteq names
              /\ Vote(b.uniPktNum, Cardinality(b.names), b.distance) \in Int
    PROVE  Bucket(group) \in Votes(names)
  <1>1. PICK n \in Nat : n = Len(group) /\ DOMAIN group = 1 .. n
    BY DEF IsSeq
  <1>2. \A k \in 1 .. n : \A s \in Votes(names) : AddBurstPrediction(s, group[k]) \in Votes(names)
    <2>1. \A k \in 1 .. n : group[k] \in ToSet(group)
      BY <1>1 DEF ToSet
    <2> QED BY <2>1, OneMoreBurst
  <1>3. PICK base : base = [m \in {} |-> 0]
    OBVIOUS
  <1>4. base \in Votes(names)
    <2>1. base \in [{} -> Int]
      BY <1>3
    <2> QED BY <2>1 DEF Votes
  <1>5. PICK step : step = [k \in 1 .. n |-> [s \in Votes(names) |-> AddBurstPrediction(s, group[k])]]
    OBVIOUS
  <1>6. \A k \in 1 .. n : \A s \in Votes(names) :
            step[k][s] = AddBurstPrediction(s, group[k]) /\ step[k][s] \in Votes(names)
    BY <1>2, <1>5
  <1> DEFINE After(f) == f = [k \in 0 .. n |-> IF k = 0 THEN base
                                              ELSE AddBurstPrediction(f[k - 1], group[k])]
  <1>7. \E f : After(f)
    <2>1. PICK f : Goes(f, n, base, step)
      BY <1>1, <1>4, <1>6, StepByStep
    <2>2. \A k \in 0 .. n : f[k] \in Votes(names)
      BY <1>1, <1>4, <1>6, <2>1, StepByStep
    <2>3. f = [k \in 0 .. n |-> IF k = 0 THEN base ELSE step[k][f[k - 1]]]
      BY <2>1 DEF Goes
    <2>4. ASSUME NEW k \in 0 .. n
          PROVE  f[k] = IF k = 0 THEN base ELSE AddBurstPrediction(f[k - 1], group[k])
      <3>1. CASE k = 0
        BY <2>3, <3>1
      <3>2. CASE k # 0
        <4>1. k \in 1 .. n /\ k - 1 \in 0 .. n
          BY <1>1, <3>2
        <4>2. f[k] = step[k][f[k - 1]] /\ f[k - 1] \in Votes(names)
          BY <2>2, <2>3, <3>2, <4>1
        <4> QED BY <1>6, <3>2, <4>1, <4>2
      <3> QED BY <3>1, <3>2
    <2>5. f = [k \in 0 .. n |-> f[k]]
      BY <2>3
    <2>6. f = [k \in 0 .. n |-> IF k = 0 THEN base ELSE AddBurstPrediction(f[k - 1], group[k])]
      BY <2>4, <2>5
    <2> QED BY <2>6
  <1>8. PICK f : After(f) /\ Bucket(group) = f[n]
    <2> DEFINE after == CHOOSE f : After(f)
    <2>1. After(after)
      <3> HIDE DEF After
      <3> QED BY <1>7
    <2>2. Bucket(group) = after[n]
      BY <1>1, <1>3 DEF Bucket
    <2> HIDE DEF after
    <2> QED BY <2>1, <2>2
  <1> DEFINE In == {k \in 0 .. n : f[k] \in Votes(names)}
  <1>9. 0 \in In
    BY <1>1, <1>4, <1>8
  <1>10. ASSUME NEW k \in 1 .. n, k - 1 \in In PROVE k \in In
    <2>1. k \in 0 .. n /\ k # 0
      BY <1>1
    <2>2. f[k] = AddBurstPrediction(f[k - 1], group[k])
      BY <1>8, <2>1
    <2> QED BY <1>2, <1>10, <2>1, <2>2
  <1>11. n \in In
    <2>1. 0 .. n \subseteq In
      <3> HIDE DEF In
      <3> QED BY <1>1, <1>9, <1>10, UpTo
    <2> QED BY <1>1, <2>1
  <1> QED BY <1>8, <1>11

-----------------------------------------------------------------------------
(* The largest and the least *)

(* A sequence has finitely many members.                                    *)
LEMMA SeqFinite ==
    ASSUME NEW s, IsSeq(s)
    PROVE  IsFiniteSet(ToSet(s))
  <1>1. PICK n \in Nat : n = Len(s) /\ DOMAIN s = 1 .. n
    BY DEF IsSeq
  <1> DEFINE Upto(k) == {s[i] : i \in 1 .. k}
             In == {k \in 0 .. n : IsFiniteSet(Upto(k))}
  <1>2. 0 \in In
    <2>1. Upto(0) = {}
      OBVIOUS
    <2> HIDE DEF Upto
    <2> QED BY <1>1, <2>1, FS_EmptySet
  <1>3. ASSUME NEW k \in 1 .. n, k - 1 \in In PROVE k \in In
    <2>1. 1 .. k = (1 .. k - 1) \cup {k}
      OBVIOUS
    <2>2. Upto(k) = Upto(k - 1) \cup {s[k]}
      BY <2>1
    <2>3. k \in 0 .. n
      BY <1>1
    <2> HIDE DEF Upto
    <2> QED BY <1>3, <2>2, <2>3, FS_AddElement
  <1>4. n \in In
    <2> HIDE DEF In
    <2>1. 0 .. n \subseteq In
      BY <1>1, <1>2, <1>3, UpTo
    <2> QED BY <1>1, <2>1
  <1>5. ToSet(s) = Upto(n)
    BY <1>1 DEF ToSet
  <1> QED BY <1>4, <1>5

(* Of finitely many things with a number, one has the greatest.             *)
LEMMA Greatest ==
    ASSUME NEW S, IsFiniteSet(S), S # {}, NEW v, \A x \in S : v[x] \in Int
    PROVE  \E x \in S : \A y \in S : v[x] >= v[y]
  <1> DEFINE Above(x) == {y \in S : v[y] > v[x]}
  <1>1. \A x \in S : Above(x) \in SUBSET S /\ IsFiniteSet(Above(x)) /\ Cardinality(Above(x)) \in Nat
    <2>1. \A x \in S : Above(x) \in SUBSET S
      OBVIOUS
    <2> HIDE DEF Above
    <2> QED BY <2>1, FS_Subset, FS_CardinalityType
  <1>2. PICK N : N = {Cardinality(Above(x)) : x \in S}
    OBVIOUS
  <1>3. N \subseteq Nat /\ N # {}
    <2> HIDE DEF Above
    <2> QED BY <1>1, <1>2
  <1>4. PICK m \in N : \A n \in N : m <= n
    BY <1>3, LeastOfNaturals
  <1>5. PICK x \in S : m = Cardinality(Above(x))
    BY <1>2
  <1>6. ASSUME NEW y \in S, ~(v[x] >= v[y]) PROVE FALSE
    <2>1. v[x] \in Int /\ v[y] \in Int /\ v[y] > v[x]
      BY <1>6
    <2>2. Above(y) \subseteq Above(x) /\ y \in Above(x) /\ y \notin Above(y)
      <3>1. ASSUME NEW z \in S, v[z] > v[y] PROVE v[z] > v[x]
        <4>1. v[z] \in Int
          OBVIOUS
        <4> QED BY <2>1, <3>1, <4>1
      <3> QED BY <2>1, <3>1
    <2> HIDE DEF Above
    <2>3. Cardinality(Above(y)) <= Cardinality(Above(x)) /\ Cardinality(Above(y)) # Cardinality(Above(x))
      <3>1. Above(y) \in SUBSET Above(x)
        BY <2>2
      <3> QED BY <1>1, <2>2, <3>1, FS_Subset
    <2>4. Cardinality(Above(y)) \in N
      BY <1>2
    <2> QED BY <1>1, <1>4, <1>5, <2>3, <2>4
  <1> QED BY <1>6

(* When a group has votes there is someone to compare, among those voted    *)
(* for, and an order lists just them, the better ones first.                *)
LEMMA CandidatesFacts ==
    ASSUME NEW names, IsFiniteSet(names), NEW bucket \in Votes(names), Ranked(bucket) # {}
    PROVE  /\ Candidates(bucket) # {}
           /\ Candidates(bucket) \subseteq names
           /\ IsFiniteSet(Candidates(bucket))
           /\ \A n \in Candidates(bucket) : bucket[n] \in Int
  <1>1. PICK D \in SUBSET names : bucket \in [D -> Int]
    BY DEF Votes
  <1>2. PICK R : R = Ranked(bucket)
    OBVIOUS
  <1>3. R \in SUBSET names /\ R # {} /\ \A n \in R : bucket[n] \in Int
    BY <1>1, <1>2 DEF Ranked
  <1>4. IsFiniteSet(R)
    BY <1>3, FS_Subset
  <1>5. PICK x \in R : \A y \in R : bucket[x] >= bucket[y]
    BY <1>3, <1>4, Greatest
  <1>6. TopScore(bucket) = bucket[x]
    <2>1. PICK T : T = {bucket[n] : n \in R}
      OBVIOUS
    <2>2. bucket[x] \in T /\ (\A y \in T : y \in Int /\ bucket[x] >= y)
      BY <1>3, <1>5, <2>1
    <2>3. Max(T) \in T /\ \A y \in T : Max(T) >= y
      BY <2>2 DEF Max
    <2>4. Max(T) = bucket[x]
      BY <2>2, <2>3
    <2> QED BY <1>2, <2>1, <2>4 DEF TopScore
  <1>7. x \in Candidates(bucket)
    <2>1. PICK top \in Int : top = bucket[x]
      BY <1>3
    <2>2. top >= top - MIN_OUTPERFORM
      BY PolicyAssumption
    <2> QED BY <1>2, <1>6, <2>1, <2>2 DEF Candidates
  <1>8. Candidates(bucket) \in SUBSET R
    BY <1>2 DEF Candidates
  <1>9. IsFiniteSet(Candidates(bucket))
    BY <1>4, <1>8, FS_Subset
  <1> QED BY <1>3, <1>7, <1>8, <1>9

(* A ranking of a bucket lists its candidates once each, most votes first.  *)
LEMMA OrdersFacts ==
    ASSUME NEW bucket, IsFiniteSet(Candidates(bucket)), NEW order \in Orders(bucket)
    PROVE  /\ order \in Seq(Candidates(bucket))
           /\ ToSet(order) = Candidates(bucket)
           /\ Len(order) = Cardinality(Candidates(bucket))
           /\ \A i, j \in DOMAIN order : i < j => bucket[order[i]] >= bucket[order[j]]
  <1>1. PICK n \in Nat : n = Cardinality(Candidates(bucket))
    BY FS_CardinalityType
  <1>2. order \in [1 .. n -> Candidates(bucket)]
    BY <1>1 DEF Orders
  <1>3. order \in Seq(Candidates(bucket)) /\ Len(order) = n
    BY <1>2
  <1> QED BY <1>1, <1>3 DEF Orders

(* The two numbers that bound the arithmetic of a gap, and all that the     *)
(* proofs need of them.                                                     *)
LEMMA Limits ==
    INT_MAX \in Nat /\ FLOAT_EXACT \in Nat /\ FLOAT_EXACT < INT_MAX
  BY SMT DEF INT_MAX, FLOAT_EXACT

(* How near training groups are: a number, less than INT_MAX if there is    *)
(* one.                                                                     *)
LEMMA NearestFacts ==
    ASSUME NEW num \in 0 .. FLOAT_EXACT, NEW merged \in Seq(0 .. FLOAT_EXACT)
    PROVE  /\ Nearest(num, merged) \in Nat
           /\ merged = <<>> => Nearest(num, merged) = INT_MAX
           /\ merged # <<>> => Nearest(num, merged) < INT_MAX
  <1>1. PICK A : A = {Apart(num, merged[i]) : i \in DOMAIN merged}
    OBVIOUS
  <1>2. A \subseteq 0 .. FLOAT_EXACT
    <2>1. \A i \in DOMAIN merged : merged[i] \in 0 .. FLOAT_EXACT
      <3>1. PICK S : S = 0 .. FLOAT_EXACT
        OBVIOUS
      <3>2. merged \in Seq(S)
        BY <3>1
      <3>3. \A i \in DOMAIN merged : merged[i] \in S
        BY <3>2
      <3> QED BY <3>1, <3>3
    <2>2. \A m \in 0 .. FLOAT_EXACT : Apart(num, m) \in 0 .. FLOAT_EXACT
      BY Limits DEF Apart
    <2> QED BY <1>1, <2>1, <2>2
  <1>3. merged # <<>> => A # {}
    <2>1. merged # <<>> => 1 \in DOMAIN merged
      OBVIOUS
    <2> QED BY <1>1, <2>1
  <1>4. merged = <<>> => A = {}
    BY <1>1
  <1>5. {INT_MAX} \cup A \subseteq Nat /\ {INT_MAX} \cup A # {}
    BY <1>2, Limits
  <1>6. PICK m \in {INT_MAX} \cup A : \A n \in {INT_MAX} \cup A : m <= n
    BY <1>5, LeastOfNaturals
  <1>7. PICK near : near = Nearest(num, merged)
    OBVIOUS
  <1>8. near \in {INT_MAX} \cup A /\ \A n \in {INT_MAX} \cup A : near <= n
    BY <1>1, <1>6, <1>7 DEF Nearest, Min
  <1>9. near \in Nat
    BY <1>5, <1>8
  <1>10. A = {} => near = INT_MAX
    BY <1>8
  <1>11. ASSUME NEW a \in A PROVE near < INT_MAX
    <2>1. near <= a /\ a \in Nat /\ a < INT_MAX
      BY <1>2, <1>8, Limits
    <2> QED BY <1>9, <2>1, Limits
  <1> QED BY <1>3, <1>4, <1>7, <1>9, <1>10, <1>11

(* The second chance runs over the types of the devices, one for each       *)
(* device.                                                                  *)
LEMMA SecondChanceFacts ==
    ASSUME NEW names, NEW devices \in Seq(names)
    PROVE  /\ SecondChance(devices) \in Seq({Type(n) : n \in names})
           /\ Len(SecondChance(devices)) = Len(devices)
           /\ ToSet(SecondChance(devices)) = {Type(n) : n \in ToSet(devices)}
  <1>1. PICK n \in Nat : n = Len(devices) /\ DOMAIN devices = 1 .. n
    OBVIOUS
  <1>2. Reverse(devices) = [i \in 1 .. n |-> devices[(n - i) + 1]]
    BY <1>1 DEF Reverse
  <1>3. \A i \in 1 .. n : (n - i) + 1 \in 1 .. n /\ devices[(n - i) + 1] \in names
    BY <1>1
  <1>4. PICK s : s = SecondChance(devices)
    OBVIOUS
  <1>5. s = [i \in 1 .. n |-> Type(devices[(n - i) + 1])]
    BY <1>1, <1>2, <1>4 DEF SecondChance
  <1>6. s \in Seq({Type(m) : m \in names}) /\ Len(s) = n
    <2>1. PICK T : T = {Type(m) : m \in names}
      OBVIOUS
    <2>2. \A i \in 1 .. n : Type(devices[(n - i) + 1]) \in T
      BY <1>3, <2>1
    <2>3. s \in [1 .. n -> T]
      BY <1>5, <2>2
    <2>4. s \in Seq(T) /\ Len(s) = n
      BY <1>1, <2>3
    <2> QED BY <2>1, <2>4
  <1>7. ToSet(s) = {Type(m) : m \in ToSet(devices)}
    <2>1. ToSet(s) = {Type(devices[(n - i) + 1]) : i \in 1 .. n}
      BY <1>5 DEF ToSet
    <2>2. ToSet(devices) = {devices[j] : j \in 1 .. n}
      BY <1>1 DEF ToSet
    <2>3. \A j \in 1 .. n : \E i \in 1 .. n : j = (n - i) + 1
      <3>1. \A j \in 1 .. n : (n - j) + 1 \in 1 .. n /\ j = (n - ((n - j) + 1)) + 1
        BY <1>1
      <3> QED BY <3>1
    <2>4. \A i \in 1 .. n : (n - i) + 1 \in 1 .. n
      BY <1>3
    <2> QED BY <2>1, <2>2, <2>3, <2>4
  <1> QED BY <1>1, <1>4, <1>6, <1>7

-----------------------------------------------------------------------------
(* The invariant *)

(* An experiment has begun; the main thread is between experiments or at    *)
(* their output.                                                            *)
Begun == main.pc # "begin"
Resting == main.pc \in {"begin", "output", "exited", "unwritten"}

(* The main thread is in an experiment of its series, and in its devices.   *)
MainOK ==
    /\ main = [pc |-> main.pc, series |-> main.series, experiment |-> main.experiment,
               devices |-> main.devices]
    /\ main.pc \in {"begin", "predict", "output", "terminated", "exited", "unwritten"}
    /\ main.series \in Series
    /\ main.experiment \in 1 .. Len(main.series) + 1
    /\ Begun => main.experiment <= Len(main.series) /\ main.devices \subseteq DOMAIN Testset
    /\ Resting => main.devices = {}

(* Names and addresses lead to a device, and those of the mapping do.       *)
Leads(ids, devices) == \A k \in DOMAIN ids : ids[k] + 1 \in DOMAIN devices

ContextOK ==
    /\ context.deviceVec \in Seq(Names)
    /\ Leads(context.allDevices, context.deviceVec)
    /\ Leads(context.addressMap, context.deviceVec)
    /\ Begun => \A line \in ToSet(Experiment.mapping) :
          line.name \in DOMAIN context.allDevices /\ line.addr \in DOMAIN context.addressMap

(* Packet counts that a float holds exactly.                                *)
Counts == Seq(0 .. FLOAT_EXACT)

LevelsOK ==
    \A i \in DOMAIN blockLevelDistribution : blockLevelDistribution[i] \in Counts

(* A stretch of the groups of a device of the test set.                     *)
PlacesOK(task, testset) ==
    /\ task.addr \in DOMAIN testset
    /\ task.next \in Nat \ {0} /\ task.last \in Nat
    /\ task.last <= Len(testset[task.addr])

QueueOK ==
    /\ queue \in Seq([addr : DOMAIN Testset, next : Nat, last : Nat])
    /\ Resting => queue = <<>>
    /\ \A k \in DOMAIN queue : PlacesOK(queue[k], Testset) /\ queue[k].addr \notin main.devices

(* The places of a thread at a group with enough packets.                   *)
InGroup == {"rank", "lookup", "compare", "score", "push", "thrown"}

(* What a thread does, if anything.                                         *)
TaskOK(task, testset, devices, resting) ==
    /\ task.at \in {"idle", "group"} \cup InGroup
    /\ task.at = "idle" <=> task = Idle
    /\ task.at # "idle" => ~resting /\ PlacesOK(task, testset) /\ task.addr \notin devices
    /\ task.at \in InGroup =>
          /\ task.next <= task.last
          /\ GroupPktNum(testset[task.addr][task.next]) >= MIN_BLOCK_PKTNUM
          /\ task.order \in Seq(Predictions)
          /\ task.prediction \in Predictions

PoolOK ==
    /\ pool = [t \in Threads |-> pool[t]]
    /\ \A t \in Threads : TaskOK(pool[t], Testset, main.devices, Resting)

MutexOK ==
    /\ mutex \in Threads \cup {NoThread}
    /\ \A t \in Threads : mutex = t <=> pool[t].at = "push" /\ pool[t].prediction # Unreliable

(* What a task waiting or running still has to decide.                      *)
Has(task, g) == task.addr = g[1] /\ task.next <= g[2] /\ g[2] <= task.last

(* The groups from First on that a running task still has to decide.        *)
First(task) == IF task.at = "push" THEN task.next + 1 ELSE task.next
Holds(task, g) ==
    task.at # "idle" /\ task.addr = g[1] /\ First(task) <= g[2] /\ g[2] <= task.last

(* A group is to be decided by one task at most, and if it has enough       *)
(* packets and is not decided, by one.                                      *)
OnePlace(g, waiting, running, devices, done, kept) ==
    /\ \A k, l \in DOMAIN waiting : Has(waiting[k], g) /\ Has(waiting[l], g) => k = l
    /\ \A k \in DOMAIN waiting : \A t \in Threads : ~(Has(waiting[k], g) /\ Holds(running[t], g))
    /\ \A t, u \in Threads : Holds(running[t], g) /\ Holds(running[u], g) => t = u
    /\ g \in done =>
          /\ g[1] \notin devices
          /\ \A k \in DOMAIN waiting : ~Has(waiting[k], g)
          /\ \A t \in Threads : ~Holds(running[t], g)
    /\ g \in kept =>
          \/ g \in done
          \/ g[1] \in devices
          \/ \E k \in DOMAIN waiting : Has(waiting[k], g)
          \/ \E t \in Threads : Holds(running[t], g)

PlacedOK ==
    Begun =>
        /\ DOMAIN decided \subseteq Kept
        /\ \A g \in Groups(DOMAIN Testset) :
              OnePlace(g, queue, pool, main.devices, DOMAIN decided, Kept)

DecidedOK ==
    /\ ~Begun => decided = EmptyMap /\ sheet = EmptyMap /\ m_ErrBurstGroups = EmptyMap
    /\ IsFiniteSet(DOMAIN decided)
    /\ \A g \in DOMAIN decided : decided[g] \in Predictions

(* What has been decided one way.                                           *)
Decided(verdict) == {g \in DOMAIN decided : Verdict(g) = verdict}

(* The groups of other types that were decided as this one.                 *)
Against(type) == Cardinality({g \in Decided("wrong") : Type(decided[g]) = type})

(* What the row of a type has to show.                                      *)
Row(type) ==
    [TP |-> Tally("right", type), FN |-> Tally("wrong", type), FP |-> Against(type),
     missNum |-> Tally("miss", type)]

(* The sheets add up to what has been decided so far.                       *)
SheetsOK ==
    Begun =>
        /\ DOMAIN sheet = {Type(NameOf(a)) : a \in DOMAIN Testset \ main.devices}
                            \cup {Type(decided[g]) : g \in Decided("wrong")}
        /\ \A type \in DOMAIN sheet : sheet[type] = Row(type)

(* The group whose error a thread is about to push.                         *)
AtPush(g) == \E t \in Threads : pool[t].at = "push" /\ Current(t) = g

(* The wrong and the missed groups are listed, up to those being pushed.    *)
ErrorsOK ==
    /\ \A t \in Threads : pool[t].at = "push" =>
          Current(t) \in DOMAIN decided /\ Verdict(Current(t)) # "right"
    /\ Begun /\ "errors" \notin undefined =>
          m_ErrBurstGroups =
              [g \in {h \in DOMAIN decided : Verdict(h) # "right" /\ ~AtPush(h)} |-> 1]

(* All that a decision for a group depends on.                              *)
View(g) ==
    [bucket |-> Bucket(Group(g)), pktNum |-> GroupPktNum(Group(g)),
     devices |-> context.deviceVec, ids |-> context.allDevices,
     merged |-> [n \in DOMAIN context.allDevices |->
                    At(blockLevelDistribution, context.allDevices[n], <<>>)]]

(* Who is in the running for a group, whether alone, and what the search    *)
(* starts from.                                                             *)
IsMute(v) == Ranked(v.bucket) = {}
Running(v) == IF IsMute(v) THEN ToSet(SecondChance(v.devices)) ELSE Candidates(v.bucket)
Single(v) ==
    IF IsMute(v) THEN Len(v.devices) = 1 ELSE Cardinality(Candidates(v.bucket)) = 1
Start(v) == IF IsMute(v) THEN Unreliable ELSE Empty
WithLevels(v) == {n \in DOMAIN v.merged : v.merged[n] # <<>>}
GapIn(v, n) == Nearest(v.pktNum, v.merged[n])

(* n is as near as m, and if as near only, has no fewer votes.              *)
Beats(v, n, m) ==
    /\ GapIn(v, n) <= GapIn(v, m)
    /\ ~IsMute(v) /\ GapIn(v, n) = GapIn(v, m) => v.bucket[n] >= v.bucket[m]

(* The best of the names S that a task has compared.                        *)
BestOf(v, S, best, prediction) ==
    IF S \cap WithLevels(v) = {} THEN best = INT_MAX /\ prediction = Start(v)
    ELSE /\ prediction \in S \cap WithLevels(v)
         /\ best = GapIn(v, prediction)
         /\ \A m \in S \cap WithLevels(v) : Beats(v, prediction, m)

(* The names compared have at least the votes of those listed, and the      *)
(* list goes down.                                                          *)
InOrder(v, S, order) ==
    ~IsMute(v) =>
        /\ \A m \in S, i \in DOMAIN order : v.bucket[m] >= v.bucket[order[i]]
        /\ \A i, j \in DOMAIN order : i < j => v.bucket[order[i]] >= v.bucket[order[j]]

(* Where a task is that has compared some of the names in the running.      *)
Comparing(v, task) ==
    \E S \in SUBSET DOMAIN v.merged :
        /\ Running(v) = S \cup ToSet(task.order)
        /\ BestOf(v, S, task.best, task.prediction)
        /\ InOrder(v, S, task.order)

(* What a task may decide, by all that it sees.                             *)
Answers(v) ==
    IF Single(v) THEN Running(v)
    ELSE IF Running(v) \cap WithLevels(v) = {} THEN {Start(v)}
    ELSE {n \in Running(v) \cap WithLevels(v) :
             \A m \in Running(v) \cap WithLevels(v) : Beats(v, n, m)}

(* Who is compared with others is a device.                                 *)
Known(v) == Single(v) \/ Running(v) \subseteq DOMAIN v.merged

LookupOK(v, task) ==
    /\ task.at \in {"lookup", "compare", "thrown"} =>
          ~Single(v) /\ ToSet(task.order) \subseteq Running(v)
    /\ task.at = "compare" =>
          /\ task.order # <<>>
          /\ Head(task.order) \in DOMAIN v.ids
          /\ task.id = v.ids[Head(task.order)]
    /\ task.at = "thrown" =>
          /\ task.order # <<>>
          /\ Head(task.order) \notin DOMAIN v.ids

(* What a task has found out, as long as the map was not corrupted.         *)
ChoosingOK(v, task) ==
    /\ task.at \in {"lookup", "compare"} => Comparing(v, task)
    /\ task.at = "score" => task.prediction \in Answers(v) /\ Known(v)

PolicyOK ==
    \A t \in Threads : pool[t].at \in InGroup =>
        /\ LookupOK(View(Current(t)), pool[t])
        /\ "levels" \notin undefined => ChoosingOK(View(Current(t)), pool[t])

ChosenOK ==
    "levels" \notin undefined =>
        \A g \in DOMAIN decided : decided[g] \in Answers(View(g)) /\ Known(View(g))

(* The program exits at an output only for a decision without a device.     *)
ExitOK == main.pc = "exited" => Unprintable # {}

(* The inductive invariant.                                                 *)
IInv ==
    /\ MainOK /\ ContextOK /\ LevelsOK /\ QueueOK /\ PoolOK /\ MutexOK
    /\ DecidedOK /\ PlacedOK /\ SheetsOK /\ ErrorsOK /\ PolicyOK /\ ChosenOK /\ ExitOK

-----------------------------------------------------------------------------
(* What the experiment gives *)

(* The names of the mapping of the experiment.                              *)
DeviceNames == {line.name : line \in ToSet(Experiment.mapping)}

(* What SeriesAssumption says of the experiment at hand.                    *)
LEMMA ExperimentFacts ==
    ASSUME MainOK, Begun \/ main.experiment <= Len(main.series)
    PROVE  /\ main.series \in Series /\ IsSeq(main.series)
           /\ Experiment \in ToSet(main.series)
           /\ Experiment.epochSlotNum \in Nat \ {0}
           /\ IsSeq(Experiment.mapping)
           /\ \A a \in DOMAIN Experiment.levels : Experiment.levels[a] \in Counts \ {<<>>}
           /\ DOMAIN Experiment.levels \cup DOMAIN Testset
                \subseteq {line.addr : line \in ToSet(Experiment.mapping)}
           /\ \A a \in DOMAIN Testset :
                 /\ IsSeq(Testset[a])
                 /\ \A group \in ToSet(Testset[a]) :
                       /\ IsSeq(group)
                       /\ \A b \in ToSet(group) : IsBurst(b, Experiment.mapping)
                       /\ GroupPktNum(group) <= FLOAT_EXACT
  <1>1. PICK series \in Series : series = main.series
    BY DEF MainOK
  <1>2. IsSeq(series) /\ \A e \in ToSet(series) :
        /\ e.epochSlotNum \in Nat \ {0}
        /\ IsSeq(e.mapping)
        /\ DOMAIN e.levels \cup DOMAIN e.testset \subseteq {line.addr : line \in ToSet(e.mapping)}
        /\ \A a \in DOMAIN e.levels : e.levels[a] \in Counts \ {<<>>}
        /\ \A a \in DOMAIN e.testset :
              /\ IsSeq(e.testset[a])
              /\ \A group \in ToSet(e.testset[a]) :
                    /\ IsSeq(group)
                    /\ \A b \in ToSet(group) : IsBurst(b, e.mapping)
                    /\ GroupPktNum(group) <= FLOAT_EXACT
    BY SeriesAssumption DEF Counts
  <1>3. PICK n \in Nat : n = Len(series) /\ DOMAIN series = 1 .. n
    BY <1>2 DEF IsSeq
  <1>4. PICK i \in 1 .. n : i = main.experiment
    BY <1>1, <1>3 DEF MainOK
  <1>5. PICK e : e = Experiment
    OBVIOUS
  <1>6. e = series[i] /\ e.testset = Testset
    BY <1>1, <1>4, <1>5 DEF Experiment, Testset
  <1>7. e \in ToSet(series)
    BY <1>3, <1>6 DEF ToSet
  <1> HIDE <1>4
  <1> QED BY <1>1, <1>2, <1>5, <1>6, <1>7

(* The names of the mapping are among the names of the series, and          *)
(* finitely many.                                                           *)
LEMMA NamesFacts ==
    ASSUME MainOK, Begun \/ main.experiment <= Len(main.series)
    PROVE  DeviceNames \subseteq Names /\ IsFiniteSet(DeviceNames)
  <1>1. PICK mapping : mapping = Experiment.mapping
    OBVIOUS
  <1>2. IsSeq(mapping)
    BY <1>1, ExperimentFacts
  <1>3. PICK names : names = [i \in DOMAIN mapping |-> mapping[i].name]
    OBVIOUS
  <1>4. DeviceNames = ToSet(names)
    BY <1>1, <1>3 DEF DeviceNames, ToSet
  <1>5. IsSeq(names)
    <2>1. PICK n \in Nat : DOMAIN mapping = 1 .. n
      BY <1>2 DEF IsSeq
    <2>2. names = [i \in 1 .. n |-> names[i]] /\ \A i \in 1 .. n : names[i] \in ToSet(names)
      BY <1>3, <2>1 DEF ToSet
    <2>3. names \in [1 .. n -> ToSet(names)]
      BY <2>2
    <2> QED BY <2>3 DEF IsSeq
  <1>6. DeviceNames \subseteq Names
    <2>1. Experiment \in ToSet(main.series) /\ main.series \in Series
      BY ExperimentFacts
    <2> QED BY <2>1 DEF DeviceNames, Names
  <1> QED BY <1>4, <1>5, <1>6, SeqFinite

(* A group of the test set is of one of its devices, and its votes are      *)
(* whole.                                                                   *)
LEMMA GroupFacts ==
    ASSUME MainOK, Begun, NEW g \in Groups(DOMAIN Testset)
    PROVE  /\ g[1] \in DOMAIN Testset
           /\ g[2] \in Nat \ {0}
           /\ g[2] <= Len(Testset[g[1]])
           /\ g = <<g[1], g[2]>>
           /\ Bucket(Group(g)) \in Votes(DeviceNames)
           /\ GroupPktNum(Group(g)) \in 0 .. FLOAT_EXACT
  <1>1. PICK a \in DOMAIN Testset : \E i \in DOMAIN Testset[a] : g = <<a, i>>
    BY DEF Groups
  <1>2. PICK i \in DOMAIN Testset[a] : g = <<a, i>>
    BY <1>1
  <1>3. PICK groups : groups = Testset[a]
    OBVIOUS
  <1>4. IsSeq(groups) /\ \A group \in ToSet(groups) :
            /\ IsSeq(group)
            /\ \A b \in ToSet(group) : IsBurst(b, Experiment.mapping)
            /\ GroupPktNum(group) <= FLOAT_EXACT
    BY <1>3, ExperimentFacts
  <1>5. PICK n \in Nat : n = Len(groups) /\ DOMAIN groups = 1 .. n
    BY <1>4 DEF IsSeq
  <1>6. PICK group \in ToSet(groups) : group = Group(g)
    BY <1>2, <1>3 DEF Group, ToSet
  <1>7. \A b \in ToSet(group) : /\ b.pktNum \in Nat
                                /\ b.names \subseteq DeviceNames
                                /\ Vote(b.uniPktNum, Cardinality(b.names), b.distance) \in Int
    BY <1>4 DEF IsBurst, DeviceNames
  <1>8. Bucket(group) \in Votes(DeviceNames)
    BY <1>4, <1>7, BucketFacts
  <1>9. GroupPktNum(group) \in Nat /\ GroupPktNum(group) <= FLOAT_EXACT
    BY <1>4, <1>7, GroupPktNumFacts
  <1>10. g[1] = a /\ g[2] = i /\ i \in Nat \ {0} /\ i <= n
    BY <1>2, <1>3, <1>5
  <1>11. GroupPktNum(group) \in 0 .. FLOAT_EXACT
    BY <1>9, Limits
  <1> QED BY <1>2, <1>3, <1>5, <1>6, <1>8, <1>10, <1>11

(* Who is in the running for a group.                                       *)
LEMMA RunningFacts ==
    ASSUME MainOK, ContextOK, Begun, NEW g \in Groups(DOMAIN Testset), NEW v, v = View(g)
    PROVE  /\ Running(v) \subseteq Predictions \ {Unreliable, Empty}
           /\ ~IsMute(v) => /\ Running(v) # {}
                            /\ Running(v) \subseteq DOMAIN v.merged
                            /\ IsFiniteSet(Candidates(v.bucket))
                            /\ \A n \in Running(v) : v.bucket[n] \in Int
           /\ IsMute(v) => Running(v) = {Type(n) : n \in ToSet(context.deviceVec)}
           /\ DOMAIN v.merged = DOMAIN context.allDevices
           /\ v.ids = context.allDevices
           /\ v.devices = context.deviceVec
  <1>1. v.bucket = Bucket(Group(g)) /\ v.devices = context.deviceVec
        /\ v.ids = context.allDevices /\ DOMAIN v.merged = DOMAIN context.allDevices
    BY DEF View
  <1>2. v.bucket \in Votes(DeviceNames)
    BY <1>1, GroupFacts
  <1>3. \A n \in Names : n \notin {Unreliable, Empty} /\ Type(n) \notin {Unreliable, Empty}
    BY NamesAssumption
  <1>4. \A n \in Names : n \in Predictions /\ Type(n) \in Predictions
    BY DEF Predictions
  <1>5. CASE ~IsMute(v)
    <2>1. Running(v) = Candidates(v.bucket) /\ Ranked(v.bucket) # {}
      BY <1>5 DEF Running, IsMute
    <2>2. Running(v) # {} /\ Running(v) \subseteq DeviceNames /\ IsFiniteSet(Candidates(v.bucket))
          /\ \A n \in Running(v) : v.bucket[n] \in Int
      BY <1>2, <2>1, NamesFacts, CandidatesFacts
    <2>3. DeviceNames \subseteq DOMAIN context.allDevices
      BY DEF ContextOK, DeviceNames
    <2>4. DeviceNames \subseteq Names
      BY NamesFacts
    <2> QED BY <1>1, <1>3, <1>4, <1>5, <2>2, <2>3, <2>4
  <1>6. CASE IsMute(v)
    <2>1. Running(v) = ToSet(SecondChance(v.devices))
      BY <1>6 DEF Running
    <2>2. v.devices \in Seq(Names)
      BY <1>1 DEF ContextOK
    <2>3. Running(v) = {Type(n) : n \in ToSet(v.devices)}
      BY <2>1, <2>2, SecondChanceFacts
    <2>4. ToSet(v.devices) \subseteq Names
      <3>1. PICK s : s = v.devices
        OBVIOUS
      <3>2. s \in Seq(Names)
        BY <2>2, <3>1
      <3>3. \A i \in DOMAIN s : s[i] \in Names
        BY <3>2
      <3> QED BY <3>1, <3>3 DEF ToSet
    <2> QED BY <1>1, <1>3, <1>4, <1>6, <2>3, <2>4
  <1> QED BY <1>5, <1>6

(* How near the training groups of a name are.                              *)
LEMMA GapFacts ==
    ASSUME MainOK, LevelsOK, Begun, NEW g \in Groups(DOMAIN Testset), NEW v, v = View(g),
           NEW n \in DOMAIN v.merged
    PROVE  /\ GapIn(v, n) \in Nat
           /\ n \in WithLevels(v) => GapIn(v, n) < INT_MAX
           /\ n \notin WithLevels(v) => GapIn(v, n) = INT_MAX
  <1>1. v.pktNum \in 0 .. FLOAT_EXACT
    BY GroupFacts DEF View
  <1>2. v.merged[n] \in Counts
    <2>1. n \in DOMAIN context.allDevices
          /\ v.merged[n] = At(blockLevelDistribution, context.allDevices[n], <<>>)
      BY DEF View
    <2>2. <<>> \in Counts
      BY DEF Counts
    <2> QED BY <2>1, <2>2 DEF At, LevelsOK
  <1>3. PICK num \in 0 .. FLOAT_EXACT : num = v.pktNum
    BY <1>1
  <1>4. PICK merged \in Counts : merged = v.merged[n]
    BY <1>2
  <1>5. /\ Nearest(num, merged) \in Nat
        /\ merged = <<>> => Nearest(num, merged) = INT_MAX
        /\ merged # <<>> => Nearest(num, merged) < INT_MAX
    <2>1. merged \in Seq(0 .. FLOAT_EXACT)
      BY <1>4 DEF Counts
    <2> QED BY <1>3, <2>1, NearestFacts
  <1>6. n \in WithLevels(v) <=> merged # <<>>
    BY <1>4 DEF WithLevels
  <1> QED BY <1>3, <1>4, <1>5, <1>6 DEF GapIn

(* The type of a prediction is that of no prediction only for that.         *)
LEMMA PredictionTypes ==
    ASSUME NEW p \in Predictions
    PROVE  Type(p) = Unreliable <=> p = Unreliable
  BY NamesAssumption DEF Predictions

-----------------------------------------------------------------------------
(* What a step leaves as it is *)

(* The step stays in its experiment and leaves the devices alone.           *)
SameRun ==
    main'.series = main.series /\ main'.experiment = main.experiment /\ context' = context

(* Then the data set, its groups and their true types are as before.        *)
LEMMA SameRunFacts ==
    ASSUME SameRun
    PROVE  /\ Experiment' = Experiment /\ Testset' = Testset
           /\ Groups(DOMAIN Testset)' = Groups(DOMAIN Testset)
           /\ Kept' = Kept
           /\ \A g : Group(g)' = Group(g) /\ TrueType(g)' = TrueType(g)
           /\ \A a : NameOf(a)' = NameOf(a)
  <1>1. Experiment' = Experiment /\ Testset' = Testset
    BY DEF SameRun, Experiment, Testset
  <1>2. Groups(DOMAIN Testset)' = Groups(DOMAIN Testset)
    BY <1>1 DEF Groups
  <1>3. \A g : Group(g)' = Group(g)
    BY <1>1 DEF Group
  <1>4. Kept' = Kept
    BY <1>2, <1>3 DEF Kept
  <1>5. \A a : NameOf(a)' = NameOf(a)
    BY DEF SameRun, NameOf
  <1>6. \A g : TrueType(g)' = TrueType(g)
    BY <1>5 DEF TrueType
  <1> QED BY <1>1, <1>2, <1>3, <1>4, <1>5, <1>6

(* Reading the levels of a device gives what it gave before, created or     *)
(* not.                                                                     *)
SameLevels ==
    \A i : At(blockLevelDistribution', i, <<>>) = At(blockLevelDistribution, i, <<>>)

(* Then what a decision for a group depends on is as before.                *)
LEMMA SameView ==
    ASSUME SameRun
    PROVE  /\ SameLevels => \A g : View(g)' = View(g)
           /\ \A g : /\ View(g).bucket' = View(g).bucket
                     /\ View(g).devices' = View(g).devices
                     /\ View(g).ids' = View(g).ids
  <1>1. \A g : Group(g)' = Group(g)
    BY SameRunFacts
  <1>2. context' = context
    BY DEF SameRun
  <1>3. ASSUME SameLevels, NEW g PROVE View(g)' = View(g)
    <2>1. \A n : At(blockLevelDistribution', context'.allDevices[n], <<>>)
                   = At(blockLevelDistribution, context.allDevices[n], <<>>)
      BY <1>2, <1>3 DEF SameLevels
    <2>2. View(g).merged' = View(g).merged
      BY <1>2, <2>1 DEF View
    <2> QED BY <1>1, <1>2, <2>1 DEF View
  <1> QED BY <1>1, <1>2, <1>3 DEF View

(* Looking up does not depend on the groups merged in training.             *)
LEMMA LookupFrame ==
    ASSUME NEW v, NEW w, NEW task, LookupOK(v, task),
           v.bucket = w.bucket, v.devices = w.devices, v.ids = w.ids
    PROVE  LookupOK(w, task)
  <1>1. (Single(v) <=> Single(w)) /\ Running(v) = Running(w)
    BY DEF Single, Running, IsMute
  <1> QED BY <1>1 DEF LookupOK

(* An id that is inserted without groups changes no comparison.             *)
LEMMA MapMono ==
    ASSUME NEW id
    PROVE  \A i : At(Insert(blockLevelDistribution, id, <<>>), i, <<>>)
                    = At(blockLevelDistribution, i, <<>>)
  BY DEF At, Insert, Put

(* A thread that leaves a group with enough packets has decided it.         *)
Moves(t, g, running, then, devices, done, after, kept) ==
    /\ \A u \in Threads : u # t => then[u] = running[u]
    /\ Holds(then[t], g) => Holds(running[t], g)
    /\ Holds(running[t], g) => g[1] \notin devices
    /\ g \in done => g \in after
    /\ g \in after => g \in done \/ (Holds(running[t], g) /\ ~Holds(then[t], g))
    /\ Holds(running[t], g) /\ ~Holds(then[t], g) /\ g \in kept => g \in after

(* A group keeps its places when one thread moves on as Moves says.         *)
LEMMA PlaceStep ==
    ASSUME NEW g, NEW waiting, NEW running, NEW then, NEW devices, NEW done, NEW after, NEW kept,
           NEW t \in Threads,
           OnePlace(g, waiting, running, devices, done, kept),
           Moves(t, g, running, then, devices, done, after, kept)
    PROVE  OnePlace(g, waiting, then, devices, after, kept)
  <1> USE DEF Moves
  <1>1. \A u \in Threads : Holds(then[u], g) => Holds(running[u], g)
    OBVIOUS
  <1>2. \A u \in Threads : Holds(running[u], g) => Holds(then[u], g) \/ u = t
    OBVIOUS
  <1>3. \A k, l \in DOMAIN waiting : Has(waiting[k], g) /\ Has(waiting[l], g) => k = l
    BY DEF OnePlace
  <1>4. \A k \in DOMAIN waiting : \A u \in Threads : ~(Has(waiting[k], g) /\ Holds(then[u], g))
    BY <1>1 DEF OnePlace
  <1>5. \A u, w \in Threads : Holds(then[u], g) /\ Holds(then[w], g) => u = w
    BY <1>1 DEF OnePlace
  <1>6. ASSUME g \in after
        PROVE  /\ g[1] \notin devices
               /\ \A k \in DOMAIN waiting : ~Has(waiting[k], g)
               /\ \A u \in Threads : ~Holds(then[u], g)
    <2>1. CASE g \in done
      BY <1>1, <2>1 DEF OnePlace
    <2>2. CASE Holds(running[t], g) /\ ~Holds(then[t], g)
      BY <1>1, <2>2 DEF OnePlace
    <2> QED BY <1>6, <2>1, <2>2
  <1>7. ASSUME g \in kept
        PROVE  \/ g \in after
               \/ g[1] \in devices
               \/ \E k \in DOMAIN waiting : Has(waiting[k], g)
               \/ \E u \in Threads : Holds(then[u], g)
    BY <1>2, <1>7 DEF OnePlace
  <1> QED BY <1>3, <1>4, <1>5, <1>6, <1>7 DEF OnePlace

(* A worker may end the process, and leaves the main thread alone apart     *)
(* from that.                                                               *)
LeavesMain == main' \in {main, [main EXCEPT !.pc = "terminated"]} /\ context' = context

LEMMA LeavesMainFacts ==
    ASSUME MainOK, ContextOK, ~Resting, LeavesMain
    PROVE  /\ MainOK' /\ ContextOK' /\ SameRun /\ Begun /\ Begun' /\ ~Resting'
           /\ main'.devices = main.devices
           /\ ExitOK'
  <1>1. Begun
    BY DEF Begun, Resting
  <1>2. main.pc \in {"predict", "terminated"}
    BY DEF Resting, MainOK
  <1>3. /\ main' = [pc |-> main'.pc, series |-> main.series, experiment |-> main.experiment,
                   devices |-> main.devices]
        /\ main'.pc \in {"predict", "terminated"}
    BY <1>2 DEF LeavesMain, MainOK
  <1>4. SameRun /\ main'.devices = main.devices
    BY <1>3 DEF SameRun, LeavesMain
  <1>5. Begun' /\ ~Resting' /\ ExitOK'
    BY <1>3 DEF Begun, Resting, ExitOK
  <1>6. Testset' = Testset /\ Experiment' = Experiment
    BY <1>4, SameRunFacts
  <1>7. MainOK'
    BY <1>1, <1>3, <1>4, <1>5, <1>6 DEF MainOK
  <1>8. ContextOK'
    BY <1>1, <1>4, <1>6 DEF ContextOK, LeavesMain
  <1> QED BY <1>1, <1>4, <1>5, <1>7, <1>8

(* The tally of the decisions depends on nothing else.                      *)
LEMMA SameDecisions ==
    ASSUME SameRun, decided' = decided
    PROVE  /\ \A g : Verdict(g)' = Verdict(g)
           /\ \A verdict : Decided(verdict)' = Decided(verdict)
           /\ \A type : Row(type)' = Row(type)
  <1>1. \A g : TrueType(g)' = TrueType(g)
    BY SameRunFacts
  <1>2. \A g : Verdict(g)' = Verdict(g)
    BY <1>1 DEF Verdict
  <1>3. \A verdict : Decided(verdict)' = Decided(verdict)
    BY <1>2 DEF Decided
  <1>4. \A verdict, type : Tally(verdict, type)' = Tally(verdict, type)
    BY <1>1, <1>2 DEF Tally
  <1> QED BY <1>2, <1>3, <1>4 DEF Row, Against

(* Where a thread is, and what it sees of the group there.                  *)
LEMMA ViewHere ==
    ASSUME NEW t, NEW g, Current(t)' = g
    PROVE  View(Current(t))' = View(g)'
  <1>1. Group(Current(t))' = Group(g)'
    BY DEF Group
  <1> QED BY <1>1 DEF View

(* Only thread t has changed.                                               *)
LEMMA MovesFacts ==
    ASSUME PoolOK, NEW t \in Threads, NEW r, pool' = [pool EXCEPT ![t] = r]
    PROVE  /\ pool' = [u \in Threads |-> pool'[u]]
           /\ pool'[t] = r
           /\ \A u \in Threads : u # t => pool'[u] = pool[u]
  <1>1. pool' = [u \in Threads |-> IF u = t THEN r ELSE pool[u]]
    BY DEF PoolOK
  <1> QED BY <1>1

(* A thread moves: what holds of the others stays.                          *)
LEMMA PoolStep ==
    ASSUME PoolOK, ~Resting, ~Resting', SameRun, main'.devices = main.devices,
           NEW t \in Threads, NEW r, pool' = [pool EXCEPT ![t] = r],
           TaskOK(r, Testset, main.devices, FALSE)
    PROVE  PoolOK'
  <1>1. Testset' = Testset
    BY SameRunFacts
  <1>2. ASSUME NEW u \in Threads
        PROVE  TaskOK(pool'[u], Testset', main'.devices, Resting')
    <2>1. CASE u = t
      <3>1. pool'[u] = r
        BY <2>1, MovesFacts
      <3> QED BY <1>1, <3>1 DEF TaskOK
    <2>2. CASE u # t
      <3>1. pool'[u] = pool[u]
        BY <2>2, MovesFacts
      <3>2. TaskOK(pool[u], Testset, main.devices, Resting)
        BY DEF PoolOK
      <3> QED BY <1>1, <3>1, <3>2 DEF TaskOK
    <2> QED BY <2>1, <2>2
  <1>3. pool' = [u \in Threads |-> pool'[u]]
    BY MovesFacts
  <1> QED BY <1>2, <1>3 DEF PoolOK

(* The queue is as good as it was when nobody touches it.                   *)
LEMMA QueueStep ==
    ASSUME QueueOK, ~Resting', SameRun, main'.devices = main.devices, queue' = queue
    PROVE  QueueOK'
  <1>1. Testset' = Testset
    BY SameRunFacts
  <1> QED BY <1>1 DEF QueueOK

(* What the others have found out still holds.                              *)
LEMMA PolicyStep ==
    ASSUME PolicyOK, PoolOK, SameRun, SameLevels \/ "levels" \in undefined',
           undefined \subseteq undefined',
           NEW t \in Threads, NEW r, pool' = [pool EXCEPT ![t] = r],
           r.at \in InGroup =>
              /\ LookupOK(View(<<r.addr, r.next>>), r)
              /\ "levels" \notin undefined' => ChoosingOK(View(<<r.addr, r.next>>), r)
    PROVE  PolicyOK'
  <1> SUFFICES ASSUME NEW u \in Threads, pool'[u].at \in InGroup
               PROVE  /\ LookupOK(View(Current(u))', pool'[u])
                      /\ "levels" \notin undefined' => ChoosingOK(View(Current(u))', pool'[u])
    BY DEF PolicyOK
  <1>1. PICK g : g = Current(u)'
    OBVIOUS
  <1>2. PICK task : task = pool'[u]
    OBVIOUS
  <1>3. PICK w : w = View(g)'
    OBVIOUS
  <1>4. w = View(Current(u))'
    BY <1>1, <1>3, ViewHere
  <1>5. PICK v : v = View(g)
    OBVIOUS
  <1>6. v.bucket = w.bucket /\ v.devices = w.devices /\ v.ids = w.ids
    <2>1. View(g).bucket' = View(g).bucket /\ View(g).devices' = View(g).devices
          /\ View(g).ids' = View(g).ids
      BY SameView
    <2> QED BY <1>3, <1>5, <2>1
  <1>7. SameLevels => w = v
    BY <1>3, <1>5, SameView
  <1>8. g = <<task.addr, task.next>>
    BY <1>1, <1>2 DEF Current
  <1>9. LookupOK(v, task) /\ ("levels" \notin undefined' => ChoosingOK(v, task))
    <2>1. CASE u = t
      <3>1. task = r
        BY <1>2, <2>1, MovesFacts
      <3> QED BY <1>2, <1>5, <1>8, <3>1
    <2>2. CASE u # t
      <3>1. task = pool[u]
        BY <1>2, <2>2, MovesFacts
      <3>2. g = Current(u)
        BY <1>8, <3>1 DEF Current
      <3> QED BY <1>2, <1>5, <3>1, <3>2 DEF PolicyOK
    <2> QED BY <2>1, <2>2
  <1>10. LookupOK(w, task)
    BY <1>6, <1>9, LookupFrame
  <1>11. "levels" \notin undefined' => ChoosingOK(w, task)
    BY <1>7, <1>9
  <1> QED BY <1>2, <1>4, <1>10, <1>11

(* Nor does what has been decided change.                                   *)
LEMMA ChosenStep ==
    ASSUME ChosenOK, SameRun, SameLevels \/ "levels" \in undefined',
           undefined \subseteq undefined', decided' = decided
    PROVE  ChosenOK'
  <1>1. SameLevels => \A g : View(g)' = View(g)
    BY SameView
  <1> QED BY <1>1 DEF ChosenOK

(* The sheets still add up when nothing is decided.                         *)
LEMMA SheetsStep ==
    ASSUME SheetsOK, SameRun, Begun, main'.devices = main.devices, UNCHANGED <<sheet, decided>>
    PROVE  SheetsOK'
  <1>1. (\A verdict : Decided(verdict)' = Decided(verdict)) /\ (\A type : Row(type)' = Row(type))
    BY SameDecisions
  <1>2. Testset' = Testset /\ \A a : NameOf(a)' = NameOf(a)
    BY SameRunFacts
  <1> QED BY <1>1, <1>2 DEF SheetsOK

(* A step of a thread that decides nothing and lists nothing.               *)
LEMMA UncountedStep ==
    ASSUME IInv, NEW t \in Threads, NEW r, pool' = [pool EXCEPT ![t] = r],
           ~Resting, LeavesMain,
           UNCHANGED <<mutex, sheet, m_ErrBurstGroups, decided>>,
           QueueOK', PlacedOK', LevelsOK', undefined \subseteq undefined',
           "errors" \in undefined' => "errors" \in undefined,
           SameLevels \/ "levels" \in undefined',
           pool[t].at # "push", r.at # "push",
           TaskOK(r, Testset, main.devices, FALSE),
           r.at \in InGroup =>
              /\ LookupOK(View(<<r.addr, r.next>>), r)
              /\ "levels" \notin undefined' => ChoosingOK(View(<<r.addr, r.next>>), r)
    PROVE  IInv'
  <1>1. /\ MainOK' /\ ContextOK' /\ SameRun /\ Begun /\ Begun' /\ ~Resting'
        /\ main'.devices = main.devices /\ ExitOK'
    BY LeavesMainFacts DEF IInv
  <1>2. PoolOK'
    BY <1>1, PoolStep DEF IInv
  <1>3. pool'[t] = r /\ \A u \in Threads : u # t => pool'[u] = pool[u]
    BY MovesFacts DEF IInv
  <1>4. MutexOK'
    <2>1. NoThread \notin Threads
      BY MutexAssumption
    <2> QED BY <1>3, <2>1 DEF IInv, MutexOK
  <1>5. DecidedOK'
    BY <1>1 DEF IInv, DecidedOK
  <1>7. SheetsOK'
    BY <1>1, SheetsStep DEF IInv
  <1>8. ErrorsOK'
    <2>1. \A g : Verdict(g)' = Verdict(g)
      BY <1>1, SameDecisions
    <2>2. \A u \in Threads : pool'[u].at = "push" => pool'[u] = pool[u]
      BY <1>3
    <2>3. \A u \in Threads : pool[u].at = "push" => pool'[u] = pool[u]
      BY <1>3
    <2>4. \A g : AtPush(g)' <=> AtPush(g)
      BY <2>2, <2>3 DEF AtPush, Current
    <2>5. ASSUME NEW u \in Threads, pool'[u].at = "push"
          PROVE  Current(u)' \in DOMAIN decided /\ Verdict(Current(u))' # "right"
      <3>1. pool[u].at = "push" /\ pool'[u] = pool[u]
        BY <2>2, <2>5
      <3>2. PICK g : g = Current(u)
        OBVIOUS
      <3>3. Current(u)' = g
        BY <3>1, <3>2 DEF Current
      <3>4. g \in DOMAIN decided /\ Verdict(g) # "right"
        BY <3>1, <3>2 DEF IInv, ErrorsOK
      <3>5. Verdict(Current(u))' = Verdict(g)'
        BY <3>3 DEF Verdict, TrueType
      <3> QED BY <2>1, <3>3, <3>4, <3>5
    <2>6. Begun' /\ "errors" \notin undefined' =>
             m_ErrBurstGroups' =
                 [g \in {h \in DOMAIN decided' : Verdict(h)' # "right" /\ ~AtPush(h)'} |-> 1]
      <3>1. {h \in DOMAIN decided' : Verdict(h)' # "right" /\ ~AtPush(h)'}
              = {h \in DOMAIN decided : Verdict(h) # "right" /\ ~AtPush(h)}
        BY <2>1, <2>4
      <3> QED BY <1>1, <3>1 DEF IInv, ErrorsOK
    <2> QED BY <2>5, <2>6 DEF ErrorsOK
  <1>9. PolicyOK'
    BY <1>1, PolicyStep DEF IInv
  <1>10. ChosenOK'
    BY <1>1, ChosenStep DEF IInv
  <1> QED BY <1>1, <1>2, <1>4, <1>5, <1>7, <1>8, <1>9, <1>10 DEF IInv

(* A step of a thread that is not counting its group.                       *)
LEMMA QuietStep ==
    ASSUME IInv, NEW t \in Threads, NEW r, pool' = [pool EXCEPT ![t] = r],
           ~Resting, LeavesMain,
           UNCHANGED <<queue, mutex, sheet, m_ErrBurstGroups, decided>>,
           LevelsOK', undefined \subseteq undefined',
           "errors" \in undefined' => "errors" \in undefined,
           SameLevels \/ "levels" \in undefined',
           pool[t].at # "push", r.at # "push",
           TaskOK(r, Testset, main.devices, FALSE),
           \A g \in Groups(DOMAIN Testset) :
              /\ Holds(r, g) => Holds(pool[t], g)
              /\ Holds(pool[t], g) /\ g \in Kept => Holds(r, g),
           r.at \in InGroup =>
              /\ LookupOK(View(<<r.addr, r.next>>), r)
              /\ "levels" \notin undefined' => ChoosingOK(View(<<r.addr, r.next>>), r)
    PROVE  IInv'
  <1>1. /\ MainOK' /\ ContextOK' /\ SameRun /\ Begun /\ Begun' /\ ~Resting'
        /\ main'.devices = main.devices /\ ExitOK'
    BY LeavesMainFacts DEF IInv
  <1>2. QueueOK'
    BY <1>1, QueueStep DEF IInv
  <1>3. pool'[t] = r /\ \A u \in Threads : u # t => pool'[u] = pool[u]
    BY MovesFacts DEF IInv
  <1>4. PlacedOK'
    <2>1. Groups(DOMAIN Testset)' = Groups(DOMAIN Testset) /\ Kept' = Kept
      BY <1>1, SameRunFacts
    <2>2. ASSUME NEW g \in Groups(DOMAIN Testset)
          PROVE  OnePlace(g, queue, pool', main.devices, DOMAIN decided, Kept)
      <3>1. OnePlace(g, queue, pool, main.devices, DOMAIN decided, Kept)
        BY <1>1 DEF IInv, PlacedOK
      <3>2. Holds(pool[t], g) => g[1] \notin main.devices
        BY DEF IInv, PoolOK, TaskOK, Holds
      <3>3. Holds(pool'[t], g) => Holds(pool[t], g)
        BY <1>3
      <3>4. Holds(pool[t], g) /\ ~Holds(pool'[t], g) /\ g \in Kept => g \in DOMAIN decided
        BY <1>3
      <3>5. Moves(t, g, pool, pool', main.devices, DOMAIN decided, DOMAIN decided, Kept)
        BY <1>3, <3>2, <3>3, <3>4 DEF Moves
      <3> QED BY <3>1, <3>5, PlaceStep
    <2>3. DOMAIN decided \subseteq Kept
      BY <1>1 DEF IInv, PlacedOK
    <2> QED BY <1>1, <2>1, <2>2, <2>3 DEF PlacedOK
  <1> QED BY <1>2, <1>4, UncountedStep

-----------------------------------------------------------------------------
(* A task up to its decision *)

(* A task that has got to a group is at one of the test set.                *)
LEMMA AtGroup ==
    ASSUME IInv, NEW t \in Threads, pool[t].at # "idle", pool[t].next <= pool[t].last
    PROVE  /\ ~Resting /\ Begun
           /\ Current(t) \in Groups(DOMAIN Testset)
           /\ Holds(pool[t], Current(t)) <=> pool[t].at # "push"
  <1>1. ~Resting /\ PlacesOK(pool[t], Testset)
    BY DEF IInv, PoolOK, TaskOK
  <1>2. Begun
    BY <1>1 DEF Begun, Resting
  <1>3. PICK a \in DOMAIN Testset : a = pool[t].addr
    BY <1>1 DEF PlacesOK
  <1>4. PICK i \in Nat \ {0} : i = pool[t].next
    BY <1>1 DEF PlacesOK
  <1>5. PICK groups : groups = Testset[a]
    OBVIOUS
  <1>6. IsSeq(groups)
    BY <1>2, <1>5, ExperimentFacts DEF IInv
  <1>7. PICK n \in Nat : n = Len(groups) /\ DOMAIN groups = 1 .. n
    BY <1>6 DEF IsSeq
  <1>8. i \in 1 .. n
    <2>1. pool[t].last \in Nat /\ pool[t].last <= n
      BY <1>1, <1>3, <1>5, <1>7 DEF PlacesOK
    <2> QED BY <1>4, <2>1
  <1>9. Current(t) = <<a, i>>
    BY <1>3, <1>4 DEF Current
  <1>10. Current(t) \in Groups(DOMAIN Testset)
    BY <1>3, <1>5, <1>7, <1>8, <1>9 DEF Groups
  <1>11. Holds(pool[t], Current(t)) <=> pool[t].at # "push"
    <2>1. Current(t)[1] = pool[t].addr /\ Current(t)[2] = i
      BY <1>3, <1>9
    <2>2. CASE pool[t].at = "push"
      <3>1. First(pool[t]) = i + 1 /\ ~(i + 1 <= i)
        BY <1>4, <2>2 DEF First
      <3> QED BY <2>1, <2>2, <3>1 DEF Holds
    <2>3. CASE pool[t].at # "push"
      BY <1>4, <2>1, <2>3 DEF Holds, First
    <2> QED BY <2>2, <2>3
  <1> QED BY <1>1, <1>2, <1>10, <1>11

(* It stays at its group while it ranks, looks up and compares.             *)
Typed(r) == r.order \in Seq(Predictions) /\ r.prediction \in Predictions

(* The task stays where it was.                                             *)
SameGroup(task, r) == r.addr = task.addr /\ r.next = task.next /\ r.last = task.last

(* The places of a thread that has not decided yet.                         *)
Deciders == InGroup \ {"push"}

(* A task that stays with its group has the groups it had.                  *)
LEMMA StaysInGroup ==
    ASSUME IInv, NEW t \in Threads, pool[t].at \in Deciders,
           NEW r, r.at \in Deciders, SameGroup(pool[t], r), Typed(r)
    PROVE  /\ TaskOK(r, Testset, main.devices, FALSE)
           /\ \A g : Holds(r, g) <=> Holds(pool[t], g)
           /\ <<r.addr, r.next>> = Current(t)
  <1>1. r.addr = pool[t].addr /\ r.next = pool[t].next /\ r.last = pool[t].last
    BY DEF SameGroup
  <1>2. TaskOK(pool[t], Testset, main.devices, Resting)
    BY DEF IInv, PoolOK
  <1>3. r.at # "idle" /\ r.at # "push" /\ pool[t].at # "idle" /\ pool[t].at # "push"
        /\ r.at \in InGroup /\ pool[t].at \in InGroup
    BY DEF InGroup, Deciders
  <1>4. r # Idle
    BY <1>1, <1>3 DEF Idle
  <1>5. PlacesOK(r, Testset)
    BY <1>1, <1>2, <1>3 DEF TaskOK, PlacesOK
  <1>6. TaskOK(r, Testset, main.devices, FALSE)
    <2>1. r.at \in {"idle", "group"} \cup InGroup /\ r.addr \notin main.devices
      BY <1>1, <1>2, <1>3 DEF TaskOK
    <2>2. /\ r.next <= r.last
          /\ GroupPktNum(Testset[r.addr][r.next]) >= MIN_BLOCK_PKTNUM
      BY <1>1, <1>2, <1>3 DEF TaskOK
    <2> QED BY <1>3, <1>4, <1>5, <2>1, <2>2 DEF TaskOK, Typed
  <1>7. \A g : Holds(r, g) <=> Holds(pool[t], g)
    BY <1>1, <1>3 DEF Holds, First
  <1> QED BY <1>1, <1>6, <1>7 DEF Current

(* What Deciding sets, and what it keeps.                                   *)
LEMMA DecidingFields ==
    ASSUME NEW task, NEW at, NEW order, NEW prediction, NEW best, NEW id
    PROVE  LET r == Deciding(task, at, order, prediction, best, id)
           IN  /\ r.at = at /\ r.order = order /\ r.prediction = prediction
               /\ r.best = best /\ r.id = id
               /\ SameGroup(task, r)
  BY DEF Deciding, SameGroup

(* NextGroup keeps the invariant, whether the thread leaves its task,       *)
(* skips a group with few packets or goes into the next one.                *)
LEMMA NextGroupStep ==
    ASSUME IInv, NEW t \in Threads, NextGroup(t)
    PROVE  IInv'
  <1>1. PICK task : task = pool[t]
    OBVIOUS
  <1>2. PICK g : g = <<task.addr, task.next>>
    OBVIOUS
  <1>3. PICK r : /\ pool' = [pool EXCEPT ![t] = r]
                 /\ r = IF task.next > task.last THEN Idle
                        ELSE IF GroupPktNum(Group(g)) < MIN_BLOCK_PKTNUM
                        THEN [at |-> "group", addr |-> task.addr, next |-> task.next + 1,
                              last |-> task.last]
                        ELSE Deciding(task, "rank", <<>>, Empty, INT_MAX, 0)
    BY <1>1, <1>2 DEF NextGroup
  <1>4. task.at = "group"
    BY <1>1 DEF NextGroup
  <1>5. /\ TaskOK(task, Testset, main.devices, Resting)
        /\ ~Resting /\ PlacesOK(task, Testset) /\ task.addr \notin main.devices
    BY <1>1, <1>4 DEF IInv, PoolOK, TaskOK
  <1>6. Begun
    BY <1>5 DEF Begun, Resting
  <1>7. LeavesMain
    BY DEF NextGroup, LeavesMain
  <1>8. UNCHANGED <<queue, mutex, sheet, m_ErrBurstGroups, decided, undefined>>
        /\ SameLevels /\ LevelsOK'
    BY DEF NextGroup, IInv, LevelsOK, SameLevels
  <1>9. PICK i \in Nat \ {0} : i = task.next
    BY <1>5 DEF PlacesOK
  <1>10. PICK last \in Nat : last = task.last
    BY <1>5 DEF PlacesOK
  <1>11. ASSUME NEW h \in Groups(DOMAIN Testset)
         PROVE  /\ h[2] \in Nat
                /\ h = <<h[1], h[2]>>
                /\ Holds(task, h) <=> (task.addr = h[1] /\ i <= h[2] /\ h[2] <= last)
    BY <1>4, <1>6, <1>9, <1>10, GroupFacts DEF Holds, First, IInv
  <1>12. /\ r.at # "push"
         /\ TaskOK(r, Testset, main.devices, FALSE)
         /\ \A h \in Groups(DOMAIN Testset) :
               /\ Holds(r, h) => Holds(task, h)
               /\ Holds(task, h) /\ h \in Kept => Holds(r, h)
         /\ r.at \in InGroup => r.at = "rank"
    <2>1. CASE task.next > task.last
      <3>1. r = Idle /\ r.at = "idle"
        BY <1>3, <2>1 DEF Idle
      <3>2. TaskOK(r, Testset, main.devices, FALSE)
        BY <3>1 DEF TaskOK, InGroup
      <3>3. \A h \in Groups(DOMAIN Testset) : ~Holds(r, h) /\ ~Holds(task, h)
        <4>1. \A h \in Groups(DOMAIN Testset) : ~Holds(r, h)
          BY <3>1 DEF Holds
        <4>2. i > last
          BY <1>9, <1>10, <2>1
        <4>3. \A h \in Groups(DOMAIN Testset) : ~(i <= h[2] /\ h[2] <= last)
          BY <1>11, <4>2
        <4> QED BY <1>11, <4>1, <4>3
      <3> QED BY <3>1, <3>2, <3>3 DEF InGroup
    <2>2. CASE ~(task.next > task.last) /\ GroupPktNum(Group(g)) < MIN_BLOCK_PKTNUM
      <3>1. r = [at |-> "group", addr |-> task.addr, next |-> i + 1, last |-> last]
        BY <1>3, <1>9, <1>10, <2>2
      <3>2. r.at = "group" /\ r.addr = task.addr /\ r.next = i + 1 /\ r.last = last
        BY <3>1
      <3>3. r # Idle
        BY <3>2 DEF Idle
      <3>4. PlacesOK(r, Testset)
        BY <1>5, <1>9, <1>10, <3>2 DEF PlacesOK
      <3>5. TaskOK(r, Testset, main.devices, FALSE)
        BY <1>5, <3>2, <3>3, <3>4 DEF TaskOK, InGroup
      <3>6. ASSUME NEW h \in Groups(DOMAIN Testset)
            PROVE  /\ Holds(r, h) => Holds(task, h)
                   /\ Holds(task, h) /\ h \in Kept => Holds(r, h)
        <4>1. Holds(r, h) <=> (task.addr = h[1] /\ i + 1 <= h[2] /\ h[2] <= last)
          BY <3>2 DEF Holds, First
        <4>2. i + 1 <= h[2] => i <= h[2]
          BY <1>11
        <4>3. ASSUME Holds(task, h), h \in Kept PROVE i + 1 <= h[2]
          <5>1. h[2] # i
            <6>1. GroupPktNum(Group(h)) >= MIN_BLOCK_PKTNUM
              BY <4>3 DEF Kept
            <6>2. GroupPktNum(Group(h)) \in 0 .. FLOAT_EXACT
              BY <1>6, GroupFacts DEF IInv
            <6>3. PICK num \in Nat : num = GroupPktNum(Group(h))
              BY <6>2, Limits
            <6>4. ~(num < MIN_BLOCK_PKTNUM)
              BY <6>1, <6>3, SeriesAssumption
            <6>5. h # g
              BY <2>2, <6>3, <6>4
            <6> QED BY <1>2, <1>9, <1>11, <4>3, <6>5
          <5> QED BY <1>11, <4>3, <5>1
        <4> QED BY <1>11, <4>1, <4>2, <4>3
      <3> QED BY <3>2, <3>5, <3>6 DEF InGroup
    <2>3. CASE ~(task.next > task.last) /\ ~(GroupPktNum(Group(g)) < MIN_BLOCK_PKTNUM)
      <3>1. r = Deciding(task, "rank", <<>>, Empty, INT_MAX, 0)
        BY <1>3, <2>3
      <3>2. /\ r.at = "rank" /\ r.addr = task.addr /\ r.next = task.next /\ r.last = task.last
            /\ r.order = <<>> /\ r.prediction = Empty
        BY <3>1 DEF Deciding
      <3>3. r # Idle
        BY <3>2 DEF Idle
      <3>4. task.next <= task.last
        BY <1>9, <1>10, <2>3
      <3>5. GroupPktNum(Testset[r.addr][r.next]) >= MIN_BLOCK_PKTNUM
        <4>1. g = Current(t) /\ g \in Groups(DOMAIN Testset)
          BY <1>1, <1>2, <1>4, <3>4, AtGroup DEF Current
        <4>2. GroupPktNum(Group(g)) \in 0 .. FLOAT_EXACT
          BY <1>6, <4>1, GroupFacts DEF IInv
        <4>3. PICK num \in Nat : num = GroupPktNum(Group(g))
          BY <4>2, Limits
        <4>4. num >= MIN_BLOCK_PKTNUM
          BY <2>3, <4>3, SeriesAssumption
        <4>5. Group(g) = Testset[r.addr][r.next]
          BY <1>2, <3>2 DEF Group
        <4> QED BY <4>3, <4>4, <4>5
      <3>6. r.order \in Seq(Predictions) /\ r.prediction \in Predictions
        BY <3>2 DEF Predictions
      <3>7. PlacesOK(r, Testset) /\ r.addr \notin main.devices
        BY <1>5, <3>2 DEF PlacesOK
      <3>8. TaskOK(r, Testset, main.devices, FALSE)
        BY <3>2, <3>3, <3>4, <3>5, <3>6, <3>7 DEF TaskOK, InGroup
      <3>9. \A h : Holds(r, h) <=> Holds(task, h)
        BY <1>4, <3>2 DEF Holds, First
      <3> QED BY <3>2, <3>8, <3>9
    <2> QED BY <2>1, <2>2, <2>3
  <1>13. \A v : r.at \in InGroup => LookupOK(v, r) /\ ChoosingOK(v, r)
    BY <1>12 DEF LookupOK, ChoosingOK
  <1> QED BY <1>1, <1>3, <1>4, <1>5, <1>7, <1>8, <1>12, <1>13, QuietStep

(* A task in a group, and what it sees.                                     *)
LEMMA InGroupFacts ==
    ASSUME IInv, NEW t \in Threads, pool[t].at \in InGroup
    PROVE  /\ ~Resting /\ Begun
           /\ Current(t) \in Groups(DOMAIN Testset)
           /\ pool[t].order \in Seq(Predictions) /\ pool[t].prediction \in Predictions
           /\ TaskOK(pool[t], Testset, main.devices, Resting)
           /\ LookupOK(View(Current(t)), pool[t])
           /\ "levels" \notin undefined => ChoosingOK(View(Current(t)), pool[t])
  <1>1. TaskOK(pool[t], Testset, main.devices, Resting)
    BY DEF IInv, PoolOK
  <1>2. pool[t].at # "idle" /\ pool[t].next <= pool[t].last
    BY <1>1 DEF TaskOK, InGroup
  <1>3. pool[t].order \in Seq(Predictions) /\ pool[t].prediction \in Predictions
    BY <1>1 DEF TaskOK
  <1>4. ~Resting /\ Begun /\ Current(t) \in Groups(DOMAIN Testset)
    BY <1>2, AtGroup
  <1> QED BY <1>1, <1>3, <1>4 DEF IInv, PolicyOK

(* Rank keeps the invariant: with nobody compared yet, everybody in the     *)
(* running is still listed; a single candidate is decided on the spot.      *)
LEMMA RankStep ==
    ASSUME IInv, NEW t \in Threads, Rank(t)
    PROVE  IInv'
  <1>1. pool[t].at = "rank" /\ pool[t].at \in InGroup /\ pool[t].at \in Deciders
    BY DEF Rank, InGroup, Deciders
  <1>2. PICK g \in Groups(DOMAIN Testset) : g = Current(t)
    BY <1>1, InGroupFacts
  <1>3. PICK v : v = View(g)
    OBVIOUS
  <1>4. ~Resting /\ Begun
    BY <1>1, InGroupFacts
  <1>5. /\ v.bucket = Bucket(Group(Current(t))) /\ v.devices = context.deviceVec
    BY <1>2, <1>3 DEF View
  <1>6. PICK order \in IF IsMute(v) THEN {SecondChance(v.devices)} ELSE Orders(v.bucket) :
              pool' = [pool EXCEPT ![t] =
                  IF Len(order) = 1
                  THEN Deciding(pool[t], "score", order, order[1], INT_MAX, 0)
                  ELSE Deciding(pool[t], "lookup", order, Start(v), INT_MAX, 0)]
    BY <1>5 DEF Rank, IsMute, Start
  <1>7. /\ Running(v) \subseteq Predictions
        /\ ~IsMute(v) => IsFiniteSet(Candidates(v.bucket))
    BY <1>2, <1>3, <1>4, RunningFacts DEF IInv
  <1>8. /\ order \in Seq(Predictions)
        /\ ToSet(order) = Running(v)
        /\ Len(order) = 1 <=> Single(v)
        /\ InOrder(v, {}, order)
    <2>1. CASE IsMute(v)
      <3>1. order = SecondChance(v.devices)
        BY <1>6, <2>1
      <3>2. v.devices \in Seq(Names)
        BY <1>5 DEF IInv, ContextOK
      <3>3. order \in Seq({Type(n) : n \in Names}) /\ Len(order) = Len(v.devices)
        BY <3>1, <3>2, SecondChanceFacts
      <3>4. order \in Seq(Predictions)
        <4>1. PICK T : T = {Type(n) : n \in Names}
          OBVIOUS
        <4>2. T \subseteq Predictions /\ order \in Seq(T)
          BY <3>3, <4>1 DEF Predictions
        <4> QED BY <4>2
      <3> QED BY <2>1, <3>1, <3>3, <3>4 DEF Running, Single, InOrder
    <2>2. CASE ~IsMute(v)
      <3>1. order \in Orders(v.bucket)
        BY <1>6, <2>2
      <3>2. /\ order \in Seq(Candidates(v.bucket)) /\ ToSet(order) = Candidates(v.bucket)
            /\ Len(order) = Cardinality(Candidates(v.bucket))
            /\ \A i, j \in DOMAIN order : i < j => v.bucket[order[i]] >= v.bucket[order[j]]
        BY <1>7, <2>2, <3>1, OrdersFacts
      <3>3. Running(v) = Candidates(v.bucket)
        BY <2>2 DEF Running
      <3>4. order \in Seq(Predictions)
        <4>1. PICK C : C = Candidates(v.bucket)
          OBVIOUS
        <4>2. C \subseteq Predictions /\ order \in Seq(C)
          BY <1>7, <3>2, <3>3, <4>1
        <4> QED BY <4>2
      <3> QED BY <2>2, <3>2, <3>3, <3>4 DEF Single, InOrder
    <2> QED BY <2>1, <2>2
  <1>9. /\ LeavesMain /\ SameLevels /\ LevelsOK'
        /\ UNCHANGED <<queue, mutex, sheet, m_ErrBurstGroups, decided, undefined>>
    BY DEF Rank, LeavesMain, SameLevels, IInv, LevelsOK
  <1>10. CASE Len(order) = 1
    <2>1. PICK p : p = order[1]
      OBVIOUS
    <2>2. p \in Predictions /\ p \in Running(v)
      <3>1. 1 \in DOMAIN order
        BY <1>8, <1>10
      <3> QED BY <1>8, <2>1, <3>1 DEF ToSet
    <2>3. PICK r : r = Deciding(pool[t], "score", order, p, INT_MAX, 0)
      OBVIOUS
    <2>4. pool' = [pool EXCEPT ![t] = r]
      BY <1>6, <1>10, <2>1, <2>3
    <2>a. /\ r.at = "score" /\ r.prediction = p /\ r.order = order /\ SameGroup(pool[t], r)
      BY <2>3, DecidingFields
    <2>b. r.at \in Deciders /\ Typed(r)
      BY <1>8, <2>2, <2>a DEF Typed, Deciders, InGroup
    <2>5. /\ TaskOK(r, Testset, main.devices, FALSE)
          /\ \A h : Holds(r, h) <=> Holds(pool[t], h)
          /\ <<r.addr, r.next>> = Current(t)
      BY <1>1, <2>a, <2>b, StaysInGroup
    <2>6. LookupOK(v, r) /\ ChoosingOK(v, r)
      BY <1>8, <1>10, <2>2, <2>a DEF LookupOK, ChoosingOK, Answers, Known
    <2> QED BY <1>1, <1>2, <1>3, <1>4, <1>9, <2>4, <2>5, <2>6, <2>a, QuietStep
  <1>11. CASE Len(order) # 1
    <2>1. PICK r : r = Deciding(pool[t], "lookup", order, Start(v), INT_MAX, 0)
      OBVIOUS
    <2>2. pool' = [pool EXCEPT ![t] = r]
      BY <1>6, <1>11, <2>1
    <2>3. Start(v) \in Predictions
      BY DEF Start, Predictions
    <2>a. /\ r.at = "lookup" /\ r.prediction = Start(v) /\ r.order = order /\ r.best = INT_MAX
          /\ SameGroup(pool[t], r)
      BY <2>1, DecidingFields
    <2>b. r.at \in Deciders /\ Typed(r)
      BY <1>8, <2>3, <2>a DEF Typed, Deciders, InGroup
    <2>4. /\ TaskOK(r, Testset, main.devices, FALSE)
          /\ \A h : Holds(r, h) <=> Holds(pool[t], h)
          /\ <<r.addr, r.next>> = Current(t)
      BY <1>1, <2>a, <2>b, StaysInGroup
    <2>5. LookupOK(v, r)
      BY <1>8, <1>11, <2>a DEF LookupOK
    <2>6. Comparing(v, r)
      <3>1. BestOf(v, {}, r.best, r.prediction) /\ InOrder(v, {}, r.order)
        BY <1>8, <2>a DEF BestOf
      <3> QED BY <1>8, <2>a, <3>1 DEF Comparing
    <2>7. ChoosingOK(v, r)
      BY <2>6, <2>a DEF ChoosingOK
    <2> QED BY <1>1, <1>2, <1>3, <1>4, <1>9, <2>2, <2>4, <2>5, <2>7, <2>a, QuietStep
  <1> QED BY <1>10, <1>11

(* When all have been compared the best is an answer.                       *)
LEMMA AllCompared ==
    ASSUME NEW v, NEW task, task.order = <<>>, Comparing(v, task), ~Single(v)
    PROVE  task.prediction \in Answers(v) /\ Known(v)
  <1>1. PICK S \in SUBSET DOMAIN v.merged :
            /\ Running(v) = S \cup ToSet(task.order)
            /\ BestOf(v, S, task.best, task.prediction)
    BY DEF Comparing
  <1>2. ToSet(task.order) = {}
    BY DEF ToSet
  <1>3. Running(v) = S
    BY <1>1, <1>2
  <1> QED BY <1>1, <1>3 DEF BestOf, Answers, Known

(* Lookup keeps the invariant: the name at the head of the list is a        *)
(* device or the task is thrown out.                                        *)
LEMMA LookupStep ==
    ASSUME IInv, NEW t \in Threads, Lookup(t)
    PROVE  IInv'
  <1>1. PICK task : task = pool[t]
    OBVIOUS
  <1>2. task.at = "lookup" /\ task.at \in InGroup /\ task.at \in Deciders
    BY <1>1 DEF Lookup, InGroup, Deciders
  <1>3. PICK g \in Groups(DOMAIN Testset) : g = Current(t)
    BY <1>1, <1>2, InGroupFacts
  <1>4. PICK v : v = View(g)
    OBVIOUS
  <1>5. /\ ~Resting /\ Begun
        /\ task.order \in Seq(Predictions) /\ task.prediction \in Predictions
        /\ LookupOK(v, task)
        /\ "levels" \notin undefined => ChoosingOK(v, task)
    BY <1>1, <1>2, <1>3, <1>4, InGroupFacts
  <1>6. /\ ~Single(v) /\ ToSet(task.order) \subseteq Running(v)
        /\ "levels" \notin undefined => Comparing(v, task)
    BY <1>2, <1>5 DEF LookupOK, ChoosingOK
  <1>7. /\ LeavesMain /\ SameLevels /\ LevelsOK'
        /\ UNCHANGED <<queue, mutex, sheet, m_ErrBurstGroups, decided, undefined>>
    BY DEF Lookup, LeavesMain, SameLevels, IInv, LevelsOK
  <1>8. ASSUME NEW at \in {"score", "compare", "thrown"}, NEW id,
               pool' = [pool EXCEPT ![t] =
                           Deciding(task, at, task.order, task.prediction, task.best, id)],
               at = "score" => task.order = <<>>,
               at # "score" => task.order # <<>>,
               at = "compare" => Head(task.order) \in DOMAIN context.allDevices
                                 /\ id = context.allDevices[Head(task.order)],
               at = "thrown" => Head(task.order) \notin DOMAIN context.allDevices
        PROVE  IInv'
    <2>1. PICK r : r = Deciding(task, at, task.order, task.prediction, task.best, id)
      OBVIOUS
    <2>2. /\ r.at = at /\ r.prediction = task.prediction /\ r.order = task.order
          /\ r.best = task.best /\ r.id = id /\ SameGroup(task, r)
      BY <2>1, DecidingFields
    <2>a. r.at \in Deciders /\ Typed(r)
      BY <1>5, <2>2 DEF Typed, Deciders, InGroup
    <2>3. /\ TaskOK(r, Testset, main.devices, FALSE)
          /\ \A h : Holds(r, h) <=> Holds(pool[t], h)
          /\ <<r.addr, r.next>> = Current(t)
      BY <1>1, <1>2, <2>2, <2>a, StaysInGroup
    <2>4. v.ids = context.allDevices
      BY <1>4 DEF View
    <2>5. LookupOK(v, r)
      BY <1>6, <1>8, <2>2, <2>4 DEF LookupOK
    <2>6. "levels" \notin undefined => ChoosingOK(v, r)
      <3>1. CASE at = "score"
        BY <1>6, <1>8, <2>2, <3>1, AllCompared DEF ChoosingOK
      <3>2. CASE at = "compare"
        BY <1>6, <2>2, <3>2 DEF ChoosingOK, Comparing
      <3>3. CASE at = "thrown"
        BY <2>2, <3>3 DEF ChoosingOK
      <3> QED BY <3>1, <3>2, <3>3
    <2>7. r.at # "push" /\ pool[t].at # "push" /\ pool' = [pool EXCEPT ![t] = r]
      BY <1>1, <1>2, <1>8, <2>1, <2>2
    <2> QED BY <1>3, <1>4, <1>5, <1>7, <2>3, <2>5, <2>6, <2>7, QuietStep
  <1>9. CASE task.order = <<>>
    <2>1. pool' = [pool EXCEPT ![t] =
              Deciding(task, "score", task.order, task.prediction, task.best, 0)]
      BY <1>1, <1>9 DEF Lookup
    <2> QED BY <1>8, <1>9, <2>1
  <1>10. CASE task.order # <<>> /\ Head(task.order) \in DOMAIN context.allDevices
    <2>1. pool' = [pool EXCEPT ![t] =
              Deciding(task, "compare", task.order, task.prediction, task.best,
                       context.allDevices[Head(task.order)])]
      BY <1>1, <1>10 DEF Lookup
    <2> QED BY <1>8, <1>10, <2>1
  <1>11. CASE task.order # <<>> /\ Head(task.order) \notin DOMAIN context.allDevices
    <2>1. pool' = [pool EXCEPT ![t] =
              Deciding(task, "thrown", task.order, task.prediction, task.best, 0)]
      BY <1>1, <1>11 DEF Lookup
    <2> QED BY <1>8, <1>11, <2>1
  <1> QED BY <1>9, <1>10, <1>11

(* The first of a sequence and the rest.                                    *)
LEMMA HeadAndTail ==
    ASSUME NEW S, NEW s \in Seq(S), s # <<>>
    PROVE  /\ 1 \in DOMAIN s /\ Head(s) = s[1] /\ Head(s) \in S
           /\ Tail(s) \in Seq(S)
           /\ \A i \in DOMAIN Tail(s) : i \in Nat \ {0} /\ i + 1 \in DOMAIN s /\ Tail(s)[i] = s[i + 1]
           /\ ToSet(s) = {Head(s)} \cup ToSet(Tail(s))
  <1>1. PICK n \in Nat : n = Len(s) /\ DOMAIN s = 1 .. n
    OBVIOUS
  <1>2. n # 0 /\ Len(Tail(s)) = n - 1 /\ DOMAIN Tail(s) = 1 .. n - 1
    BY <1>1
  <1>3. 1 \in DOMAIN s /\ Head(s) = s[1] /\ Head(s) \in S /\ Tail(s) \in Seq(S)
    BY <1>1, <1>2
  <1>4. \A i \in 1 .. n - 1 : i \in Nat \ {0} /\ i + 1 \in 1 .. n /\ Tail(s)[i] = s[i + 1]
    BY <1>1, <1>2
  <1>5. ToSet(s) = {Head(s)} \cup ToSet(Tail(s))
    <2>1. ASSUME NEW j \in 1 .. n PROVE s[j] \in {Head(s)} \cup ToSet(Tail(s))
      <3>1. CASE j = 1
        BY <1>3, <3>1
      <3>2. CASE j # 1
        <4>1. j - 1 \in 1 .. n - 1 /\ (j - 1) + 1 = j
          BY <1>1, <3>2
        <4>2. s[j] = Tail(s)[j - 1]
          BY <1>4, <4>1
        <4> QED BY <1>2, <4>1, <4>2 DEF ToSet
      <3> QED BY <3>1, <3>2
    <2>2. ASSUME NEW i \in 1 .. n - 1 PROVE Tail(s)[i] \in ToSet(s)
      BY <1>1, <1>4 DEF ToSet
    <2>3. Head(s) \in ToSet(s)
      BY <1>3 DEF ToSet
    <2>4. ToSet(s) \subseteq {Head(s)} \cup ToSet(Tail(s))
      BY <1>1, <2>1 DEF ToSet
    <2>5. ToSet(Tail(s)) \subseteq ToSet(s)
      <3>1. ToSet(Tail(s)) = {Tail(s)[i] : i \in 1 .. n - 1}
        BY <1>2 DEF ToSet
      <3> QED BY <2>2, <3>1
    <2> QED BY <2>3, <2>4, <2>5
  <1> QED BY <1>1, <1>2, <1>3, <1>4, <1>5

(* Gaps are numbers, INT_MAX where training left nothing; votes too.        *)
Measured(v) ==
    /\ \A n \in DOMAIN v.merged :
          /\ GapIn(v, n) \in Nat
          /\ n \in WithLevels(v) => GapIn(v, n) < INT_MAX
          /\ n \notin WithLevels(v) => GapIn(v, n) = INT_MAX
    /\ ~IsMute(v) => \A n \in Running(v) : v.bucket[n] \in Int

(* One more name is compared.                                               *)
LEMMA OneMoreCompared ==
    ASSUME NEW v, NEW task, NEW P, task.order \in Seq(P), task.order # <<>>,
           Head(task.order) \in DOMAIN v.merged,
           Measured(v), Comparing(v, task),
           NEW r, r.order = Tail(task.order),
           IF GapIn(v, Head(task.order)) < task.best
           THEN r.prediction = Head(task.order) /\ r.best = GapIn(v, Head(task.order))
           ELSE r.prediction = task.prediction /\ r.best = task.best
    PROVE  Comparing(v, r)
  <1>1. PICK S \in SUBSET DOMAIN v.merged :
            /\ Running(v) = S \cup ToSet(task.order)
            /\ BestOf(v, S, task.best, task.prediction)
            /\ InOrder(v, S, task.order)
    BY DEF Comparing
  <1>2. PICK s \in Seq(P) : s = task.order
    OBVIOUS
  <1>3. PICK name \in DOMAIN v.merged : name = Head(s)
    BY <1>2
  <1>4. PICK rest : rest = Tail(s)
    OBVIOUS
  <1>5. /\ 1 \in DOMAIN s /\ name = s[1]
        /\ \A i \in DOMAIN rest : i \in Nat \ {0} /\ i + 1 \in DOMAIN s /\ rest[i] = s[i + 1]
        /\ ToSet(s) = {name} \cup ToSet(rest)
    BY <1>2, <1>3, <1>4, HeadAndTail
  <1>6. PICK near \in Nat : near = GapIn(v, name)
    BY DEF Measured
  <1>7. name \in Running(v) /\ S \subseteq Running(v)
    BY <1>1, <1>2, <1>5
  <1>8. PICK best \in Nat : best = task.best
    <2>1. S \cap WithLevels(v) = {} => task.best = INT_MAX
      BY <1>1 DEF BestOf
    <2>2. S \cap WithLevels(v) # {} => task.best \in Nat
      BY <1>1 DEF BestOf, Measured
    <2> QED BY <2>1, <2>2, Limits
  <1>9. best <= INT_MAX
    <2>1. S \cap WithLevels(v) = {} => best = INT_MAX
      BY <1>1, <1>8 DEF BestOf
    <2>2. S \cap WithLevels(v) # {} => best < INT_MAX
      BY <1>1, <1>8 DEF BestOf, Measured
    <2> QED BY <2>1, <2>2, Limits
  <1> DEFINE T == S \cup {name}
  <1>10. BestOf(v, T, r.best, r.prediction)
    <2>1. CASE name \notin WithLevels(v)
      <3>1. near = INT_MAX
        BY <1>6, <2>1 DEF Measured
      <3>2. ~(near < best)
        BY <1>9, <3>1, Limits
      <3>3. r.prediction = task.prediction /\ r.best = task.best
        BY <1>2, <1>3, <1>6, <1>8, <3>2
      <3>4. T \cap WithLevels(v) = S \cap WithLevels(v)
        BY <2>1
      <3> HIDE DEF T
      <3> QED BY <1>1, <3>3, <3>4 DEF BestOf
    <2>2. CASE name \in WithLevels(v) /\ near < best
      <3>1. r.prediction = name /\ r.best = near
        BY <1>2, <1>3, <1>6, <1>8, <2>2
      <3>2. Beats(v, name, name)
        <4>1. near <= near
          OBVIOUS
        <4>2. ~IsMute(v) => v.bucket[name] >= v.bucket[name]
          BY <1>7 DEF Measured
        <4> QED BY <1>6, <4>1, <4>2 DEF Beats
      <3>3. ASSUME NEW m \in S \cap WithLevels(v) PROVE Beats(v, name, m)
        <4>1. PICK gap \in Nat : gap = GapIn(v, m)
          BY <1>1 DEF Measured
        <4>2. best <= gap
          <5>1. Beats(v, task.prediction, m) /\ task.best = GapIn(v, task.prediction)
            BY <1>1, <3>3 DEF BestOf
          <5> QED BY <1>8, <4>1, <5>1 DEF Beats
        <4>3. near <= gap /\ near # gap
          BY <2>2, <4>2
        <4> QED BY <1>6, <4>1, <4>3 DEF Beats
      <3>4. \A m \in T \cap WithLevels(v) : Beats(v, name, m)
        BY <3>2, <3>3
      <3>5. name \in T \cap WithLevels(v)
        BY <2>2
      <3> HIDE DEF T
      <3> QED BY <1>6, <3>1, <3>4, <3>5 DEF BestOf
    <2>3. CASE name \in WithLevels(v) /\ ~(near < best)
      <3>1. r.prediction = task.prediction /\ r.best = task.best
        BY <1>2, <1>3, <1>6, <1>8, <2>3
      <3>2. S \cap WithLevels(v) # {}
        <4>1. near < INT_MAX
          BY <1>6, <2>3 DEF Measured
        <4>2. best # INT_MAX
          BY <2>3, <4>1, Limits
        <4> QED BY <1>1, <1>8, <4>2 DEF BestOf
      <3>3. /\ task.prediction \in S \cap WithLevels(v)
            /\ task.best = GapIn(v, task.prediction)
            /\ \A m \in S \cap WithLevels(v) : Beats(v, task.prediction, m)
        BY <1>1, <3>2 DEF BestOf
      <3>4. Beats(v, task.prediction, name)
        <4>1. best <= near
          BY <2>3
        <4>2. ~IsMute(v) => v.bucket[task.prediction] >= v.bucket[name]
          BY <1>1, <1>2, <1>5, <3>3 DEF InOrder
        <4> QED BY <1>6, <1>8, <3>3, <4>1, <4>2 DEF Beats
      <3>5. \A m \in T \cap WithLevels(v) : Beats(v, task.prediction, m)
        BY <3>3, <3>4
      <3>6. task.prediction \in T \cap WithLevels(v)
        BY <3>3
      <3> HIDE DEF T
      <3> QED BY <3>1, <3>3, <3>5, <3>6 DEF BestOf
    <2> QED BY <2>1, <2>2, <2>3
  <1>11. InOrder(v, T, r.order)
    <2> SUFFICES ASSUME ~IsMute(v)
                 PROVE  /\ \A m \in T : \A i \in DOMAIN rest : v.bucket[m] >= v.bucket[rest[i]]
                        /\ \A i, j \in DOMAIN rest : i < j => v.bucket[rest[i]] >= v.bucket[rest[j]]
      BY <1>2, <1>4 DEF InOrder
    <2>1. /\ \A m \in S, i \in DOMAIN s : v.bucket[m] >= v.bucket[s[i]]
          /\ \A i, j \in DOMAIN s : i < j => v.bucket[s[i]] >= v.bucket[s[j]]
      BY <1>1, <1>2 DEF InOrder
    <2>2. ASSUME NEW i \in DOMAIN rest
          PROVE  i + 1 \in DOMAIN s /\ rest[i] = s[i + 1] /\ 1 < i + 1 /\ i \in Nat
      BY <1>5
    <2>3. \A m \in S : \A i \in DOMAIN rest : v.bucket[m] >= v.bucket[rest[i]]
      BY <2>1, <2>2
    <2>4. \A i \in DOMAIN rest : v.bucket[name] >= v.bucket[rest[i]]
      BY <1>5, <2>1, <2>2
    <2>5. ASSUME NEW i \in DOMAIN rest, NEW j \in DOMAIN rest, i < j
          PROVE  v.bucket[rest[i]] >= v.bucket[rest[j]]
      <3>1. i + 1 < j + 1
        BY <2>2, <2>5
      <3> QED BY <2>1, <2>2, <3>1
    <2> QED BY <2>3, <2>4, <2>5
  <1>12. Running(v) = T \cup ToSet(r.order)
    BY <1>1, <1>2, <1>4, <1>5
  <1>13. T \in SUBSET DOMAIN v.merged
    OBVIOUS
  <1> HIDE DEF T
  <1> QED BY <1>10, <1>11, <1>12, <1>13 DEF Comparing

(* What the invariant says of the view of a group is enough to compare      *)
(* there.                                                                   *)
LEMMA MeasuredView ==
    ASSUME IInv, Begun, NEW g \in Groups(DOMAIN Testset), NEW v, v = View(g)
    PROVE  Measured(v)
  <1>1. \A n \in DOMAIN v.merged :
            /\ GapIn(v, n) \in Nat
            /\ n \in WithLevels(v) => GapIn(v, n) < INT_MAX
            /\ n \notin WithLevels(v) => GapIn(v, n) = INT_MAX
    BY GapFacts DEF IInv
  <1>2. ~IsMute(v) => \A n \in Running(v) : v.bucket[n] \in Int
    BY RunningFacts DEF IInv
  <1> QED BY <1>1, <1>2 DEF Measured

(* Compare keeps the invariant: the name it leaves the list with has been   *)
(* measured against the best so far, and the best of the names compared is  *)
(* still the best of them.                                                  *)
LEMMA CompareStep ==
    ASSUME IInv, NEW t \in Threads, Compare(t)
    PROVE  IInv'
  <1>1. PICK task : task = pool[t]
    OBVIOUS
  <1>2. task.at = "compare" /\ task.at \in InGroup /\ task.at \in Deciders
    BY <1>1 DEF Compare, InGroup, Deciders
  <1>3. PICK g \in Groups(DOMAIN Testset) : g = Current(t)
    BY <1>1, <1>2, InGroupFacts
  <1>4. PICK v : v = View(g)
    OBVIOUS
  <1>5. /\ ~Resting /\ Begun
        /\ task.order \in Seq(Predictions) /\ task.prediction \in Predictions
        /\ LookupOK(v, task)
        /\ "levels" \notin undefined => ChoosingOK(v, task)
    BY <1>1, <1>2, <1>3, <1>4, InGroupFacts
  <1>6. /\ ~Single(v) /\ ToSet(task.order) \subseteq Running(v)
        /\ "levels" \notin undefined => Comparing(v, task)
        /\ task.order # <<>>
        /\ Head(task.order) \in DOMAIN v.ids
        /\ task.id = v.ids[Head(task.order)]
    BY <1>2, <1>5 DEF LookupOK, ChoosingOK
  <1>7. /\ v.ids = context.allDevices /\ DOMAIN v.merged = DOMAIN context.allDevices
        /\ v.pktNum = GroupPktNum(Group(g))
        /\ \A n \in DOMAIN context.allDevices :
              v.merged[n] = At(blockLevelDistribution, context.allDevices[n], <<>>)
    BY <1>4 DEF View
  <1>8. PICK name \in Predictions : name = Head(task.order)
    BY <1>5, <1>6, HeadAndTail
  <1>9. Tail(task.order) \in Seq(Predictions) /\ ToSet(Tail(task.order)) \subseteq Running(v)
    BY <1>5, <1>6, HeadAndTail
  <1>10. PICK extended : extended = Insert(blockLevelDistribution, task.id, <<>>)
    OBVIOUS
  <1>11. PICK merged : merged = At(blockLevelDistribution, task.id, <<>>)
    OBVIOUS
  <1>12. merged = v.merged[name] /\ name \in DOMAIN v.merged
    BY <1>6, <1>7, <1>8, <1>11
  <1>13. /\ LeavesMain
         /\ UNCHANGED <<queue, mutex, sheet, m_ErrBurstGroups, decided>>
         /\ undefined \subseteq undefined'
         /\ "errors" \in undefined' => "errors" \in undefined
         /\ blockLevelDistribution' \in {blockLevelDistribution, extended}
         /\ undefined' = undefined \/ "levels" \in undefined'
         /\ \/ pool' = Compared(t, merged)
            \/ pool' = Compared(t, <<>>) /\ "levels" \in undefined'
    BY <1>1, <1>10, <1>11 DEF Compare, LeavesMain
  <1>14. SameLevels
    <2>1. \A i : At(extended, i, <<>>) = At(blockLevelDistribution, i, <<>>)
      BY <1>10, MapMono
    <2> QED BY <1>13, <2>1 DEF SameLevels
  <1>15. LevelsOK'
    <2>1. <<>> \in Counts
      BY DEF Counts
    <2>2. \A i \in DOMAIN extended : extended[i] \in Counts
      BY <1>10, <2>1 DEF Insert, Put, IInv, LevelsOK
    <2> QED BY <1>13, <2>2 DEF IInv, LevelsOK
  <1>16. ASSUME NEW found, pool' = Compared(t, found), found = merged \/ "levels" \in undefined'
         PROVE  IInv'
    <2>1. PICK near : near = Nearest(GroupPktNum(Group(g)), found)
      OBVIOUS
    <2>2. PICK r : /\ pool' = [pool EXCEPT ![t] = r]
                   /\ r = IF near < task.best
                          THEN Deciding(task, "lookup", Tail(task.order), Head(task.order), near, 0)
                          ELSE Deciding(task, "lookup", Tail(task.order), task.prediction,
                                        task.best, 0)
      BY <1>1, <1>3, <1>16, <2>1 DEF Compared
    <2>3. /\ r.at = "lookup" /\ r.order = Tail(task.order) /\ SameGroup(task, r)
          /\ IF near < task.best THEN r.prediction = Head(task.order) /\ r.best = near
             ELSE r.prediction = task.prediction /\ r.best = task.best
      <3>1. CASE near < task.best
        <4>1. r = Deciding(task, "lookup", Tail(task.order), Head(task.order), near, 0)
          BY <2>2, <3>1
        <4> QED BY <3>1, <4>1, DecidingFields
      <3>2. CASE ~(near < task.best)
        <4>1. r = Deciding(task, "lookup", Tail(task.order), task.prediction, task.best, 0)
          BY <2>2, <3>2
        <4> QED BY <3>2, <4>1, DecidingFields
      <3> QED BY <3>1, <3>2
    <2>4. r.at \in Deciders /\ Typed(r)
      BY <1>5, <1>8, <1>9, <2>3 DEF Typed, Deciders, InGroup
    <2>5. /\ TaskOK(r, Testset, main.devices, FALSE)
          /\ \A h : Holds(r, h) <=> Holds(pool[t], h)
          /\ <<r.addr, r.next>> = Current(t)
      BY <1>1, <1>2, <2>3, <2>4, StaysInGroup
    <2>6. LookupOK(v, r)
      BY <1>6, <1>9, <2>3 DEF LookupOK
    <2>7. "levels" \notin undefined' => ChoosingOK(v, r)
      <3> SUFFICES ASSUME "levels" \notin undefined' PROVE Comparing(v, r)
        BY <2>3 DEF ChoosingOK
      <3>1. Comparing(v, task)
        BY <1>6, <1>13
      <3>2. Measured(v)
        BY <1>4, <1>5, MeasuredView
      <3>3. near = GapIn(v, Head(task.order))
        BY <1>7, <1>8, <1>12, <1>16, <2>1 DEF GapIn
      <3>4. Head(task.order) \in DOMAIN v.merged
        BY <1>8, <1>12
      <3> QED BY <1>5, <1>6, <2>3, <3>1, <3>2, <3>3, <3>4, OneMoreCompared
    <2>8. r.at # "push" /\ pool[t].at # "push"
      BY <1>1, <1>2, <2>3
    <2> QED BY <1>3, <1>4, <1>5, <1>13, <1>14, <1>15, <2>2, <2>5, <2>6, <2>7, <2>8, QuietStep
  <1> QED BY <1>13, <1>16

-----------------------------------------------------------------------------
(* A task is taken from the queue *)

(* The first task waiting runs: each group still has its place.             *)
Follows(rest, waiting, n) ==
    /\ DOMAIN waiting = 1 .. n + 1 /\ DOMAIN rest = 1 .. n
    /\ \A k \in 1 .. n : rest[k] = waiting[k + 1]

(* Thread t, which had no claim to the group, takes the task over.          *)
Takes(t, task, running, then, g) ==
    /\ \A u \in Threads : u # t => then[u] = running[u]
    /\ ~Holds(running[t], g)
    /\ Holds(then[t], g) <=> Has(task, g)

(* The group has as many places as before when the first task leaves the    *)
(* queue for an idle thread.                                                *)
LEMMA TakenFromQueue ==
    ASSUME NEW g, NEW waiting, NEW rest, NEW running, NEW then, NEW devices, NEW done, NEW kept,
           NEW t \in Threads, NEW n \in Nat, Follows(rest, waiting, n),
           Takes(t, waiting[1], running, then, g),
           OnePlace(g, waiting, running, devices, done, kept)
    PROVE  OnePlace(g, rest, then, devices, done, kept)
  <1> USE DEF Follows, Takes
  <1>1. \A k \in 1 .. n : k + 1 \in DOMAIN waiting /\ k + 1 # 1
    OBVIOUS
  <1>2. 1 \in DOMAIN waiting
    OBVIOUS
  <1>3. \A k, l \in DOMAIN rest : Has(rest[k], g) /\ Has(rest[l], g) => k = l
    <2> SUFFICES ASSUME NEW k \in 1 .. n, NEW l \in 1 .. n, Has(rest[k], g), Has(rest[l], g)
                 PROVE  k = l
      OBVIOUS
    <2>1. k + 1 = l + 1
      BY <1>1 DEF OnePlace
    <2> QED BY <2>1
  <1>4. ASSUME NEW k \in 1 .. n, NEW u \in Threads, Has(rest[k], g), Holds(then[u], g)
        PROVE  FALSE
    <2>1. Has(waiting[k + 1], g)
      BY <1>4
    <2>2. CASE u = t
      <3>1. Has(waiting[1], g)
        BY <1>4, <2>2
      <3> QED BY <1>1, <1>2, <2>1, <3>1 DEF OnePlace
    <2>3. CASE u # t
      <3>1. Holds(running[u], g)
        BY <1>4, <2>3
      <3> QED BY <1>1, <2>1, <3>1 DEF OnePlace
    <2> QED BY <2>2, <2>3
  <1>5. ASSUME NEW u \in Threads, NEW w \in Threads, Holds(then[u], g), Holds(then[w], g)
        PROVE  u = w
    <2>1. u # t => Holds(running[u], g)
      BY <1>5
    <2>2. w # t => Holds(running[w], g)
      BY <1>5
    <2>3. u = t \/ w = t => Has(waiting[1], g)
      BY <1>5
    <2> QED BY <1>2, <2>1, <2>2, <2>3 DEF OnePlace
  <1>6. ASSUME g \in done
        PROVE  /\ g[1] \notin devices
               /\ \A k \in DOMAIN rest : ~Has(rest[k], g)
               /\ \A u \in Threads : ~Holds(then[u], g)
    <2>1. g[1] \notin devices /\ (\A k \in DOMAIN waiting : ~Has(waiting[k], g))
          /\ (\A u \in Threads : ~Holds(running[u], g))
      BY <1>6 DEF OnePlace
    <2> QED BY <1>1, <1>2, <2>1
  <1>7. ASSUME g \in kept
        PROVE  \/ g \in done
               \/ g[1] \in devices
               \/ \E k \in DOMAIN rest : Has(rest[k], g)
               \/ \E u \in Threads : Holds(then[u], g)
    <2>1. CASE g \in done \/ g[1] \in devices
      BY <2>1
    <2>2. ASSUME NEW k \in DOMAIN waiting, Has(waiting[k], g)
          PROVE  (\E l \in DOMAIN rest : Has(rest[l], g)) \/ Holds(then[t], g)
      <3>1. CASE k = 1
        BY <2>2, <3>1
      <3>2. CASE k # 1
        <4>1. k - 1 \in 1 .. n /\ (k - 1) + 1 = k
          BY <3>2
        <4> QED BY <2>2, <4>1
      <3> QED BY <3>1, <3>2
    <2>3. ASSUME NEW u \in Threads, Holds(running[u], g)
          PROVE  Holds(then[u], g)
      BY <2>3
    <2> QED BY <1>7, <2>1, <2>2, <2>3 DEF OnePlace
  <1> QED BY <1>3, <1>4, <1>5, <1>6, <1>7 DEF OnePlace

(* Dispatch keeps the invariant: the task moves from the queue to the       *)
(* pool.                                                                    *)
LEMMA DispatchStep ==
    ASSUME IInv, NEW t \in Threads, Dispatch(t)
    PROVE  IInv'
  <1>1. pool[t].at = "idle" /\ queue # <<>> /\ queue' = Tail(queue)
        /\ UNCHANGED <<main, context, blockLevelDistribution, mutex, sheet, m_ErrBurstGroups,
                       decided, undefined>>
    BY DEF Dispatch
  <1>2. PICK T : T = [addr : DOMAIN Testset, next : Nat, last : Nat]
    OBVIOUS
  <1>3. PICK q \in Seq(T) : q = queue
    BY <1>2 DEF IInv, QueueOK
  <1>4. PICK rest : rest = Tail(q)
    OBVIOUS
  <1>5. PICK n \in Nat : DOMAIN q = 1 .. n + 1 /\ DOMAIN rest = 1 .. n
    <2>1. PICK m \in Nat : m = Len(q) /\ DOMAIN q = 1 .. m
      OBVIOUS
    <2>2. m # 0 /\ DOMAIN rest = 1 .. m - 1
      BY <1>1, <1>3, <1>4, <2>1
    <2>3. m - 1 \in Nat /\ (m - 1) + 1 = m
      BY <2>1, <2>2
    <2> QED BY <2>1, <2>2, <2>3
  <1>6. /\ 1 \in DOMAIN q /\ Head(q) = q[1]
        /\ rest \in Seq(T)
        /\ \A k \in 1 .. n : k + 1 \in DOMAIN q /\ rest[k] = q[k + 1]
    BY <1>1, <1>3, <1>4, <1>5, HeadAndTail
  <1>7. PICK r : /\ pool' = [pool EXCEPT ![t] = r]
                 /\ r = [at |-> "group", addr |-> q[1].addr, next |-> q[1].next, last |-> q[1].last]
    BY <1>3, <1>6 DEF Dispatch
  <1>8. r.at = "group" /\ r.addr = q[1].addr /\ r.next = q[1].next /\ r.last = q[1].last
    BY <1>7
  <1>9. /\ ~Resting
        /\ \A k \in DOMAIN q : PlacesOK(q[k], Testset) /\ q[k].addr \notin main.devices
    BY <1>1, <1>3 DEF IInv, QueueOK
  <1>10. LeavesMain /\ SameLevels /\ LevelsOK'
    BY <1>1 DEF LeavesMain, SameLevels, IInv, LevelsOK
  <1>11. /\ SameRun /\ Begun /\ Begun' /\ ~Resting' /\ main'.devices = main.devices
    BY <1>9, <1>10, LeavesMainFacts DEF IInv
  <1>12. Testset' = Testset /\ Groups(DOMAIN Testset)' = Groups(DOMAIN Testset) /\ Kept' = Kept
    BY <1>11, SameRunFacts
  <1>13. QueueOK'
    <2>1. queue' \in Seq([addr : DOMAIN Testset', next : Nat, last : Nat])
      BY <1>1, <1>2, <1>3, <1>4, <1>6, <1>12
    <2>2. \A k \in 1 .. n : PlacesOK(rest[k], Testset) /\ rest[k].addr \notin main.devices
      BY <1>6, <1>9
    <2> QED BY <1>1, <1>3, <1>4, <1>5, <1>11, <1>12, <2>1, <2>2 DEF QueueOK
  <1>14. TaskOK(r, Testset, main.devices, FALSE)
    <2>1. r # Idle
      BY <1>8 DEF Idle
    <2>2. PlacesOK(r, Testset) /\ r.addr \notin main.devices
      BY <1>6, <1>8, <1>9 DEF PlacesOK
    <2> QED BY <1>8, <2>1, <2>2 DEF TaskOK, InGroup
  <1>15. PlacedOK'
    <2>1. pool'[t] = r /\ \A u \in Threads : u # t => pool'[u] = pool[u]
      BY <1>7, MovesFacts DEF IInv
    <2>2. ASSUME NEW g \in Groups(DOMAIN Testset)
          PROVE  OnePlace(g, rest, pool', main.devices, DOMAIN decided, Kept)
      <3>1. OnePlace(g, q, pool, main.devices, DOMAIN decided, Kept)
        BY <1>3, <1>11 DEF IInv, PlacedOK
      <3>2. ~Holds(pool[t], g)
        BY <1>1 DEF Holds
      <3>3. Holds(pool'[t], g) <=> Has(q[1], g)
        BY <1>8, <2>1 DEF Holds, Has, First
      <3>4. PICK then : then = pool'
        OBVIOUS
      <3>5. \A u \in Threads : u # t => then[u] = pool[u]
        BY <2>1, <3>4
      <3>6. Holds(then[t], g) <=> Has(q[1], g)
        BY <3>3, <3>4
      <3>7. DOMAIN q = 1 .. n + 1 /\ DOMAIN rest = 1 .. n /\ \A k \in 1 .. n : rest[k] = q[k + 1]
        BY <1>5, <1>6
      <3>8. Follows(rest, q, n) /\ Takes(t, q[1], pool, then, g)
        BY <3>2, <3>5, <3>6, <3>7 DEF Follows, Takes
      <3>9. OnePlace(g, rest, then, main.devices, DOMAIN decided, Kept)
        BY <3>1, <3>8, TakenFromQueue
      <3> QED BY <3>4, <3>9
    <2>3. DOMAIN decided \subseteq Kept
      BY <1>11 DEF IInv, PlacedOK
    <2> QED BY <1>1, <1>3, <1>4, <1>12, <2>2, <2>3 DEF PlacedOK
  <1>16. r.at # "push" /\ pool[t].at # "push" /\ r.at \notin InGroup
    BY <1>1, <1>8 DEF InGroup
  <1> QED BY <1>1, <1>7, <1>9, <1>10, <1>13, <1>14, <1>15, <1>16, UncountedStep

-----------------------------------------------------------------------------
(* A group is decided *)

(* What one more decision changes in the tallies.                           *)
LEMMA OneMoreDecided ==
    ASSUME IInv, SameRun, NEW g, g \notin DOMAIN decided, NEW p, decided' = Put(decided, g, p),
           NEW kind, kind = Verdict(g)'
    PROVE  /\ \A h \in DOMAIN decided : Verdict(h)' = Verdict(h)
           /\ \A verdict : Decided(verdict)' =
                 IF verdict = kind THEN Decided(verdict) \cup {g} ELSE Decided(verdict)
           /\ \A verdict, type :
                 /\ Tally(verdict, type) \in Nat
                 /\ Tally(verdict, type)' =
                       IF verdict = kind /\ TrueType(g) = type THEN Tally(verdict, type) + 1
                       ELSE Tally(verdict, type)
           /\ \A type :
                 /\ Against(type) \in Nat
                 /\ Against(type)' =
                       IF kind = "wrong" /\ Type(p) = type THEN Against(type) + 1
                       ELSE Against(type)
  <1>1. DOMAIN decided' = DOMAIN decided \cup {g} /\ decided'[g] = p
        /\ \A h \in DOMAIN decided : decided'[h] = decided[h]
    BY DEF Put
  <1>2. \A h : TrueType(h)' = TrueType(h)
    BY SameRunFacts
  <1>3. IsFiniteSet(DOMAIN decided)
    BY DEF IInv, DecidedOK
  <1>4. \A h \in DOMAIN decided : Verdict(h)' = Verdict(h)
    BY <1>1, <1>2 DEF Verdict
  <1>5. \A verdict : Decided(verdict)' =
                 IF verdict = kind THEN Decided(verdict) \cup {g} ELSE Decided(verdict)
    BY <1>1, <1>4 DEF Decided
  <1>6. \A S : S \subseteq DOMAIN decided =>
           Cardinality(S) \in Nat /\ Cardinality(S \cup {g}) = Cardinality(S) + 1
    <2> SUFFICES ASSUME NEW S, S \subseteq DOMAIN decided
                 PROVE  Cardinality(S) \in Nat /\ Cardinality(S \cup {g}) = Cardinality(S) + 1
      OBVIOUS
    <2>1. IsFiniteSet(S) /\ g \notin S
      BY <1>3, FS_Subset
    <2> QED BY <2>1, FS_CardinalityType, FS_AddElement
  <1>7. ASSUME NEW verdict, NEW type
        PROVE  /\ Tally(verdict, type) \in Nat
               /\ Tally(verdict, type)' =
                     IF verdict = kind /\ TrueType(g) = type THEN Tally(verdict, type) + 1
                     ELSE Tally(verdict, type)
    <2>1. PICK S : S = {h \in DOMAIN decided : Verdict(h) = verdict /\ TrueType(h) = type}
      OBVIOUS
    <2>2. {h \in DOMAIN decided' : Verdict(h)' = verdict /\ TrueType(h)' = type}
            = IF verdict = kind /\ TrueType(g) = type THEN S \cup {g} ELSE S
      BY <1>1, <1>2, <1>4, <2>1
    <2>3. S \subseteq DOMAIN decided
      BY <2>1
    <2>4. Tally(verdict, type) = Cardinality(S)
      BY <2>1 DEF Tally
    <2>5. Tally(verdict, type)' =
            Cardinality(IF verdict = kind /\ TrueType(g) = type THEN S \cup {g} ELSE S)
      BY <2>2 DEF Tally
    <2> QED BY <1>6, <2>3, <2>4, <2>5
  <1>8. ASSUME NEW type
        PROVE  /\ Against(type) \in Nat
               /\ Against(type)' =
                     IF kind = "wrong" /\ Type(p) = type THEN Against(type) + 1
                     ELSE Against(type)
    <2>1. PICK S : S = {h \in Decided("wrong") : Type(decided[h]) = type}
      OBVIOUS
    <2>2. Decided("wrong") \subseteq DOMAIN decided
      BY DEF Decided
    <2>3. {h \in Decided("wrong")' : Type(decided'[h]) = type}
            = IF kind = "wrong" /\ Type(p) = type THEN S \cup {g} ELSE S
      <3>1. PICK D : D = Decided("wrong")
        OBVIOUS
      <3>2. Decided("wrong")' = IF kind = "wrong" THEN D \cup {g} ELSE D
        BY <1>5, <3>1
      <3>3. \A h \in D : decided'[h] = decided[h]
        BY <1>1, <2>2, <3>1
      <3> QED BY <1>1, <2>1, <3>1, <3>2, <3>3
    <2>4. S \subseteq DOMAIN decided
      BY <2>1, <2>2
    <2>5. Against(type) = Cardinality(S)
      BY <2>1 DEF Against
    <2>6. Against(type)' = Cardinality(IF kind = "wrong" /\ Type(p) = type THEN S \cup {g} ELSE S)
      BY <2>3 DEF Against
    <2> QED BY <1>6, <2>4, <2>5, <2>6
  <1> QED BY <1>4, <1>5, <1>7, <1>8

(* A type without a sheet has nothing to be counted.                        *)
LEMMA SheetRow ==
    ASSUME IInv, Begun
    PROVE  \A type : Sheet(type) = Row(type)
  <1> SUFFICES ASSUME NEW type PROVE Sheet(type) = Row(type)
    OBVIOUS
  <1>1. /\ DOMAIN sheet = {Type(NameOf(a)) : a \in DOMAIN Testset \ main.devices}
                            \cup {Type(decided[g]) : g \in Decided("wrong")}
        /\ \A k \in DOMAIN sheet : sheet[k] = Row(k)
    BY DEF IInv, SheetsOK
  <1>2. CASE type \in DOMAIN sheet
    BY <1>1, <1>2 DEF Sheet, At
  <1>3. CASE type \notin DOMAIN sheet
    <2>1. \A g \in DOMAIN decided : TrueType(g) # type
      <3>1. ASSUME NEW g \in DOMAIN decided PROVE g[1] \in DOMAIN Testset \ main.devices
        <4>1. g \in Groups(DOMAIN Testset)
          BY DEF IInv, PlacedOK, Kept
        <4>2. OnePlace(g, queue, pool, main.devices, DOMAIN decided, Kept)
          BY <4>1 DEF IInv, PlacedOK
        <4>3. g[1] \in DOMAIN Testset
          BY <4>1, GroupFacts DEF IInv
        <4> QED BY <4>2, <4>3 DEF OnePlace
      <3> QED BY <1>1, <1>3, <3>1 DEF TrueType
    <2>2. \A verdict : {g \in DOMAIN decided : Verdict(g) = verdict /\ TrueType(g) = type} = {}
      BY <2>1
    <2>3. Cardinality({}) = 0
      BY FS_EmptySet
    <2>4. \A verdict : Tally(verdict, type) = 0
      BY <2>2, <2>3 DEF Tally
    <2>5. {g \in Decided("wrong") : Type(decided[g]) = type} = {}
      BY <1>1, <1>3
    <2>6. Against(type) = 0
      BY <2>3, <2>5 DEF Against
    <2>7. Row(type) = NewSheet
      BY <2>4, <2>6 DEF Row, NewSheet
    <2> QED BY <1>3, <2>7 DEF Sheet, At
  <1> QED BY <1>2, <1>3

(* A task that decides its group goes on behind it.                         *)
Behind(task, r) ==
    /\ r.at \in {"push", "group"} /\ r.addr = task.addr /\ r.last = task.last
    /\ r.next = IF r.at = "push" THEN task.next ELSE task.next + 1
    /\ r.at = "push" => r.order = <<>> /\ r.prediction = task.prediction

(* The task that has decided a group keeps every other group it had.        *)
LEMMA BehindFacts ==
    ASSUME IInv, NEW t \in Threads, pool[t].at = "score", NEW r, Behind(pool[t], r)
    PROVE  /\ TaskOK(r, Testset, main.devices, FALSE)
           /\ \A h \in Groups(DOMAIN Testset) : Holds(r, h) <=> Holds(pool[t], h) /\ h # Current(t)
           /\ Holds(pool[t], Current(t))
           /\ Current(t) \in Kept
           /\ Current(t) \notin DOMAIN decided
           /\ Current(t)[1] \in DOMAIN Testset \ main.devices
  <1>1. PICK task : task = pool[t]
    OBVIOUS
  <1>2. task.at = "score" /\ task.at \in InGroup /\ task.at # "idle" /\ task.at # "push"
    BY <1>1 DEF InGroup
  <1>3. /\ ~Resting /\ Begun /\ Current(t) \in Groups(DOMAIN Testset)
        /\ TaskOK(task, Testset, main.devices, Resting)
    BY <1>1, <1>2, InGroupFacts
  <1>4. PICK g \in Groups(DOMAIN Testset) : g = Current(t)
    BY <1>3
  <1>5. /\ PlacesOK(task, Testset) /\ task.addr \notin main.devices
        /\ task.next <= task.last
        /\ GroupPktNum(Testset[task.addr][task.next]) >= MIN_BLOCK_PKTNUM
        /\ task.prediction \in Predictions
    BY <1>2, <1>3 DEF TaskOK
  <1>6. PICK i \in Nat \ {0} : i = task.next
    BY <1>5 DEF PlacesOK
  <1>7. PICK last \in Nat : last = task.last
    BY <1>5 DEF PlacesOK
  <1>8. g = <<task.addr, i>> /\ g[1] = task.addr /\ g[2] = i
    BY <1>1, <1>4, <1>6 DEF Current
  <1>9. Holds(task, g)
    BY <1>1, <1>2, <1>4, <1>5, AtGroup
  <1>10. g \in Kept
    <2>1. Group(g) = Testset[task.addr][task.next]
      BY <1>6, <1>8 DEF Group
    <2> QED BY <1>5, <2>1 DEF Kept
  <1>11. g \notin DOMAIN decided
    <2>1. OnePlace(g, queue, pool, main.devices, DOMAIN decided, Kept)
      BY <1>3 DEF IInv, PlacedOK
    <2> QED BY <1>1, <1>9, <2>1 DEF OnePlace
  <1>12. g[1] \in DOMAIN Testset \ main.devices
    BY <1>5, <1>8 DEF PlacesOK
  <1>13. r.at \in {"push", "group"} /\ r.addr = task.addr /\ r.last = last
         /\ First(r) = i + 1
    BY <1>1, <1>6, <1>7 DEF Behind, First
  <1>14. ASSUME NEW h \in Groups(DOMAIN Testset)
         PROVE  Holds(r, h) <=> Holds(task, h) /\ h # g
    <2>1. h[2] \in Nat /\ h = <<h[1], h[2]>>
      BY <1>3, GroupFacts DEF IInv
    <2>2. Holds(r, h) <=> task.addr = h[1] /\ i + 1 <= h[2] /\ h[2] <= last
      BY <1>13 DEF Holds
    <2>3. Holds(task, h) <=> task.addr = h[1] /\ i <= h[2] /\ h[2] <= last
      BY <1>2, <1>6, <1>7 DEF Holds, First
    <2>4. h = g <=> h[1] = task.addr /\ h[2] = i
      BY <1>8, <2>1
    <2>5. i + 1 <= h[2] <=> i <= h[2] /\ h[2] # i
      BY <2>1
    <2> QED BY <2>2, <2>3, <2>4, <2>5
  <1>15. TaskOK(r, Testset, main.devices, FALSE)
    <2>1. r # Idle /\ r.at # "idle"
      BY <1>13 DEF Idle
    <2>2. PlacesOK(r, Testset) /\ r.addr \notin main.devices
      BY <1>1, <1>5, <1>6, <1>7, <1>13 DEF PlacesOK, Behind
    <2>3. CASE r.at = "push"
      <3>1. r.next = i /\ r.order = <<>> /\ r.prediction = task.prediction
        BY <1>1, <1>6, <2>3 DEF Behind
      <3>2. r.order \in Seq(Predictions) /\ r.prediction \in Predictions
        BY <1>5, <3>1
      <3>3. r.next <= r.last /\ GroupPktNum(Testset[r.addr][r.next]) >= MIN_BLOCK_PKTNUM
        BY <1>5, <1>6, <1>7, <1>13, <3>1
      <3> QED BY <2>1, <2>2, <2>3, <3>2, <3>3 DEF TaskOK, InGroup
    <2>4. CASE r.at = "group"
      BY <2>1, <2>2, <2>4 DEF TaskOK, InGroup
    <2> QED BY <1>13, <2>3, <2>4
  <1> QED BY <1>1, <1>4, <1>9, <1>10, <1>11, <1>12, <1>14, <1>15

(* Counting a group keeps the rest of the invariant.                        *)
LEMMA DecideStep ==
    ASSUME IInv, NEW t \in Threads, pool[t].at = "score",
           NEW r, Behind(pool[t], r), pool' = [pool EXCEPT ![t] = r],
           decided' = Put(decided, Current(t), pool[t].prediction),
           UNCHANGED <<main, context, blockLevelDistribution, queue, m_ErrBurstGroups, undefined>>,
           NEW g, g = Current(t), NEW kind, kind = Verdict(g)',
           r.at = "group" <=> kind = "right",
           SheetsOK', MutexOK'
    PROVE  IInv'
  <1>1. pool[t].at \in InGroup
    BY DEF InGroup
  <1>2. /\ ~Resting /\ Begun /\ g \in Groups(DOMAIN Testset)
        /\ "levels" \notin undefined => ChoosingOK(View(g), pool[t])
    BY <1>1, InGroupFacts
  <1>3. PICK p \in Predictions : p = pool[t].prediction
    BY <1>1, InGroupFacts
  <1>4. LeavesMain /\ SameLevels /\ LevelsOK'
    BY DEF LeavesMain, SameLevels, IInv, LevelsOK
  <1>5. /\ MainOK' /\ ContextOK' /\ SameRun /\ Begun' /\ ~Resting'
        /\ main'.devices = main.devices /\ ExitOK'
    BY <1>2, <1>4, LeavesMainFacts DEF IInv
  <1>6. /\ TaskOK(r, Testset, main.devices, FALSE)
        /\ \A h \in Groups(DOMAIN Testset) : Holds(r, h) <=> Holds(pool[t], h) /\ h # g
        /\ Holds(pool[t], g) /\ g \in Kept /\ g \notin DOMAIN decided
        /\ g[1] \in DOMAIN Testset \ main.devices
    BY BehindFacts
  <1>7. DOMAIN decided' = DOMAIN decided \cup {g} /\ decided'[g] = p
        /\ \A h \in DOMAIN decided : decided'[h] = decided[h]
    <2>1. decided' = Put(decided, g, p)
      BY <1>3
    <2>2. decided' = [k \in DOMAIN decided \cup {g} |-> IF k = g THEN p ELSE decided[k]]
      BY <2>1 DEF Put
    <2> QED BY <1>6, <2>2
  <1>8. pool'[t] = r /\ \A u \in Threads : u # t => pool'[u] = pool[u]
    BY MovesFacts DEF IInv
  <1>9. QueueOK' /\ PoolOK'
    BY <1>2, <1>5, <1>6, QueueStep, PoolStep DEF IInv
  <1>10. DecidedOK'
    <2>1. IsFiniteSet(DOMAIN decided \cup {g})
      BY FS_AddElement DEF IInv, DecidedOK
    <2> QED BY <1>3, <1>5, <1>7, <2>1 DEF IInv, DecidedOK
  <1>11. PlacedOK'
    <2>1. Groups(DOMAIN Testset)' = Groups(DOMAIN Testset) /\ Kept' = Kept
      BY <1>5, SameRunFacts
    <2>2. PICK then : then = pool'
      OBVIOUS
    <2>3. PICK after : after = DOMAIN decided \cup {g}
      OBVIOUS
    <2>4. ASSUME NEW h \in Groups(DOMAIN Testset)
          PROVE  OnePlace(h, queue, then, main.devices, after, Kept)
      <3>1. OnePlace(h, queue, pool, main.devices, DOMAIN decided, Kept)
        BY <1>2 DEF IInv, PlacedOK
      <3>2. Holds(pool[t], h) => h[1] \notin main.devices
        BY DEF IInv, PoolOK, TaskOK, Holds
      <3>3. Holds(then[t], h) <=> Holds(pool[t], h) /\ h # g
        BY <1>6, <1>8, <2>2
      <3>4. \A u \in Threads : u # t => then[u] = pool[u]
        BY <1>8, <2>2
      <3>5. h \in after <=> h \in DOMAIN decided \/ h = g
        BY <2>3
      <3>6. Holds(pool[t], g)
        BY <1>6
      <3>7. h \in after => h \in DOMAIN decided \/ (Holds(pool[t], h) /\ ~Holds(then[t], h))
        BY <3>3, <3>5, <3>6
      <3>8. Holds(pool[t], h) /\ ~Holds(then[t], h) /\ h \in Kept => h \in after
        BY <3>3, <3>5
      <3>9. Moves(t, h, pool, then, main.devices, DOMAIN decided, after, Kept)
        BY <3>2, <3>3, <3>4, <3>5, <3>7, <3>8 DEF Moves
      <3> QED BY <3>1, <3>9, PlaceStep
    <2>5. DOMAIN decided \subseteq Kept
      BY <1>2 DEF IInv, PlacedOK
    <2> QED BY <1>6, <1>7, <2>1, <2>2, <2>3, <2>4, <2>5 DEF PlacedOK
  <1>12. \A h \in DOMAIN decided : Verdict(h)' = Verdict(h)
    BY <1>5, <1>6, OneMoreDecided
  <1>13. ErrorsOK'
    <2>1. r.at = "push" <=> kind # "right"
      BY DEF Behind
    <2>2. r.at = "push" => Current(t)' = g
      BY <1>8 DEF Behind, Current
    <2>3. \A u \in Threads : u # t => pool'[u] = pool[u] /\ Current(u)' = Current(u)
      BY <1>8 DEF Current
    <2>4. ASSUME NEW u \in Threads, pool'[u].at = "push"
          PROVE  Current(u)' \in DOMAIN decided' /\ Verdict(Current(u))' # "right"
      <3>1. CASE u = t
        <4>1. kind # "right" /\ Current(u)' = g
          BY <1>8, <2>1, <2>2, <2>4, <3>1
        <4>2. Verdict(Current(u))' = Verdict(g)'
          BY <4>1 DEF Verdict, TrueType
        <4> QED BY <1>7, <4>1, <4>2
      <3>2. CASE u # t
        <4>1. PICK h : h = Current(u)
          OBVIOUS
        <4>2. Current(u)' = h /\ pool[u].at = "push"
          BY <2>3, <2>4, <3>2, <4>1
        <4>3. h \in DOMAIN decided /\ Verdict(h) # "right"
          BY <4>1, <4>2 DEF IInv, ErrorsOK
        <4>4. Verdict(Current(u))' = Verdict(h)'
          BY <4>2 DEF Verdict, TrueType
        <4> QED BY <1>7, <1>12, <4>2, <4>3, <4>4
      <3> QED BY <3>1, <3>2
    <2>5. \A h \in DOMAIN decided : AtPush(h)' <=> AtPush(h)
      <3> SUFFICES ASSUME NEW h \in DOMAIN decided PROVE AtPush(h)' <=> AtPush(h)
        OBVIOUS
      <3>1. h # g
        BY <1>6
      <3>2. ~(pool'[t].at = "push" /\ Current(t)' = h)
        BY <1>8, <2>2, <3>1
      <3>3. ~(pool[t].at = "push" /\ Current(t) = h)
        OBVIOUS
      <3> QED BY <2>3, <3>2, <3>3 DEF AtPush
    <2>6. kind # "right" => AtPush(g)'
      BY <1>8, <2>1, <2>2 DEF AtPush
    <2>7. {h \in DOMAIN decided' : Verdict(h)' # "right" /\ ~AtPush(h)'}
            = {h \in DOMAIN decided : Verdict(h) # "right" /\ ~AtPush(h)}
      <3>1. ASSUME NEW h \in DOMAIN decided'
            PROVE  Verdict(h)' # "right" /\ ~AtPush(h)' <=>
                     h \in DOMAIN decided /\ Verdict(h) # "right" /\ ~AtPush(h)
        <4>1. CASE h \in DOMAIN decided
          BY <1>12, <2>5, <4>1
        <4>2. CASE h = g
          <5>1. Verdict(h)' = kind /\ h \notin DOMAIN decided
            BY <1>6, <4>2
          <5>2. kind # "right" => AtPush(h)'
            BY <2>6, <4>2
          <5> QED BY <5>1, <5>2
        <4> QED BY <1>7, <3>1, <4>1, <4>2
      <3> QED BY <1>7, <3>1
    <2>8. Begun' /\ "errors" \notin undefined' =>
             m_ErrBurstGroups' =
                 [h \in {k \in DOMAIN decided' : Verdict(k)' # "right" /\ ~AtPush(k)'} |-> 1]
      BY <1>2, <2>7 DEF IInv, ErrorsOK
    <2> QED BY <2>4, <2>8 DEF ErrorsOK
  <1>14. PolicyOK'
    <2>1. r.at \in InGroup => LookupOK(View(<<r.addr, r.next>>), r)
                              /\ ChoosingOK(View(<<r.addr, r.next>>), r)
      BY DEF Behind, InGroup, LookupOK, ChoosingOK
    <2> QED BY <1>4, <1>5, <2>1, PolicyStep DEF IInv
  <1>15. ChosenOK'
    <2> SUFFICES ASSUME "levels" \notin undefined, NEW h \in DOMAIN decided'
                 PROVE  decided'[h] \in Answers(View(h))' /\ Known(View(h))'
      BY DEF ChosenOK
    <2>1. PICK v : v = View(h)
      OBVIOUS
    <2>2. View(h)' = v
      BY <1>4, <1>5, <2>1, SameView
    <2>3. decided'[h] \in Answers(v) /\ Known(v)
      <3>1. CASE h \in DOMAIN decided
        BY <1>7, <2>1, <3>1 DEF IInv, ChosenOK
      <3>2. CASE h = g
        BY <1>2, <1>3, <1>7, <2>1, <3>2 DEF ChoosingOK
      <3> QED BY <1>7, <3>1, <3>2
    <2> QED BY <2>2, <2>3 DEF Answers, Known
  <1> QED BY <1>4, <1>5, <1>9, <1>10, <1>11, <1>13, <1>14, <1>15 DEF IInv

(* The row in which one more decision counts.                               *)
LEMMA RowAfter ==
    ASSUME IInv, SameRun, NEW g, g \notin DOMAIN decided, NEW p, decided' = Put(decided, g, p),
           NEW kind, kind = Verdict(g)', NEW type
    PROVE  LET right == IF kind = "right" /\ TrueType(g) = type THEN 1 ELSE 0
               missed == IF kind = "wrong" /\ TrueType(g) = type THEN 1 ELSE 0
               against == IF kind = "wrong" /\ Type(p) = type THEN 1 ELSE 0
               mute == IF kind = "miss" /\ TrueType(g) = type THEN 1 ELSE 0
           IN  Row(type)' = [TP |-> Row(type).TP + right, FN |-> Row(type).FN + missed,
                             FP |-> Row(type).FP + against, missNum |-> Row(type).missNum + mute]
  <1>1. /\ \A verdict :
              /\ Tally(verdict, type) \in Nat
              /\ Tally(verdict, type)' =
                       IF verdict = kind /\ TrueType(g) = type THEN Tally(verdict, type) + 1
                       ELSE Tally(verdict, type)
        /\ Against(type) \in Nat
        /\ Against(type)' = IF kind = "wrong" /\ Type(p) = type THEN Against(type) + 1
                            ELSE Against(type)
    BY OneMoreDecided
  <1>2. \A verdict : Tally(verdict, type)' =
             Tally(verdict, type) + IF kind = verdict /\ TrueType(g) = type THEN 1 ELSE 0
    BY <1>1
  <1>3. Against(type)' = Against(type) + IF kind = "wrong" /\ Type(p) = type THEN 1 ELSE 0
    BY <1>1
  <1>4. /\ Row(type).TP = Tally("right", type) /\ Row(type).FN = Tally("wrong", type)
        /\ Row(type).FP = Against(type) /\ Row(type).missNum = Tally("miss", type)
    BY DEF Row
  <1>5. Row(type)' = [TP |-> Tally("right", type)', FN |-> Tally("wrong", type)',
                      FP |-> Against(type)', missNum |-> Tally("miss", type)']
    BY DEF Row
  <1> QED BY <1>2, <1>3, <1>4, <1>5

(* The sheets are what they should be, and the types have one.              *)
LEMMA SheetTypes ==
    ASSUME IInv, SameRun, Begun, Begun', main'.devices = main.devices,
           NEW g, g \notin DOMAIN decided, NEW p, decided' = Put(decided, g, p),
           NEW kind, kind = Verdict(g)', g[1] \in DOMAIN Testset \ main.devices
    PROVE  /\ TrueType(g) \in DOMAIN sheet
           /\ SheetsOK' <=>
                 /\ DOMAIN sheet' = DOMAIN sheet \cup (IF kind = "wrong" THEN {Type(p)} ELSE {})
                 /\ \A type \in DOMAIN sheet' : sheet'[type] = Row(type)'
  <1>1. DOMAIN sheet = {Type(NameOf(a)) : a \in DOMAIN Testset \ main.devices}
                            \cup {Type(decided[h]) : h \in Decided("wrong")}
    BY DEF IInv, SheetsOK
  <1>2. TrueType(g) \in DOMAIN sheet
    BY <1>1 DEF TrueType
  <1>3. /\ Testset' = Testset /\ \A a : NameOf(a)' = NameOf(a)
    BY SameRunFacts
  <1>4. {Type(decided'[h]) : h \in Decided("wrong")'}
          = {Type(decided[h]) : h \in Decided("wrong")}
              \cup (IF kind = "wrong" THEN {Type(p)} ELSE {})
    <2>1. PICK D : D = Decided("wrong")
      OBVIOUS
    <2>2. Decided("wrong")' = IF kind = "wrong" THEN D \cup {g} ELSE D
      <3>1. Decided("wrong")' = IF "wrong" = kind THEN Decided("wrong") \cup {g} ELSE Decided("wrong")
        BY OneMoreDecided
      <3> QED BY <2>1, <3>1
    <2>3. D \subseteq DOMAIN decided
      BY <2>1 DEF Decided
    <2>4. decided'[g] = p /\ \A h \in D : decided'[h] = decided[h]
      BY <2>3 DEF Put
    <2> QED BY <2>1, <2>2, <2>4
  <1>5. {Type(NameOf(a)') : a \in DOMAIN Testset \ main.devices}
          = {Type(NameOf(a)) : a \in DOMAIN Testset \ main.devices}
    BY <1>3
  <1>6. SheetsOK' <=>
            /\ DOMAIN sheet' = {Type(NameOf(a)') : a \in DOMAIN Testset \ main.devices}
                                 \cup {Type(decided'[h]) : h \in Decided("wrong")'}
            /\ \A type \in DOMAIN sheet' : sheet'[type] = Row(type)'
    BY <1>3 DEF SheetsOK
  <1>7. PICK wrong : wrong = {Type(decided[h]) : h \in Decided("wrong")}
    OBVIOUS
  <1>8. PICK tested : tested = {Type(NameOf(a)) : a \in DOMAIN Testset \ main.devices}
    OBVIOUS
  <1> QED BY <1>1, <1>2, <1>4, <1>5, <1>6, <1>7, <1>8

(* What the three ways to count a group have in common.                     *)
LEMMA ScoreFacts ==
    ASSUME IInv, NEW t \in Threads, pool[t].at = "score",
           NEW r, Behind(pool[t], r), pool' = [pool EXCEPT ![t] = r],
           UNCHANGED <<main, context>>,
           decided' = Put(decided, Current(t), pool[t].prediction)
    PROVE  /\ ~Resting /\ Begun /\ Begun' /\ SameRun /\ main'.devices = main.devices
           /\ Current(t) \notin DOMAIN decided /\ Current(t)[1] \in DOMAIN Testset \ main.devices
           /\ pool[t].prediction \in Predictions
           /\ decided'[Current(t)] = pool[t].prediction
           /\ PredictType(t) = Unreliable <=> pool[t].prediction = Unreliable
           /\ pool'[t] = r /\ \A u \in Threads : u # t => pool'[u] = pool[u]
  <1>1. pool[t].at \in InGroup
    BY DEF InGroup
  <1>2. ~Resting /\ Begun /\ pool[t].prediction \in Predictions
    BY <1>1, InGroupFacts
  <1>3. SameRun /\ main'.devices = main.devices /\ Begun'
    BY <1>2 DEF SameRun, Begun
  <1>4. Current(t) \notin DOMAIN decided /\ Current(t)[1] \in DOMAIN Testset \ main.devices
    BY BehindFacts
  <1>5. decided'[Current(t)] = pool[t].prediction
    BY DEF Put
  <1>6. PredictType(t) = Unreliable <=> pool[t].prediction = Unreliable
    BY <1>2, PredictionTypes DEF PredictType
  <1>7. pool'[t] = r /\ \A u \in Threads : u # t => pool'[u] = pool[u]
    BY MovesFacts DEF IInv
  <1> QED BY <1>2, <1>3, <1>4, <1>5, <1>6, <1>7

(* A row is of numbers, and the sheet of its type has it.                   *)
LEMMA RowFacts ==
    ASSUME IInv, Begun, NEW type
    PROVE  /\ Sheet(type) = Row(type)
           /\ type \in DOMAIN sheet => sheet[type] = Row(type)
           /\ {Row(type).TP, Row(type).FN, Row(type).FP, Row(type).missNum} \subseteq Nat
           /\ Row(type) = [TP |-> Row(type).TP, FN |-> Row(type).FN,
                           FP |-> Row(type).FP, missNum |-> Row(type).missNum]
  <1>1. Sheet(type) = Row(type)
    BY SheetRow
  <1>2. type \in DOMAIN sheet => sheet[type] = Row(type)
    BY DEF IInv, SheetsOK
  <1>3. \A S : S \subseteq DOMAIN decided => Cardinality(S) \in Nat
    <2>1. IsFiniteSet(DOMAIN decided)
      BY DEF IInv, DecidedOK
    <2> QED BY <2>1, FS_Subset, FS_CardinalityType
  <1>4. \A verdict : Tally(verdict, type) \in Nat
    BY <1>3 DEF Tally
  <1>5. Against(type) \in Nat
    BY <1>3 DEF Against, Decided
  <1>6. {Row(type).TP, Row(type).FN, Row(type).FP, Row(type).missNum} \subseteq Nat
    BY <1>4, <1>5 DEF Row
  <1>7. Row(type) = [TP |-> Row(type).TP, FN |-> Row(type).FN,
                     FP |-> Row(type).FP, missNum |-> Row(type).missNum]
    BY DEF Row
  <1> QED BY <1>1, <1>2, <1>6, <1>7

(* AddMiss keeps the invariant: one miss more in the row of the true type.  *)
LEMMA AddMissStep ==
    ASSUME IInv, NEW t \in Threads, AddMiss(t)
    PROVE  IInv'
  <1>1. PICK g : g = Current(t)
    OBVIOUS
  <1>2. PICK p : p = pool[t].prediction
    OBVIOUS
  <1>3. PICK r : r = Pushing(t)
    OBVIOUS
  <1>4. /\ pool[t].at = "score" /\ PredictType(t) = Unreliable /\ mutex = NoThread
        /\ sheet' = Put(sheet, TrueType(g), [Sheet(TrueType(g)) EXCEPT !.missNum = @ + 1])
        /\ decided' = Put(decided, g, p)
        /\ pool' = [pool EXCEPT ![t] = r]
        /\ UNCHANGED <<main, context, blockLevelDistribution, queue, mutex, m_ErrBurstGroups,
                       undefined>>
    BY <1>1, <1>2, <1>3 DEF AddMiss
  <1>5. /\ r.at = "push" /\ r.addr = pool[t].addr /\ r.next = pool[t].next /\ r.last = pool[t].last
        /\ r.order = <<>> /\ r.prediction = p
    BY <1>2, <1>3 DEF Pushing, Deciding
  <1>6. Behind(pool[t], r)
    BY <1>2, <1>5 DEF Behind
  <1>7. /\ ~Resting /\ Begun /\ Begun' /\ SameRun /\ main'.devices = main.devices
        /\ g \notin DOMAIN decided /\ g[1] \in DOMAIN Testset \ main.devices
        /\ p \in Predictions /\ decided'[g] = p
        /\ PredictType(t) = Unreliable <=> p = Unreliable
        /\ pool'[t] = r /\ \A u \in Threads : u # t => pool'[u] = pool[u]
    <2>1. UNCHANGED <<main, context>> /\ decided' = Put(decided, Current(t), pool[t].prediction)
      BY <1>1, <1>2, <1>4
    <2>2. /\ ~Resting /\ Begun /\ Begun' /\ SameRun /\ main'.devices = main.devices
          /\ Current(t) \notin DOMAIN decided /\ Current(t)[1] \in DOMAIN Testset \ main.devices
          /\ pool[t].prediction \in Predictions
          /\ decided'[Current(t)] = pool[t].prediction
          /\ PredictType(t) = Unreliable <=> pool[t].prediction = Unreliable
          /\ pool'[t] = r /\ \A u \in Threads : u # t => pool'[u] = pool[u]
      BY <1>4, <1>6, <2>1, ScoreFacts
    <2> QED BY <1>1, <1>2, <2>2
  <1>8. p = Unreliable
    BY <1>4, <1>7
  <1>9. PICK kind : kind = Verdict(g)'
    OBVIOUS
  <1>10. kind = "miss"
    BY <1>7, <1>8, <1>9 DEF Verdict
  <1>11. SheetsOK'
    <2>1. PICK type : type = TrueType(g)
      OBVIOUS
    <2>2. type \in DOMAIN sheet
      BY <1>7, <1>4, <1>9, <2>1, SheetTypes
    <2>3. sheet' = [k \in DOMAIN sheet |->
                       IF k = type THEN [Sheet(type) EXCEPT !.missNum = @ + 1] ELSE sheet[k]]
      BY <1>4, <2>1, <2>2 DEF Put
    <2>4. ASSUME NEW k \in DOMAIN sheet PROVE sheet'[k] = Row(k)'
      <3>1. Sheet(k) = Row(k) /\ sheet[k] = Row(k)
            /\ {Row(k).TP, Row(k).FN, Row(k).FP, Row(k).missNum} \subseteq Nat
            /\ Row(k) = [TP |-> Row(k).TP, FN |-> Row(k).FN, FP |-> Row(k).FP,
                         missNum |-> Row(k).missNum]
        BY <1>7, RowFacts
      <3>2. Row(k)' = [TP |-> Row(k).TP, FN |-> Row(k).FN, FP |-> Row(k).FP,
                       missNum |-> Row(k).missNum + IF type = k THEN 1 ELSE 0]
        <4>1. LET right == IF kind = "right" /\ TrueType(g) = k THEN 1 ELSE 0
                  missed == IF kind = "wrong" /\ TrueType(g) = k THEN 1 ELSE 0
                  against == IF kind = "wrong" /\ Type(p) = k THEN 1 ELSE 0
                  mute == IF kind = "miss" /\ TrueType(g) = k THEN 1 ELSE 0
              IN  Row(k)' = [TP |-> Row(k).TP + right, FN |-> Row(k).FN + missed,
                             FP |-> Row(k).FP + against, missNum |-> Row(k).missNum + mute]
          BY <1>4, <1>7, <1>9, RowAfter
        <4> QED BY <1>10, <2>1, <3>1, <4>1
      <3>3. CASE k = type
        BY <2>3, <3>1, <3>2, <3>3
      <3>4. CASE k # type
        BY <2>3, <3>1, <3>2, <3>4
      <3> QED BY <3>3, <3>4
    <2>5. DOMAIN sheet' = DOMAIN sheet
      BY <2>3
    <2>6. SheetsOK' <=>
                 /\ DOMAIN sheet' = DOMAIN sheet \cup (IF kind = "wrong" THEN {Type(p)} ELSE {})
                 /\ \A k \in DOMAIN sheet' : sheet'[k] = Row(k)'
      BY <1>4, <1>7, <1>9, SheetTypes
    <2> QED BY <1>10, <2>4, <2>5, <2>6
  <1>12. MutexOK'
    <2>1. \A u \in Threads : ~(pool'[u].at = "push" /\ pool'[u].prediction # Unreliable)
      BY <1>4, <1>5, <1>7, <1>8, MutexAssumption DEF IInv, MutexOK
    <2> QED BY <1>4, <2>1, MutexAssumption DEF MutexOK
  <1>13. r.at = "group" <=> kind = "right"
    BY <1>5, <1>10
  <1> QED BY <1>1, <1>2, <1>4, <1>6, <1>9, <1>11, <1>12, <1>13, DecideStep

(* AddCorrect keeps the invariant: one hit more in the row of the true      *)
(* type.                                                                    *)
LEMMA AddCorrectStep ==
    ASSUME IInv, NEW t \in Threads, AddCorrect(t)
    PROVE  IInv'
  <1>1. PICK g : g = Current(t)
    OBVIOUS
  <1>2. PICK p : p = pool[t].prediction
    OBVIOUS
  <1>3. PICK r : r = GroupDone(t)
    OBVIOUS
  <1>4. /\ pool[t].at = "score" /\ PredictType(t) # Unreliable /\ mutex = NoThread
        /\ PredictType(t) = TrueType(g)
        /\ sheet' = Put(sheet, TrueType(g), [Sheet(TrueType(g)) EXCEPT !.TP = @ + 1])
        /\ decided' = Put(decided, g, p)
        /\ pool' = [pool EXCEPT ![t] = r]
        /\ UNCHANGED <<main, context, blockLevelDistribution, queue, mutex, m_ErrBurstGroups,
                       undefined>>
    BY <1>1, <1>2, <1>3 DEF AddCorrect
  <1>5. /\ r.at = "group" /\ r.addr = pool[t].addr /\ r.next = pool[t].next + 1
        /\ r.last = pool[t].last
    BY <1>3 DEF GroupDone
  <1>6. Behind(pool[t], r)
    BY <1>2, <1>5 DEF Behind
  <1>7. /\ ~Resting /\ Begun /\ Begun' /\ SameRun /\ main'.devices = main.devices
        /\ g \notin DOMAIN decided /\ g[1] \in DOMAIN Testset \ main.devices
        /\ p \in Predictions /\ decided'[g] = p
        /\ PredictType(t) = Unreliable <=> p = Unreliable
        /\ pool'[t] = r /\ \A u \in Threads : u # t => pool'[u] = pool[u]
    <2>1. UNCHANGED <<main, context>> /\ decided' = Put(decided, Current(t), pool[t].prediction)
      BY <1>1, <1>2, <1>4
    <2>2. /\ ~Resting /\ Begun /\ Begun' /\ SameRun /\ main'.devices = main.devices
          /\ Current(t) \notin DOMAIN decided /\ Current(t)[1] \in DOMAIN Testset \ main.devices
          /\ pool[t].prediction \in Predictions
          /\ decided'[Current(t)] = pool[t].prediction
          /\ PredictType(t) = Unreliable <=> pool[t].prediction = Unreliable
          /\ pool'[t] = r /\ \A u \in Threads : u # t => pool'[u] = pool[u]
      BY <1>4, <1>6, <2>1, ScoreFacts
    <2> QED BY <1>1, <1>2, <2>2
  <1>8. p # Unreliable /\ Type(p) = TrueType(g)
    BY <1>2, <1>4, <1>7 DEF PredictType
  <1>9. PICK kind : kind = Verdict(g)'
    OBVIOUS
  <1>10. kind = "right"
    <2>1. TrueType(g)' = TrueType(g)
      BY <1>7, SameRunFacts
    <2> QED BY <1>7, <1>8, <1>9, <2>1 DEF Verdict
  <1>11. SheetsOK'
    <2>1. PICK type : type = TrueType(g)
      OBVIOUS
    <2>2. type \in DOMAIN sheet
      BY <1>7, <1>4, <1>9, <2>1, SheetTypes
    <2>3. sheet' = [k \in DOMAIN sheet |->
                       IF k = type THEN [Sheet(type) EXCEPT !.TP = @ + 1] ELSE sheet[k]]
      BY <1>4, <2>1, <2>2 DEF Put
    <2>4. ASSUME NEW k \in DOMAIN sheet PROVE sheet'[k] = Row(k)'
      <3>1. Sheet(k) = Row(k) /\ sheet[k] = Row(k)
            /\ {Row(k).TP, Row(k).FN, Row(k).FP, Row(k).missNum} \subseteq Nat
            /\ Row(k) = [TP |-> Row(k).TP, FN |-> Row(k).FN, FP |-> Row(k).FP,
                         missNum |-> Row(k).missNum]
        BY <1>7, RowFacts
      <3>2. Row(k)' = [TP |-> Row(k).TP + (IF type = k THEN 1 ELSE 0), FN |-> Row(k).FN,
                       FP |-> Row(k).FP, missNum |-> Row(k).missNum]
        <4>1. LET right == IF kind = "right" /\ TrueType(g) = k THEN 1 ELSE 0
                  missed == IF kind = "wrong" /\ TrueType(g) = k THEN 1 ELSE 0
                  against == IF kind = "wrong" /\ Type(p) = k THEN 1 ELSE 0
                  mute == IF kind = "miss" /\ TrueType(g) = k THEN 1 ELSE 0
              IN  Row(k)' = [TP |-> Row(k).TP + right, FN |-> Row(k).FN + missed,
                             FP |-> Row(k).FP + against, missNum |-> Row(k).missNum + mute]
          BY <1>4, <1>7, <1>9, RowAfter
        <4> QED BY <1>10, <2>1, <3>1, <4>1
      <3>3. CASE k = type
        BY <2>3, <3>1, <3>2, <3>3
      <3>4. CASE k # type
        BY <2>3, <3>1, <3>2, <3>4
      <3> QED BY <3>3, <3>4
    <2>5. DOMAIN sheet' = DOMAIN sheet
      BY <2>3
    <2>6. SheetsOK' <=>
                 /\ DOMAIN sheet' = DOMAIN sheet \cup (IF kind = "wrong" THEN {Type(p)} ELSE {})
                 /\ \A k \in DOMAIN sheet' : sheet'[k] = Row(k)'
      BY <1>4, <1>7, <1>9, SheetTypes
    <2> QED BY <1>10, <2>4, <2>5, <2>6
  <1>12. MutexOK'
    <2>1. \A u \in Threads : ~(pool'[u].at = "push" /\ pool'[u].prediction # Unreliable)
      BY <1>4, <1>5, <1>7, MutexAssumption DEF IInv, MutexOK
    <2> QED BY <1>4, <2>1, MutexAssumption DEF MutexOK
  <1>13. r.at = "group" <=> kind = "right"
    BY <1>5, <1>10
  <1> QED BY <1>1, <1>2, <1>4, <1>6, <1>9, <1>11, <1>12, <1>13, DecideStep

(* AddWrong keeps the invariant: one false negative more in the row of the  *)
(* true type and one false positive more in that of the type predicted.     *)
LEMMA AddWrongStep ==
    ASSUME IInv, NEW t \in Threads, AddWrong(t)
    PROVE  IInv'
  <1>1. PICK g : g = Current(t)
    OBVIOUS
  <1>2. PICK p : p = pool[t].prediction
    OBVIOUS
  <1>3. PICK r : r = Pushing(t)
    OBVIOUS
  <1>4. /\ pool[t].at = "score" /\ PredictType(t) # Unreliable /\ mutex = NoThread
        /\ PredictType(t) # TrueType(g)
        /\ sheet' = Put(Put(sheet, TrueType(g), [Sheet(TrueType(g)) EXCEPT !.FN = @ + 1]),
                        PredictType(t), [Sheet(PredictType(t)) EXCEPT !.FP = @ + 1])
        /\ mutex' = t
        /\ decided' = Put(decided, g, p)
        /\ pool' = [pool EXCEPT ![t] = r]
        /\ UNCHANGED <<main, context, blockLevelDistribution, queue, m_ErrBurstGroups, undefined>>
    BY <1>1, <1>2, <1>3 DEF AddWrong
  <1>5. /\ r.at = "push" /\ r.addr = pool[t].addr /\ r.next = pool[t].next /\ r.last = pool[t].last
        /\ r.order = <<>> /\ r.prediction = p
    BY <1>2, <1>3 DEF Pushing, Deciding
  <1>6. Behind(pool[t], r)
    BY <1>2, <1>5 DEF Behind
  <1>7. /\ ~Resting /\ Begun /\ Begun' /\ SameRun /\ main'.devices = main.devices
        /\ g \notin DOMAIN decided /\ g[1] \in DOMAIN Testset \ main.devices
        /\ p \in Predictions /\ decided'[g] = p
        /\ PredictType(t) = Unreliable <=> p = Unreliable
        /\ pool'[t] = r /\ \A u \in Threads : u # t => pool'[u] = pool[u]
    <2>1. UNCHANGED <<main, context>> /\ decided' = Put(decided, Current(t), pool[t].prediction)
      BY <1>1, <1>2, <1>4
    <2>2. /\ ~Resting /\ Begun /\ Begun' /\ SameRun /\ main'.devices = main.devices
          /\ Current(t) \notin DOMAIN decided /\ Current(t)[1] \in DOMAIN Testset \ main.devices
          /\ pool[t].prediction \in Predictions
          /\ decided'[Current(t)] = pool[t].prediction
          /\ PredictType(t) = Unreliable <=> pool[t].prediction = Unreliable
          /\ pool'[t] = r /\ \A u \in Threads : u # t => pool'[u] = pool[u]
      BY <1>4, <1>6, <2>1, ScoreFacts
    <2> QED BY <1>1, <1>2, <2>2
  <1>8. p # Unreliable /\ Type(p) = PredictType(t) /\ Type(p) # TrueType(g)
    BY <1>2, <1>4, <1>7 DEF PredictType
  <1>9. PICK kind : kind = Verdict(g)'
    OBVIOUS
  <1>10. kind = "wrong"
    <2>1. TrueType(g)' = TrueType(g)
      BY <1>7, SameRunFacts
    <2> QED BY <1>7, <1>8, <1>9, <2>1 DEF Verdict
  <1>11. SheetsOK'
    <2>1. PICK type : type = TrueType(g)
      OBVIOUS
    <2>2. type \in DOMAIN sheet
      BY <1>7, <1>4, <1>9, <2>1, SheetTypes
    <2>3. PICK wrong : wrong = Type(p)
      OBVIOUS
    <2>4. PICK missed : missed = Put(sheet, type, [Sheet(type) EXCEPT !.FN = @ + 1])
      OBVIOUS
    <2>5. missed = [k \in DOMAIN sheet |->
                       IF k = type THEN [Sheet(type) EXCEPT !.FN = @ + 1] ELSE sheet[k]]
      BY <2>2, <2>4 DEF Put
    <2>6. sheet' = [k \in DOMAIN sheet \cup {wrong} |->
                       IF k = wrong THEN [Sheet(wrong) EXCEPT !.FP = @ + 1] ELSE missed[k]]
      <3>1. sheet' = Put(missed, wrong, [Sheet(wrong) EXCEPT !.FP = @ + 1])
        BY <1>4, <1>8, <2>1, <2>3, <2>4
      <3> QED BY <2>5, <3>1 DEF Put
    <2>7. ASSUME NEW k \in DOMAIN sheet \cup {wrong} PROVE sheet'[k] = Row(k)'
      <3>1. Sheet(k) = Row(k) /\ (k \in DOMAIN sheet => sheet[k] = Row(k))
            /\ {Row(k).TP, Row(k).FN, Row(k).FP, Row(k).missNum} \subseteq Nat
            /\ Row(k) = [TP |-> Row(k).TP, FN |-> Row(k).FN, FP |-> Row(k).FP,
                         missNum |-> Row(k).missNum]
        BY <1>7, RowFacts
      <3>2. Row(k)' = [TP |-> Row(k).TP, FN |-> Row(k).FN + (IF type = k THEN 1 ELSE 0),
                       FP |-> Row(k).FP + (IF wrong = k THEN 1 ELSE 0),
                       missNum |-> Row(k).missNum]
        <4>1. LET right == IF kind = "right" /\ TrueType(g) = k THEN 1 ELSE 0
                  missed1 == IF kind = "wrong" /\ TrueType(g) = k THEN 1 ELSE 0
                  against == IF kind = "wrong" /\ Type(p) = k THEN 1 ELSE 0
                  mute == IF kind = "miss" /\ TrueType(g) = k THEN 1 ELSE 0
              IN  Row(k)' = [TP |-> Row(k).TP + right, FN |-> Row(k).FN + missed1,
                             FP |-> Row(k).FP + against, missNum |-> Row(k).missNum + mute]
          BY <1>4, <1>7, <1>9, RowAfter
        <4> QED BY <1>10, <2>1, <2>3, <3>1, <4>1
      <3>3. CASE k = type
        <4>1. sheet'[k] = [Sheet(type) EXCEPT !.FN = @ + 1]
          BY <1>8, <2>1, <2>2, <2>3, <2>5, <2>6, <3>3
        <4>2. Row(k)' = [TP |-> Row(k).TP, FN |-> Row(k).FN + 1, FP |-> Row(k).FP,
                         missNum |-> Row(k).missNum]
          BY <1>8, <2>1, <2>3, <3>1, <3>2, <3>3
        <4> QED BY <3>1, <3>3, <4>1, <4>2
      <3>4. CASE k = wrong
        <4>1. sheet'[k] = [Sheet(wrong) EXCEPT !.FP = @ + 1]
          BY <2>6, <3>4
        <4>2. Row(k)' = [TP |-> Row(k).TP, FN |-> Row(k).FN, FP |-> Row(k).FP + 1,
                         missNum |-> Row(k).missNum]
          BY <1>8, <2>1, <2>3, <3>1, <3>2, <3>4
        <4> QED BY <3>1, <3>4, <4>1, <4>2
      <3>5. CASE k # type /\ k # wrong
        <4>1. sheet'[k] = sheet[k] /\ k \in DOMAIN sheet
          BY <2>5, <2>6, <3>5
        <4>2. Row(k)' = Row(k)
          BY <3>1, <3>2, <3>5
        <4> QED BY <3>1, <4>1, <4>2
      <3> QED BY <3>3, <3>4, <3>5
    <2>8. DOMAIN sheet' = DOMAIN sheet \cup {wrong}
      BY <2>6
    <2>9. SheetsOK' <=>
                 /\ DOMAIN sheet' = DOMAIN sheet \cup (IF kind = "wrong" THEN {Type(p)} ELSE {})
                 /\ \A k \in DOMAIN sheet' : sheet'[k] = Row(k)'
      <3>1. /\ SameRun /\ Begun /\ Begun' /\ main'.devices = main.devices
            /\ g \notin DOMAIN decided /\ decided' = Put(decided, g, p)
            /\ kind = Verdict(g)' /\ g[1] \in DOMAIN Testset \ main.devices
        BY <1>4, <1>7, <1>9
      <3> QED BY <3>1, SheetTypes
    <2> QED BY <1>10, <2>3, <2>7, <2>8, <2>9
  <1>12. MutexOK'
    <2>1. \A u \in Threads : ~(pool[u].at = "push" /\ pool[u].prediction # Unreliable)
      BY <1>4, MutexAssumption DEF IInv, MutexOK
    <2>2. pool'[t].at = "push" /\ pool'[t].prediction # Unreliable
      BY <1>5, <1>7, <1>8
    <2> QED BY <1>4, <1>7, <2>1, <2>2 DEF MutexOK
  <1>13. r.at = "group" <=> kind = "right"
    BY <1>5, <1>10
  <1> QED BY <1>1, <1>2, <1>4, <1>6, <1>9, <1>11, <1>12, <1>13, DecideStep

(* The group is listed, unless that meets another push_back.                *)
LEMMA PushStep ==
    ASSUME IInv, NEW t \in Threads, Push(t)
    PROVE  IInv'
  <1>1. PICK g : g = Current(t)
    OBVIOUS
  <1>2. PICK r : r = GroupDone(t)
    OBVIOUS
  <1>3. /\ pool[t].at = "push" /\ pool[t].at \in InGroup
        /\ pool' = [pool EXCEPT ![t] = r]
        /\ mutex' = IF mutex = t THEN NoThread ELSE mutex
        /\ UNCHANGED <<context, blockLevelDistribution, queue, sheet, decided>>
        /\ LeavesMain
        /\ undefined' \in {undefined, undefined \cup {"errors"}}
        /\ \/ ~PushRace(t) /\ m_ErrBurstGroups' = Pushed(t) /\ undefined' = undefined
           \/ "errors" \in undefined'
    BY <1>2 DEF Push, InGroup, LeavesMain
  <1>4. /\ ~Resting /\ Begun /\ g \in Groups(DOMAIN Testset)
        /\ TaskOK(pool[t], Testset, main.devices, Resting)
    BY <1>1, <1>3, InGroupFacts
  <1>5. /\ MainOK' /\ ContextOK' /\ SameRun /\ Begun' /\ ~Resting'
        /\ main'.devices = main.devices /\ ExitOK'
    BY <1>3, <1>4, LeavesMainFacts DEF IInv
  <1>6. SameLevels /\ LevelsOK'
    BY <1>3 DEF SameLevels, IInv, LevelsOK
  <1>7. PICK task : task = pool[t]
    OBVIOUS
  <1>8. PlacesOK(task, Testset) /\ task.addr \notin main.devices
    BY <1>3, <1>4, <1>7 DEF TaskOK
  <1>9. PICK i \in Nat \ {0} : i = task.next
    BY <1>8 DEF PlacesOK
  <1>10. /\ r.at = "group" /\ r.addr = task.addr /\ r.next = i + 1 /\ r.last = task.last
    BY <1>2, <1>7, <1>9 DEF GroupDone
  <1>11. TaskOK(r, Testset, main.devices, FALSE)
    <2>1. r # Idle
      BY <1>10 DEF Idle
    <2>2. PlacesOK(r, Testset) /\ r.addr \notin main.devices
      BY <1>8, <1>9, <1>10 DEF PlacesOK
    <2> QED BY <1>10, <2>1, <2>2 DEF TaskOK, InGroup
  <1>12. \A h : Holds(r, h) <=> Holds(task, h)
    BY <1>3, <1>7, <1>9, <1>10 DEF Holds, First
  <1>13. pool'[t] = r /\ \A u \in Threads : u # t => pool'[u] = pool[u]
    BY <1>3, MovesFacts DEF IInv
  <1>14. QueueOK' /\ PoolOK'
    BY <1>3, <1>4, <1>5, <1>11, QueueStep, PoolStep DEF IInv
  <1>15. MutexOK'
    <2>1. mutex \in Threads \cup {NoThread}
          /\ \A u \in Threads : mutex = u <=> pool[u].at = "push" /\ pool[u].prediction # Unreliable
      BY DEF IInv, MutexOK
    <2>2. NoThread \notin Threads
      BY MutexAssumption
    <2>3. pool'[t].at # "push"
      BY <1>10, <1>13
    <2>4. mutex' \in Threads \cup {NoThread} /\ mutex' # t
      BY <1>3, <2>1, <2>2
    <2>5. \A u \in Threads : u # t => (mutex' = u <=> mutex = u)
      BY <1>3, <2>2
    <2> QED BY <1>13, <2>1, <2>3, <2>4, <2>5 DEF MutexOK
  <1>16. DecidedOK'
    BY <1>3, <1>5 DEF IInv, DecidedOK
  <1>17. PlacedOK'
    <2>1. Groups(DOMAIN Testset)' = Groups(DOMAIN Testset) /\ Kept' = Kept
      BY <1>5, SameRunFacts
    <2>2. ASSUME NEW h \in Groups(DOMAIN Testset)
          PROVE  OnePlace(h, queue, pool', main.devices, DOMAIN decided, Kept)
      <3>1. OnePlace(h, queue, pool, main.devices, DOMAIN decided, Kept)
        BY <1>4 DEF IInv, PlacedOK
      <3>2. Holds(pool[t], h) => h[1] \notin main.devices
        BY DEF IInv, PoolOK, TaskOK, Holds
      <3>3. Holds(pool'[t], h) <=> Holds(pool[t], h)
        BY <1>7, <1>12, <1>13
      <3>4. Moves(t, h, pool, pool', main.devices, DOMAIN decided, DOMAIN decided, Kept)
        BY <1>13, <3>2, <3>3 DEF Moves
      <3> QED BY <3>1, <3>4, PlaceStep
    <2>3. DOMAIN decided \subseteq Kept
      BY <1>4 DEF IInv, PlacedOK
    <2> QED BY <1>3, <1>5, <2>1, <2>2, <2>3 DEF PlacedOK
  <1>18. SheetsOK'
    BY <1>3, <1>4, <1>5, SheetsStep DEF IInv
  <1>19. ErrorsOK'
    <2>1. \A h : Verdict(h)' = Verdict(h)
      BY <1>3, <1>5, SameDecisions
    <2>2. \A u \in Threads : u # t => pool'[u] = pool[u] /\ Current(u)' = Current(u)
      BY <1>13 DEF Current
    <2>3. ASSUME NEW u \in Threads, pool'[u].at = "push"
          PROVE  Current(u)' \in DOMAIN decided /\ Verdict(Current(u))' # "right"
      <3>1. u # t
        BY <1>10, <1>13, <2>3
      <3>2. PICK h : h = Current(u)
        OBVIOUS
      <3>3. Current(u)' = h /\ pool[u].at = "push"
        BY <2>2, <2>3, <3>1, <3>2
      <3>4. h \in DOMAIN decided /\ Verdict(h) # "right"
        BY <3>2, <3>3 DEF IInv, ErrorsOK
      <3>5. Verdict(Current(u))' = Verdict(h)'
        BY <3>3 DEF Verdict, TrueType
      <3> QED BY <2>1, <3>3, <3>4, <3>5
    <2>4. ASSUME "errors" \notin undefined'
          PROVE  m_ErrBurstGroups' =
                     [h \in {k \in DOMAIN decided' : Verdict(k)' # "right" /\ ~AtPush(k)'} |-> 1]
      <3>1. ~PushRace(t) /\ m_ErrBurstGroups' = Pushed(t) /\ "errors" \notin undefined
        BY <1>3, <2>4
      <3>2. \A u \in Threads : u # t => pool[u].at # "push"
        BY <3>1 DEF PushRace
      <3>3. \A h : AtPush(h) <=> h = g
        BY <1>1, <1>3, <3>2 DEF AtPush
      <3>4. \A h : ~AtPush(h)'
        BY <1>10, <1>13, <2>2, <3>2 DEF AtPush
      <3>5. g \in DOMAIN decided /\ Verdict(g) # "right"
        BY <1>1, <1>3 DEF IInv, ErrorsOK
      <3>6. PICK S : S = {h \in DOMAIN decided : Verdict(h) # "right" /\ ~AtPush(h)}
        OBVIOUS
      <3>7. m_ErrBurstGroups = [h \in S |-> 1]
        BY <1>4, <3>1, <3>6 DEF IInv, ErrorsOK
      <3>8. g \notin S
        BY <3>3, <3>6
      <3>9. m_ErrBurstGroups' = Put(m_ErrBurstGroups, g, 1)
        <4>1. At(m_ErrBurstGroups, g, 0) = 0
          BY <3>7, <3>8 DEF At
        <4>2. m_ErrBurstGroups' = Put(m_ErrBurstGroups, g, At(m_ErrBurstGroups, g, 0) + 1)
          BY <1>1, <3>1 DEF Pushed
        <4> QED BY <4>1, <4>2
      <3>10. m_ErrBurstGroups' = [h \in S \cup {g} |-> 1]
        BY <3>7, <3>9 DEF Put
      <3>11. {k \in DOMAIN decided' : Verdict(k)' # "right" /\ ~AtPush(k)'} = S \cup {g}
        BY <1>3, <2>1, <3>3, <3>4, <3>5, <3>6
      <3> QED BY <3>10, <3>11
    <2> QED BY <1>3, <2>3, <2>4 DEF ErrorsOK
  <1>20. r.at \notin InGroup /\ undefined \subseteq undefined'
    BY <1>3, <1>10 DEF InGroup
  <1>21. PolicyOK'
    BY <1>3, <1>5, <1>6, <1>20, PolicyStep DEF IInv
  <1>22. ChosenOK'
    BY <1>3, <1>5, <1>6, <1>20, ChosenStep DEF IInv
  <1> QED BY <1>5, <1>6, <1>14, <1>15, <1>16, <1>17, <1>18, <1>19, <1>21, <1>22 DEF IInv

-----------------------------------------------------------------------------
(* The main thread *)

(* As long as nothing is decided and no thread moves, what has been found   *)
(* out stays true.                                                          *)
LEMMA SameDecidedStep ==
    ASSUME IInv, SameRun, Begun' <=> Begun,
           UNCHANGED <<blockLevelDistribution, pool, m_ErrBurstGroups, decided, undefined>>
    PROVE  ErrorsOK' /\ PolicyOK' /\ ChosenOK'
  <1>1. \A g : Verdict(g)' = Verdict(g)
    BY SameDecisions
  <1>2. ErrorsOK'
    <2>1. \A t : Current(t)' = Current(t)
      BY DEF Current
    <2>2. \A h : AtPush(h)' <=> AtPush(h)
      BY <2>1 DEF AtPush
    <2>3. ASSUME NEW t \in Threads, pool[t].at = "push"
          PROVE  Current(t)' \in DOMAIN decided /\ Verdict(Current(t))' # "right"
      <3>1. PICK g : g = Current(t)
        OBVIOUS
      <3>2. Verdict(Current(t))' = Verdict(g)'
        BY <2>1, <3>1 DEF Verdict, TrueType
      <3>3. g \in DOMAIN decided /\ Verdict(g) # "right"
        BY <2>3, <3>1 DEF IInv, ErrorsOK
      <3> QED BY <1>1, <2>1, <3>1, <3>2, <3>3
    <2>4. {h \in DOMAIN decided' : Verdict(h)' # "right" /\ ~AtPush(h)'}
            = {h \in DOMAIN decided : Verdict(h) # "right" /\ ~AtPush(h)}
      BY <1>1, <2>2
    <2> QED BY <2>3, <2>4 DEF IInv, ErrorsOK
  <1>3. \A g : View(g)' = View(g)
    BY SameView DEF SameLevels
  <1>4. PolicyOK'
    <2> SUFFICES ASSUME NEW u \in Threads, pool[u].at \in InGroup
                 PROVE  /\ LookupOK(View(Current(u))', pool[u])
                        /\ "levels" \notin undefined => ChoosingOK(View(Current(u))', pool[u])
      BY DEF PolicyOK
    <2>1. PICK g : g = Current(u)
      OBVIOUS
    <2>2. Current(u)' = g
      BY <2>1 DEF Current
    <2>3. View(Current(u))' = View(g)'
      BY <2>2, ViewHere
    <2>4. LookupOK(View(g), pool[u]) /\ ("levels" \notin undefined => ChoosingOK(View(g), pool[u]))
      BY <2>1 DEF IInv, PolicyOK
    <2> QED BY <1>3, <2>3, <2>4
  <1>5. ChosenOK'
    BY <1>3 DEF IInv, ChosenOK
  <1> QED BY <1>2, <1>4, <1>5

(* Nothing but the main thread's place changes.                             *)
LEMMA SameRestStep ==
    ASSUME IInv, SameRun, Begun' <=> Begun, main'.devices = main.devices,
           UNCHANGED <<blockLevelDistribution, queue, pool, mutex, sheet, m_ErrBurstGroups,
                       decided, undefined>>,
           MainOK', QueueOK', PoolOK', ExitOK'
    PROVE  IInv'
  <1>1. /\ Experiment' = Experiment /\ Testset' = Testset
        /\ Groups(DOMAIN Testset)' = Groups(DOMAIN Testset)
        /\ Kept' = Kept
    BY SameRunFacts
  <1>2. /\ \A g : Verdict(g)' = Verdict(g)
        /\ \A verdict : Decided(verdict)' = Decided(verdict)
        /\ \A type : Row(type)' = Row(type)
    BY SameDecisions
  <1>3. ContextOK' /\ LevelsOK' /\ MutexOK' /\ DecidedOK'
    <2>1. context' = context
      BY DEF SameRun
    <2>2. ContextOK'
      BY <1>1, <2>1 DEF IInv, ContextOK
    <2>3. LevelsOK' /\ MutexOK'
      BY DEF IInv, LevelsOK, MutexOK
    <2>4. DecidedOK'
      BY DEF IInv, DecidedOK
    <2> QED BY <2>2, <2>3, <2>4
  <1>4. PlacedOK'
    BY <1>1 DEF IInv, PlacedOK
  <1>5. SheetsOK'
    <2>1. \A a : NameOf(a)' = NameOf(a)
      BY SameRunFacts
    <2> QED BY <1>1, <1>2, <2>1 DEF IInv, SheetsOK
  <1>6. ErrorsOK' /\ PolicyOK' /\ ChosenOK'
    BY SameDecidedStep
  <1> QED BY <1>3, <1>4, <1>5, <1>6 DEF IInv

(* A step that changes nothing keeps the invariant.                         *)
LEMMA Stutter ==
    ASSUME IInv, UNCHANGED vars
    PROVE  IInv'
  <1>1. /\ main' = main /\ context' = context
        /\ UNCHANGED <<blockLevelDistribution, queue, pool, mutex, sheet, m_ErrBurstGroups,
                       decided, undefined>>
    BY DEF vars
  <1>2. SameRun /\ (Begun' <=> Begun) /\ (Resting' <=> Resting)
    BY <1>1 DEF SameRun, Begun, Resting
  <1>3. Testset' = Testset
    BY <1>2, SameRunFacts
  <1>4. MainOK'
    BY <1>1, <1>2, <1>3 DEF IInv, MainOK
  <1>5. QueueOK' /\ PoolOK'
    <2>1. QueueOK'
      BY <1>1, <1>2, <1>3 DEF IInv, QueueOK
    <2>2. ASSUME NEW t \in Threads PROVE TaskOK(pool[t], Testset, main.devices, Resting')
      <3>1. TaskOK(pool[t], Testset, main.devices, Resting)
        BY DEF IInv, PoolOK
      <3> QED BY <1>2, <3>1 DEF TaskOK
    <2>3. PoolOK'
      BY <1>1, <1>3, <2>2 DEF IInv, PoolOK
    <2> QED BY <2>1, <2>3
  <1>6. ExitOK'
    BY <1>1 DEF IInv, ExitOK, Unprintable
  <1> QED BY <1>1, <1>2, <1>4, <1>5, <1>6, SameRestStep

(* Wait keeps the invariant: nothing is queued and no thread works.         *)
LEMMA WaitStep ==
    ASSUME IInv, Wait
    PROVE  IInv'
  <1>1. /\ main.pc = "predict" /\ main.devices = {} /\ queue = <<>>
        /\ \A t \in Threads : pool[t] = Idle
        /\ main' = [main EXCEPT !.pc = "output"]
        /\ UNCHANGED <<context, blockLevelDistribution, queue, pool, mutex, sheet,
                       m_ErrBurstGroups, decided, undefined>>
    BY DEF Wait
  <1>2. main' = [pc |-> "output", series |-> main.series, experiment |-> main.experiment,
                 devices |-> main.devices]
    BY <1>1 DEF IInv, MainOK
  <1>3. /\ SameRun /\ Begun /\ Begun' /\ main'.devices = main.devices /\ main'.pc = "output"
    BY <1>1, <1>2 DEF SameRun, Begun
  <1>4. Testset' = Testset
    BY <1>3, SameRunFacts
  <1>5. MainOK'
    BY <1>1, <1>2, <1>3, <1>4 DEF IInv, MainOK
  <1>6. QueueOK'
    BY <1>1, <1>3, <1>4 DEF IInv, QueueOK
  <1>7. PoolOK'
    <2>1. \A t \in Threads : pool[t].at = "idle"
      BY <1>1 DEF Idle
    <2> QED BY <1>1, <2>1 DEF IInv, PoolOK, TaskOK, InGroup
  <1>8. ExitOK'
    BY <1>3 DEF ExitOK
  <1> QED BY <1>1, <1>3, <1>5, <1>6, <1>7, <1>8, SameRestStep

(* At rest no thread has a task.                                            *)
LEMMA AtRest ==
    ASSUME IInv, Resting
    PROVE  queue = <<>> /\ \A t \in Threads : pool[t] = Idle /\ pool[t].at = "idle"
  BY DEF IInv, QueueOK, PoolOK, TaskOK, Idle

(* OutputFails keeps the invariant: only the main thread's place changes.   *)
LEMMA OutputFailsStep ==
    ASSUME IInv, NEW table, NEW details, OutputFails(table, details)
    PROVE  IInv'
  <1>1. /\ main.pc = "output"
        /\ main' = [main EXCEPT !.pc = "unwritten"]
        /\ UNCHANGED <<context, blockLevelDistribution, queue, pool, mutex, sheet,
                       m_ErrBurstGroups, decided, undefined>>
    BY DEF OutputFails
  <1>2. main' = [pc |-> "unwritten", series |-> main.series, experiment |-> main.experiment,
                 devices |-> main.devices]
    BY <1>1 DEF IInv, MainOK
  <1>3. /\ SameRun /\ Begun /\ Begun' /\ main'.devices = main.devices
        /\ main'.pc = "unwritten" /\ Resting /\ Resting'
    BY <1>1, <1>2 DEF SameRun, Begun, Resting
  <1>4. Testset' = Testset
    BY <1>3, SameRunFacts
  <1>5. MainOK'
    BY <1>1, <1>2, <1>3, <1>4 DEF IInv, MainOK
  <1>6. QueueOK'
    BY <1>1, <1>3, <1>4 DEF IInv, QueueOK
  <1>7. PoolOK'
    BY <1>1, <1>3, <1>4 DEF IInv, PoolOK
  <1>8. ExitOK'
    BY <1>3 DEF ExitOK
  <1> QED BY <1>1, <1>3, <1>5, <1>6, <1>7, <1>8, SameRestStep

(* OutputExits keeps the invariant: a decision without a device is listed.  *)
LEMMA OutputExitsStep ==
    ASSUME IInv, NEW table, OutputExits(table)
    PROVE  IInv'
  <1>1. /\ main.pc = "output" /\ Unprintable # {}
        /\ main' = [main EXCEPT !.pc = "exited"]
        /\ UNCHANGED <<context, blockLevelDistribution, queue, pool, mutex, sheet,
                       m_ErrBurstGroups, decided, undefined>>
    BY DEF OutputExits
  <1>2. main' = [pc |-> "exited", series |-> main.series, experiment |-> main.experiment,
                 devices |-> main.devices]
    BY <1>1 DEF IInv, MainOK
  <1>3. /\ SameRun /\ Begun /\ Begun' /\ main'.devices = main.devices /\ main'.pc = "exited"
        /\ Resting /\ Resting'
    BY <1>1, <1>2 DEF SameRun, Begun, Resting
  <1>4. Testset' = Testset
    BY <1>3, SameRunFacts
  <1>5. MainOK'
    BY <1>1, <1>2, <1>3, <1>4 DEF IInv, MainOK
  <1>6. QueueOK'
    BY <1>1, <1>3, <1>4 DEF IInv, QueueOK
  <1>7. PoolOK'
    BY <1>1, <1>3, <1>4 DEF IInv, PoolOK
  <1>8. ExitOK'
    BY <1>1 DEF ExitOK, Unprintable
  <1> QED BY <1>1, <1>3, <1>5, <1>6, <1>7, <1>8, SameRestStep

(* The series goes on with nothing waiting, running or decided.             *)
LEMMA OutputToFileStep ==
    ASSUME IInv, NEW table, NEW details, OutputToFile(table, details)
    PROVE  IInv'
  <1>1. /\ main.pc = "output"
        /\ main' = [pc |-> "begin", series |-> main.series, experiment |-> main.experiment + 1,
                    devices |-> {}]
        /\ sheet' = EmptyMap /\ m_ErrBurstGroups' = EmptyMap /\ decided' = EmptyMap
        /\ UNCHANGED <<context, blockLevelDistribution, queue, pool, mutex, undefined>>
    BY DEF OutputToFile
  <1>2. /\ main'.pc = "begin" /\ main'.series = main.series
        /\ main'.experiment = main.experiment + 1 /\ main'.devices = {}
    BY <1>1
  <1>3. Begun /\ Resting /\ ~Begun' /\ Resting'
    BY <1>1, <1>2 DEF Begun, Resting
  <1>4. queue = <<>> /\ \A t \in Threads : pool[t] = Idle /\ pool[t].at = "idle"
    BY <1>3, AtRest
  <1>5. MainOK'
    <2>1. PICK n \in Nat : n = Len(main.series)
      <3>1. IsSeq(main.series)
        BY <1>3, ExperimentFacts DEF IInv
      <3>2. PICK series : series = main.series
        OBVIOUS
      <3>3. series \in Seq(ToSet(series))
        BY <3>1, <3>2 DEF IsSeq
      <3> QED BY <3>2, <3>3
    <2>2. main.experiment \in 1 .. n + 1 /\ main.experiment <= n /\ main.series \in Series
      BY <1>3, <2>1 DEF IInv, MainOK
    <2>3. main.experiment + 1 \in 1 .. n + 1
      BY <2>2
    <2> QED BY <1>1, <1>2, <1>3, <2>1, <2>2, <2>3 DEF MainOK
  <1>6. ContextOK' /\ LevelsOK' /\ MutexOK'
    BY <1>1, <1>3 DEF IInv, ContextOK, LevelsOK, MutexOK
  <1>7. QueueOK'
    <2>1. queue' = <<>> /\ DOMAIN queue' = {}
      BY <1>1, <1>4
    <2>2. <<>> \in Seq([addr : DOMAIN Testset', next : Nat, last : Nat])
      OBVIOUS
    <2> QED BY <2>1, <2>2 DEF QueueOK
  <1>8. PoolOK'
    BY <1>1, <1>4 DEF IInv, PoolOK, TaskOK, InGroup
  <1>9. DOMAIN decided' = {}
    BY <1>1 DEF EmptyMap
  <1>10. DecidedOK'
    BY <1>1, <1>9, FS_EmptySet DEF DecidedOK
  <1>11. PlacedOK' /\ SheetsOK' /\ ErrorsOK'
    BY <1>1, <1>3, <1>4 DEF PlacedOK, SheetsOK, ErrorsOK
  <1>12. PolicyOK' /\ ChosenOK' /\ ExitOK'
    BY <1>1, <1>2, <1>4, <1>9 DEF PolicyOK, ChosenOK, ExitOK, InGroup
  <1> QED BY <1>5, <1>6, <1>7, <1>8, <1>10, <1>11, <1>12 DEF IInv

(* One sequence behind another.                                             *)
LEMMA ConcatFacts ==
    ASSUME NEW S, NEW s \in Seq(S), NEW u \in Seq(S),
           NEW m \in Nat, m = Len(s), NEW n \in Nat, n = Len(u)
    PROVE  /\ s \o u \in Seq(S)
           /\ DOMAIN (s \o u) = 1 .. m + n
           /\ \A i \in 1 .. m : (s \o u)[i] = s[i]
           /\ \A i \in 1 .. n : (s \o u)[m + i] = u[i]
  <1>1. s \o u \in Seq(S) /\ Len(s \o u) = m + n
    OBVIOUS
  <1>2. PICK w \in Seq(S) : w = s \o u /\ Len(w) = m + n
    BY <1>1
  <1>3. DOMAIN w = 1 .. m + n
    BY <1>2
  <1>4. \A i \in 1 .. m : (s \o u)[i] = s[i]
    OBVIOUS
  <1>5. \A i \in 1 .. n : (s \o u)[m + i] = u[i]
    OBVIOUS
  <1> QED BY <1>1, <1>2, <1>3, <1>4, <1>5

(* A key of a line of the mapping leads to a device, old keys to theirs.    *)
LeadsUpTo(ids, size) == \A k \in DOMAIN ids : ids[k] + 1 \in 1 .. size

(* Registering a list of keys behind size devices: the old keys keep a      *)
(* device, each new one has one.                                            *)
LEMMA RegisteredFacts ==
    ASSUME NEW size \in Nat, NEW n \in Nat, NEW known, LeadsUpTo(known, size),
           NEW keys, DOMAIN keys = 1 .. n
    PROVE  /\ DOMAIN Registered(known, keys, size) = DOMAIN known \cup ToSet(keys)
           /\ LeadsUpTo(Registered(known, keys, size), size + n)
  <1>1. PICK r : r = Registered(known, keys, size)
    OBVIOUS
  <1>2. DOMAIN r = DOMAIN known \cup ToSet(keys)
    BY <1>1 DEF Registered
  <1>3. ASSUME NEW k \in DOMAIN r PROVE r[k] + 1 \in 1 .. size + n
    <2>1. CASE k \in DOMAIN known
      <3>1. r[k] = known[k] /\ known[k] + 1 \in 1 .. size
        BY <1>1, <1>2, <2>1 DEF Registered, LeadsUpTo
      <3> QED BY <3>1
    <2>2. CASE k \notin DOMAIN known
      <3>1. PICK S : S = {i \in DOMAIN keys : keys[i] = k}
        OBVIOUS
      <3>2. r[k] = size - 1 + Min(S)
        BY <1>1, <1>2, <2>2, <3>1 DEF Registered
      <3>3. S \subseteq Nat /\ S # {} /\ S \subseteq 1 .. n
        BY <1>2, <2>2, <3>1 DEF ToSet
      <3>4. \E m \in S : \A i \in S : m <= i
        BY <3>3, LeastOfNaturals
      <3>5. Min(S) \in S
        BY <3>4 DEF Min
      <3>6. PICK m \in 1 .. n : m = Min(S)
        BY <3>3, <3>5
      <3> QED BY <3>2, <3>6
    <2> QED BY <2>1, <2>2
  <1> QED BY <1>1, <1>2, <1>3 DEF LeadsUpTo

(* AddDevices leaves every name and every address of the mapping with a     *)
(* device.                                                                  *)
LEMMA AddDevicesFacts ==
    ASSUME NEW c, c.deviceVec \in Seq(Names), Leads(c.allDevices, c.deviceVec),
           Leads(c.addressMap, c.deviceVec),
           NEW mapping, IsSeq(mapping), {line.name : line \in ToSet(mapping)} \subseteq Names,
           NEW d, d = AddDevices(c, mapping)
    PROVE  /\ d.deviceVec \in Seq(Names)
           /\ Leads(d.allDevices, d.deviceVec)
           /\ Leads(d.addressMap, d.deviceVec)
           /\ \A line \in ToSet(mapping) :
                 line.name \in DOMAIN d.allDevices /\ line.addr \in DOMAIN d.addressMap
  <1>1. PICK n \in Nat : n = Len(mapping) /\ DOMAIN mapping = 1 .. n
    BY DEF IsSeq
  <1>2. PICK devices \in Seq(Names) : devices = c.deviceVec
    OBVIOUS
  <1>3. PICK size \in Nat : size = Len(devices) /\ DOMAIN devices = 1 .. size
    OBVIOUS
  <1>4. PICK names : names = [i \in 1 .. n |-> mapping[i].name]
    OBVIOUS
  <1>5. PICK addrs : addrs = [i \in 1 .. n |-> mapping[i].addr]
    OBVIOUS
  <1>6. /\ d.deviceVec = devices \o names
        /\ d.allDevices = Registered(c.allDevices, names, size)
        /\ d.addressMap = Registered(c.addressMap, addrs, size)
    BY <1>1, <1>2, <1>3, <1>4, <1>5 DEF AddDevices
  <1>7. names \in Seq(Names) /\ Len(names) = n
    <2>1. \A i \in 1 .. n : mapping[i].name \in Names
      BY <1>1 DEF ToSet
    <2> QED BY <1>4, <2>1
  <1>8. d.deviceVec \in Seq(Names) /\ DOMAIN d.deviceVec = 1 .. size + n
    <2>1. PICK S : S = Names
      OBVIOUS
    <2>2. devices \in Seq(S) /\ names \in Seq(S)
      BY <1>7, <2>1
    <2>a. size = Len(devices) /\ n = Len(names)
      BY <1>3, <1>7
    <2> HIDE <1>3, <1>7
    <2>3. devices \o names \in Seq(S) /\ DOMAIN (devices \o names) = 1 .. size + n
      BY <2>2, <2>a, ConcatFacts
    <2> QED BY <1>6, <2>1, <2>3
  <1>9. LeadsUpTo(c.allDevices, size) /\ LeadsUpTo(c.addressMap, size)
    BY <1>2, <1>3 DEF Leads, LeadsUpTo
  <1>10. DOMAIN names = 1 .. n /\ DOMAIN addrs = 1 .. n
    BY <1>4, <1>5
  <1>11. /\ DOMAIN d.allDevices = DOMAIN c.allDevices \cup ToSet(names)
         /\ LeadsUpTo(d.allDevices, size + n)
    <2>1. /\ DOMAIN Registered(c.allDevices, names, size) = DOMAIN c.allDevices \cup ToSet(names)
          /\ LeadsUpTo(Registered(c.allDevices, names, size), size + n)
      BY <1>9, <1>10, RegisteredFacts
    <2> QED BY <1>6, <2>1
  <1>12. /\ DOMAIN d.addressMap = DOMAIN c.addressMap \cup ToSet(addrs)
         /\ LeadsUpTo(d.addressMap, size + n)
    <2>1. /\ DOMAIN Registered(c.addressMap, addrs, size) = DOMAIN c.addressMap \cup ToSet(addrs)
          /\ LeadsUpTo(Registered(c.addressMap, addrs, size), size + n)
      BY <1>9, <1>10, RegisteredFacts
    <2> QED BY <1>6, <2>1
  <1>13. \A line \in ToSet(mapping) : line.name \in ToSet(names) /\ line.addr \in ToSet(addrs)
    BY <1>1, <1>4, <1>5 DEF ToSet
  <1> QED BY <1>8, <1>11, <1>12, <1>13 DEF Leads, LeadsUpTo

(* Begin keeps the invariant: the context knows the mapping, the sheets     *)
(* are empty and every device waits for its tasks.                          *)
LEMMA BeginStep ==
    ASSUME IInv, Begin
    PROVE  IInv'
  <1>1. /\ main.pc = "begin" /\ main.experiment <= Len(main.series)
        /\ context' = AddDevices(context, Experiment.mapping)
        /\ main' = [pc |-> "predict", series |-> main.series, experiment |-> main.experiment,
                    devices |-> DOMAIN Testset]
        /\ UNCHANGED <<queue, pool, mutex, sheet, m_ErrBurstGroups, decided, undefined>>
    BY DEF Begin
  <1>2. /\ main'.pc = "predict" /\ main'.series = main.series
        /\ main'.experiment = main.experiment /\ main'.devices = DOMAIN Testset
    BY <1>1
  <1>3. ~Begun /\ Resting /\ Begun' /\ ~Resting'
    BY <1>1, <1>2 DEF Begun, Resting
  <1>4. Experiment' = Experiment /\ Testset' = Testset
    BY <1>2 DEF Experiment, Testset
  <1>5. queue = <<>> /\ \A t \in Threads : pool[t] = Idle /\ pool[t].at = "idle"
    BY <1>3, AtRest
  <1>6. decided = EmptyMap /\ sheet = EmptyMap /\ m_ErrBurstGroups = EmptyMap
        /\ DOMAIN decided = {} /\ DOMAIN sheet = {}
    BY <1>3 DEF IInv, DecidedOK, EmptyMap
  <1>7. MainOK'
    BY <1>1, <1>2, <1>3, <1>4 DEF IInv, MainOK
  <1>8. ContextOK'
    <2>1. PICK mapping : mapping = Experiment.mapping
      OBVIOUS
    <2>2. IsSeq(mapping)
      BY <1>1, <2>1, ExperimentFacts DEF IInv
    <2>3. {line.name : line \in ToSet(mapping)} \subseteq Names
      BY <1>1, <2>1, NamesFacts DEF IInv, DeviceNames
    <2>4. PICK c : c = context
      OBVIOUS
    <2>5. PICK d : d = context'
      OBVIOUS
    <2>6. c.deviceVec \in Seq(Names) /\ Leads(c.allDevices, c.deviceVec)
          /\ Leads(c.addressMap, c.deviceVec) /\ d = AddDevices(c, mapping)
      BY <1>1, <2>1, <2>4, <2>5 DEF IInv, ContextOK
    <2>7. /\ d.deviceVec \in Seq(Names)
          /\ Leads(d.allDevices, d.deviceVec)
          /\ Leads(d.addressMap, d.deviceVec)
          /\ \A line \in ToSet(mapping) :
                line.name \in DOMAIN d.allDevices /\ line.addr \in DOMAIN d.addressMap
      BY <2>2, <2>3, <2>6, AddDevicesFacts
    <2> QED BY <1>4, <2>1, <2>5, <2>7 DEF ContextOK
  <1>9. LevelsOK'
    <2>1. PICK levels : levels = Experiment.levels
      OBVIOUS
    <2>2. \A a \in DOMAIN levels : levels[a] \in Counts
      BY <1>1, <2>1, ExperimentFacts DEF IInv
    <2>3. PICK ids : ids = {context'.addressMap[a] : a \in DOMAIN levels}
      OBVIOUS
    <2>4. PICK trained : trained = [i \in ids |->
              levels[CHOOSE a \in DOMAIN levels : context'.addressMap[a] = i]]
      OBVIOUS
    <2>5. \A i \in ids : trained[i] \in Counts
      <3> SUFFICES ASSUME NEW i \in ids PROVE trained[i] \in Counts
        OBVIOUS
      <3>1. \E a \in DOMAIN levels : context'.addressMap[a] = i
        BY <2>3
      <3> QED BY <2>2, <2>4, <3>1
    <2>6. blockLevelDistribution' =
             [i \in DOMAIN blockLevelDistribution \cup ids |->
                 At(blockLevelDistribution, i, <<>>) \o (IF i \in ids THEN trained[i] ELSE <<>>)]
      <3>1. blockLevelDistribution' =
               [i \in DOMAIN blockLevelDistribution \cup ids |->
                   At(blockLevelDistribution, i, <<>>)
                     \o (IF i \in ids
                         THEN levels[CHOOSE a \in DOMAIN levels : context'.addressMap[a] = i]
                         ELSE <<>>)]
        BY <2>1, <2>3 DEF Begin
      <3>2. \A i : (IF i \in ids
                   THEN levels[CHOOSE a \in DOMAIN levels : context'.addressMap[a] = i]
                   ELSE <<>>) = IF i \in ids THEN trained[i] ELSE <<>>
        BY <2>4
      <3>3. PICK old : old = [i \in DOMAIN blockLevelDistribution \cup ids |->
                               At(blockLevelDistribution, i, <<>>)]
        OBVIOUS
      <3>4. PICK new : new = [i \in DOMAIN blockLevelDistribution \cup ids |->
                 IF i \in ids
                 THEN levels[CHOOSE a \in DOMAIN levels : context'.addressMap[a] = i] ELSE <<>>]
        OBVIOUS
      <3>5. blockLevelDistribution' = [i \in DOMAIN blockLevelDistribution \cup ids |->
                                          old[i] \o new[i]]
        BY <3>1, <3>3, <3>4
      <3>6. \A i \in DOMAIN blockLevelDistribution \cup ids :
               new[i] = IF i \in ids THEN trained[i] ELSE <<>>
        BY <3>2, <3>4
      <3> QED BY <3>3, <3>5, <3>6
    <2>7. \A s, u \in Counts : s \o u \in Counts
      BY DEF Counts
    <2>8. <<>> \in Counts
      BY DEF Counts
    <2>9. \A i : At(blockLevelDistribution, i, <<>>) \in Counts
      BY <2>8 DEF At, IInv, LevelsOK
    <2>10. \A i : (IF i \in ids THEN trained[i] ELSE <<>>) \in Counts
      BY <2>5, <2>8
    <2> QED BY <2>6, <2>7, <2>9, <2>10 DEF LevelsOK
  <1>10. QueueOK'
    <2>1. queue' = <<>> /\ DOMAIN queue' = {}
      BY <1>1, <1>5
    <2>2. <<>> \in Seq([addr : DOMAIN Testset', next : Nat, last : Nat])
      OBVIOUS
    <2> QED BY <2>1, <2>2 DEF QueueOK
  <1>11. PoolOK'
    BY <1>1, <1>5 DEF IInv, PoolOK, TaskOK, InGroup
  <1>12. MutexOK' /\ DecidedOK'
    BY <1>1, <1>3 DEF IInv, MutexOK, DecidedOK
  <1>13. PlacedOK'
    <2>1. DOMAIN decided' = {} /\ DOMAIN queue' = {}
      BY <1>1, <1>5, <1>6
    <2>2. ASSUME NEW g \in Groups(DOMAIN Testset)'
          PROVE  OnePlace(g, queue', pool', main'.devices, DOMAIN decided', Kept')
      <3>1. g[1] \in DOMAIN Testset
        BY <1>4 DEF Groups
      <3>2. \A t \in Threads : ~Holds(pool'[t], g)
        BY <1>1, <1>5 DEF Holds
      <3> QED BY <1>2, <2>1, <3>1, <3>2 DEF OnePlace
    <2> QED BY <2>1, <2>2 DEF PlacedOK
  <1>14. SheetsOK'
    <2>1. Decided("wrong")' = {}
      BY <1>1, <1>6 DEF Decided
    <2> QED BY <1>1, <1>2, <1>4, <1>6, <2>1 DEF SheetsOK
  <1>15. ErrorsOK'
    <2>1. m_ErrBurstGroups' = [g \in {} |-> 1]
      BY <1>1, <1>6 DEF EmptyMap
    <2>2. {h \in DOMAIN decided' : Verdict(h)' # "right" /\ ~AtPush(h)'} = {}
      BY <1>1, <1>6
    <2> QED BY <1>1, <1>5, <2>1, <2>2 DEF ErrorsOK
  <1>16. PolicyOK' /\ ChosenOK' /\ ExitOK'
    BY <1>1, <1>2, <1>5, <1>6 DEF PolicyOK, ChosenOK, ExitOK, InGroup
  <1> QED BY <1>7, <1>8, <1>9, <1>10, <1>11, <1>12, <1>13, <1>14, <1>15, <1>16 DEF IInv

(* Division into tasks of a size: rounded up, and each place in one.        *)
LEMMA TimesMonotone ==
    ASSUME NEW s \in Nat, NEW a \in Int, NEW b \in Int, a <= b
    PROVE  a * s <= b * s
  OBVIOUS

(* Quotient and remainder of naturals.                                      *)
LEMMA DivisionFacts ==
    ASSUME NEW n \in Nat, NEW s \in Nat \ {0}
    PROVE  /\ n \div s \in Nat
           /\ s * (n \div s) <= n
           /\ n < s * (n \div s) + s
  <1>1. n \div s \in Int
    OBVIOUS
  <1>2. n % s \in 0 .. s - 1
    OBVIOUS
  <1>3. n = (s * (n \div s)) + (n % s)
    OBVIOUS
  <1>4. n \div s \in Nat
    BY <1>1, <1>2, <1>3
  <1> QED BY <1>2, <1>3, <1>4

(* Cut in pieces of s, the places 1 .. n fall into one piece each.          *)
InPiece(i, k, s) == (k - 1) * s + 1 <= i /\ i <= k * s

Pieces(m, n, s) ==
    /\ \A i \in 1 .. n : \E k \in 1 .. m : InPiece(i, k, s)
    /\ \A i \in 1 .. n : \A k, l \in 1 .. m : InPiece(i, k, s) /\ InPiece(i, l, s) => k = l

LEMMA InOneTask ==
    ASSUME NEW n \in Nat, NEW s \in Nat \ {0}
    PROVE  /\ (n + s - 1) \div s \in Nat
           /\ Pieces((n + s - 1) \div s, n, s)
  <1> DEFINE m == (n + s - 1) \div s
  <1>1. n + s - 1 \in Nat
    OBVIOUS
  <1>2. m \in Nat /\ n + s - 1 < s * m + s
    BY <1>1, DivisionFacts
  <1> HIDE DEF m
  <1>3. n <= s * m
    <2>1. PICK p \in Nat : p = s * m
      BY <1>2
    <2> QED BY <1>2, <2>1
  <1>4. ASSUME NEW i \in 1 .. n
        PROVE  \E k \in 1 .. m : InPiece(i, k, s)
    <2>1. i - 1 \in Nat
      OBVIOUS
    <2>2. PICK q \in Nat : q = (i - 1) \div s
      BY <2>1, DivisionFacts
    <2>3. s * q <= i - 1 /\ i - 1 < s * q + s
      BY <2>1, <2>2, DivisionFacts
    <2>4. q < m
      <3> SUFFICES ASSUME m <= q PROVE FALSE
        BY <1>2
      <3>1. m * s <= q * s
        BY <1>2, TimesMonotone
      <3>2. PICK a \in Nat : a = s * m /\ a = m * s
        BY <1>2
      <3>3. PICK b \in Nat : b = s * q /\ b = q * s
        OBVIOUS
      <3> QED BY <1>3, <2>3, <3>1, <3>2, <3>3
    <2>5. PICK b \in Nat : b = s * q /\ b = q * s /\ (q + 1) * s = b + s
      OBVIOUS
    <2>6. q + 1 \in 1 .. m /\ (q + 1) - 1 = q
      BY <1>2, <2>4
    <2>7. q * s + 1 <= i /\ i <= (q + 1) * s
      BY <2>3, <2>5
    <2>8. InPiece(i, q + 1, s)
      BY <2>6, <2>7 DEF InPiece
    <2> QED BY <2>6, <2>8
  <1>5. ASSUME NEW i \in 1 .. n, NEW k \in 1 .. m, NEW l \in 1 .. m, k < l,
               InPiece(i, k, s), InPiece(i, l, s)
        PROVE  FALSE
    <2>0. i <= k * s /\ (l - 1) * s + 1 <= i
      BY <1>5 DEF InPiece
    <2>1. k <= l - 1 /\ k \in Int /\ l - 1 \in Int
      BY <1>2, <1>5
    <2>2. k * s <= (l - 1) * s
      BY <2>1, TimesMonotone
    <2>3. PICK a \in Int : a = k * s
      BY <2>1
    <2>4. PICK b \in Int : b = (l - 1) * s
      BY <2>1
    <2> QED BY <2>0, <2>2, <2>3, <2>4
  <1>6. \A k, l \in 1 .. m : k < l \/ l < k \/ k = l
    BY <1>2
  <1>7. Pieces(m, n, s)
    BY <1>4, <1>5, <1>6 DEF Pieces
  <1> QED BY <1>2, <1>7 DEF m

(* Min of two numbers.                                                      *)
LEMMA SmallerOfTwo ==
    ASSUME NEW a \in Nat, NEW b \in Nat
    PROVE  Min({a, b}) = IF a <= b THEN a ELSE b
  <1>1. PICK m \in {a, b} : \A x \in {a, b} : m <= x
    <2>1. {a, b} \subseteq Nat /\ {a, b} # {}
      OBVIOUS
    <2> QED BY <2>1, LeastOfNaturals
  <1>2. Min({a, b}) \in {a, b} /\ \A x \in {a, b} : Min({a, b}) <= x
    BY <1>1 DEF Min
  <1> QED BY <1>2

(* The tasks of a device share out its groups.                              *)
LEMMA TasksFacts ==
    ASSUME MainOK, Begun, NEW addr \in DOMAIN Testset
    PROVE  \E m \in Nat :
              /\ Len(Tasks(addr)) = m
              /\ Tasks(addr) \in Seq([addr : DOMAIN Testset, next : Nat, last : Nat])
              /\ \A k \in 1 .. m : PlacesOK(Tasks(addr)[k], Testset) /\ Tasks(addr)[k].addr = addr
              /\ \A g \in Groups(DOMAIN Testset) :
                    /\ \A k, l \in 1 .. m : Has(Tasks(addr)[k], g) /\ Has(Tasks(addr)[l], g) => k = l
                    /\ g[1] = addr => \E k \in 1 .. m : Has(Tasks(addr)[k], g)
  <1>1. PICK groups : groups = Testset[addr]
    OBVIOUS
  <1>2. IsSeq(groups)
    BY <1>1, ExperimentFacts
  <1>3. PICK n \in Nat : n = Len(groups)
    BY <1>2 DEF IsSeq
  <1>4. PICK s \in Nat \ {0} : s = Experiment.epochSlotNum
    BY ExperimentFacts
  <1>5. PICK m : m = (n + s - 1) \div s
    OBVIOUS
  <1>6. m \in Nat /\ Pieces(m, n, s)
    BY <1>5, InOneTask
  <1>7. PICK tasks : tasks = Tasks(addr)
    OBVIOUS
  <1>8. tasks = [k \in 1 .. m |->
                    [addr |-> addr, next |-> (k - 1) * s + 1, last |-> Min({k * s, n})]]
    BY <1>1, <1>3, <1>4, <1>5, <1>7 DEF Tasks
  <1>9. ASSUME NEW k \in 1 .. m
        PROVE  /\ tasks[k].addr = addr /\ tasks[k].next = (k - 1) * s + 1
               /\ tasks[k].next \in Nat \ {0}
               /\ tasks[k].last = IF k * s <= n THEN k * s ELSE n
               /\ tasks[k].last \in Nat /\ tasks[k].last <= n
               /\ tasks[k] \in [addr : DOMAIN Testset, next : Nat, last : Nat]
               /\ PlacesOK(tasks[k], Testset)
    <2>1. k - 1 \in Nat /\ k \in Nat
      BY <1>6
    <2>2. PICK a \in Nat : a = (k - 1) * s
      BY <2>1
    <2>3. PICK b \in Nat : b = k * s
      BY <2>1
    <2>4. tasks[k] = [addr |-> addr, next |-> a + 1, last |-> IF b <= n THEN b ELSE n]
      BY <1>8, <2>2, <2>3, SmallerOfTwo
    <2>5. (IF b <= n THEN b ELSE n) \in Nat /\ (IF b <= n THEN b ELSE n) <= n
      OBVIOUS
    <2>6. PlacesOK(tasks[k], Testset)
      BY <1>1, <1>3, <2>4, <2>5 DEF PlacesOK
    <2> QED BY <2>2, <2>3, <2>4, <2>5, <2>6
  <1>10. ASSUME NEW g \in Groups(DOMAIN Testset), g[1] = addr
         PROVE  g[2] \in 1 .. n
    <2>1. g[2] \in Nat \ {0} /\ g[2] <= n
      BY <1>1, <1>3, <1>10, GroupFacts
    <2> QED BY <2>1
  <1>11. ASSUME NEW g \in Groups(DOMAIN Testset), NEW k \in 1 .. m
         PROVE  Has(tasks[k], g) <=>
                   g[1] = addr /\ InPiece(g[2], k, s)
    <2>1. g[1] = addr => g[2] \in 1 .. n
      BY <1>10
    <2>2. k - 1 \in Nat /\ k \in Nat
      BY <1>6
    <2>3. PICK a \in Nat : a = (k - 1) * s
      BY <2>2
    <2>4. PICK b \in Nat : b = k * s
      BY <2>2
    <2>5. tasks[k].addr = addr /\ tasks[k].next = a + 1
          /\ tasks[k].last = IF b <= n THEN b ELSE n
      BY <1>9, <2>3, <2>4
    <2>6. Has(tasks[k], g) <=> g[1] = addr /\ a + 1 <= g[2] /\ g[2] <= IF b <= n THEN b ELSE n
      BY <2>5 DEF Has
    <2>7. g[2] \in 1 .. n => (g[2] <= (IF b <= n THEN b ELSE n) <=> g[2] <= b)
      OBVIOUS
    <2>8. InPiece(g[2], k, s) <=> a + 1 <= g[2] /\ g[2] <= b
      BY <2>3, <2>4 DEF InPiece
    <2> QED BY <2>1, <2>6, <2>7, <2>8
  <1>12. Len(tasks) = m /\ tasks \in Seq([addr : DOMAIN Testset, next : Nat, last : Nat])
    <2>1. PICK T : T = [addr : DOMAIN Testset, next : Nat, last : Nat]
      OBVIOUS
    <2>2. tasks = [k \in 1 .. m |-> tasks[k]]
      BY <1>8
    <2>3. \A k \in 1 .. m : tasks[k] \in T
      BY <1>9, <2>1
    <2>4. tasks \in Seq(T) /\ Len(tasks) = m
      BY <1>6, <2>2, <2>3
    <2> QED BY <2>1, <2>4
  <1>13. ASSUME NEW g \in Groups(DOMAIN Testset)
         PROVE  /\ \A k, l \in 1 .. m : Has(tasks[k], g) /\ Has(tasks[l], g) => k = l
                /\ g[1] = addr => \E k \in 1 .. m : Has(tasks[k], g)
    BY <1>6, <1>10, <1>11 DEF Pieces
  <1> QED BY <1>6, <1>7, <1>9, <1>12, <1>13

(* The tasks of a device join the queue: its groups have a place there.     *)
Joins(joined, waiting, more, m, n) ==
    /\ DOMAIN waiting = 1 .. m /\ DOMAIN more = 1 .. n /\ DOMAIN joined = 1 .. m + n
    /\ \A k \in 1 .. m : joined[k] = waiting[k]
    /\ \A k \in 1 .. n : joined[m + k] = more[k]

(* Tasks of one device share its groups out: each in one task, and no       *)
(* other device's.                                                          *)
SharesOut(more, addr, g) ==
    /\ \A k, l \in DOMAIN more : Has(more[k], g) /\ Has(more[l], g) => k = l
    /\ g[1] = addr => \E k \in DOMAIN more : Has(more[k], g)
    /\ g[1] # addr => \A k \in DOMAIN more : ~Has(more[k], g)

(* No task, waiting or running, has the group.                              *)
NotYet(waiting, running, g) ==
    /\ \A k \in DOMAIN waiting : ~Has(waiting[k], g)
    /\ \A t \in Threads : ~Holds(running[t], g)

(* The groups of addr move from the devices to come to the queue; the       *)
(* others keep the place they had.                                          *)
LEMMA JoinTheQueue ==
    ASSUME NEW g, NEW waiting, NEW more, NEW joined, NEW running, NEW devices, NEW done, NEW kept,
           NEW m \in Nat, NEW n \in Nat, Joins(joined, waiting, more, m, n),
           NEW addr \in devices, SharesOut(more, addr, g),
           g[1] = addr => NotYet(waiting, running, g),
           OnePlace(g, waiting, running, devices, done, kept)
    PROVE  OnePlace(g, joined, running, devices \ {addr}, done, kept)
  <1>1. /\ DOMAIN waiting = 1 .. m /\ DOMAIN more = 1 .. n /\ DOMAIN joined = 1 .. m + n
        /\ \A k \in 1 .. m : joined[k] = waiting[k] /\ k \in DOMAIN joined
        /\ \A k \in 1 .. n : joined[m + k] = more[k] /\ m + k \in DOMAIN joined
    BY DEF Joins
  <1>2. \A k \in DOMAIN joined : k \in 1 .. m \/ \E l \in 1 .. n : k = m + l
    <2> SUFFICES ASSUME NEW k \in 1 .. m + n, k \notin 1 .. m PROVE \E l \in 1 .. n : k = m + l
      BY <1>1
    <2>1. k - m \in 1 .. n /\ k = m + (k - m)
      OBVIOUS
    <2> QED BY <2>1
  <1>3. CASE g[1] = addr
    <2>1. /\ \A k \in 1 .. m : ~Has(waiting[k], g)
          /\ \A t \in Threads : ~Holds(running[t], g)
          /\ \A k, l \in 1 .. n : Has(more[k], g) /\ Has(more[l], g) => k = l
          /\ \E k \in 1 .. n : Has(more[k], g)
      BY <1>1, <1>3 DEF NotYet, SharesOut
    <2>2. g \notin done
      BY <1>3 DEF OnePlace
    <2>3. ASSUME NEW k \in DOMAIN joined, Has(joined[k], g)
          PROVE  \E l \in 1 .. n : k = m + l /\ Has(more[l], g)
      <3>1. CASE k \in 1 .. m
        <4>1. joined[k] = waiting[k] /\ ~Has(waiting[k], g)
          BY <1>1, <2>1, <3>1
        <4> QED BY <2>3, <4>1
      <3>2. ASSUME NEW l \in 1 .. n, k = m + l
            PROVE  Has(more[l], g)
        <4>1. joined[m + l] = more[l]
          BY <1>1
        <4> QED BY <2>3, <3>2, <4>1
      <3> QED BY <1>2, <3>1, <3>2
    <2>4. ASSUME NEW k \in DOMAIN joined, NEW l \in DOMAIN joined,
                 Has(joined[k], g), Has(joined[l], g)
          PROVE  k = l
      <3>1. PICK a \in 1 .. n : k = m + a /\ Has(more[a], g)
        BY <2>3, <2>4
      <3>2. PICK b \in 1 .. n : l = m + b /\ Has(more[b], g)
        BY <2>3, <2>4
      <3>3. a = b
        BY <2>1, <3>1, <3>2
      <3> QED BY <3>1, <3>2, <3>3
    <2>5. \E k \in DOMAIN joined : Has(joined[k], g)
      BY <1>1, <2>1
    <2> QED BY <2>1, <2>2, <2>4, <2>5 DEF OnePlace
  <1>4. CASE g[1] # addr
    <2>1. \A k \in 1 .. n : ~Has(more[k], g)
      BY <1>1, <1>4 DEF SharesOut
    <2>2. \A k \in DOMAIN joined : Has(joined[k], g) => k \in 1 .. m /\ Has(waiting[k], g)
      BY <1>1, <1>2, <2>1
    <2>3. \A k, l \in DOMAIN joined : Has(joined[k], g) /\ Has(joined[l], g) => k = l
      BY <1>1, <2>2 DEF OnePlace
    <2>4. \A k \in DOMAIN joined : \A t \in Threads : ~(Has(joined[k], g) /\ Holds(running[t], g))
      BY <1>1, <2>2 DEF OnePlace
    <2>5. \A t, u \in Threads : Holds(running[t], g) /\ Holds(running[u], g) => t = u
      BY DEF OnePlace
    <2>6. g \in done =>
              /\ g[1] \notin devices \ {addr}
              /\ \A k \in DOMAIN joined : ~Has(joined[k], g)
              /\ \A t \in Threads : ~Holds(running[t], g)
      BY <1>1, <2>2 DEF OnePlace
    <2>7. g \in kept =>
              \/ g \in done
              \/ g[1] \in devices \ {addr}
              \/ \E k \in DOMAIN joined : Has(joined[k], g)
              \/ \E t \in Threads : Holds(running[t], g)
      <3>1. \A k \in DOMAIN waiting : Has(waiting[k], g) => k \in DOMAIN joined /\ Has(joined[k], g)
        BY <1>1
      <3> QED BY <1>4, <3>1 DEF OnePlace
    <2> QED BY <2>3, <2>4, <2>5, <2>6, <2>7 DEF OnePlace
  <1> QED BY <1>3, <1>4

(* StartDevice keeps the invariant: the tasks of the device cover its       *)
(* groups once.                                                             *)
LEMMA StartDeviceStep ==
    ASSUME IInv, NEW addr, StartDevice(addr)
    PROVE  IInv'
  <1>1. /\ main.pc = "predict" /\ addr \in main.devices /\ mutex = NoThread
        /\ sheet' = Put(sheet, Type(NameOf(addr)), Sheet(Type(NameOf(addr))))
        /\ queue' = queue \o Tasks(addr)
        /\ main' = [main EXCEPT !.devices = @ \ {addr}]
        /\ UNCHANGED <<context, blockLevelDistribution, pool, mutex, m_ErrBurstGroups, decided,
                       undefined>>
    BY DEF StartDevice
  <1>2. main' = [pc |-> "predict", series |-> main.series, experiment |-> main.experiment,
                 devices |-> main.devices \ {addr}]
    BY <1>1 DEF IInv, MainOK
  <1>3. /\ main'.pc = "predict" /\ main'.series = main.series
        /\ main'.experiment = main.experiment /\ main'.devices = main.devices \ {addr}
    BY <1>2
  <1>4. SameRun /\ Begun /\ Begun' /\ ~Resting /\ ~Resting'
    BY <1>1, <1>3 DEF SameRun, Begun, Resting
  <1>5. /\ Experiment' = Experiment /\ Testset' = Testset
        /\ Groups(DOMAIN Testset)' = Groups(DOMAIN Testset)
        /\ Kept' = Kept
        /\ \A a : NameOf(a)' = NameOf(a)
    BY <1>4, SameRunFacts
  <1>6. /\ \A g : Verdict(g)' = Verdict(g)
        /\ \A verdict : Decided(verdict)' = Decided(verdict)
        /\ \A type : Row(type)' = Row(type)
    BY <1>1, <1>4, SameDecisions
  <1>7. main.devices \subseteq DOMAIN Testset
    BY <1>4 DEF IInv, MainOK
  <1>8. MainOK'
    BY <1>2, <1>3, <1>4, <1>5, <1>7 DEF IInv, MainOK
  <1>9. ContextOK' /\ LevelsOK' /\ MutexOK' /\ DecidedOK' /\ ExitOK'
    <2>1. ContextOK'
      BY <1>1, <1>4, <1>5 DEF IInv, ContextOK
    <2>2. LevelsOK' /\ MutexOK'
      BY <1>1 DEF IInv, LevelsOK, MutexOK
    <2>3. DecidedOK' /\ ExitOK'
      BY <1>1, <1>3, <1>4 DEF IInv, DecidedOK, ExitOK
    <2> QED BY <2>1, <2>2, <2>3
  <1>10. PICK T : T = [addr : DOMAIN Testset, next : Nat, last : Nat]
    OBVIOUS
  <1>11. PICK tasks \in Seq(T) : tasks = Tasks(addr)
    BY <1>4, <1>7, <1>1, <1>10, TasksFacts DEF IInv
  <1>12. PICK n \in Nat :
             /\ Len(tasks) = n
             /\ \A k \in 1 .. n : PlacesOK(tasks[k], Testset) /\ tasks[k].addr = addr
             /\ \A g \in Groups(DOMAIN Testset) :
                    /\ \A k, l \in 1 .. n : Has(tasks[k], g) /\ Has(tasks[l], g) => k = l
                    /\ g[1] = addr => \E k \in 1 .. n : Has(tasks[k], g)
    BY <1>4, <1>7, <1>1, <1>11, TasksFacts DEF IInv
  <1>13. PICK q \in Seq(T) : q = queue
    BY <1>10 DEF IInv, QueueOK
  <1>14. PICK m \in Nat : m = Len(q)
    OBVIOUS
  <1>15. PICK joined : joined = q \o tasks
    OBVIOUS
  <1>16. joined \in Seq(T) /\ Joins(joined, q, tasks, m, n)
    <2>1. n = Len(tasks)
      BY <1>12
    <2> HIDE <1>12
    <2>2. /\ joined \in Seq(T) /\ DOMAIN joined = 1 .. m + n
          /\ \A i \in 1 .. m : joined[i] = q[i]
          /\ \A i \in 1 .. n : joined[m + i] = tasks[i]
      BY <1>14, <1>15, <2>1, ConcatFacts
    <2>3. DOMAIN q = 1 .. m /\ DOMAIN tasks = 1 .. n
      BY <1>14, <2>1
    <2> QED BY <2>2, <2>3 DEF Joins
  <1>17. queue' = joined /\ addr \notin main'.devices
    BY <1>1, <1>3, <1>11, <1>13, <1>15
  <1>18. \A k \in 1 .. m : PlacesOK(q[k], Testset) /\ q[k].addr \notin main.devices
    BY <1>13, <1>16 DEF IInv, QueueOK, Joins
  <1>19. QueueOK'
    <2>1. ASSUME NEW k \in 1 .. m + n
          PROVE  PlacesOK(joined[k], Testset) /\ joined[k].addr \notin main'.devices
      <3>1. CASE k \in 1 .. m
        BY <1>3, <1>16, <1>18, <3>1 DEF Joins
      <3>2. CASE k \notin 1 .. m
        <4>1. k - m \in 1 .. n /\ k = m + (k - m)
          BY <3>2
        <4>2. joined[k] = tasks[k - m]
          BY <1>16, <4>1 DEF Joins
        <4> QED BY <1>12, <1>17, <4>1, <4>2
      <3> QED BY <3>1, <3>2
    <2> QED BY <1>4, <1>5, <1>10, <1>16, <1>17, <2>1 DEF QueueOK, Joins
  <1>20. PoolOK'
    <2>1. ASSUME NEW t \in Threads
          PROVE  TaskOK(pool[t], Testset, main'.devices, Resting')
      <3>1. TaskOK(pool[t], Testset, main.devices, Resting)
        BY DEF IInv, PoolOK
      <3> QED BY <1>3, <1>4, <3>1 DEF TaskOK
    <2> QED BY <1>1, <1>5, <2>1 DEF IInv, PoolOK
  <1>21. PlacedOK'
    <2>1. ASSUME NEW g \in Groups(DOMAIN Testset)
          PROVE  OnePlace(g, joined, pool, main.devices \ {addr}, DOMAIN decided, Kept)
      <3>1. OnePlace(g, q, pool, main.devices, DOMAIN decided, Kept)
        BY <1>4, <1>13 DEF IInv, PlacedOK
      <3>2. SharesOut(tasks, addr, g)
        <4>1. DOMAIN tasks = 1 .. n
          BY <1>16 DEF Joins
        <4>2. g[1] # addr => \A k \in 1 .. n : ~Has(tasks[k], g)
          BY <1>12 DEF Has
        <4> QED BY <1>12, <4>1, <4>2 DEF SharesOut
      <3>3. g[1] = addr => NotYet(q, pool, g)
        <4>1. \A k \in DOMAIN q : q[k].addr # addr
          BY <1>1, <1>16, <1>18 DEF Joins
        <4>2. \A t \in Threads : pool[t].at # "idle" => pool[t].addr # addr
          BY <1>1 DEF IInv, PoolOK, TaskOK
        <4> QED BY <4>1, <4>2 DEF NotYet, Has, Holds
      <3> QED BY <1>1, <1>16, <3>1, <3>2, <3>3, JoinTheQueue
    <2>2. DOMAIN decided \subseteq Kept
      BY <1>4 DEF IInv, PlacedOK
    <2> QED BY <1>1, <1>3, <1>5, <1>17, <2>1, <2>2 DEF PlacedOK
  <1>22. SheetsOK'
    <2>1. PICK type : type = Type(NameOf(addr))
      OBVIOUS
    <2>2. PICK wrong : wrong = {Type(decided[g]) : g \in Decided("wrong")}
      OBVIOUS
    <2>3. DOMAIN sheet = {Type(NameOf(a)) : a \in DOMAIN Testset \ main.devices} \cup wrong
      BY <1>4, <2>2 DEF IInv, SheetsOK
    <2>4. {Type(NameOf(a)) : a \in DOMAIN Testset \ (main.devices \ {addr})}
            = {Type(NameOf(a)) : a \in DOMAIN Testset \ main.devices} \cup {type}
      BY <1>1, <1>7, <2>1
    <2>5. sheet' = [k \in DOMAIN sheet \cup {type} |-> IF k = type THEN Sheet(type) ELSE sheet[k]]
      BY <1>1, <2>1 DEF Put
    <2>6. \A k \in DOMAIN sheet \cup {type} : sheet'[k] = Row(k)
      BY <1>4, <2>5, RowFacts
    <2>7. {Type(decided'[g]) : g \in Decided("wrong")'} = wrong
      BY <1>1, <1>6, <2>2
    <2>8. {Type(NameOf(a)') : a \in DOMAIN Testset' \ main'.devices}
            = {Type(NameOf(a)) : a \in DOMAIN Testset \ main.devices} \cup {type}
      BY <1>3, <1>5, <2>4
    <2> QED BY <1>6, <2>3, <2>5, <2>6, <2>7, <2>8 DEF SheetsOK
  <1>23. ErrorsOK' /\ PolicyOK' /\ ChosenOK'
    BY <1>1, <1>4, SameDecidedStep
  <1> QED BY <1>8, <1>9, <1>19, <1>20, <1>21, <1>22, <1>23 DEF IInv

-----------------------------------------------------------------------------
(* The theorems *)

(* The invariant holds at the start.                                        *)
LEMMA Initial ==
    ASSUME Init
    PROVE  IInv
  <1>1. PICK series \in Series :
            main = [pc |-> "begin", series |-> series, experiment |-> 1, devices |-> {}]
    BY DEF Init
  <1>2. /\ context = [deviceVec |-> <<>>, allDevices |-> EmptyMap, addressMap |-> EmptyMap]
        /\ blockLevelDistribution = EmptyMap /\ queue = <<>>
        /\ pool = [t \in Threads |-> Idle] /\ mutex = NoThread
        /\ sheet = EmptyMap /\ m_ErrBurstGroups = EmptyMap /\ decided = EmptyMap
        /\ undefined = {}
    BY DEF Init
  <1>3. /\ main.pc = "begin" /\ main.series = series /\ main.experiment = 1 /\ main.devices = {}
    BY <1>1
  <1>4. ~Begun /\ Resting
    BY <1>3 DEF Begun, Resting
  <1>5. MainOK
    <2>1. series \in Seq(ToSet(series))
      BY SeriesAssumption DEF IsSeq
    <2>2. Len(series) \in Nat
      BY <2>1
    <2>3. 1 \in 1 .. Len(series) + 1
      BY <2>2
    <2> QED BY <1>1, <1>3, <1>4, <2>3 DEF MainOK
  <1>6. \A t \in Threads : pool[t] = Idle /\ pool[t].at = "idle"
    BY <1>2 DEF Idle
  <1>7. DOMAIN decided = {} /\ DOMAIN context.allDevices = {} /\ DOMAIN context.addressMap = {}
        /\ DOMAIN blockLevelDistribution = {} /\ DOMAIN queue = {}
    BY <1>2 DEF EmptyMap
  <1>8. ContextOK /\ LevelsOK
    <2>1. context.deviceVec \in Seq(Names)
      BY <1>2
    <2> QED BY <1>4, <1>7, <2>1 DEF ContextOK, LevelsOK, Leads
  <1>9. QueueOK
    <2>1. <<>> \in Seq([addr : DOMAIN Testset, next : Nat, last : Nat])
      OBVIOUS
    <2> QED BY <1>2, <1>7, <2>1 DEF QueueOK
  <1>10. PoolOK
    BY <1>2, <1>6 DEF PoolOK, TaskOK, InGroup
  <1>11. MutexOK
    BY <1>2, <1>6, MutexAssumption DEF MutexOK
  <1>12. DecidedOK
    BY <1>2, <1>7, FS_EmptySet DEF DecidedOK
  <1>13. PlacedOK /\ SheetsOK /\ ErrorsOK
    BY <1>4, <1>6 DEF PlacedOK, SheetsOK, ErrorsOK
  <1>14. PolicyOK /\ ChosenOK /\ ExitOK
    BY <1>3, <1>6, <1>7 DEF PolicyOK, ChosenOK, ExitOK, InGroup
  <1> QED BY <1>5, <1>8, <1>9, <1>10, <1>11, <1>12, <1>13, <1>14 DEF IInv

(* Every step keeps the invariant: one case for each action.                *)
LEMMA Inductive ==
    ASSUME IInv, [Next]_vars
    PROVE  IInv'
  <1>1. CASE Begin
    BY <1>1, BeginStep
  <1>2. ASSUME NEW addr \in main.devices, StartDevice(addr) PROVE IInv'
    BY <1>2, StartDeviceStep
  <1>3. CASE Wait
    BY <1>3, WaitStep
  <1>4. ASSUME NEW table \in Tries, NEW details \in Tries,
               OutputFails(table, details) \/ OutputExits(table) \/ OutputToFile(table, details)
        PROVE  IInv'
    <2>1. CASE OutputFails(table, details)
      BY <2>1, OutputFailsStep
    <2>2. CASE OutputExits(table)
      BY <2>2, OutputExitsStep
    <2>3. CASE OutputToFile(table, details)
      BY <2>3, OutputToFileStep
    <2> QED BY <1>4, <2>1, <2>2, <2>3
  <1>5. ASSUME NEW t \in Threads, Worker(t) PROVE IInv'
    BY <1>5, DispatchStep, NextGroupStep, RankStep, LookupStep, CompareStep, AddMissStep,
       AddCorrectStep, AddWrongStep, PushStep DEF Worker
  <1>6. CASE UNCHANGED vars
    BY <1>6, Stutter
  <1> QED BY <1>1, <1>2, <1>3, <1>4, <1>5, <1>6 DEF Next, Main, Terminating

(* In every reachable state every group of the experiment has one place,    *)
(* the sheets and the list of errors add up to what has been decided, and   *)
(* what has been decided is the best of what was to be compared.            *)
THEOREM Invariance == Spec => []IInv
  <1>1. Init => IInv
    BY Initial
  <1>2. IInv /\ [Next]_vars => IInv'
    BY Inductive
  <1> QED BY <1>1, <1>2, PTL DEF Spec

(* All variables stay of their types, and the mutex is held by the thread   *)
(* that pushes a wrong group, for every number of threads and every series. *)
THEOREM TypeCorrect == Spec => []TypeOK
  <1>1. IInv => TypeOK
    <2> SUFFICES ASSUME IInv PROVE TypeOK
      OBVIOUS
    <2>1. /\ main.pc \in {"begin", "predict", "output", "terminated", "exited", "unwritten"}
          /\ main.experiment \in 1 .. Len(main.series) + 1
      BY DEF IInv, MainOK
    <2>2. /\ context.deviceVec \in Seq(Names)
          /\ \A ids \in {context.allDevices, context.addressMap} : \A k \in DOMAIN ids :
                ids[k] + 1 \in DOMAIN context.deviceVec
      BY DEF IInv, ContextOK, Leads
    <2>3. \A t \in Threads : pool[t].at \in {"idle", "group", "rank", "lookup", "compare",
                                            "score", "push", "thrown"}
      BY DEF IInv, PoolOK, TaskOK, InGroup
    <2>4. \A g \in DOMAIN decided : decided[g] \in Predictions
      BY DEF IInv, DecidedOK
    <2>5. \A t \in Threads : mutex = t <=>
              pool[t].at = "push" /\ pool[t].prediction # Unreliable
      BY DEF IInv, MutexOK
    <2> QED BY <2>1, <2>2, <2>3, <2>4, <2>5 DEF TypeOK
  <1> QED BY <1>1, Invariance, PTL

(* At the output all groups with enough packets are decided.                *)
LEMMA AllDecided ==
    ASSUME IInv, main.pc = "output"
    PROVE  /\ Begun /\ main.devices = {} /\ DOMAIN decided = Kept
           /\ \A g : ~AtPush(g)
  <1>1. Begun /\ Resting
    BY DEF Begun, Resting
  <1>2. main.devices = {}
    BY <1>1 DEF IInv, MainOK
  <1>3. queue = <<>> /\ \A t \in Threads : pool[t] = Idle /\ pool[t].at = "idle"
    BY <1>1, AtRest
  <1>4. ASSUME NEW g \in Kept PROVE g \in DOMAIN decided
    <2>1. g \in Groups(DOMAIN Testset)
      BY DEF Kept
    <2>2. OnePlace(g, queue, pool, main.devices, DOMAIN decided, Kept)
      BY <1>1, <2>1 DEF IInv, PlacedOK
    <2>3. DOMAIN queue = {}
      BY <1>3
    <2>4. \A t \in Threads : ~Holds(pool[t], g)
      BY <1>3 DEF Holds
    <2> QED BY <1>2, <1>4, <2>2, <2>3, <2>4 DEF OnePlace
  <1>5. DOMAIN decided \subseteq Kept
    BY <1>1 DEF IInv, PlacedOK
  <1> QED BY <1>1, <1>2, <1>3, <1>4, <1>5 DEF AtPush

(* The sheets that are printed add up: each group with enough packets is    *)
(* counted once, in its row, however the tasks interleave.                  *)
THEOREM SheetsAddUpCorrect == Spec => []SheetsAddUp
  <1>1. IInv => SheetsAddUp
    <2> SUFFICES ASSUME IInv, main.pc = "output"
                 PROVE  /\ DOMAIN decided = Kept
                        /\ DOMAIN sheet = {Type(NameOf(a)) : a \in DOMAIN Testset}
                              \cup {Type(decided[g]) : g \in {h \in Kept : Verdict(h) = "wrong"}}
                        /\ \A type \in DOMAIN sheet :
                              sheet[type] = [TP |-> Tally("right", type), FN |-> Tally("wrong", type),
                                  FP |-> Cardinality({g \in Kept : Verdict(g) = "wrong"
                                                              /\ Type(decided[g]) = type}),
                                  missNum |-> Tally("miss", type)]
      BY DEF SheetsAddUp
    <2>1. Begun /\ main.devices = {} /\ DOMAIN decided = Kept
      BY AllDecided
    <2>2. Decided("wrong") = {h \in Kept : Verdict(h) = "wrong"}
      BY <2>1 DEF Decided
    <2>3. DOMAIN sheet = {Type(NameOf(a)) : a \in DOMAIN Testset \ main.devices}
                            \cup {Type(decided[g]) : g \in Decided("wrong")}
      BY <2>1 DEF IInv, SheetsOK
    <2>4. DOMAIN Testset \ main.devices = DOMAIN Testset
      BY <2>1
    <2>5. ASSUME NEW type
          PROVE  Against(type) = Cardinality({g \in Kept : Verdict(g) = "wrong"
                                                           /\ Type(decided[g]) = type})
      <3>1. {g \in Decided("wrong") : Type(decided[g]) = type}
              = {g \in Kept : Verdict(g) = "wrong" /\ Type(decided[g]) = type}
        BY <2>2
      <3> QED BY <3>1 DEF Against
    <2>6. \A type \in DOMAIN sheet : sheet[type] = Row(type)
      BY <2>1 DEF IInv, SheetsOK
    <2> QED BY <2>1, <2>2, <2>3, <2>4, <2>5, <2>6 DEF Row
  <1> QED BY <1>1, Invariance, PTL

(* What a task finds best is what a sequential run may decide.              *)
LEMMA AnswersAreDecisions ==
    ASSUME IInv, Begun, NEW g \in Groups(DOMAIN Testset), Known(View(g))
    PROVE  Answers(View(g)) \subseteq Decisions(g)
  <1>1. PICK v : v = View(g)
    OBVIOUS
  <1>2. PICK bucket : bucket = Bucket(Group(g))
    OBVIOUS
  <1>3. PICK names : names = IF Ranked(bucket) = {} THEN ToSet(SecondChance(context.deviceVec))
                             ELSE Candidates(bucket)
    OBVIOUS
  <1>4. PICK trained : trained = {n \in names : Trained(n)}
    OBVIOUS
  <1>5. PICK nearest : nearest = {n \in trained : \A m \in trained : Gap(n, g) <= Gap(m, g)}
    OBVIOUS
  <1>6. Decisions(g) =
           IF Single(v) THEN names
           ELSE IF trained = {} THEN {Start(v)}
           ELSE IF IsMute(v) THEN nearest
           ELSE {n \in nearest : \A m \in nearest : bucket[n] >= bucket[m]}
    <2>1. v.bucket = bucket /\ v.devices = context.deviceVec
      BY <1>1, <1>2 DEF View
    <2>2. IsMute(v) <=> Ranked(bucket) = {}
      BY <2>1 DEF IsMute
    <2>3. Single(v) <=> IF Ranked(bucket) = {} THEN Len(context.deviceVec) = 1
                        ELSE Cardinality(names) = 1
      BY <1>3, <2>1, <2>2 DEF Single
    <2> QED BY <1>2, <1>3, <1>4, <1>5, <2>2, <2>3 DEF Decisions, Start
  <1>7. names = Running(v) /\ v.bucket = bucket
    BY <1>1, <1>2, <1>3 DEF View, Running, IsMute
  <1>8. CASE Single(v)
    BY <1>1, <1>6, <1>7, <1>8 DEF Answers
  <1>9. CASE ~Single(v)
    <2>1. names \subseteq DOMAIN v.merged /\ DOMAIN v.merged = DOMAIN context.allDevices
      BY <1>1, <1>7, <1>9 DEF Known, View
    <2>2. \A n \in DOMAIN context.allDevices :
              v.merged[n] = At(blockLevelDistribution, context.allDevices[n], <<>>)
      BY <1>1 DEF View
    <2>3. v.pktNum = GroupPktNum(Group(g))
      BY <1>1 DEF View
    <2>4. \A n \in names : Trained(n) <=> n \in WithLevels(v)
      BY <2>1, <2>2 DEF Trained, WithLevels, At
    <2>5. trained = Running(v) \cap WithLevels(v)
      BY <1>4, <1>7, <2>4
    <2>6. \A n \in names : Gap(n, g) = GapIn(v, n)
      BY <2>1, <2>2, <2>3 DEF Gap, GapIn
    <2>7. Measured(v)
      BY <1>1, MeasuredView
    <2>8. \A n \in names : GapIn(v, n) \in Nat
      BY <2>1, <2>7 DEF Measured
    <2>9. CASE trained = {}
      BY <1>1, <1>6, <1>9, <2>5, <2>9 DEF Answers
    <2>10. CASE trained # {}
      <3> SUFFICES ASSUME NEW n \in Answers(v) PROVE n \in Decisions(g)
        BY <1>1
      <3>1. n \in trained /\ \A m \in trained : Beats(v, n, m)
        BY <1>9, <2>5, <2>10 DEF Answers
      <3>2. n \in nearest
        BY <1>4, <1>5, <2>6, <3>1 DEF Beats
      <3>3. CASE IsMute(v)
        BY <1>6, <1>9, <2>10, <3>2, <3>3
      <3>4. CASE ~IsMute(v)
        <4>1. ASSUME NEW m \in nearest PROVE bucket[n] >= bucket[m]
          <5>1. m \in trained /\ n \in names /\ m \in names
            BY <1>4, <1>5, <3>1
          <5>2. PICK a \in Nat : a = GapIn(v, n)
            BY <2>8, <5>1
          <5>3. PICK b \in Nat : b = GapIn(v, m)
            BY <2>8, <5>1
          <5>4. a <= b /\ b <= a
            BY <1>5, <2>6, <3>1, <5>1, <5>2, <5>3 DEF Beats
          <5>5. a = b
            BY <5>4
          <5> QED BY <1>7, <3>1, <3>4, <5>1, <5>2, <5>3, <5>5 DEF Beats
        <4> QED BY <1>6, <1>9, <2>10, <3>2, <3>4, <4>1
      <3> QED BY <3>3, <3>4
    <2> QED BY <2>9, <2>10
  <1> QED BY <1>8, <1>9

(* A decision is one that a sequential run could have made, as long as no   *)
(* data race has corrupted the static map.                                  *)
THEOREM DecidesAloneCorrect == Spec => []DecidesAlone
  <1>1. IInv => DecidesAlone
    <2> SUFFICES ASSUME IInv, "levels" \notin undefined, NEW g \in DOMAIN decided
                 PROVE  decided[g] \in Decisions(g)
      BY DEF DecidesAlone
    <2>1. Begun
      BY DEF IInv, DecidedOK, EmptyMap
    <2>2. g \in Groups(DOMAIN Testset)
      BY <2>1 DEF IInv, PlacedOK, Kept
    <2>3. decided[g] \in Answers(View(g)) /\ Known(View(g))
      BY DEF IInv, ChosenOK
    <2> QED BY <2>1, <2>2, <2>3, AnswersAreDecisions
  <1> QED BY <1>1, Invariance, PTL

(* The list of errors is complete and without doubles if no push_back meets *)
(* another, and where two meet one is for a group without a prediction.     *)
THEOREM ErrorsListedCorrect == Spec => []ErrorsListed
  <1>1. IInv => ErrorsListed
    <2> SUFFICES ASSUME IInv PROVE ErrorsListed
      OBVIOUS
    <2>1. ASSUME main.pc = "output", "errors" \notin undefined
          PROVE  m_ErrBurstGroups = [g \in {h \in Kept : Verdict(h) # "right"} |-> 1]
      <3>1. Begun /\ DOMAIN decided = Kept /\ \A g : ~AtPush(g)
        BY <2>1, AllDecided
      <3>2. m_ErrBurstGroups =
              [g \in {h \in DOMAIN decided : Verdict(h) # "right" /\ ~AtPush(h)} |-> 1]
        BY <2>1, <3>1 DEF IInv, ErrorsOK
      <3>3. {h \in DOMAIN decided : Verdict(h) # "right" /\ ~AtPush(h)}
              = {h \in Kept : Verdict(h) # "right"}
        BY <3>1
      <3> QED BY <3>2, <3>3
    <2>2. ASSUME NEW t \in Threads, pool[t].at = "push", PushRace(t), "errors" \notin undefined
          PROVE  \E u \in Threads : pool[u].at = "push" /\ pool[u].prediction = Unreliable
      <3>1. PICK u \in Threads \ {t} : pool[u].at = "push"
        BY <2>2 DEF PushRace
      <3>2. \A w \in Threads : mutex = w <=> pool[w].at = "push" /\ pool[w].prediction # Unreliable
        BY DEF IInv, MutexOK
      <3> QED BY <2>2, <3>1, <3>2
    <2> QED BY <2>1, <2>2 DEF ErrorsListed
  <1> QED BY <1>1, Invariance, PTL

(* An answer is a name where all devices are trained.                       *)
LEMMA AnswersAreNames ==
    ASSUME IInv, Begun, NEW g \in Groups(DOMAIN Testset), Known(View(g)),
           \A n \in DOMAIN context.allDevices : Trained(n)
    PROVE  Answers(View(g)) \subseteq Predictions \ {Unreliable, Empty}
  <1>1. PICK v : v = View(g)
    OBVIOUS
  <1>2. /\ Running(v) \subseteq Predictions \ {Unreliable, Empty}
        /\ ~IsMute(v) => Running(v) # {}
        /\ IsMute(v) => Running(v) = {Type(n) : n \in ToSet(context.deviceVec)}
        /\ DOMAIN v.merged = DOMAIN context.allDevices
    BY <1>1, RunningFacts DEF IInv
  <1>3. CASE Single(v)
    BY <1>1, <1>2, <1>3 DEF Answers
  <1>4. CASE ~Single(v)
    <2>1. Running(v) # {}
      <3>1. CASE ~IsMute(v)
        BY <1>2, <3>1
      <3>2. CASE IsMute(v)
        <4>1. PICK devices \in Seq(Names) : devices = context.deviceVec
          BY DEF IInv, ContextOK
        <4>2. g[1] \in DOMAIN Testset
          BY GroupFacts DEF IInv
        <4>3. PICK line \in ToSet(Experiment.mapping) : line.addr = g[1]
          BY <4>2, ExperimentFacts DEF IInv
        <4>4. line.addr \in DOMAIN context.addressMap
          BY <4>3 DEF IInv, ContextOK
        <4>5. context.addressMap[line.addr] + 1 \in DOMAIN devices
          BY <4>1, <4>4 DEF IInv, ContextOK, Leads
        <4>6. ToSet(devices) # {}
          BY <4>5 DEF ToSet
        <4> QED BY <1>2, <3>2, <4>1, <4>6
      <3> QED BY <3>1, <3>2
    <2>2. Running(v) \subseteq DOMAIN v.merged
      BY <1>1, <1>4 DEF Known
    <2>3. \A n \in DOMAIN v.merged : n \in WithLevels(v)
      <3>1. \A n \in DOMAIN context.allDevices :
                v.merged[n] = At(blockLevelDistribution, context.allDevices[n], <<>>)
        BY <1>1 DEF View
      <3>2. \A n \in DOMAIN context.allDevices :
                At(blockLevelDistribution, context.allDevices[n], <<>>) # <<>>
        BY DEF Trained, At
      <3> QED BY <1>2, <3>1, <3>2 DEF WithLevels
    <2>4. Running(v) \cap WithLevels(v) # {}
      BY <2>1, <2>2, <2>3
    <2>5. Answers(v) \subseteq Running(v)
      BY <1>4, <2>4 DEF Answers
    <2> QED BY <1>1, <1>2, <2>5
  <1> QED BY <1>3, <1>4

(* Where all names have training groups prediction leaves the static map    *)
(* alone and gives every group a name.                                      *)
THEOREM DefinedWhenTrainedCorrect == Spec => []DefinedWhenTrained
  <1>1. IInv => DefinedWhenTrained
    <2> SUFFICES ASSUME IInv, main.pc \in {"predict", "output"},
                        \A n \in DOMAIN context.allDevices : Trained(n)
                 PROVE  /\ \A t \in Threads : ~Inserts(t)
                        /\ "levels" \notin undefined =>
                              \A g \in DOMAIN decided : decided[g] \notin {Unreliable, Empty}
      BY DEF DefinedWhenTrained
    <2>1. Begun
      BY DEF Begun
    <2>2. ASSUME NEW t \in Threads, pool[t].at = "compare"
          PROVE  pool[t].id \in DOMAIN blockLevelDistribution
      <3>1. pool[t].at \in InGroup
        BY <2>2 DEF InGroup
      <3>2. PICK v : v = View(Current(t))
        OBVIOUS
      <3>3. LookupOK(v, pool[t])
        BY <3>1, <3>2 DEF IInv, PolicyOK
      <3>4. v.ids = context.allDevices
        BY <3>2 DEF View
      <3>5. PICK name \in DOMAIN context.allDevices : pool[t].id = context.allDevices[name]
        BY <2>2, <3>3, <3>4 DEF LookupOK
      <3>6. At(blockLevelDistribution, context.allDevices[name], <<>>) # <<>>
        BY DEF Trained, At
      <3> QED BY <3>5, <3>6 DEF At
    <2>3. ASSUME "levels" \notin undefined, NEW g \in DOMAIN decided
          PROVE  decided[g] \notin {Unreliable, Empty}
      <3>1. g \in Groups(DOMAIN Testset)
        BY <2>1 DEF IInv, PlacedOK, Kept
      <3>2. decided[g] \in Answers(View(g)) /\ Known(View(g))
        BY <2>3 DEF IInv, ChosenOK
      <3>3. Answers(View(g)) \subseteq Predictions \ {Unreliable, Empty}
        BY <2>1, <3>1, <3>2, AnswersAreNames
      <3> QED BY <3>2, <3>3
    <2> QED BY <2>2, <2>3 DEF Inserts
  <1> QED BY <1>1, Invariance, PTL

(* What has stopped a process that stopped on a pool thread: an exception   *)
(* there, or a race.                                                        *)
TerminatedOK ==
    main.pc = "terminated" => undefined # {} \/ \E t \in Threads : pool[t].at = "thrown"

(* Every step keeps TerminatedOK: a thread that throws stays where it is,   *)
(* since no thread runs on, and a race that stops the process is recorded.  *)
LEMMA TerminatedStep ==
    ASSUME IInv, TerminatedOK, [Next]_vars
    PROVE  TerminatedOK'
  <1>1. CASE UNCHANGED vars
    BY <1>1 DEF TerminatedOK, vars
  <1>2. CASE Main
    <2>1. main.pc \in {"begin", "predict", "output"}
      BY <1>2 DEF Main, Begin, StartDevice, Wait, OutputFails, OutputExits, OutputToFile
    <2>2. main'.pc # "terminated"
      <3>1. main = [pc |-> main.pc, series |-> main.series, experiment |-> main.experiment,
                    devices |-> main.devices]
        BY DEF IInv, MainOK
      <3>2. CASE Begin
        BY <3>2 DEF Begin
      <3>3. ASSUME NEW addr \in main.devices, StartDevice(addr) PROVE main'.pc # "terminated"
        BY <2>1, <3>1, <3>3 DEF StartDevice
      <3>4. CASE Wait
        BY <3>1, <3>4 DEF Wait
      <3>5. ASSUME NEW table, NEW details,
                   OutputFails(table, details) \/ OutputExits(table)
                     \/ OutputToFile(table, details)
            PROVE  main'.pc # "terminated"
        BY <3>1, <3>5 DEF OutputFails, OutputExits, OutputToFile
      <3> QED BY <1>2, <3>2, <3>3, <3>4, <3>5 DEF Main
    <2> QED BY <2>2 DEF TerminatedOK
  <1>3. ASSUME NEW t \in Threads, Worker(t) PROVE TerminatedOK'
    <2> SUFFICES ASSUME main'.pc = "terminated"
                 PROVE  undefined' # {} \/ \E u \in Threads : pool'[u].at = "thrown"
      BY DEF TerminatedOK
    <2>1. main' # main
      BY <1>3 DEF Worker
    <2>2. CASE Lookup(t)
      <3>1. pool' = [pool EXCEPT ![t] = Deciding(pool[t], "thrown", pool[t].order,
                                                 pool[t].prediction, pool[t].best, 0)]
        BY <2>1, <2>2 DEF Lookup
      <3>2. pool'[t].at = "thrown"
        BY <3>1 DEF IInv, PoolOK, Deciding
      <3> QED BY <3>2
    <2>3. CASE Compare(t)
      BY <2>1, <2>3 DEF Compare
    <2>4. CASE Push(t)
      BY <2>1, <2>4 DEF Push
    <2> QED BY <1>3, <2>1, <2>2, <2>3, <2>4 DEF Worker, Dispatch, NextGroup, Rank, AddMiss,
               AddCorrect, AddWrong
  <1> QED BY <1>1, <1>2, <1>3 DEF Next, Terminating

(* GenPrediction throws only for a group without votes; if nothing was      *)
(* corrupted the process stops on a pool thread for that alone, and the     *)
(* output exits only for such a group or an untrained tie.                  *)
THEOREM EndsOnlyForCorrect == Spec => []EndsOnlyFor
  <1>1. IInv /\ TerminatedOK => EndsOnlyFor
    <2> SUFFICES ASSUME IInv, TerminatedOK PROVE EndsOnlyFor
      OBVIOUS
    <2>1. ASSUME NEW t \in Threads, pool[t].at = "thrown"
          PROVE  /\ Ranked(Bucket(Group(Current(t)))) = {}
                 /\ \E n \in ToSet(context.deviceVec) : Type(n) \notin DOMAIN context.allDevices
      <3>1. pool[t].at \in InGroup
        BY <2>1 DEF InGroup
      <3>2. PICK g \in Groups(DOMAIN Testset) : g = Current(t)
        BY <3>1, InGroupFacts
      <3>3. PICK v : v = View(g)
        OBVIOUS
      <3>4. Begun /\ LookupOK(v, pool[t])
        BY <3>1, <3>2, <3>3, InGroupFacts
      <3>5. /\ ~IsMute(v) => Running(v) \subseteq DOMAIN v.merged
            /\ IsMute(v) => Running(v) = {Type(n) : n \in ToSet(context.deviceVec)}
            /\ DOMAIN v.merged = DOMAIN context.allDevices
            /\ v.ids = context.allDevices
        BY <3>3, <3>4, RunningFacts DEF IInv
      <3>6. PICK name \in Running(v) : name \notin DOMAIN context.allDevices
        <4>1. /\ ToSet(pool[t].order) \subseteq Running(v) /\ pool[t].order # <<>>
              /\ Head(pool[t].order) \notin DOMAIN context.allDevices
          BY <2>1, <3>4, <3>5 DEF LookupOK
        <4>2. pool[t].order \in Seq(Predictions)
          BY <3>1, InGroupFacts
        <4>3. Head(pool[t].order) \in ToSet(pool[t].order)
          BY <4>1, <4>2, HeadAndTail
        <4> QED BY <4>1, <4>3
      <3>7. IsMute(v)
        BY <3>5, <3>6
      <3>8. Ranked(Bucket(Group(g))) = {}
        BY <3>3, <3>7 DEF IsMute, View
      <3> QED BY <3>2, <3>5, <3>6, <3>7, <3>8
    <2>2. ASSUME main.pc = "exited", undefined = {}
          PROVE  \E g \in DOMAIN m_ErrBurstGroups :
                    \/ Ranked(Bucket(Group(g))) = {}
                    \/ \A n \in Candidates(Bucket(Group(g))) : ~Trained(n)
      <3>1. Begun
        BY <2>2 DEF Begun
      <3>2. PICK g \in DOMAIN m_ErrBurstGroups :
                decided[g] \notin DOMAIN context.allDevices \cup {Unreliable}
        BY <2>2 DEF IInv, ExitOK, Unprintable
      <3>3. g \in DOMAIN decided
        BY <2>2, <3>1 DEF IInv, ErrorsOK
      <3>4. g \in Groups(DOMAIN Testset)
        BY <3>1, <3>3 DEF IInv, PlacedOK, Kept
      <3>5. PICK v : v = View(g)
        OBVIOUS
      <3>6. decided[g] \in Answers(v) /\ Known(v)
        BY <2>2, <3>3, <3>5 DEF IInv, ChosenOK
      <3>7. /\ ~IsMute(v) => Running(v) \subseteq DOMAIN v.merged
            /\ DOMAIN v.merged = DOMAIN context.allDevices
        BY <3>1, <3>4, <3>5, RunningFacts DEF IInv
      <3>8. v.bucket = Bucket(Group(g))
        BY <3>5 DEF View
      <3>9. CASE IsMute(v)
        BY <3>8, <3>9 DEF IsMute
      <3>10. CASE ~IsMute(v)
        <4>1. Running(v) = Candidates(v.bucket)
          BY <3>10 DEF Running
        <4>2. decided[g] \notin Running(v)
          BY <3>2, <3>7, <3>10
        <4>3. Running(v) \cap WithLevels(v) = {}
          BY <3>6, <4>2 DEF Answers
        <4>4. ASSUME NEW n \in Running(v) PROVE ~Trained(n)
          <5>1. n \in DOMAIN context.allDevices /\ v.merged[n] = <<>>
            BY <3>7, <3>10, <4>3 DEF WithLevels
          <5>2. v.merged[n] = At(blockLevelDistribution, context.allDevices[n], <<>>)
            BY <3>5, <5>1 DEF View
          <5>3. At(context.allDevices, n, -1) = context.allDevices[n]
            BY <5>1 DEF At
          <5> QED BY <5>1, <5>2, <5>3 DEF Trained
        <4> QED BY <3>8, <4>1, <4>4
      <3> QED BY <3>9, <3>10
    <2> QED BY <2>1, <2>2 DEF EndsOnlyFor, TerminatedOK
  <1>2. Init => TerminatedOK
    <2> SUFFICES ASSUME Init PROVE main.pc # "terminated"
      BY DEF TerminatedOK
    <2> QED BY DEF Init
  <1>3. IInv /\ TerminatedOK /\ [Next]_vars => TerminatedOK'
    BY TerminatedStep
  <1>4. Spec => []TerminatedOK
    BY <1>2, <1>3, Invariance, PTL DEF Spec
  <1> QED BY <1>1, <1>4, Invariance, PTL
=============================================================================
