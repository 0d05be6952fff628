-------------------------- MODULE SplitSlots_proofs -------------------------
(***************************************************************************)
(* WholeSlots, TrainsOnThePast and EveryDeviceTrains of SplitSlots, for    *)
(* any devices, data set, slot length and percentage. The invariant IInv   *)
(* says where the packets of a data set are: in the vector of their device *)
(* and slot, in order, until that slot is visited, and from then on in the *)
(* block of their slot. Slots are visited in ascending order, so blocks    *)
(* lie in the order of their times. The sort leaves that order wherever    *)
(* the front bursts have their stamps; TrainsOnThePast follows from what a *)
(* stamp can be, and EveryDeviceTrains from the rounding of the cut.       *)
(***************************************************************************)
EXTENDS SplitSlots, FiniteSetTheorems, TLAPS

-----------------------------------------------------------------------------
(* Places in an order *)

RankIn(R, S, x) == Cardinality({y \in S : <<y, x>> \in R})

(* The places of the elements of a finite set in a total order R are 1, 2,  *)
(* and so on to the last.                                                   *)
LEMMA Ranks ==
    ASSUME NEW S, IsFiniteSet(S), NEW R,
           \A x \in S : <<x, x>> \in R,
           \A x, y \in S : <<x, y>> \in R \/ <<y, x>> \in R,
           \A x, y \in S : <<x, y>> \in R /\ <<y, x>> \in R => x = y,
           \A x, y, z \in S : <<x, y>> \in R /\ <<y, z>> \in R => <<x, z>> \in R
    PROVE  /\ Cardinality(S) \in Nat
           /\ \A x \in S : RankIn(R, S, x) \in 1 .. Cardinality(S)
           /\ \A x, y \in S : RankIn(R, S, x) < RankIn(R, S, y) <=> (<<x, y>> \in R /\ x # y)
           /\ \A k \in 1 .. Cardinality(S) : \E x \in S : RankIn(R, S, x) = k
  <1> DEFINE Upto(x) == {y \in S : <<y, x>> \in R}
  <1>1. PICK n \in Nat : n = Cardinality(S)
    BY FS_CardinalityType
  <1>2. ASSUME NEW x \in S
        PROVE  IsFiniteSet(Upto(x)) /\ RankIn(R, S, x) \in 1 .. n
    <2>1. IsFiniteSet(Upto(x)) /\ Cardinality(Upto(x)) <= n
      <3>1. Upto(x) \in SUBSET S
        OBVIOUS
      <3> HIDE DEF Upto
      <3> QED BY <1>1, <3>1, FS_Subset
    <2>2. Cardinality(Upto(x)) \in Nat
      BY <2>1, FS_CardinalityType
    <2>3. Cardinality(Upto(x)) # 0
      <3>1. x \in Upto(x)
        OBVIOUS
      <3> HIDE DEF Upto
      <3> QED BY <2>1, <3>1, FS_EmptySet
    <2>4. RankIn(R, S, x) = Cardinality(Upto(x))
      BY DEF RankIn
    <2> HIDE DEF Upto
    <2> QED BY <2>1, <2>2, <2>3, <2>4
  <1>a. \A i \in 1 .. n : i \in Nat
    BY <1>1
  <1>b. \A x \in S : RankIn(R, S, x) \in Nat
    BY <1>2, <1>a
  <1> HIDE DEF Upto
  <1>3. ASSUME NEW x \in S, NEW y \in S, <<x, y>> \in R, x # y
        PROVE  RankIn(R, S, x) < RankIn(R, S, y)
    <2>1. Upto(x) \in SUBSET Upto(y) /\ y \in Upto(y) /\ y \notin Upto(x)
      BY <1>3 DEF Upto
    <2>2. /\ RankIn(R, S, x) = Cardinality(Upto(x))
          /\ RankIn(R, S, y) = Cardinality(Upto(y))
      BY DEF RankIn, Upto
    <2>3. /\ IsFiniteSet(Upto(y)) /\ RankIn(R, S, x) \in Nat
          /\ RankIn(R, S, y) \in Nat
      BY <1>2, <1>b
    <2>4. /\ Cardinality(Upto(x)) <= Cardinality(Upto(y))
          /\ Cardinality(Upto(x)) # Cardinality(Upto(y))
      BY <2>1, <2>3, FS_Subset
    <2>5. PICK a \in Nat : a = RankIn(R, S, x)
      BY <2>3
    <2>6. PICK b \in Nat : b = RankIn(R, S, y)
      BY <2>3
    <2> QED BY <2>2, <2>4, <2>5, <2>6
  <1>4. ASSUME NEW x \in S, NEW y \in S
        PROVE  RankIn(R, S, x) < RankIn(R, S, y) <=> (<<x, y>> \in R /\ x # y)
    <2>1. PICK a \in Nat : a = RankIn(R, S, x)
      BY <1>b
    <2>2. PICK b \in Nat : b = RankIn(R, S, y)
      BY <1>b
    <2>3. CASE x = y
      BY <2>1, <2>3
    <2>4. CASE x # y /\ <<x, y>> \in R
      BY <2>4, <1>3
    <2>5. CASE x # y /\ <<y, x>> \in R
      <3>1. b < a
        BY <2>1, <2>2, <2>5, <1>3
      <3>2. <<x, y>> \notin R
        BY <2>5
      <3>3. ~(a < b)
        BY <3>1
      <3> QED BY <2>1, <2>2, <3>2, <3>3
    <2> QED BY <2>3, <2>4, <2>5
  <1>5. ASSUME NEW k \in 1 .. n PROVE \E x \in S : RankIn(R, S, x) = k
    <2>1. PICK f : f = [x \in S |-> RankIn(R, S, x)]
      OBVIOUS
    <2>2. \A x, y \in S : f[x] = f[y] => x = y
      <3> SUFFICES ASSUME NEW x \in S, NEW y \in S, f[x] = f[y], x # y PROVE FALSE
        OBVIOUS
      <3>1. PICK a \in Nat : a = RankIn(R, S, x)
        BY <1>b
      <3>2. RankIn(R, S, y) = a
        BY <2>1, <3>1
      <3>3. ~(a < a)
        OBVIOUS
      <3>4. <<x, y>> \in R \/ <<y, x>> \in R
        OBVIOUS
      <3>5. <<x, y>> \in R => RankIn(R, S, x) < RankIn(R, S, y)
        BY <1>3
      <3>6. <<y, x>> \in R => RankIn(R, S, y) < RankIn(R, S, x)
        BY <1>3
      <3> QED BY <3>1, <3>2, <3>3, <3>4, <3>5, <3>6
    <2>3. f \in Injection(S, 1 .. n)
      BY <2>1, <2>2, <1>2 DEF Injection, IsInjective
    <2>4. IsFiniteSet(1 .. n) /\ Cardinality(1 .. n) = n
      <3>1. n \in Int /\ 1 \in Int /\ (IF 1 > n THEN 0 ELSE n - 1 + 1) = n
        OBVIOUS
      <3> QED BY <3>1, FS_Interval
    <2>5. f \in Surjection(S, 1 .. n)
      BY <1>1, <2>3, <2>4, FS_Injection
    <2> QED BY <2>1, <2>5 DEF Surjection
  <1> QED BY <1>1, <1>2, <1>4, <1>5

(* The k-th of a finite set of integers is what it should be.               *)
LEMMA NthFacts ==
    ASSUME NEW S, IsFiniteSet(S), S \subseteq Int
    PROVE  /\ Cardinality(S) \in Nat
           /\ \A k \in 1 .. Cardinality(S) :
                 Nth(S, k) \in S /\ Cardinality({y \in S : y <= Nth(S, k)}) = k
           /\ \A x \in S : /\ Cardinality({y \in S : y <= x}) \in 1 .. Cardinality(S)
                           /\ Nth(S, Cardinality({y \in S : y <= x})) = x
           /\ \A j, k \in 1 .. Cardinality(S) : j < k => Nth(S, j) < Nth(S, k)
  <1>1. PICK R : R = {p \in S \X S : p[1] <= p[2]}
    OBVIOUS
  <1>2. \A x, y \in S : <<x, y>> \in R <=> x <= y
    BY <1>1
  <1>3. /\ \A x \in S : <<x, x>> \in R
        /\ \A x, y \in S : <<x, y>> \in R \/ <<y, x>> \in R
        /\ \A x, y \in S : <<x, y>> \in R /\ <<y, x>> \in R => x = y
        /\ \A x, y, z \in S : <<x, y>> \in R /\ <<y, z>> \in R => <<x, z>> \in R
    BY <1>2
  <1>4. /\ Cardinality(S) \in Nat
        /\ \A x \in S : RankIn(R, S, x) \in 1 .. Cardinality(S)
        /\ \A x, y \in S : RankIn(R, S, x) < RankIn(R, S, y) <=> (<<x, y>> \in R /\ x # y)
        /\ \A k \in 1 .. Cardinality(S) : \E x \in S : RankIn(R, S, x) = k
    BY <1>3, Ranks
  <1>5. ASSUME NEW x \in S
        PROVE  RankIn(R, S, x) = Cardinality({y \in S : y <= x})
    <2>1. {y \in S : <<y, x>> \in R} = {y \in S : y <= x}
      BY <1>2
    <2> QED BY <2>1 DEF RankIn
  <1>6. ASSUME NEW k \in 1 .. Cardinality(S)
        PROVE  Nth(S, k) \in S /\ RankIn(R, S, Nth(S, k)) = k
    <2>1. \E x \in S : Cardinality({y \in S : y <= x}) = k
      BY <1>4, <1>5
    <2> QED BY <2>1, <1>5 DEF Nth
  <1>7. ASSUME NEW x \in S, NEW y \in S, RankIn(R, S, x) = RankIn(R, S, y)
        PROVE  x = y
    <2>1. PICK a \in Nat : a = RankIn(R, S, x)
      BY <1>4
    <2>2. ~(a < a)
      OBVIOUS
    <2> QED BY <1>3, <1>4, <1>7, <2>1, <2>2
  <1>8. ASSUME NEW j \in 1 .. Cardinality(S), NEW k \in 1 .. Cardinality(S), j < k
        PROVE  Nth(S, j) < Nth(S, k)
    <2>1. <<Nth(S, j), Nth(S, k)>> \in R /\ Nth(S, j) # Nth(S, k)
      BY <1>4, <1>6, <1>8
    <2>2. PICK a \in Int : a = Nth(S, j)
      BY <1>6
    <2>3. PICK b \in Int : b = Nth(S, k)
      BY <1>6
    <2> QED BY <1>2, <1>6, <2>1, <2>2, <2>3
  <1>9. ASSUME NEW x \in S
        PROVE  /\ Cardinality({y \in S : y <= x}) \in 1 .. Cardinality(S)
               /\ Nth(S, Cardinality({y \in S : y <= x})) = x
    <2>1. PICK k \in 1 .. Cardinality(S) : k = RankIn(R, S, x)
      BY <1>4
    <2>2. Nth(S, k) = x
      BY <1>6, <1>7, <2>1
    <2> QED BY <1>5, <2>1, <2>2
  <1> QED BY <1>4, <1>5, <1>6, <1>8, <1>9

(* A greater element comes last, and moves no other.                        *)
LEMMA NthAppend ==
    ASSUME NEW S, IsFiniteSet(S), S \subseteq Int, NEW x \in Int, \A y \in S : y < x
    PROVE  /\ Cardinality(S) \in Nat
           /\ IsFiniteSet(S \cup {x}) /\ Cardinality(S \cup {x}) = Cardinality(S) + 1
           /\ \A k \in 1 .. Cardinality(S) : Nth(S \cup {x}, k) = Nth(S, k)
           /\ Nth(S \cup {x}, Cardinality(S) + 1) = x
  <1>1. x \notin S
    OBVIOUS
  <1>2. PICK T : T = S \cup {x}
    OBVIOUS
  <1>3. /\ IsFiniteSet(T) /\ T \subseteq Int /\ Cardinality(T) = Cardinality(S) + 1
        /\ Cardinality(S) \in Nat
    BY <1>1, <1>2, FS_AddElement, FS_CardinalityType
  <1>4. ASSUME NEW k \in 1 .. Cardinality(S) PROVE Nth(T, k) = Nth(S, k)
    <2>1. Nth(S, k) \in S /\ Cardinality({y \in S : y <= Nth(S, k)}) = k
      BY NthFacts
    <2>a. PICK m \in Int : m = Nth(S, k)
      BY <2>1
    <2>b. m \in S /\ ~(x <= m)
      BY <2>1, <2>a
    <2>2. {y \in T : y <= Nth(S, k)} = {y \in S : y <= Nth(S, k)}
      BY <1>2, <2>a, <2>b
    <2>3. Nth(S, k) \in T
      BY <1>2, <2>1
    <2>4. Nth(T, Cardinality({y \in T : y <= Nth(S, k)})) = Nth(S, k)
      BY <1>3, <2>3, NthFacts
    <2> QED BY <2>1, <2>2, <2>4
  <1>5. Nth(T, Cardinality(S) + 1) = x
    <2>1. \A y \in T : y <= x
      BY <1>2
    <2>2. {y \in T : y <= x} = T
      BY <2>1
    <2>3. x \in T
      BY <1>2
    <2>4. Nth(T, Cardinality({y \in T : y <= x})) = x
      BY <1>3, <2>3, NthFacts
    <2> QED BY <1>3, <2>2, <2>4
  <1> QED BY <1>2, <1>3, <1>4, <1>5

(* There is a least and a greatest.                                         *)
LEMMA LeastAndGreatest ==
    ASSUME NEW S, IsFiniteSet(S), S \subseteq Int, S # {}
    PROVE  /\ \E x \in S : \A y \in S : x <= y
           /\ \E x \in S : \A y \in S : y <= x
  <1>1. PICK n \in Nat \ {0} : n = Cardinality(S)
    BY FS_CardinalityType, FS_EmptySet
  <1>a. 1 \in 1 .. n /\ n \in 1 .. n
    OBVIOUS
  <1>2. ASSUME NEW y \in S
        PROVE  Nth(S, 1) <= y /\ y <= Nth(S, n)
    <2>1. PICK k \in 1 .. n : y = Nth(S, k)
      BY <1>1, NthFacts
    <2>2. /\ 1 < k => Nth(S, 1) < Nth(S, k)
          /\ k < n => Nth(S, k) < Nth(S, n)
      BY <1>1, <1>a, NthFacts
    <2>3. Nth(S, 1) \in Int /\ Nth(S, n) \in Int
      BY <1>1, <1>a, NthFacts
    <2>4. PICK a \in Int : a = Nth(S, 1)
      BY <2>3
    <2>5. PICK b \in Int : b = Nth(S, n)
      BY <2>3
    <2>6. (1 = k \/ a < y) /\ (k = n \/ y < b)
      BY <2>1, <2>2, <2>4, <2>5
    <2>7. (1 = k => a = y) /\ (k = n => y = b)
      BY <2>1, <2>4, <2>5
    <2> QED BY <2>4, <2>5, <2>6, <2>7
  <1>3. Nth(S, 1) \in S /\ Nth(S, n) \in S
    BY <1>1, <1>a, NthFacts
  <1> QED BY <1>2, <1>3

(* What StableSort asks of a block to be before another one, or that one.   *)
Upfront(blocks, j, i) ==
    \/ blocks[j].stamp < blocks[i].stamp
    \/ blocks[j].stamp = blocks[i].stamp /\ j <= i

(* What StableSort returns: the blocks in the order of their stamps, equal  *)
(* ones in the order they had.                                              *)
LEMMA SortFacts ==
    ASSUME NEW B, NEW blocks \in Seq(B), \A i \in DOMAIN blocks : blocks[i].stamp \in Nat
    PROVE  /\ StableSort(blocks) \in Seq(B)
           /\ Len(StableSort(blocks)) = Len(blocks)
           /\ \E f \in [DOMAIN blocks -> DOMAIN blocks] :
                 /\ \A k \in DOMAIN blocks : StableSort(blocks)[k] = blocks[f[k]]
                 /\ \A j, k \in DOMAIN blocks :
                       j < k => \/ blocks[f[j]].stamp < blocks[f[k]].stamp
                                \/ blocks[f[j]].stamp = blocks[f[k]].stamp /\ f[j] < f[k]
  <1>1. PICK n \in Nat : n = Len(blocks)
    OBVIOUS
  <1>2. PICK S : S = 1 .. n
    OBVIOUS
  <1>3. IsFiniteSet(S) /\ Cardinality(S) = n /\ S = DOMAIN blocks
    <2>1. n \in Int /\ 1 \in Int /\ (IF 1 > n THEN 0 ELSE n - 1 + 1) = n
      OBVIOUS
    <2>2. IsFiniteSet(1 .. n) /\ Cardinality(1 .. n) = n
      BY <2>1, FS_Interval
    <2>3. DOMAIN blocks = 1 .. n
      BY <1>1
    <2> QED BY <1>2, <2>2, <2>3
  <1>4. PICK R : R = {p \in S \X S : Upfront(blocks, p[1], p[2])}
    OBVIOUS
  <1>5. \A i, j \in S : <<i, j>> \in R <=> Upfront(blocks, i, j)
    BY <1>4
  <1>6. \A i \in S : i \in Nat /\ blocks[i].stamp \in Nat
    BY <1>2, <1>3
  <1>7. \A x \in S : <<x, x>> \in R
    BY <1>5, <1>6 DEF Upfront
  <1>8. \A x, y \in S : <<x, y>> \in R \/ <<y, x>> \in R
    <2> SUFFICES ASSUME NEW x \in S, NEW y \in S
                 PROVE  Upfront(blocks, x, y) \/ Upfront(blocks, y, x)
      BY <1>5
    <2>1. PICK a \in Nat : a = blocks[x].stamp
      BY <1>6
    <2>2. PICK b \in Nat : b = blocks[y].stamp
      BY <1>6
    <2>3. x \in Nat /\ y \in Nat
      BY <1>6
    <2>4. (a < b \/ (a = b /\ x <= y)) \/ (b < a \/ (b = a /\ y <= x))
      BY <2>3
    <2> QED BY <2>1, <2>2, <2>4 DEF Upfront
  <1>9. \A x, y \in S : <<x, y>> \in R /\ <<y, x>> \in R => x = y
    BY <1>5, <1>6 DEF Upfront
  <1>10. \A x, y, z \in S : <<x, y>> \in R /\ <<y, z>> \in R => <<x, z>> \in R
    BY <1>5, <1>6 DEF Upfront
  <1>11. /\ \A x \in S : RankIn(R, S, x) \in 1 .. n
         /\ \A x, y \in S : RankIn(R, S, x) < RankIn(R, S, y) <=> (<<x, y>> \in R /\ x # y)
         /\ \A k \in 1 .. n : \E x \in S : RankIn(R, S, x) = k
    <2>1. /\ \A x \in S : RankIn(R, S, x) \in 1 .. Cardinality(S)
          /\ \A x, y \in S : RankIn(R, S, x) < RankIn(R, S, y) <=> (<<x, y>> \in R /\ x # y)
          /\ \A k \in 1 .. Cardinality(S) : \E x \in S : RankIn(R, S, x) = k
      <3>1. IsFiniteSet(S)
        BY <1>3
      <3> HIDE <1>1, <1>2, <1>3, <1>4, <1>5, <1>6
      <3> QED BY <3>1, <1>7, <1>8, <1>9, <1>10, Ranks
    <2> QED BY <1>3, <2>1
  <1>12. \A i \in S : RankIn(R, S, i) = Place(blocks, i)
    <2> SUFFICES ASSUME NEW i \in S
                 PROVE  {j \in S : <<j, i>> \in R} =
                          {j \in DOMAIN blocks :
                             \/ blocks[j].stamp < blocks[i].stamp
                             \/ blocks[j].stamp = blocks[i].stamp /\ j <= i}
      BY DEF RankIn, Place
    <2> QED BY <1>3, <1>5 DEF Upfront
  <1>13. PICK f : f = [k \in S |-> CHOOSE i \in S : RankIn(R, S, i) = k]
    OBVIOUS
  <1>14. ASSUME NEW k \in S PROVE f[k] \in S /\ RankIn(R, S, f[k]) = k
    BY <1>2, <1>11, <1>13
  <1>15. StableSort(blocks) = [k \in S |-> blocks[f[k]]]
    <2>1. ASSUME NEW k \in S
          PROVE  (CHOOSE i \in S : Place(blocks, i) = k) = f[k]
      <3>1. f[k] \in S /\ Place(blocks, f[k]) = k
        BY <1>12, <1>14
      <3>2. \A i \in S : Place(blocks, i) = k => i = f[k]
        <4> SUFFICES ASSUME NEW i \in S, Place(blocks, i) = k, i # f[k] PROVE FALSE
          OBVIOUS
        <4>1. k \in Nat /\ ~(k < k)
          BY <1>2
        <4> QED BY <1>8, <1>11, <1>12, <3>1, <4>1
      <3> QED BY <3>1, <3>2
    <2> DEFINE From(k) == CHOOSE i \in DOMAIN blocks : Place(blocks, i) = k
    <2>2. StableSort(blocks) = [k \in DOMAIN blocks |-> blocks[From(k)]]
      BY DEF StableSort
    <2>3. \A k \in DOMAIN blocks : From(k) = f[k]
      BY <1>3, <2>1
    <2> HIDE DEF From
    <2> QED BY <1>3, <2>2, <2>3
  <1>16. StableSort(blocks) \in Seq(B) /\ Len(StableSort(blocks)) = n
    <2>1. \A k \in 1 .. n : blocks[f[k]] \in B
      BY <1>2, <1>3, <1>14
    <2>2. PICK s : s = [k \in 1 .. n |-> blocks[f[k]]]
      OBVIOUS
    <2>3. s \in Seq(B) /\ Len(s) = n
      BY <2>1, <2>2
    <2> QED BY <1>2, <1>15, <2>2, <2>3
  <1>17. ASSUME NEW j \in S, NEW k \in S, j < k
         PROVE  \/ blocks[f[j]].stamp < blocks[f[k]].stamp
                \/ blocks[f[j]].stamp = blocks[f[k]].stamp /\ f[j] < f[k]
    <2>1. f[j] \in S /\ f[k] \in S /\ <<f[j], f[k]>> \in R /\ f[j] # f[k]
      BY <1>11, <1>14, <1>17
    <2> QED BY <1>5, <1>6, <2>1 DEF Upfront
  <1>18. f \in [S -> S]
    BY <1>13, <1>14
  <1>19. \A k \in S : StableSort(blocks)[k] = blocks[f[k]]
    BY <1>15
  <1>20. \E g \in [S -> S] :
                 /\ \A k \in S : StableSort(blocks)[k] = blocks[g[k]]
                 /\ \A j, k \in S :
                       j < k => \/ blocks[g[j]].stamp < blocks[g[k]].stamp
                                \/ blocks[g[j]].stamp = blocks[g[k]].stamp /\ g[j] < g[k]
    BY <1>17, <1>18, <1>19
  <1> QED BY <1>1, <1>3, <1>16, <1>20

-----------------------------------------------------------------------------
(* The invariant *)

Active(packets) == {d \in Devices : Of(packets, d) # {}}

(* The vectors of the slots of S: there where the device sent in the slot,  *)
(* all it sent.                                                             *)
Vectors(packets, slots, d, S) ==
    \A s \in S :
        IF s \in Slots(packets, d)
        THEN s \in DOMAIN slots /\ slots[s] = Traffic(packets, d, s)
        ELSE s \notin DOMAIN slots

(* The blocks of the slots of S, in order, each with a stamp it may have.   *)
BlocksAre(packets, blocks, d, S) ==
    /\ blocks \in Seq([packets : Seq(Packet), stamp : Nat])
    /\ Len(blocks) = Cardinality(S)
    /\ \A i \in DOMAIN blocks :
          /\ blocks[i].packets = Traffic(packets, d, Nth(S, i))
          /\ blocks[i].stamp \in FrontStamps(blocks[i].packets)

(* The slots still to be visited, and those that have been.                 *)
Made(packets, slots, d) == Slots(packets, d) \ ToSet(slots)

Ahead(packets, slots, d) ==
    /\ slots \in Seq(Nat)
    /\ \A i, j \in DOMAIN slots : i < j => slots[i] < slots[j]
    /\ \A s \in Made(packets, slots, d) : \A i \in DOMAIN slots : s < slots[i]

GroupOK ==
    /\ todo = Empty /\ burstDatasetContent = Empty
    /\ DOMAIN deviceTimeRawVecMap = Active(dataset)
    /\ \A d \in Active(dataset) :
          /\ DOMAIN deviceTimeRawVecMap[d] = Slots(dataset, d)
          /\ Vectors(dataset, deviceTimeRawVecMap[d], d, Slots(dataset, d))

Blocks(d) == At(burstDatasetContent, d, <<>>)

SplitOK ==
    /\ DOMAIN deviceTimeRawVecMap = Active(dataset)
    /\ DOMAIN todo = Active(dataset)
    /\ \A d \in Active(dataset) :
          /\ Ahead(dataset, todo[d], d)
          /\ Vectors(dataset, deviceTimeRawVecMap[d], d, ToSet(todo[d]))
    /\ \A d \in Active(dataset) :
          /\ BlocksAre(dataset, Blocks(d), d, Made(dataset, todo[d], d))
          /\ d \in DOMAIN burstDatasetContent <=> Made(dataset, todo[d], d) # {}
    /\ DOMAIN burstDatasetContent \subseteq Active(dataset)

MadeOK ==
    /\ DOMAIN burstDatasetContent = Active(dataset)
    /\ \A d \in Active(dataset) : BlocksAre(dataset, Blocks(d), d, Slots(dataset, d))

IInv ==
    /\ dataset \in Seq(Packet)
    /\ pc = "group" => GroupOK
    /\ pc = "split" => SplitOK
    /\ pc = "TrainTestSplit" => MadeOK
    /\ pc = "done" => TrainsOnThePast /\ EveryDeviceTrains

-----------------------------------------------------------------------------
(* Slots and their packets *)

(* A later slot is a later time.                                            *)
LEMMA SlotOrder ==
    ASSUME NEW p \in Packet, NEW q \in Packet
    PROVE  /\ SlotOf(p) \in Nat
           /\ SlotOf(p) < SlotOf(q) => p.tv_sec < q.tv_sec
  <1>1. PICK x \in Nat : x = p.tv_sec
    BY SlotAssumption DEF Packet
  <1>2. PICK y \in Nat : y = q.tv_sec
    BY SlotAssumption DEF Packet
  <1>3. PICK T \in Nat \ {0} : T = TIMESLOT
    BY SlotAssumption
  <1>4. x \div T \in Nat
    OBVIOUS
  <1>5. y \div T \in Nat
    OBVIOUS
  <1>6. (x \div T < y \div T) => x < y
    <2>1. y <= x => y \div T <= x \div T
      OBVIOUS
    <2> QED BY <1>4, <1>5, <2>1
  <1> QED BY <1>1, <1>2, <1>3, <1>4, <1>6 DEF SlotOf

(* A device has finitely many slots, and none without a packet.             *)
LEMMA SlotsFacts ==
    ASSUME NEW packets \in Seq(Packet), NEW d
    PROVE  /\ IsFiniteSet(Slots(packets, d)) /\ Slots(packets, d) \subseteq Nat
           /\ Slots(packets, d) # {} <=> Of(packets, d) # {}
           /\ IsFiniteSet(Of(packets, d))
           /\ \A s : InSlot(packets, d, s) \subseteq DOMAIN packets
           /\ \A s : InSlot(packets, d, s) # {} <=> s \in Slots(packets, d)
           /\ \A s : IsFiniteSet(InSlot(packets, d, s))
  <1>1. PICK n \in Nat : n = Len(packets)
    OBVIOUS
  <1>2. DOMAIN packets = 1 .. n /\ \A i \in DOMAIN packets : packets[i] \in Packet
    BY <1>1
  <1>3. IsFiniteSet(DOMAIN packets)
    <2>1. n \in Int /\ 1 \in Int
      OBVIOUS
    <2> QED BY <1>2, <2>1, FS_Interval
  <1>4. Of(packets, d) \in SUBSET DOMAIN packets
    BY DEF Of
  <1>5. IsFiniteSet(Of(packets, d))
    BY <1>3, <1>4, FS_Subset
  <1>6. IsFiniteSet(Slots(packets, d))
    <2>1. PICK f : f = [i \in Of(packets, d) |-> SlotOf(packets[i])]
      OBVIOUS
    <2>2. f \in Surjection(Of(packets, d), Slots(packets, d))
      BY <2>1 DEF Surjection, Slots
    <2> QED BY <1>5, <2>2, FS_Surjection
  <1>7. Slots(packets, d) \subseteq Nat
    BY <1>2, <1>4, SlotOrder DEF Slots
  <1>8. ASSUME NEW s
        PROVE  /\ InSlot(packets, d, s) \in SUBSET Of(packets, d)
               /\ InSlot(packets, d, s) # {} <=> s \in Slots(packets, d)
    BY DEF InSlot, Slots
  <1>9. ASSUME NEW s PROVE IsFiniteSet(InSlot(packets, d, s))
    BY <1>5, <1>8, FS_Subset
  <1>10. Slots(packets, d) # {} <=> Of(packets, d) # {}
    BY DEF Slots
  <1> QED BY <1>4, <1>5, <1>6, <1>7, <1>8, <1>9, <1>10

(* What a slot's traffic is made of.                                        *)
LEMMA TrafficFacts ==
    ASSUME NEW packets \in Seq(Packet), NEW d, NEW s
    PROVE  /\ Traffic(packets, d, s) \in Seq(Packet)
           /\ Traffic(packets, d, s) # <<>> <=> s \in Slots(packets, d)
           /\ s \in Slots(packets, d) =>
                 /\ Head(Traffic(packets, d, s)) \in Packet
                 /\ SlotOf(Head(Traffic(packets, d, s))) = s
  <1>1. PICK S : S = InSlot(packets, d, s)
    OBVIOUS
  <1>2. /\ IsFiniteSet(S) /\ S \subseteq DOMAIN packets
        /\ S # {} <=> s \in Slots(packets, d)
        /\ \A i \in S : SlotOf(packets[i]) = s
    BY <1>1, SlotsFacts DEF InSlot
  <1>3. S \subseteq Int
    BY <1>2
  <1>4. PICK n \in Nat : n = Cardinality(S)
    BY <1>2, FS_CardinalityType
  <1>5. n = 0 <=> S = {}
    BY <1>2, <1>4, FS_EmptySet
  <1>6. \A k \in 1 .. n : Nth(S, k) \in S
    BY <1>2, <1>3, <1>4, NthFacts
  <1>7. \A k \in 1 .. n : packets[Nth(S, k)] \in Packet /\ SlotOf(packets[Nth(S, k)]) = s
    BY <1>2, <1>6
  <1>8. PICK v : v = [k \in 1 .. n |-> packets[Nth(S, k)]]
    OBVIOUS
  <1>9. Traffic(packets, d, s) = v
    BY <1>1, <1>4, <1>8 DEF Traffic
  <1>10. v \in Seq(Packet) /\ Len(v) = n
    BY <1>7, <1>8
  <1>11. n # 0 => v # <<>> /\ Head(v) = packets[Nth(S, 1)]
    BY <1>8, <1>10
  <1>12. n = 0 => v = <<>>
    BY <1>10
  <1>13. n # 0 => 1 \in 1 .. n
    OBVIOUS
  <1> QED BY <1>2, <1>5, <1>7, <1>9, <1>10, <1>11, <1>12, <1>13

(* A new packet is the last of its slot, and of no other.                   *)
LEMMA OneMore ==
    ASSUME NEW packets \in Seq(Packet), NEW p \in Packet, NEW d
    PROVE  /\ Append(packets, p) \in Seq(Packet)
           /\ Of(Append(packets, p), p.deviceId) # {}
           /\ Slots(Append(packets, p), p.deviceId) = Slots(packets, p.deviceId) \cup {SlotOf(p)}
           /\ Traffic(Append(packets, p), p.deviceId, SlotOf(p))
                 = Append(Traffic(packets, p.deviceId, SlotOf(p)), p)
           /\ d # p.deviceId =>
                 /\ Of(Append(packets, p), d) = Of(packets, d)
                 /\ Slots(Append(packets, p), d) = Slots(packets, d)
           /\ \A s : d # p.deviceId \/ s # SlotOf(p) =>
                        Traffic(Append(packets, p), d, s) = Traffic(packets, d, s)
  <1>1. PICK n \in Nat : n = Len(packets)
    OBVIOUS
  <1>2. PICK more : more = Append(packets, p)
    OBVIOUS
  <1>3. /\ DOMAIN packets = 1 .. n /\ DOMAIN more = DOMAIN packets \cup {n + 1}
        /\ n + 1 \notin DOMAIN packets
        /\ \A i \in DOMAIN packets : more[i] = packets[i] /\ i < n + 1 /\ i \in Int
        /\ more[n + 1] = p /\ more \in Seq(Packet)
    BY <1>1, <1>2
  <1>4. Of(more, p.deviceId) = Of(packets, p.deviceId) \cup {n + 1}
    BY <1>3 DEF Of
  <1>5. d # p.deviceId => Of(more, d) = Of(packets, d)
    BY <1>3 DEF Of
  <1>6. \A e : \A i \in Of(packets, e) : i \in DOMAIN packets /\ more[i] = packets[i]
    BY <1>3 DEF Of
  <1>7. Slots(more, p.deviceId) = Slots(packets, p.deviceId) \cup {SlotOf(p)}
    BY <1>3, <1>4, <1>6 DEF Slots
  <1>8. d # p.deviceId => Slots(more, d) = Slots(packets, d)
    BY <1>5, <1>6 DEF Slots
  <1>9. InSlot(more, p.deviceId, SlotOf(p)) = InSlot(packets, p.deviceId, SlotOf(p)) \cup {n + 1}
    BY <1>3, <1>4, <1>6 DEF InSlot
  <1>10. ASSUME NEW s, d # p.deviceId \/ s # SlotOf(p)
         PROVE  Traffic(more, d, s) = Traffic(packets, d, s)
    <2>1. InSlot(more, d, s) = InSlot(packets, d, s)
      <3>1. CASE d # p.deviceId
        BY <3>1, <1>5, <1>6 DEF InSlot
      <3>2. CASE d = p.deviceId /\ s # SlotOf(p)
        BY <3>2, <1>3, <1>4, <1>6 DEF InSlot
      <3> QED BY <1>10, <3>1, <3>2
    <2>2. PICK S : S = InSlot(packets, d, s)
      OBVIOUS
    <2>3. IsFiniteSet(S) /\ S \subseteq DOMAIN packets
      BY <2>2, SlotsFacts
    <2>4. S \subseteq Int
      BY <1>3, <2>3
    <2>5. \A k \in 1 .. Cardinality(S) : Nth(S, k) \in S
      BY <2>3, <2>4, NthFacts
    <2>6. \A k \in 1 .. Cardinality(S) : more[Nth(S, k)] = packets[Nth(S, k)]
      BY <1>3, <2>3, <2>5
    <2> QED BY <2>1, <2>2, <2>6 DEF Traffic
  <1>11. Traffic(more, p.deviceId, SlotOf(p)) = Append(Traffic(packets, p.deviceId, SlotOf(p)), p)
    <2>1. PICK S : S = InSlot(packets, p.deviceId, SlotOf(p))
      OBVIOUS
    <2>2. IsFiniteSet(S) /\ S \subseteq DOMAIN packets
      BY <2>1, SlotsFacts
    <2>3. S \subseteq Int /\ \A i \in S : i < n + 1
      BY <1>3, <2>2
    <2>4. PICK c \in Nat : c = Cardinality(S)
      BY <2>2, FS_CardinalityType
    <2>5. PICK T : T = S \cup {n + 1}
      OBVIOUS
    <2>6. /\ Cardinality(T) = c + 1
          /\ \A k \in 1 .. c : Nth(T, k) = Nth(S, k)
          /\ Nth(T, c + 1) = n + 1
      <3>1. n + 1 \in Int
        OBVIOUS
      <3> QED BY <2>2, <2>3, <2>4, <2>5, <3>1, NthAppend
    <2>7. \A k \in 1 .. c : Nth(S, k) \in S
      BY <2>2, <2>3, <2>4, NthFacts
    <2>8. PICK v : v = [k \in 1 .. c |-> packets[Nth(S, k)]]
      OBVIOUS
    <2>9. PICK w : w = [k \in 1 .. c + 1 |-> more[Nth(T, k)]]
      OBVIOUS
    <2>10. /\ Traffic(packets, p.deviceId, SlotOf(p)) = v
           /\ Traffic(more, p.deviceId, SlotOf(p)) = w
      BY <1>9, <2>1, <2>4, <2>5, <2>6, <2>8, <2>9 DEF Traffic
    <2>11. v \in Seq(Packet) /\ Len(v) = c
      BY <1>3, <2>2, <2>7, <2>8
    <2>12. \A k \in 1 .. c : w[k] = v[k]
      BY <1>3, <2>2, <2>6, <2>7, <2>8, <2>9
    <2>13. w[c + 1] = p /\ DOMAIN w = 1 .. c + 1
      BY <1>3, <2>6, <2>9
    <2>14. w = Append(v, p)
      <3>1. w = [k \in 1 .. c + 1 |-> w[k]]
        BY <2>9
      <3>2. /\ Append(v, p) \in Seq(Packet) /\ Len(Append(v, p)) = c + 1
            /\ \A k \in 1 .. c : Append(v, p)[k] = v[k]
            /\ Append(v, p)[c + 1] = p
        BY <2>11
      <3>3. \A k \in 1 .. c + 1 : w[k] = Append(v, p)[k]
        BY <2>12, <2>13, <3>2
      <3>4. PICK a \in Seq(Packet) : a = Append(v, p)
        BY <3>2
      <3>5. a = [k \in 1 .. Len(a) |-> a[k]]
        OBVIOUS
      <3> QED BY <3>1, <3>2, <3>3, <3>4, <3>5
    <2> QED BY <2>10, <2>14
  <1>12. Of(more, p.deviceId) # {}
    BY <1>4
  <1> QED BY <1>2, <1>3, <1>5, <1>7, <1>8, <1>10, <1>11, <1>12

-----------------------------------------------------------------------------
(* The steps *)

(* No packet, no vector.                                                    *)
LEMMA Initially == Init => IInv
  <1> SUFFICES ASSUME Init PROVE IInv
    OBVIOUS
  <1>1. dataset = <<>> /\ pc = "group"
    BY DEF Init
  <1>2. Active(dataset) = {}
    BY <1>1 DEF Active, Of
  <1>3. GroupOK
    BY <1>2 DEF Init, GroupOK, Empty
  <1> QED BY <1>1, <1>3 DEF IInv

(* The vectors take the packet where it belongs.                            *)
LEMMA AddPacketStep ==
    ASSUME IInv, NEW packet \in Packet, AddPacket(packet)
    PROVE  IInv'
  <1>1. /\ pc = "group" /\ pc' = "group" /\ dataset' = Append(dataset, packet)
        /\ todo' = todo /\ burstDatasetContent' = burstDatasetContent
    BY DEF AddPacket
  <1>2. dataset \in Seq(Packet) /\ GroupOK
    BY <1>1 DEF IInv
  <1>3. PICK d : d = packet.deviceId
    OBVIOUS
  <1>4. PICK slot : slot = SlotOf(packet)
    OBVIOUS
  <1>5. PICK slots : slots = At(deviceTimeRawVecMap, d, Empty)
    OBVIOUS
  <1>6. PICK vec : vec = Append(At(slots, slot, Null), packet)
    OBVIOUS
  <1>7. PICK new : new = Put(slots, slot, vec)
    OBVIOUS
  <1>8. deviceTimeRawVecMap' = Put(deviceTimeRawVecMap, d, new)
    BY <1>3, <1>4, <1>5, <1>6, <1>7 DEF AddPacket
  <1>9. PICK more : more = dataset'
    OBVIOUS
  <1>10. d \in Devices
    BY <1>3 DEF Packet
  <1>11. /\ more \in Seq(Packet) /\ Of(more, d) # {}
         /\ Slots(more, d) = Slots(dataset, d) \cup {slot}
         /\ Traffic(more, d, slot) = Append(Traffic(dataset, d, slot), packet)
         /\ \A s : s # slot => Traffic(more, d, s) = Traffic(dataset, d, s)
    <2>1. more = Append(dataset, packet) /\ dataset \in Seq(Packet)
      BY <1>1, <1>2, <1>9
    <2>2. /\ Append(dataset, packet) \in Seq(Packet)
          /\ Of(Append(dataset, packet), packet.deviceId) # {}
          /\ Slots(Append(dataset, packet), packet.deviceId)
                = Slots(dataset, packet.deviceId) \cup {SlotOf(packet)}
          /\ Traffic(Append(dataset, packet), packet.deviceId, SlotOf(packet))
                = Append(Traffic(dataset, packet.deviceId, SlotOf(packet)), packet)
      BY <2>1, OneMore
    <2>3. \A s : s # SlotOf(packet) =>
             Traffic(Append(dataset, packet), packet.deviceId, s)
                = Traffic(dataset, packet.deviceId, s)
      BY <2>1, OneMore
    <2> QED BY <1>3, <1>4, <2>1, <2>2, <2>3
  <1>12. \A e \in Devices \ {d} :
            /\ Of(more, e) = Of(dataset, e)
            /\ Slots(more, e) = Slots(dataset, e)
            /\ \A s : Traffic(more, e, s) = Traffic(dataset, e, s)
    BY <1>1, <1>2, <1>3, <1>4, <1>9, OneMore
  <1>13. Active(more) = Active(dataset) \cup {d}
    BY <1>10, <1>11, <1>12 DEF Active
  <1>14. /\ DOMAIN slots = Slots(dataset, d)
         /\ \A s \in Slots(dataset, d) : slots[s] = Traffic(dataset, d, s)
    <2>1. CASE d \in Active(dataset)
      BY <1>2, <1>5, <2>1 DEF GroupOK, Vectors, At
    <2>2. CASE d \notin Active(dataset)
      <3>1. slots = Empty
        BY <1>2, <1>5, <2>2 DEF GroupOK, At
      <3>2. Slots(dataset, d) = {}
        BY <1>2, <1>10, <2>2, SlotsFacts DEF Active
      <3> QED BY <3>1, <3>2 DEF Empty
    <2> QED BY <2>1, <2>2
  <1>15. vec = Traffic(more, d, slot)
    <2>1. At(slots, slot, Null) = Traffic(dataset, d, slot)
      BY <1>2, <1>14, TrafficFacts DEF At, Null
    <2> QED BY <1>6, <1>11, <2>1
  <1>16. /\ DOMAIN new = Slots(more, d)
         /\ \A s \in Slots(more, d) : new[s] = Traffic(more, d, s)
    BY <1>7, <1>11, <1>14, <1>15 DEF Put
  <1>17. PICK map : map = deviceTimeRawVecMap'
    OBVIOUS
  <1>18. DOMAIN map = Active(more)
    BY <1>2, <1>8, <1>13, <1>17 DEF GroupOK, Put
  <1>19. ASSUME NEW e \in Active(more)
         PROVE  DOMAIN map[e] = Slots(more, e) /\ Vectors(more, map[e], e, Slots(more, e))
    <2>1. CASE e = d
      <3>1. map[e] = new
        BY <1>8, <1>17, <1>18, <2>1, <1>13 DEF Put
      <3> QED BY <1>16, <2>1, <3>1 DEF Vectors
    <2>2. CASE e # d
      <3>1. e \in Active(dataset) /\ e \in Devices \ {d}
        BY <1>13, <2>2 DEF Active
      <3>2. map[e] = deviceTimeRawVecMap[e]
        BY <1>2, <1>8, <1>17, <3>1 DEF Put, GroupOK
      <3> QED BY <1>2, <1>12, <3>1, <3>2 DEF GroupOK, Vectors
    <2> QED BY <2>1, <2>2
  <1>20. GroupOK'
    BY <1>1, <1>2, <1>9, <1>17, <1>18, <1>19 DEF GroupOK
  <1> QED BY <1>1, <1>9, <1>11, <1>20 DEF IInv

(* The visit begins at the first slot of the data set and ends at the last. *)
LEMMA SplitSlotsStep ==
    ASSUME IInv, SplitSlots
    PROVE  IInv'
  <1>1. /\ pc = "group" /\ pc' = "split" /\ dataset # <<>>
        /\ UNCHANGED <<dataset, deviceTimeRawVecMap, burstDatasetContent>>
        /\ todo' = [d \in DOMAIN deviceTimeRawVecMap |->
                        [i \in 1 .. MaxSlot + 1 - MinSlot |-> MinSlot + i - 1]]
    BY DEF SplitSlots
  <1>2. dataset \in Seq(Packet) /\ GroupOK
    BY <1>1 DEF IInv
  <1>3. TimeSlots = UNION {Slots(dataset, d) : d \in Active(dataset)}
    BY <1>2 DEF TimeSlots, GroupOK
  <1>4. PICK all : all = {SlotOf(dataset[i]) : i \in DOMAIN dataset}
    OBVIOUS
  <1>5. \A i \in DOMAIN dataset : dataset[i] \in Packet
    BY <1>2
  <1>6. TimeSlots = all
    <2>1. ASSUME NEW i \in DOMAIN dataset
          PROVE  \E d \in Active(dataset) : SlotOf(dataset[i]) \in Slots(dataset, d)
      <3>1. i \in Of(dataset, dataset[i].deviceId) /\ dataset[i].deviceId \in Devices
        BY <1>5 DEF Of, Packet
      <3> QED BY <3>1 DEF Active, Slots
    <2>2. \A d : Slots(dataset, d) \subseteq all
      BY <1>4 DEF Slots, Of
    <2> QED BY <1>3, <1>4, <2>1, <2>2
  <1>7. IsFiniteSet(all) /\ all \subseteq Int /\ all \subseteq Nat /\ all # {}
    <2>1. PICK n \in Nat : n = Len(dataset)
      BY <1>2
    <2>2. DOMAIN dataset = 1 .. n
      BY <1>2, <2>1
    <2>3. IsFiniteSet(DOMAIN dataset)
      <3>1. n \in Int /\ 1 \in Int
        OBVIOUS
      <3> QED BY <2>2, <3>1, FS_Interval
    <2>4. PICK f : f = [i \in DOMAIN dataset |-> SlotOf(dataset[i])]
      OBVIOUS
    <2>5. f \in Surjection(DOMAIN dataset, all)
      BY <1>4, <2>4 DEF Surjection
    <2>6. IsFiniteSet(all)
      BY <2>3, <2>5, FS_Surjection
    <2>7. all \subseteq Nat
      BY <1>4, <1>5, SlotOrder
    <2>8. n # 0
      BY <1>1, <1>2, <2>1
    <2>9. 1 \in DOMAIN dataset
      BY <2>2, <2>8
    <2> QED BY <1>4, <2>6, <2>7, <2>9
  <1>8. MinSlot \in all /\ \A s \in all : MinSlot <= s
    BY <1>6, <1>7, LeastAndGreatest DEF MinSlot
  <1>9. MaxSlot \in all /\ \A s \in all : s <= MaxSlot
    BY <1>6, <1>7, LeastAndGreatest DEF MaxSlot
  <1>10. PICK lo \in Nat : lo = MinSlot
    BY <1>7, <1>8
  <1>11. PICK hi \in Nat : hi = MaxSlot
    BY <1>7, <1>9
  <1>12. lo <= hi
    BY <1>8, <1>9, <1>10, <1>11
  <1>13. PICK n \in Nat : n = hi + 1 - lo
    BY <1>12
  <1>14. PICK line : line = [i \in 1 .. n |-> lo + i - 1]
    OBVIOUS
  <1>15. /\ line \in Seq(Nat) /\ DOMAIN line = 1 .. n
         /\ \A i, j \in 1 .. n : i < j => line[i] < line[j]
    BY <1>14
  <1>16. ToSet(line) = lo .. hi
    <2>1. ASSUME NEW s \in lo .. hi PROVE s \in ToSet(line)
      <3>1. s - lo + 1 \in 1 .. n /\ line[s - lo + 1] = s
        BY <1>13, <1>14
      <3> QED BY <1>15, <3>1 DEF ToSet
    <2>2. ASSUME NEW i \in 1 .. n PROVE line[i] \in lo .. hi
      BY <1>13, <1>14
    <2> QED BY <1>15, <2>1, <2>2 DEF ToSet
  <1>17. todo' = [d \in Active(dataset) |-> line]
    BY <1>1, <1>2, <1>10, <1>11, <1>13, <1>14 DEF GroupOK
  <1>18. ASSUME NEW d
         PROVE  Made(dataset, line, d) = {}
    <2>1. \A s \in all : s \in lo .. hi
      BY <1>7, <1>8, <1>9, <1>10, <1>11
    <2>2. Slots(dataset, d) \subseteq all
      BY <1>4 DEF Slots, Of
    <2> QED BY <1>16, <2>1, <2>2 DEF Made
  <1>19. ASSUME NEW d \in Active(dataset)
         PROVE  /\ Ahead(dataset, line, d)
                /\ Vectors(dataset, deviceTimeRawVecMap[d], d, ToSet(line))
                /\ BlocksAre(dataset, Blocks(d), d, {})
                /\ d \notin DOMAIN burstDatasetContent
    <2>1. Ahead(dataset, line, d)
      BY <1>15, <1>18 DEF Ahead
    <2>2. Vectors(dataset, deviceTimeRawVecMap[d], d, ToSet(line))
      BY <1>2 DEF GroupOK, Vectors
    <2>3. Blocks(d) = <<>> /\ d \notin DOMAIN burstDatasetContent
      BY <1>2 DEF GroupOK, Blocks, At, Empty
    <2>4. BlocksAre(dataset, <<>>, d, {})
      BY FS_EmptySet DEF BlocksAre
    <2> QED BY <2>1, <2>2, <2>3, <2>4
  <1>20. DOMAIN burstDatasetContent = {}
    BY <1>2 DEF GroupOK, Empty
  <1>21. \A d \in Active(dataset) : Blocks(d)' = Blocks(d) /\ todo'[d] = line
    BY <1>1, <1>17 DEF Blocks
  <1>22. SplitOK'
    BY <1>1, <1>2, <1>17, <1>18, <1>19, <1>20, <1>21 DEF SplitOK, GroupOK
  <1> QED BY <1>1, <1>2, <1>22 DEF IInv

(* No device has slots in an empty data set.                                *)
LEMMA SplitSlotsOfNothingStep ==
    ASSUME IInv, SplitSlotsOfNothing
    PROVE  IInv'
  <1>1. /\ pc = "group" /\ pc' \in {"crashed", "split"} /\ dataset = <<>>
        /\ UNCHANGED <<dataset, deviceTimeRawVecMap, todo, burstDatasetContent>>
    BY DEF SplitSlotsOfNothing
  <1>2. dataset \in Seq(Packet) /\ GroupOK
    BY <1>1 DEF IInv
  <1>3. Active(dataset) = {}
    BY <1>1 DEF Active, Of
  <1>4. SplitOK'
    BY <1>1, <1>2, <1>3 DEF GroupOK, SplitOK, Empty
  <1> QED BY <1>1, <1>2, <1>4 DEF IInv

(* When no slot is left every slot has its block.                           *)
LEMMA EndSplitSlotsStep ==
    ASSUME IInv, EndSplitSlots
    PROVE  IInv'
  <1>1. /\ pc = "split" /\ pc' = "TrainTestSplit" /\ \A d \in DOMAIN todo : todo[d] = <<>>
        /\ UNCHANGED <<dataset, burstDatasetContent>>
    BY DEF EndSplitSlots
  <1>2. dataset \in Seq(Packet) /\ SplitOK
    BY <1>1 DEF IInv
  <1>3. \A d \in Active(dataset) : Made(dataset, todo[d], d) = Slots(dataset, d)
    BY <1>1, <1>2 DEF SplitOK, Made, ToSet
  <1>4. \A d \in Active(dataset) : Slots(dataset, d) # {}
    BY <1>2, SlotsFacts DEF Active
  <1>5. MadeOK
    BY <1>2, <1>3, <1>4 DEF SplitOK, MadeOK
  <1>6. MadeOK'
    BY <1>1, <1>5 DEF MadeOK, Blocks
  <1> QED BY <1>1, <1>2, <1>6 DEF IInv

-----------------------------------------------------------------------------
(* A slot *)

(* What is left after the head of the slots to be visited.                  *)
LEMMA TailAhead ==
    ASSUME NEW packets, NEW slots, NEW d, Ahead(packets, slots, d), slots # <<>>
    PROVE  /\ Head(slots) \in Nat /\ Head(slots) \in ToSet(slots)
           /\ Head(slots) \notin ToSet(Tail(slots))
           /\ ToSet(Tail(slots)) = ToSet(slots) \ {Head(slots)}
           /\ \A s \in Made(packets, slots, d) : s < Head(slots)
           /\ Made(packets, Tail(slots), d) =
                 Made(packets, slots, d) \cup ({Head(slots)} \cap Slots(packets, d))
           /\ Ahead(packets, Tail(slots), d)
  <1>1. /\ slots \in Seq(Nat)
        /\ \A i, j \in DOMAIN slots : i < j => slots[i] < slots[j]
        /\ \A s \in Made(packets, slots, d) : \A i \in DOMAIN slots : s < slots[i]
    BY DEF Ahead
  <1>2. PICK n \in Nat : Len(slots) = n + 1
    <2>1. PICK k \in Nat : k = Len(slots)
      BY <1>1
    <2>2. k # 0
      BY <1>1, <2>1
    <2> QED BY <2>1, <2>2
  <1>3. PICK x : x = Head(slots)
    OBVIOUS
  <1>4. PICK rest : rest = Tail(slots)
    OBVIOUS
  <1>5. /\ rest \in Seq(Nat) /\ DOMAIN rest = 1 .. n
        /\ \A i \in 1 .. n : rest[i] = slots[i + 1]
        /\ x = slots[1] /\ DOMAIN slots = 1 .. n + 1 /\ x \in Nat
    BY <1>1, <1>2, <1>3, <1>4
  <1>6. \A i \in 1 .. n : x < rest[i] /\ rest[i] \in Nat /\ rest[i] \in ToSet(slots)
    <2> SUFFICES ASSUME NEW i \in 1 .. n
                 PROVE  x < rest[i] /\ rest[i] \in Nat /\ rest[i] \in ToSet(slots)
      OBVIOUS
    <2>1. 1 \in DOMAIN slots /\ i + 1 \in DOMAIN slots /\ 1 < i + 1
      BY <1>5
    <2>2. slots[1] < slots[i + 1]
      BY <1>1, <2>1
    <2>3. rest[i] = slots[i + 1] /\ rest[i] \in Nat
      BY <1>5
    <2>4. rest[i] \in ToSet(slots)
      BY <2>1, <2>3 DEF ToSet
    <2> QED BY <1>5, <2>2, <2>3, <2>4
  <1>7. x \notin ToSet(rest)
    <2>1. ~(x < x)
      BY <1>5
    <2> QED BY <1>5, <1>6, <2>1 DEF ToSet
  <1>8. ToSet(slots) = ToSet(rest) \cup {x}
    <2>1. ASSUME NEW i \in 1 .. n + 1 PROVE slots[i] \in ToSet(rest) \cup {x}
      <3>1. i = 1 \/ (i - 1 \in 1 .. n /\ rest[i - 1] = slots[i])
        BY <1>5
      <3> QED BY <1>5, <3>1 DEF ToSet
    <2>2. x \in ToSet(slots)
      <3>1. 1 \in DOMAIN slots
        BY <1>5
      <3> QED BY <1>5, <3>1 DEF ToSet
    <2>3. ToSet(rest) \subseteq ToSet(slots)
      BY <1>5, <1>6 DEF ToSet
    <2> QED BY <1>5, <2>1, <2>2, <2>3 DEF ToSet
  <1>9. \A s \in Made(packets, slots, d) : s < x
    <2>1. 1 \in DOMAIN slots
      BY <1>5
    <2> QED BY <1>1, <1>5, <2>1
  <1>10. Made(packets, rest, d) = Made(packets, slots, d) \cup ({x} \cap Slots(packets, d))
    BY <1>7, <1>8 DEF Made
  <1>11. Ahead(packets, rest, d)
    <2>1. ASSUME NEW i \in 1 .. n, NEW j \in 1 .. n, i < j PROVE rest[i] < rest[j]
      <3>1. i + 1 \in DOMAIN slots /\ j + 1 \in DOMAIN slots /\ i + 1 < j + 1
        BY <1>5, <2>1
      <3>2. slots[i + 1] < slots[j + 1]
        BY <1>1, <3>1
      <3> QED BY <1>5, <3>2
    <2>2. ASSUME NEW s \in Made(packets, rest, d), NEW i \in 1 .. n PROVE s < rest[i]
      <3>1. i + 1 \in DOMAIN slots
        BY <1>5
      <3>2. CASE s = x
        BY <1>6, <3>2
      <3>3. CASE s \in Made(packets, slots, d)
        BY <1>1, <1>5, <3>1, <3>3
      <3> QED BY <1>10, <2>2, <3>2, <3>3
    <2> QED BY <1>5, <2>1, <2>2 DEF Ahead
  <1> QED BY <1>3, <1>4, <1>5, <1>7, <1>8, <1>9, <1>10, <1>11

(* The block of the next slot comes behind those made.                      *)
LEMMA NextBlock ==
    ASSUME NEW packets \in Seq(Packet), NEW d, NEW blocks, NEW S,
           BlocksAre(packets, blocks, d, S), IsFiniteSet(S), S \subseteq Nat,
           NEW slot \in Slots(packets, d), \A s \in S : s < slot,
           NEW stamp \in FrontStamps(Traffic(packets, d, slot))
    PROVE  BlocksAre(packets, Append(blocks, Block(Traffic(packets, d, slot), stamp)), d,
                     S \cup {slot})
  <1>1. slot \in Int /\ S \subseteq Int
    BY SlotsFacts
  <1>2. PICK c \in Nat : c = Cardinality(S)
    BY FS_CardinalityType
  <1>3. PICK T : T = S \cup {slot}
    OBVIOUS
  <1>4. /\ Cardinality(T) = c + 1
        /\ \A k \in 1 .. c : Nth(T, k) = Nth(S, k)
        /\ Nth(T, c + 1) = slot
    BY <1>1, <1>2, <1>3, NthAppend
  <1>5. PICK v : v = Traffic(packets, d, slot)
    OBVIOUS
  <1>6. v \in Seq(Packet) /\ v # <<>> /\ Head(v) \in Packet
    BY <1>5, TrafficFacts
  <1>7. stamp \in Nat
    <2>1. stamp \in FrontStamps(v)
      BY <1>5
    <2>2. stamp = Head(v).tv_sec \/ stamp = 0
      BY <2>1 DEF FrontStamps, NoStamp
    <2>3. PICK x \in Seconds : x = Head(v).tv_sec
      BY <1>6 DEF Packet
    <2>4. x \in Nat
      BY SlotAssumption
    <2> QED BY <2>2, <2>3, <2>4
  <1>8. PICK b : b = Block(v, stamp)
    OBVIOUS
  <1>9. PICK B : B = [packets : Seq(Packet), stamp : Nat]
    OBVIOUS
  <1>10. b \in B /\ b.packets = v /\ b.stamp = stamp
    BY <1>6, <1>7, <1>8, <1>9 DEF Block
  <1>11. /\ blocks \in Seq(B) /\ Len(blocks) = c
         /\ \A i \in DOMAIN blocks :
              /\ blocks[i].packets = Traffic(packets, d, Nth(S, i))
              /\ blocks[i].stamp \in FrontStamps(blocks[i].packets)
    BY <1>2, <1>9 DEF BlocksAre
  <1>12. PICK new : new = Append(blocks, b)
    OBVIOUS
  <1>13. /\ new \in Seq(B) /\ Len(new) = c + 1 /\ DOMAIN new = 1 .. c + 1
         /\ DOMAIN blocks = 1 .. c
         /\ \A i \in 1 .. c : new[i] = blocks[i]
         /\ new[c + 1] = b
    BY <1>10, <1>11, <1>12
  <1>14. ASSUME NEW i \in 1 .. c + 1
         PROVE  /\ new[i].packets = Traffic(packets, d, Nth(T, i))
                /\ new[i].stamp \in FrontStamps(new[i].packets)
    <2>1. CASE i \in 1 .. c
      BY <1>4, <1>11, <1>13, <2>1
    <2>2. CASE i = c + 1
      BY <1>4, <1>5, <1>10, <1>13, <2>2
    <2> QED BY <2>1, <2>2
  <1>15. BlocksAre(packets, new, d, T)
    BY <1>4, <1>9, <1>13, <1>14 DEF BlocksAre
  <1> QED BY <1>3, <1>5, <1>8, <1>12, <1>15

(* One slot less to visit, and its block made if it had packets.            *)
LEMMA SplitSlotStep ==
    ASSUME IInv, NEW d \in Devices, SplitSlot(d)
    PROVE  IInv'
  <1>1. /\ pc = "split" /\ pc' = "split" /\ d \in DOMAIN todo /\ todo[d] # <<>>
        /\ dataset' = dataset /\ todo' = [todo EXCEPT ![d] = Tail(todo[d])]
    BY DEF SplitSlot
  <1>2. dataset \in Seq(Packet) /\ SplitOK
    BY <1>1 DEF IInv
  <1>3. PICK slot : slot = Head(todo[d])
    OBVIOUS
  <1>4. PICK slots : slots = deviceTimeRawVecMap[d]
    OBVIOUS
  <1>5. PICK pktVec : pktVec = At(slots, slot, Null)
    OBVIOUS
  <1>6. PICK rest : rest = Tail(todo[d])
    OBVIOUS
  <1>7. d \in Active(dataset) /\ DOMAIN todo = Active(dataset)
    BY <1>1, <1>2 DEF SplitOK
  <1>8. /\ slot \in ToSet(todo[d]) /\ slot \notin ToSet(rest)
        /\ ToSet(rest) = ToSet(todo[d]) \ {slot}
        /\ \A s \in Made(dataset, todo[d], d) : s < slot
        /\ Made(dataset, rest, d) =
              Made(dataset, todo[d], d) \cup ({slot} \cap Slots(dataset, d))
        /\ Ahead(dataset, rest, d)
    <2>1. Ahead(dataset, todo[d], d)
      BY <1>2, <1>7 DEF SplitOK
    <2> QED BY <1>1, <1>3, <1>6, <2>1, TailAhead
  <1>9. Vectors(dataset, slots, d, ToSet(todo[d]))
    BY <1>2, <1>4, <1>7 DEF SplitOK
  <1>10. IF slot \in Slots(dataset, d)
         THEN pktVec = Traffic(dataset, d, slot) /\ pktVec # Null
         ELSE pktVec = Null
    BY <1>2, <1>5, <1>8, <1>9, TrafficFacts DEF Vectors, At, Null
  <1>11. /\ BlocksAre(dataset, Blocks(d), d, Made(dataset, todo[d], d))
         /\ d \in DOMAIN burstDatasetContent <=> Made(dataset, todo[d], d) # {}
    BY <1>2, <1>7 DEF SplitOK
  <1>12. /\ IsFiniteSet(Made(dataset, todo[d], d)) /\ Made(dataset, todo[d], d) \subseteq Nat
    <2>1. IsFiniteSet(Slots(dataset, d)) /\ Slots(dataset, d) \subseteq Nat
      BY <1>2, SlotsFacts
    <2>2. Made(dataset, todo[d], d) \in SUBSET Slots(dataset, d)
      BY DEF Made
    <2> QED BY <2>1, <2>2, FS_Subset
  <1>13. \A e \in Active(dataset) : todo'[e] = IF e = d THEN rest ELSE todo[e]
    BY <1>1, <1>6, <1>7
  <1>14. DOMAIN todo' = Active(dataset)
    BY <1>1, <1>7
  <1>15. PICK map : map = deviceTimeRawVecMap'
    OBVIOUS
  <1>16. /\ DOMAIN map = Active(dataset)
         /\ \A e \in Active(dataset) : e # d => map[e] = deviceTimeRawVecMap[e]
         /\ Vectors(dataset, map[d], d, ToSet(rest))
    <2>1. PICK new : /\ deviceTimeRawVecMap' = Put(deviceTimeRawVecMap, d, new)
                     /\ \/ new = Put(slots, slot, Null)
                        \/ new = Drop(slots, slot)
      <3>1. CASE pktVec = Null
        BY <1>3, <1>4, <1>5, <3>1 DEF SplitSlot
      <3>2. CASE pktVec # Null
        BY <1>3, <1>4, <1>5, <3>2 DEF SplitSlot
      <3> QED BY <3>1, <3>2
    <2>2. /\ DOMAIN map = Active(dataset) /\ map[d] = new
          /\ \A e \in Active(dataset) : e # d => map[e] = deviceTimeRawVecMap[e]
      BY <1>2, <1>7, <1>15, <2>1 DEF Put, SplitOK
    <2>3. ASSUME NEW s \in ToSet(rest)
          PROVE  IF s \in Slots(dataset, d)
                 THEN s \in DOMAIN new /\ new[s] = Traffic(dataset, d, s)
                 ELSE s \notin DOMAIN new
      <3>1. s # slot /\ s \in ToSet(todo[d])
        BY <1>8, <2>3
      <3>2. /\ s \in DOMAIN new <=> s \in DOMAIN slots
            /\ s \in DOMAIN slots => new[s] = slots[s]
        BY <2>1, <3>1 DEF Put, Drop
      <3> QED BY <1>9, <3>1, <3>2 DEF Vectors
    <2> QED BY <2>2, <2>3 DEF Vectors
  <1>17. PICK content : content = burstDatasetContent'
    OBVIOUS
  <1>18. /\ DOMAIN content \subseteq Active(dataset)
         /\ \A e \in Active(dataset) : e # d =>
               /\ e \in DOMAIN content <=> e \in DOMAIN burstDatasetContent
               /\ At(content, e, <<>>) = Blocks(e)
         /\ BlocksAre(dataset, At(content, d, <<>>), d, Made(dataset, rest, d))
         /\ d \in DOMAIN content <=> Made(dataset, rest, d) # {}
    <2>1. CASE slot \notin Slots(dataset, d)
      <3>1. content = burstDatasetContent
        BY <1>3, <1>4, <1>5, <1>10, <1>17, <2>1 DEF SplitSlot
      <3>2. Made(dataset, rest, d) = Made(dataset, todo[d], d)
        BY <1>8, <2>1
      <3> QED BY <1>2, <1>11, <3>1, <3>2 DEF Blocks, SplitOK
    <2>2. CASE slot \in Slots(dataset, d)
      <3>1. PICK stamp \in FrontStamps(pktVec) :
               content = Put(burstDatasetContent, d, Append(Blocks(d), Block(pktVec, stamp)))
        BY <1>3, <1>4, <1>5, <1>10, <1>17, <2>2 DEF SplitSlot, Blocks
      <3>2. PICK blocks : blocks = Append(Blocks(d), Block(pktVec, stamp))
        OBVIOUS
      <3>3. Made(dataset, rest, d) = Made(dataset, todo[d], d) \cup {slot}
        BY <1>8, <2>2
      <3>4. BlocksAre(dataset, blocks, d, Made(dataset, rest, d))
        BY <1>2, <1>8, <1>10, <1>11, <1>12, <2>2, <3>1, <3>2, <3>3, NextBlock
      <3>5. /\ DOMAIN content = DOMAIN burstDatasetContent \cup {d}
            /\ content[d] = blocks
            /\ \A e \in DOMAIN burstDatasetContent : e # d => content[e] = burstDatasetContent[e]
        BY <3>1, <3>2 DEF Put
      <3> QED BY <1>2, <1>7, <3>3, <3>4, <3>5 DEF At, Blocks, SplitOK
    <2> QED BY <2>1, <2>2
  <1>19. ASSUME NEW e \in Active(dataset)
         PROVE  /\ Ahead(dataset, todo'[e], e)
                /\ Vectors(dataset, map[e], e, ToSet(todo'[e]))
                /\ BlocksAre(dataset, At(content, e, <<>>), e, Made(dataset, todo'[e], e))
                /\ e \in DOMAIN content <=> Made(dataset, todo'[e], e) # {}
    <2>1. CASE e = d
      BY <1>8, <1>13, <1>16, <1>18, <2>1
    <2>2. CASE e # d
      <3>1. todo'[e] = todo[e] /\ map[e] = deviceTimeRawVecMap[e]
        BY <1>13, <1>16, <2>2
      <3> QED BY <1>2, <1>18, <2>2, <3>1 DEF SplitOK
    <2> QED BY <2>1, <2>2
  <1>20. SplitOK'
    BY <1>1, <1>14, <1>15, <1>16, <1>17, <1>18, <1>19 DEF SplitOK, Blocks
  <1> QED BY <1>1, <1>2, <1>20 DEF IInv

-----------------------------------------------------------------------------
(* The split into a training and a test set *)

(* The cut is behind the first block at the earliest.                       *)
LEMMA CutBounds ==
    ASSUME NEW n \in Nat \ {0}
    PROVE  TrainNum(n) \in 1 .. n
  <1>1. PICK P \in 1 .. 100 : P = TRAIN_PERCENT
    BY SlotAssumption
  <1>2. PICK m \in Nat : m = n * P
    BY <1>1
  <1>3. n <= m /\ m <= n * 100
    <2>1. P >= 1 /\ P <= 100 /\ P \in Nat
      BY <1>1
    <2>2. n * 1 <= n * P /\ n * P <= n * 100
      BY <2>1
    <2> QED BY <1>2, <2>2
  <1>4. 1 <= m
    BY <1>3
  <1>5. (m + 99) \div 100 \in 1 .. n
    BY <1>3, <1>4
  <1> QED BY <1>1, <1>2, <1>5 DEF TrainNum

(* Blocks are in the order of their slots, so in that of their times.       *)
LEMMA BlockOrder ==
    ASSUME NEW packets \in Seq(Packet), NEW d, NEW blocks,
           BlocksAre(packets, blocks, d, Slots(packets, d)),
           NEW i \in DOMAIN blocks
    PROVE  /\ Head(blocks[i].packets) \in Packet
           /\ blocks[i].stamp \in {Head(blocks[i].packets).tv_sec, NoStamp}
           /\ \A j \in DOMAIN blocks :
                 i < j => Head(blocks[i].packets).tv_sec < Head(blocks[j].packets).tv_sec
  <1>1. PICK S : S = Slots(packets, d)
    OBVIOUS
  <1>2. IsFiniteSet(S) /\ S \subseteq Int
    BY <1>1, SlotsFacts
  <1>3. PICK n \in Nat : n = Cardinality(S)
    BY <1>2, FS_CardinalityType
  <1>4. DOMAIN blocks = 1 .. n
    BY <1>1, <1>3 DEF BlocksAre
  <1>5. ASSUME NEW j \in DOMAIN blocks
        PROVE  /\ Head(blocks[j].packets) \in Packet
               /\ SlotOf(Head(blocks[j].packets)) = Nth(S, j)
    <2>1. Nth(S, j) \in S
      BY <1>2, <1>3, <1>4, NthFacts
    <2>2. blocks[j].packets = Traffic(packets, d, Nth(S, j))
      BY <1>1 DEF BlocksAre
    <2> QED BY <1>1, <2>1, <2>2, TrafficFacts
  <1>6. ASSUME NEW j \in DOMAIN blocks, i < j
        PROVE  Head(blocks[i].packets).tv_sec < Head(blocks[j].packets).tv_sec
    <2>1. Nth(S, i) < Nth(S, j)
      BY <1>2, <1>3, <1>4, <1>6, NthFacts
    <2> QED BY <1>5, <2>1, SlotOrder
  <1>7. blocks[i].stamp \in {Head(blocks[i].packets).tv_sec, NoStamp}
    BY DEF BlocksAre, FrontStamps
  <1> QED BY <1>5, <1>6, <1>7

(* A sequence cut in two, the first part not empty.                         *)
CutAt(s, c, first, second) ==
    /\ DOMAIN first = 1 .. c /\ DOMAIN second = 1 .. Len(s) - c
    /\ \A i \in 1 .. c : first[i] = s[i]
    /\ \A i \in 1 .. Len(s) - c : second[i] = s[c + i]
    /\ first # <<>> /\ first \o second = s

LEMMA CutInTwo ==
    ASSUME NEW B, NEW s \in Seq(B), NEW n \in Nat, Len(s) = n, NEW c \in 1 .. n
    PROVE  CutAt(s, c, SubSeq(s, 1, c), SubSeq(s, c + 1, n))
  <1>a. PICK first : first = SubSeq(s, 1, c)
    OBVIOUS
  <1>b. PICK second : second = SubSeq(s, c + 1, n)
    OBVIOUS
  <1>1. c \in Nat /\ 1 <= c /\ c <= n
    OBVIOUS
  <1>2. PICK k \in Nat : k = n - c
    BY <1>1
  <1>3. first \in Seq(B) /\ Len(first) = c
    BY <1>1, <1>a
  <1>4. \A i \in 1 .. c : first[i] = s[i]
    BY <1>1, <1>a
  <1>5. second = [i \in 1 .. k |-> s[c + i]]
    <2>1. second = [i \in 1 .. 1 + n - (c + 1) |-> s[(c + 1) + i - 1]]
      BY <1>1, <1>b
    <2>2. 1 + n - (c + 1) = k /\ \A i \in 1 .. k : (c + 1) + i - 1 = c + i
      BY <1>1, <1>2
    <2> QED BY <2>1, <2>2
  <1>6. \A i \in 1 .. k : s[c + i] \in B
    BY <1>1, <1>2
  <1>7. second \in Seq(B) /\ Len(second) = k
    BY <1>5, <1>6
  <1>8. first \o second = s
    <2>1. PICK both : both = first \o second
      OBVIOUS
    <2>a. PICK f \in Seq(B) : f = first /\ Len(f) = c
      BY <1>3
    <2>b. PICK g \in Seq(B) : g = second /\ Len(g) = k
      BY <1>7
    <2>c. f \o g \in Seq(B) /\ Len(f \o g) = c + k
      BY <1>1, <2>a, <2>b
    <2>d. \A i \in 1 .. c : (f \o g)[i] = f[i]
      BY <1>1, <2>a, <2>b
    <2>e. \A i \in 1 .. k : (f \o g)[c + i] = g[i]
      <3> SUFFICES ASSUME NEW i \in 1 .. k PROVE (f \o g)[c + i] = g[i]
        OBVIOUS
      <3>1. PICK j \in Nat : j = c + i
        BY <1>1
      <3>2. j \in 1 .. c + k /\ ~(j <= c) /\ j - c = i
        BY <1>1, <3>1
      <3>3. (f \o g)[j] = g[j - c]
        BY <1>1, <2>a, <2>b, <3>2
      <3> QED BY <3>1, <3>2, <3>3
    <2>2. /\ both \in Seq(B) /\ Len(both) = c + k
          /\ \A i \in 1 .. c : both[i] = first[i]
          /\ \A i \in 1 .. k : both[c + i] = second[i]
      BY <2>1, <2>a, <2>b, <2>c, <2>d, <2>e
    <2>3. ASSUME NEW i \in 1 .. n PROVE both[i] = s[i]
      <3>1. CASE i <= c
        BY <1>1, <1>4, <2>2, <3>1
      <3>2. CASE c < i
        <4>1. PICK j \in 1 .. k : i = c + j
          <5>1. i - c \in 1 .. k /\ c + (i - c) = i
            BY <1>1, <1>2, <3>2
          <5> QED BY <5>1
        <4>2. both[c + j] = second[j]
          BY <2>2
        <4>3. second[j] = s[c + j]
          BY <1>5
        <4> QED BY <4>1, <4>2, <4>3
      <3> QED BY <1>1, <3>1, <3>2
    <2> QED BY <1>2, <2>1, <2>2, <2>3
  <1>9. first # <<>>
    BY <1>1, <1>3
  <1>10. DOMAIN first = 1 .. c
    BY <1>1, <1>3
  <1>11. DOMAIN second = 1 .. n - c /\ \A i \in 1 .. n - c : second[i] = s[c + i]
    BY <1>2, <1>5
  <1> QED BY <1>a, <1>b, <1>4, <1>8, <1>9, <1>10, <1>11 DEF CutAt

TrainPart(blocks) == SubSeq(blocks, 1, TrainNum(Len(blocks)))
TestPart(blocks) == SubSeq(blocks, TrainNum(Len(blocks)) + 1, Len(blocks))

SplitWell(blocks) ==
    /\ TrainPart(blocks) # <<>>
    /\ TrainPart(blocks) \o TestPart(blocks) = blocks
    /\ \A a \in ToSet(TrainPart(blocks)), b \in ToSet(TestPart(blocks)) :
          Head(a.packets).tv_sec > Head(b.packets).tv_sec =>
              a.stamp = NoStamp /\ b.stamp # NoStamp

(* One device: the blocks before the cut and the ones behind it.            *)
LEMMA SplitFacts ==
    ASSUME NEW packets \in Seq(Packet), NEW d, Of(packets, d) # {}, NEW blocks,
           BlocksAre(packets, blocks, d, Slots(packets, d))
    PROVE  SplitWell(StableSort(blocks))
  <1>a. PICK sorted : sorted = StableSort(blocks)
    OBVIOUS
  <1>b. PICK train : train = TrainPart(sorted)
    OBVIOUS
  <1>c. PICK test : test = TestPart(sorted)
    OBVIOUS
  <1>d. train = TrainPart(sorted) /\ test = TestPart(sorted)
    BY <1>b, <1>c
  <1>1. PICK n \in Nat : n = Cardinality(Slots(packets, d))
    BY SlotsFacts, FS_CardinalityType
  <1>2. n # 0
    BY <1>1, SlotsFacts, FS_EmptySet
  <1>3. PICK B : B = [packets : Seq(Packet), stamp : Nat]
    OBVIOUS
  <1>4. blocks \in Seq(B) /\ Len(blocks) = n /\ DOMAIN blocks = 1 .. n
    BY <1>1, <1>3 DEF BlocksAre
  <1>5. \A i \in DOMAIN blocks : blocks[i].stamp \in Nat
    <2>1. \A b \in B : b.stamp \in Nat
      BY <1>3
    <2>2. \A i \in DOMAIN blocks : blocks[i] \in B
      BY <1>4
    <2> QED BY <2>1, <2>2
  <1>6. /\ sorted \in Seq(B) /\ Len(sorted) = n
        /\ \E f \in [DOMAIN blocks -> DOMAIN blocks] :
                 /\ \A k \in DOMAIN blocks : sorted[k] = blocks[f[k]]
                 /\ \A j, k \in DOMAIN blocks :
                       j < k => \/ blocks[f[j]].stamp < blocks[f[k]].stamp
                                \/ blocks[f[j]].stamp = blocks[f[k]].stamp /\ f[j] < f[k]
    BY <1>a, <1>4, <1>5, SortFacts
  <1>7. PICK f \in [1 .. n -> 1 .. n] :
                 /\ \A k \in 1 .. n : sorted[k] = blocks[f[k]]
                 /\ \A j, k \in 1 .. n :
                       j < k => \/ blocks[f[j]].stamp < blocks[f[k]].stamp
                                \/ blocks[f[j]].stamp = blocks[f[k]].stamp /\ f[j] < f[k]
    BY <1>4, <1>6
  <1>8. PICK c \in 1 .. n : c = TrainNum(Len(sorted))
    BY <1>2, <1>6, CutBounds
  <1>9. /\ DOMAIN train = 1 .. c /\ DOMAIN test = 1 .. n - c
        /\ \A i \in 1 .. c : train[i] = sorted[i]
        /\ \A i \in 1 .. n - c : test[i] = sorted[c + i]
        /\ train # <<>> /\ train \o test = sorted
    <2>1. sorted \in Seq(B) /\ Len(sorted) = n
      BY <1>6
    <2>2. train = SubSeq(sorted, 1, c) /\ test = SubSeq(sorted, c + 1, n)
      BY <1>d, <1>8, <2>1 DEF TrainPart, TestPart
    <2>3. CutAt(sorted, c, SubSeq(sorted, 1, c), SubSeq(sorted, c + 1, n))
      BY <2>1, CutInTwo
    <2>4. CutAt(sorted, c, train, test)
      BY <2>2, <2>3
    <2> QED BY <2>1, <2>4 DEF CutAt
  <1>13. ASSUME NEW a \in ToSet(train), NEW b \in ToSet(test),
                Head(a.packets).tv_sec > Head(b.packets).tv_sec
         PROVE  a.stamp = NoStamp /\ b.stamp # NoStamp
    <2>1. PICK i \in 1 .. c : a = sorted[i]
      <3>1. \E i \in DOMAIN train : a = train[i]
        BY DEF ToSet
      <3> QED BY <1>9, <3>1
    <2>2. PICK j \in 1 .. n - c : b = sorted[c + j]
      <3>1. \E j \in DOMAIN test : b = test[j]
        BY DEF ToSet
      <3> QED BY <1>9, <3>1
    <2>3. i \in 1 .. n /\ c + j \in 1 .. n /\ i < c + j
      OBVIOUS
    <2>4. PICK x \in 1 .. n : x = f[i]
      BY <2>3
    <2>5. PICK y \in 1 .. n : y = f[c + j]
      BY <2>3
    <2>6. a = blocks[x] /\ b = blocks[y]
      BY <1>7, <2>1, <2>2, <2>3, <2>4, <2>5
    <2>7. a.stamp < b.stamp \/ (a.stamp = b.stamp /\ x < y)
      BY <1>7, <2>3, <2>4, <2>5, <2>6
    <2>8. /\ Head(a.packets) \in Packet /\ Head(b.packets) \in Packet
          /\ a.stamp \in {Head(a.packets).tv_sec, NoStamp}
          /\ b.stamp \in {Head(b.packets).tv_sec, NoStamp}
          /\ x < y => Head(a.packets).tv_sec < Head(b.packets).tv_sec
      BY <1>4, <2>6, BlockOrder
    <2>9. PICK s \in Nat : s = Head(a.packets).tv_sec
      BY <2>8, SlotAssumption DEF Packet
    <2>10. PICK t \in Nat : t = Head(b.packets).tv_sec
      BY <2>8, SlotAssumption DEF Packet
    <2>11. t < s /\ ~(s < t)
      BY <1>13, <2>9, <2>10
    <2>12. a.stamp < b.stamp
      BY <2>7, <2>8, <2>9, <2>10, <2>11
    <2>13. a.stamp \in {s, 0} /\ b.stamp \in {t, 0}
      BY <2>8, <2>9, <2>10 DEF NoStamp
    <2> QED BY <2>11, <2>12, <2>13 DEF NoStamp
  <1> QED BY <1>a, <1>d, <1>9, <1>13 DEF SplitWell

(* Each device is split on its own.                                         *)
LEMMA TrainTestSplitStep ==
    ASSUME IInv, TrainTestSplit
    PROVE  IInv'
  <1>1. /\ pc = "TrainTestSplit" /\ pc' = "done" /\ dataset' = dataset
    BY DEF TrainTestSplit
  <1>2. dataset \in Seq(Packet) /\ MadeOK
    BY <1>1 DEF IInv
  <1>3. PICK sorted : sorted = burstDatasetContent'
    OBVIOUS
  <1>4. sorted = [d \in Active(dataset) |-> StableSort(burstDatasetContent[d])]
    BY <1>2, <1>3 DEF TrainTestSplit, MadeOK
  <1>5. /\ trainset' = [d \in Active(dataset) |->
                            SubSeq(sorted[d], 1, TrainNum(Len(sorted[d])))]
        /\ testset' = [d \in Active(dataset) |->
                            SubSeq(sorted[d], TrainNum(Len(sorted[d])) + 1, Len(sorted[d]))]
    BY <1>3, <1>4 DEF TrainTestSplit
  <1>6. ASSUME NEW d \in Active(dataset)
        PROVE  /\ trainset'[d] # <<>>
               /\ trainset'[d] \o testset'[d] = sorted[d]
               /\ \A a \in ToSet(trainset'[d]), b \in ToSet(testset'[d]) :
                    Head(a.packets).tv_sec > Head(b.packets).tv_sec =>
                        a.stamp = NoStamp /\ b.stamp # NoStamp
    <2>1. PICK blocks : blocks = burstDatasetContent[d]
      OBVIOUS
    <2>2. BlocksAre(dataset, blocks, d, Slots(dataset, d))
      BY <1>2, <2>1 DEF MadeOK, Blocks, At
    <2>3. sorted[d] = StableSort(blocks)
      BY <1>4, <2>1
    <2>4. Of(dataset, d) # {}
      BY DEF Active
    <2>5. /\ trainset'[d] = TrainPart(sorted[d])
          /\ testset'[d] = TestPart(sorted[d])
      BY <1>5 DEF TrainPart, TestPart
    <2>6. SplitWell(sorted[d])
      BY <1>2, <2>2, <2>3, <2>4, SplitFacts
    <2> QED BY <2>5, <2>6 DEF SplitWell
  <1>7. DOMAIN trainset' = Active(dataset)
    BY <1>5
  <1>8. TrainsOnThePast'
    BY <1>6, <1>7 DEF TrainsOnThePast
  <1>9. EveryDeviceTrains'
    BY <1>1, <1>3, <1>6, <1>7 DEF EveryDeviceTrains, Active
  <1> QED BY <1>1, <1>2, <1>8, <1>9 DEF IInv

(* Every step keeps the invariant.                                          *)
LEMMA Inductive == IInv /\ [Next]_vars => IInv'
  <1> SUFFICES ASSUME IInv, [Next]_vars PROVE IInv'
    OBVIOUS
  <1>1. CASE \E packet \in Packet :
                 Len(dataset) < MaxPackets /\ InOrder(packet) /\ AddPacket(packet)
    BY <1>1, AddPacketStep
  <1>2. CASE SplitSlots
    BY <1>2, SplitSlotsStep
  <1>3. CASE SplitSlotsOfNothing
    BY <1>3, SplitSlotsOfNothingStep
  <1>4. CASE \E d \in Devices : SplitSlot(d)
    BY <1>4, SplitSlotStep
  <1>5. CASE EndSplitSlots
    BY <1>5, EndSplitSlotsStep
  <1>6. CASE TrainTestSplit
    BY <1>6, TrainTestSplitStep
  <1>7. CASE UNCHANGED vars
    <2>1. UNCHANGED <<dataset, deviceTimeRawVecMap, todo, burstDatasetContent, trainset, testset, pc>>
      BY <1>7 DEF vars
    <2>2. \A d \in Active(dataset) : Blocks(d)' = Blocks(d)
      BY <2>1 DEF Blocks
    <2> QED BY <2>1, <2>2 DEF IInv, GroupOK, SplitOK, MadeOK, TrainsOnThePast, EveryDeviceTrains
  <1> QED BY <1>1, <1>2, <1>3, <1>4, <1>5, <1>6, <1>7 DEF Next, Terminating

(* At every moment the vectors and the blocks made of them hold the data    *)
(* set's packets, each where its device and slot say.                       *)
THEOREM Invariance == Spec => []IInv
  BY Initially, Inductive, PTL DEF Spec

(* The blocks of a device are its traffic slot by slot, in order and        *)
(* complete.                                                                *)
THEOREM WholeSlotsCorrect == Spec => []WholeSlots
  <1>1. ASSUME IInv PROVE WholeSlots
    <2> SUFFICES ASSUME pc = "TrainTestSplit", NEW d \in Devices,
                        NEW blocks, blocks = At(burstDatasetContent, d, <<>>)
                 PROVE  [i \in DOMAIN blocks |-> blocks[i].packets]
                            = [i \in 1 .. Cardinality(Slots(dataset, d)) |->
                                  Traffic(dataset, d, Nth(Slots(dataset, d), i))]
      BY DEF WholeSlots
    <2>1. dataset \in Seq(Packet) /\ MadeOK
      BY <1>1 DEF IInv
    <2>2. BlocksAre(dataset, blocks, d, Slots(dataset, d))
      <3>1. CASE d \in Active(dataset)
        <4>1. blocks = Blocks(d)
          BY DEF Blocks
        <4> QED BY <2>1, <3>1, <4>1 DEF MadeOK
      <3>2. CASE d \notin Active(dataset)
        <4>1. blocks = <<>>
          BY <2>1, <3>2 DEF MadeOK, At
        <4>2. Slots(dataset, d) = {}
          BY <2>1, <3>2, SlotsFacts DEF Active
        <4>3. Len(<<>>) = Cardinality({}) /\ DOMAIN <<>> = {}
          BY FS_EmptySet
        <4>4. BlocksAre(dataset, <<>>, d, {})
          BY <4>3 DEF BlocksAre
        <4> QED BY <4>1, <4>2, <4>4
      <3> QED BY <3>1, <3>2
    <2>3. DOMAIN blocks = 1 .. Cardinality(Slots(dataset, d))
      BY <2>2 DEF BlocksAre
    <2>4. \A i \in DOMAIN blocks :
             blocks[i].packets = Traffic(dataset, d, Nth(Slots(dataset, d), i))
      BY <2>2 DEF BlocksAre
    <2> QED BY <2>3, <2>4
  <1> QED BY <1>1, Invariance, PTL

(* No block is tested that is earlier than one trained on, unless the       *)
(* latter never got a stamp and the former did.                             *)
THEOREM TrainsOnThePastCorrect == Spec => []TrainsOnThePast
  <1>1. IInv => TrainsOnThePast
    BY DEF IInv, TrainsOnThePast
  <1> QED BY <1>1, Invariance, PTL

(* Every device that sent has a block to train on, and no block is lost.    *)
THEOREM EveryDeviceTrainsCorrect == Spec => []EveryDeviceTrains
  <1>1. IInv => EveryDeviceTrains
    BY DEF IInv, EveryDeviceTrains
  <1> QED BY <1>1, Invariance, PTL

=============================================================================
