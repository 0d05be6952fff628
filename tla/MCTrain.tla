------------------------------- MODULE MCTrain -------------------------------
(***************************************************************************)
(* Two devices over four experiments. Device 0 has two pairs of unlike     *)
(* bursts of equal hash: counts that differ by HASH_SHIFTS, and no         *)
(* signature in common (66 << 1 xor 60 << 2 = 116 = 70 << 1 xor 62 << 2);  *)
(* repeats, similar bursts of several lengths, and a group of more than    *)
(* UINT8 signatures. Device 2 has an id beyond the two devices of its      *)
(* experiments; one experiment is empty.                                   *)
(***************************************************************************)
EXTENDS Train

MCSig == {-66, 60, 62, 66, 70}

B(label, sigs) ==
    [FoldLeft(AddSig, NewBurst(label), sigs) EXCEPT
        !.packetDetail = SortSeq(@, LAMBDA c, d : c.sig < d.sig)]

(* Equal signatures: the closer the lengths, the more similar.              *)
MCDistance(a, b) ==
    LET apart == IF a.pktNum > b.pktNum THEN a.pktNum - b.pktNum ELSE b.pktNum - a.pktNum
    IN  IF Signatures(a) # Signatures(b) THEN "far"
        ELSE IF apart = 1 THEN "ultra"
        ELSE IF apart <= 2 THEN "near" ELSE "far"

Lamp(sigs) == B("lamp", sigs)
Plug(sigs) == B("plug", sigs)

MCExperiments == <<
    (0 :> << <<Lamp(<<60, 62, 62, 62, 62>>), Lamp(<<-66>>), Lamp(<<60, 60, 60, 60, 62>>)>>,
             <<Lamp(<<60, 62, 62>>), Lamp(<<66, 60, 60>>), Lamp(<<-66>>), Lamp(<<70, 62, 62>>)>> >>
     @@ 1 :> << <<Plug(<<60>>), Plug(<<60, 60>>)>> >>),
    (0 :> << <<Lamp(<<60, 60>>), Lamp(<<60, 60, 60>>), Lamp(<<60, 60, 60, 60>>),
               Lamp(<<60, 60, 60, 60, 60>>)>> >>
     @@ 2 :> << <<B("hub", <<66>>)>>, <<B("hub", <<66, 66>>), B("hub", <<70>>)>> >>),
    EmptyMap,
    (0 :> << <<Lamp(<<60>>), Lamp(<<62>>), Lamp(<<66>>)>>, <<Lamp(<<70>>), Lamp(<<60, 62>>)>> >>) >>

(* The collision is one of the code's hash.                                 *)
ASSUME CollisionAssumption ==
    Hash(Lamp(<<66, 60, 60>>)) = Hash(Lamp(<<70, 62, 62>>))
=============================================================================
