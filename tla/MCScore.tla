------------------------------- MODULE MCScore -------------------------------
(***************************************************************************)
(* Three series. In the first, "plug" and "vac" have their traffic at      *)
(* their second address only, so that the names' ids are untrained; then   *)
(* every name is trained, and two groups are predicted wrong. In the       *)
(* second, untrained names tie. In the third, devices have numbers, so     *)
(* that types are not names.                                               *)
(***************************************************************************)
EXTENDS Score, TLC

(* One unit for a burst whose answer is unanimous and exact.                *)
MCVote(uniPktNum, n, distance) == (uniPktNum * 2) \div (n * (distance + 1))

MCType(name) == IF name \in {"hub-1", "hub-2"} THEN "hub" ELSE name

Line(name, addr) == [name |-> name, addr |-> addr]
B(pkt, uni, distance, names) ==
    [pktNum |-> pkt, uniPktNum |-> uni, distance |-> distance, names |-> names]

Clear(name, other) == <<B(4, 3, 0, {name}), B(1, 1, 0, {other})>>
Close(name, other) == <<B(6, 1, 0, {name}), B(1, 1, 1, {other})>>
Tie(num, names) == <<B(num, 1, 0, names)>>
Mute(num, name) == <<B(num, 2, 9, {name})>>
Small == <<B(1, 1, 0, {"lamp"})>>

TwoAddresses ==
    <<Line("plug", "c"), Line("plug", "d"), Line("vac", "e"), Line("vac", "f")>>

SecondAddress ==
    [mapping |-> TwoAddresses,
     levels |-> ("d" :> <<4>>) @@ ("f" :> <<2>>),
     testset |-> ("d" :> <<Mute(4, "plug")>>) @@ ("f" :> <<Mute(2, "vac")>>),
     epochSlotNum |-> 1]

Untrained ==
    [mapping |-> TwoAddresses,
     levels |-> ("d" :> <<4>>) @@ ("f" :> <<2>>),
     testset |-> ("d" :> <<Tie(4, {"plug", "vac"}), Mute(4, "plug")>>)
                  @@ ("f" :> <<Mute(2, "vac")>>),
     epochSlotNum |-> 1]

AllTrained ==
    [mapping |-> <<Line("lamp", "a"), Line("plug", "c"), Line("vac", "e")>>,
     levels |-> ("a" :> <<3, 8>>) @@ ("c" :> <<6>>) @@ ("e" :> <<1>>),
     testset |-> ("a" :> <<Clear("plug", "lamp"), Small, Mute(8, "plug"), Close("lamp", "plug")>>)
                  @@ ("c" :> <<Clear("lamp", "plug"), Tie(4, {"plug", "vac"})>>),
     epochSlotNum |-> 2]

Numbered ==
    [mapping |-> <<Line("hub-1", "g"), Line("hub-2", "h"), Line("cam", "i")>>,
     levels |-> ("g" :> <<4>>) @@ ("h" :> <<6>>),
     testset |-> ("g" :> <<Clear("hub-2", "hub-2"), Tie(5, {"hub-1", "cam"})>>) @@ ("h" :> <<Mute(6, "hub-1")>>),
     epochSlotNum |-> 1]

MCSeries == {<<SecondAddress, AllTrained>>, <<Untrained>>, <<Numbered>>}

Symmetry == Permutations(Threads)
=============================================================================
