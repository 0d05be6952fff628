------------------------------- MODULE Combiner -------------------------------
(***************************************************************************)
(* Combiner of Combiner.h: an odometer over several arrays of parameter    *)
(* values. indices count from 0; the last array turns fastest.             *)
(***************************************************************************)
EXTENDS Integers, Sequences

Start(arrays) == [indices |-> [i \in DOMAIN arrays |-> 0], finished |-> FALSE]

(* What getNext returns.                                                    *)
Current(arrays, indices) == [i \in DOMAIN arrays |-> arrays[i][indices[i] + 1]]

Advance_NoReset(arrays, indices) ==    \* mutant: indices[i] = 0 is missing
    LET able == {i \in DOMAIN arrays : indices[i] + 1 < Len(arrays[i])}
    IN  IF able = {} THEN [indices |-> indices, finished |-> TRUE]
        ELSE LET last == CHOOSE i \in able : \A j \in able : j <= i
             IN  [indices |-> [indices EXCEPT ![last] = @ + 1], finished |-> FALSE]

(* What getNext leaves behind: from the last array on, indices at their end *)
(* go back to 0 until one can be increased. When none can the combiner is   *)
(* finished.                                                                *)
Advance(arrays, indices) ==
    LET able == {i \in DOMAIN arrays : indices[i] + 1 < Len(arrays[i])}
    IN  IF able = {} THEN [indices |-> [i \in DOMAIN arrays |-> 0], finished |-> TRUE]
        ELSE LET last == CHOOSE i \in able : \A j \in able : j <= i
             IN  [indices |-> [i \in DOMAIN arrays |->
                                  IF i < last THEN indices[i]
                                  ELSE IF i = last THEN indices[i] + 1 ELSE 0],
                  finished |-> FALSE]
=============================================================================
