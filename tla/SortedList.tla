----------------------------- MODULE SortedList -----------------------------
(***************************************************************************)
(* What a search table promises whoever inserts into it: the stored keys   *)
(* are a strictly increasing list, and an insertion adds its key at the    *)
(* place that keeps the list increasing, or nothing when it is there.      *)
(***************************************************************************)
EXTENDS Integers, Sequences, SequencesExt

CONSTANT Keys
VARIABLE list

Place(k) == CHOOSE i \in 1 .. Len(list) + 1 :
              /\ \A j \in 1 .. i - 1 : list[j] < k
              /\ \A j \in i .. Len(list) : list[j] > k

Add(k) == /\ k \notin ToSet(list)
          /\ list' = InsertAt(list, Place(k), k)

Init == list = <<>>
Next == \E k \in Keys : Add(k)
Spec == Init /\ [][Next]_list
=============================================================================
