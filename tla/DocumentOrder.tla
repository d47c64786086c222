--------------------------- MODULE DocumentOrder ---------------------------
(***************************************************************************)
(* What the depth-first index promises about the nodes of a tree that only *)
(* grows: they stand in one list, the root first, and a new node enters it *)
(* at one place without reordering the nodes already there.                *)
(***************************************************************************)
EXTENDS Integers, Sequences, SequencesExt

VARIABLE order

Init == Len(order) > 0 /\ order = [i \in 1 .. Len(order) |-> i]

Grow == \E i \in 2 .. Len(order) + 1 : order' = InsertAt(order, i, Len(order) + 1)

Spec == Init /\ [][Grow]_order
=============================================================================
