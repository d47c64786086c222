------------------------------ MODULE PavlTable ------------------------------
(***************************************************************************)
(* The pavl table on its own: items inserted in any order, any of them     *)
(* more than once, two of them possibly with the same key, keys that never *)
(* change.  DFilter inserts into tables whose keys move; this module says  *)
(* what the insertion algorithm guarantees in itself.                      *)
(***************************************************************************)
EXTENDS Pavl

CONSTANT key       \* the number every item is compared by

ASSUME KeyAssumption == key \in [Node -> Int]
ASSUME FiniteAssumption == IsFiniteSet(Node)

VARIABLE tbl       \* the table

TypeOK ==
  /\ tbl.root \in Node \cup {NULL}
  /\ tbl.link \in [Node -> [{0, 1} -> Node \cup {NULL}]]
  /\ tbl.up \in [Node -> Node \cup {NULL}]
  /\ tbl.bal \in [Node -> -1 .. 1]
  /\ tbl.count \in 0 .. Cardinality(Node)

Init == tbl = EmptyTable

\* pavl_probe_node, also for an item that is in the table: insert() probes the last node
\* twice (dfilter.cpp:98-99 and 140-141).
Insert(n) == tbl' = Probe(tbl, key, n)

Next == \E n \in Node : Insert(n)

Spec == Init /\ [][Next]_tbl

-----------------------------------------------------------------------------
\* Links and stored balances agree with the real shape after every insertion
\* and rotation (pavl_extensions.cpp:87-190).
ShapeSound == LinksMirror(tbl) /\ Balanced(tbl)

\* pavl_count is the number of nodes that can be reached, and none is reached
\* twice: a rotation neither loses nor shares a subtree.
CountExact == /\ tbl.count = Len(InOrder(tbl))
              /\ Cardinality(ToSet(InOrder(tbl))) = tbl.count

\* The table is a sorted list of keys to its clients: a rotation never shows,
\* and a duplicate key changes nothing (pavl_extensions.cpp:48-190).
StoredKeys == [i \in DOMAIN InOrder(tbl) |-> key[InOrder(tbl)[i]]]
Abstract == INSTANCE SortedList WITH Keys <- {key[n] : n \in Node}, list <- StoredKeys
RefinesSortedList == Abstract!Spec
=============================================================================
