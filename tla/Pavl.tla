-------------------------------- MODULE Pavl --------------------------------
(***************************************************************************)
(* The balanced search table DFilter keeps its nodes in: an AVL tree with  *)
(* parent pointers (libavl's "pavl").  DFilter calls the library's         *)
(* pavl_probe_node; translated here is the repository's own copy of it,    *)
(* pavl_probe_node_ex, which nothing calls.  Every operator is a pure      *)
(* function of a table, a record                                           *)
(*     root   pavl_root, a node or NULL                                    *)
(*     link   pavl_link of each node: 0 is the left child, 1 the right one *)
(*     up     pavl_parent of each node                                     *)
(*     bal    pavl_balance of each node                                    *)
(*     count  pavl_count                                                   *)
(* A pavl_node is named by the item it carries.  The items are compared by *)
(* the number key[item], which the caller supplies: in DFilter it is the   *)
(* value item->dfi() returns at the time of the call.                      *)
(***************************************************************************)
EXTENDS Integers, Sequences, FiniteSets, SequencesExt

CONSTANTS Node,   \* the items a table can hold
          NULL    \* the null pointer

ASSUME NullAssumption == NULL \notin Node

\* pavl_create: a table with no nodes.
EmptyTable ==
  [root  |-> NULL,
   link  |-> [n \in Node |-> [side \in {0, 1} |-> NULL]],
   up    |-> [n \in Node |-> NULL],
   bal   |-> [n \in Node |-> 0],
   count |-> 0]

\* The nodes met by a search for the number k, in the order they are met: down
\* from the root, left when k is smaller, until a node of key k or a leaf.
SearchPath(t, key, k) ==
  LET down[n \in Node \cup {NULL}] ==
        IF n = NULL THEN <<>>
        ELSE IF key[n] = k THEN <<n>>
        ELSE <<n>> \o down[t.link[n][IF k > key[n] THEN 1 ELSE 0]]
  IN  down[t.root]

\* The nodes of a table in symmetric order.
InOrder(t) ==
  LET walk[n \in Node \cup {NULL}] ==
        IF n = NULL THEN <<>>
        ELSE walk[t.link[n][0]] \o <<n>> \o walk[t.link[n][1]]
  IN  walk[t.root]

\* The side of its parent q that n hangs on.
SideOf(t, q, n) == IF t.link[q][0] = n THEN 0 ELSE 1

\* A mutant: the count is forgotten.
LinkLeafUncounted(t, q, side, n) ==
  [t EXCEPT !.link[q][side] = n, !.up[n] = q, !.bal[n] = 0]

\* The item n becomes a leaf below q, the last node of its search path.
LinkLeaf(t, q, side, n) ==
  [t EXCEPT !.link[q][side] = n, !.up[n] = q, !.bal[n] = 0, !.count = @ + 1]

\* Along the nodes of `path` from y down, the balance moves by one towards the
\* side the new leaf n is on.
AdjustBalance(t, path, y, n) ==
  LET first == CHOOSE i \in DOMAIN path : path[i] = y
      below == Append(path, n)
      Grown(i) == IF SideOf(t, path[i], below[i + 1]) = 0 THEN -1 ELSE 1
  IN  [t EXCEPT !.bal = [m \in Node |->
         IF \E i \in first .. Len(path) : path[i] = m
         THEN @[m] + Grown(CHOOSE i \in first .. Len(path) : path[i] = m)
         ELSE @[m]]]

\* A mutant: the parent pointer is left as it was.
AdoptNever(t, n, side) == t

\* The parent pointer of the node that now hangs at n's `side`, if any.
Adopt(t, n, side) ==
  IF t.link[n][side] = NULL THEN t ELSE [t EXCEPT !.up[t.link[n][side]] = n]

\* A mutant: the rotated subtree is always hung on the left.
ReattachLeft(t, above, y, w) ==
  IF above = NULL THEN [t EXCEPT !.root = w] ELSE [t EXCEPT !.link[above][0] = w]

\* The old parent of y (or the root) is pointed at w, the rotated subtree's root.
Reattach(t, above, y, w) ==
  IF above = NULL THEN [t EXCEPT !.root = w]
  ELSE [t EXCEPT !.link[above][SideOf(t, above, y)] = w]

\* Rotation of y with its heavy child x, both heavy on `side`.
SingleRotation(t, y, side) ==
  LET x == t.link[y][side]
      r == [t EXCEPT !.link[y][side] = t.link[x][1 - side],
                     !.link[x][1 - side] = y,
                     !.bal[x] = 0, !.bal[y] = 0,
                     !.up[x] = t.up[y], !.up[y] = x]
  IN  Reattach(Adopt(r, y, side), t.up[y], y, x)

\* Rotation of y, its child x on `side` and x's inner child w, when x is heavy
\* on the other side.
DoubleRotation(t, y, side) ==
  LET x     == t.link[y][side]
      w     == t.link[x][1 - side]
      heavy == IF side = 0 THEN -1 ELSE 1
      r == [t EXCEPT !.link[x][1 - side] = t.link[w][side],
                     !.link[w][side] = x,
                     !.link[y][side] = t.link[w][1 - side],
                     !.link[w][1 - side] = y,
                     !.bal[x] = IF t.bal[w] = -heavy THEN heavy ELSE 0,
                     !.bal[y] = IF t.bal[w] = heavy THEN -heavy ELSE 0,
                     !.bal[w] = 0,
                     !.up[w] = t.up[y], !.up[x] = w, !.up[y] = w]
  IN  Reattach(Adopt(Adopt(r, x, 1 - side), y, side), t.up[y], y, w)

\* A mutant: no rotation.
RebalanceNever(t, y) == t

\* y is the only node whose balance can have reached -2 or +2.
Rebalance(t, y) ==
  IF t.bal[y] \notin {-2, 2} THEN t
  ELSE LET side  == IF t.bal[y] = -2 THEN 0 ELSE 1
           heavy == IF side = 0 THEN -1 ELSE 1
       IN  IF t.bal[t.link[y][side]] = heavy
           THEN SingleRotation(t, y, side)
           ELSE DoubleRotation(t, y, side)

\* pavl_probe_node: inserts the item n unless an item of the same key is found.
\* y is the last node of the search path that was not in balance, or the root.
Probe(t, key, n) ==
  LET path == SearchPath(t, key, key[n])
      q    == path[Len(path)]
      tilted == {i \in DOMAIN path : t.bal[path[i]] # 0}
      y    == IF tilted = {} THEN t.root ELSE path[Max(tilted)]
      side == IF key[n] > key[q] THEN 1 ELSE 0
  IN  IF t.root = NULL
      THEN [t EXCEPT !.root = n, !.up[n] = NULL, !.bal[n] = 0, !.count = @ + 1]
      ELSE IF key[q] = key[n] THEN t
      ELSE Rebalance(AdjustBalance(LinkLeaf(t, q, side, n), path, y, n), y)

-----------------------------------------------------------------------------
(* What a well-formed table is. *)

\* The height of every subtree.
Height(t) ==
  LET h[n \in Node \cup {NULL}] ==
        IF n = NULL THEN 0 ELSE 1 + Max({h[t.link[n][0]], h[t.link[n][1]]})
  IN  h

\* Parent pointers mirror the child links.
LinksMirror(t) ==
  /\ t.root # NULL => t.up[t.root] = NULL
  /\ \A n \in ToSet(InOrder(t)) : \A side \in {0, 1} :
        t.link[n][side] # NULL => t.up[t.link[n][side]] = n

\* Every stored balance is the real height difference, and it is -1, 0 or 1.
Balanced(t) ==
  LET h == Height(t)
  IN  \A n \in ToSet(InOrder(t)) :
        /\ t.bal[n] = h[t.link[n][1]] - h[t.link[n][0]]
        /\ t.bal[n] \in -1 .. 1
=============================================================================
