--------------------------- MODULE HierarchIndex ---------------------------
(***************************************************************************)
(* v2's index: the tree of one context.  The nodes hang in an AVL tree;    *)
(* base_index of a node is its depth-first number up to the offsets        *)
(* pending at it and at its ancestors in the AVL tree.  An insertion       *)
(* displaces the new node's successor and everything behind it by writing  *)
(* offsets along one path of the AVL tree; index() collects them later.    *)
(* Every node knows its successor, the node after its last descendant, and *)
(* every node the nodes it is the successor of.                            *)
(*                                                                         *)
(* Nodes are named by the order of their insertion.  Lists of predecessors *)
(* are sets: add_leaf puts the new node in front and keeps the others in   *)
(* order, so a list always runs from the newest node to the oldest.        *)
(***************************************************************************)
EXTENDS Pavl

CONSTANT MaxNodes   \* bound on the number of nodes

ASSUME NodeAssumption == MaxNodes \in Nat \ {0} /\ Node = 1 .. MaxNodes

VARIABLES size,     \* the number of nodes
          parent,   \* Node::parent
          ctx,      \* the context's mod, max_index and AVL tree; base_index, offset
                    \* and mod (`at`) of each node; sound: no assertion of index()
                    \* has failed
          list,     \* successor and predecessors of each node, and the context's
                    \* imaginary_predecessors
          fault     \* the assertion that aborted the program, or "none"

vars == <<size, parent, ctx, list, fault>>

Nodes == 1 .. size

-----------------------------------------------------------------------------
(* index() *)

Fresh(c, n) == c.at[n] >= c.mod

\* The out-of-date nodes from n up, as far as index() climbs in the AVL tree.
Climbed(c, n) ==
  LET climb[m \in Node \cup {NULL}] ==
        IF m = NULL THEN {} ELSE IF Fresh(c, m) THEN {} ELSE {m} \cup climb[c.avl.up[m]]
  IN  climb[n]

\* Where the climb ends: an up-to-date node, or the root.
Summit(c, n) ==
  LET end[m \in Node] ==
        IF Fresh(c, m) \/ c.avl.up[m] = NULL THEN m ELSE end[c.avl.up[m]]
  IN  end[n]

\* What index() adds to a node's base_index: the offsets pending on the climb.
Pending(c) ==
  LET due[m \in Node] ==
        IF Fresh(c, m) \/ c.avl.up[m] = NULL THEN 0 ELSE c.offset[m] + due[c.avl.up[m]]
  IN  due

\* The value index() returns for each node.
IndexValues(c) == LET due == Pending(c) IN [m \in Node |-> c.base_index[m] + due[m]]

\* A mutant: the node keeps the offset it has taken.
IndexKept(c, n) ==
  LET stale == Climbed(c, n)
      due   == Pending(c)
      now   == IF \E m \in stale : c.avl.up[m] = NULL THEN c.mod + 1 ELSE c.mod
  IN  [c EXCEPT
        !.mod = now,
        !.base_index = [m \in Node |-> IF m \in stale THEN @[m] + due[m] ELSE @[m]],
        !.offset = [m \in Node |-> IF m \notin stale /\ c.avl.up[m] \in stale
                                   THEN @[m] + due[c.avl.up[m]] ELSE @[m]],
        !.at = [m \in Node |-> IF m \in stale THEN now ELSE @[m]]]

\* The context after n.index(): every node climbed through takes its offset and
\* hands it to its children, and is up to date; an out-of-date root starts a new
\* modification.
Index(c, n) ==
  LET stale == Climbed(c, n)
      due   == Pending(c)
      now   == IF \E m \in stale : c.avl.up[m] = NULL THEN c.mod + 1 ELSE c.mod
  IN  [c EXCEPT
        !.mod = now,
        !.base_index = [m \in Node |-> IF m \in stale THEN @[m] + due[m] ELSE @[m]],
        !.offset = [m \in Node |-> IF m \in stale THEN 0
                                   ELSE IF c.avl.up[m] \in stale
                                        THEN @[m] + due[c.avl.up[m]] ELSE @[m]],
        !.at = [m \in Node |-> IF m \in stale THEN now ELSE @[m]],
        !.sound = @ /\ c.offset[Summit(c, n)] = 0]

-----------------------------------------------------------------------------
(* displace() *)

\* n and its ancestors in the AVL tree.
AvlPath(c, n) ==
  LET up[m \in Node \cup {NULL}] == IF m = NULL THEN {} ELSE {m} \cup up[c.avl.up[m]]
  IN  up[n]

\* A mutant: only the displaced node is marked up to date.
DisplaceAlone(c, n, delta) ==
  LET seen == Index(c, n)
      from == seen.base_index[n]
      path == AvlPath(c, n)
      Beside(m) == m \notin path /\ c.avl.up[m] \in path
  IN  [seen EXCEPT
        !.mod = @ + 1,
        !.base_index = [m \in Node |-> IF m \in path /\ @[m] >= from THEN @[m] + delta
                                       ELSE @[m]],
        !.offset = [m \in Node |-> IF m \in path THEN 0
                                   ELSE IF Beside(m) /\ seen.base_index[m] + @[m] > from
                                        THEN @[m] + delta ELSE @[m]],
        !.at = [@ EXCEPT ![n] = seen.mod + 1]]

\* A mutant: what is beside the path is not told to move.
DisplaceAfter(c, n, delta) ==
  LET seen == Index(c, n)
      from == seen.base_index[n]
      path == AvlPath(c, n)
  IN  [seen EXCEPT
        !.mod = @ + 1,
        !.base_index = [m \in Node |-> IF m \in path /\ @[m] >= from THEN @[m] + delta
                                       ELSE @[m]],
        !.offset = [m \in Node |-> IF m \in path THEN 0 ELSE @[m]],
        !.at = [m \in Node |-> IF m \in path THEN seen.mod + 1 ELSE @[m]]]

\* n and all that is behind it moves by delta: the path to the root at once, the
\* subtrees beside it by an offset at their roots.
Displace(c, n, delta) ==
  LET seen == Index(c, n)
      from == seen.base_index[n]
      path == AvlPath(c, n)
      Beside(m) == m \notin path /\ c.avl.up[m] \in path
  IN  [seen EXCEPT
        !.mod = @ + 1,
        !.base_index = [m \in Node |-> IF m \in path /\ @[m] >= from THEN @[m] + delta
                                       ELSE @[m]],
        !.offset = [m \in Node |-> IF m \in path THEN 0
                                   ELSE IF Beside(m) /\ seen.base_index[m] + @[m] > from
                                        THEN @[m] + delta ELSE @[m]],
        !.at = [m \in Node |-> IF m \in path THEN seen.mod + 1 ELSE @[m]]]

-----------------------------------------------------------------------------
(* add_leaf() *)

\* cmp_func(a, b): the difference of two unsigned numbers, which is never negative.
Compare(a, b) == IF a = b THEN 0 ELSE 1

\* index() is called on each node of a sequence.
IndexAlong(c, nodes) ==
  LET seen[i \in 0 .. Len(nodes)] == IF i = 0 THEN c ELSE Index(seen[i - 1], nodes[i])
  IN  seen[Len(nodes)]

\* Every comparison calls index() on the node met, then on the new node n.
Compared(path, n) ==
  [i \in 1 .. 2 * Len(path) |-> IF i % 2 = 1 THEN path[(i + 1) \div 2] ELSE n]

\* The node n, up to date, enters the AVL tree: the search goes left of every node
\* that compares as greater, and gives up at one that compares as equal.
AvlInsert(c, n) ==
  LET index == IndexValues(c)
      key   == [m \in Node |-> Compare(index[m], index[n])]
      path  == SearchPath(c.avl, key, 0)
  IN  [IndexAlong(c, Compared(path, n)) EXCEPT !.avl = Probe(c.avl, key, n)]

\* A node with the index i at the current modification.
Enter(c, n, i) ==
  AvlInsert([c EXCEPT !.base_index[n] = i, !.offset[n] = 0, !.at[n] = c.mod], n)

\* The first of a sequence of assertions that fails.
FirstFailed(asserts) ==
  LET failed == {i \in DOMAIN asserts : ~asserts[i][2]}
  IN  IF failed = {} THEN "none" ELSE asserts[Min(failed)][1]

\* The index with the new node n below p, which displaces s; and what is asserted.
Displacing(n, p, s) ==
  LET found  == Index(Index([ctx EXCEPT !.max_index = @ + 1], p), s)
      i      == found.base_index[s]
      moved  == Displace(found, s, 1)
      old    == moved.base_index[p]
      again  == Index(moved, p)
      settled == [again EXCEPT !.offset[p] = 0, !.base_index[p] = old]
  IN  [index |-> Enter(settled, n, i),
       asserts |-> <<<<"hierarch.cpp:82", s # p>>,
                     <<"index()", found.sound>>,
                     <<"hierarch.cpp:84", found.at[s] = found.mod>>,
                     <<"hierarch.cpp:85", found.offset[s] = 0>>,
                     <<"hierarch.cpp:87", moved.base_index[s] = i + 1>>,
                     <<"hierarch.cpp:88", old < i>>,
                     <<"hierarch.cpp:89", moved.offset[s] = 0>>,
                     <<"hierarch.cpp:90", moved.at[s] = moved.mod>>,
                     <<"hierarch.cpp:99", settled.at[p] = settled.mod>>>>]

\* The new node n is the first node, or the last: it displaces nothing.
First(n) ==
  LET begun == [ctx EXCEPT !.max_index = @ + 1, !.mod = @ + 1]
  IN  [index |-> Enter(begun, n, 0),
       asserts |-> <<<<"hierarch.cpp:102", begun.max_index = 1>>>>]

Appending(n, p) ==
  LET found == Index([ctx EXCEPT !.max_index = @ + 1], p)
      moved == Displace(found, p, 0)
      i     == moved.max_index - 1
  IN  [index |-> Enter(moved, n, i),
       asserts |-> <<<<"index()", moved.sound>>,
                     <<"hierarch.cpp:109", i > moved.base_index[p]>>,
                     <<"hierarch.cpp:112", moved.at[p] = moved.mod>>>>]

\* The calls of index() between the insertion of n and the loop over the predecessors.
Consulted(n, p, s) ==
  IF p = NULL THEN <<n>> ELSE IF s = NULL THEN <<n, n, p, p>> ELSE <<n, n, p, n, s, p>>

\* index() is called on each node of a set, from the newest to the oldest: the
\* context after the call on a node, and at 1 after all of them.
CallIndex(c, nodes) ==
  LET seen[y \in 1 .. MaxNodes + 1] ==
        IF y > MaxNodes THEN c
        ELSE IF y \in nodes THEN Index(seen[y + 1], y) ELSE seen[y + 1]
  IN  seen

\* A mutant: any earlier node counts.
BetweenAll(seen, nodes, low, n) ==
  {y \in nodes : seen[y].base_index[y] < seen[y].base_index[n]}

\* The nodes whose index is between that of the parent and that of the new node n.
Between(seen, nodes, low, n) ==
  {y \in nodes : /\ seen[y].base_index[y] > low
                 /\ seen[y].base_index[y] < seen[y].base_index[n]}

\* A mutant: the list of s keeps the nodes that have moved to n.
RelinkedKept(n, s, under) ==
  LET stay(nodes) == {n} \cup nodes
  IN  [successor |-> [m \in Node |-> IF m = n THEN s ELSE IF m \in under THEN n
                                     ELSE list.successor[m]],
       predecessors |-> [m \in Node |-> IF m = n THEN under
                                        ELSE IF m = s THEN stay(list.predecessors[m])
                                        ELSE list.predecessors[m]],
       imaginary |-> IF s = NULL THEN stay(list.imaginary) ELSE list.imaginary]

\* The successors and predecessors when n is put in front of s, or last, and is
\* the new successor of the nodes `under`.
Relinked(n, s, under) ==
  LET stay(nodes) == {n} \cup (nodes \ under)
  IN  [successor |-> [m \in Node |-> IF m = n THEN s ELSE IF m \in under THEN n
                                     ELSE list.successor[m]],
       predecessors |-> [m \in Node |-> IF m = n THEN under
                                        ELSE IF m = s THEN stay(list.predecessors[m])
                                        ELSE list.predecessors[m]],
       imaginary |-> IF s = NULL THEN stay(list.imaginary) ELSE list.imaginary]

Waiting(s) == IF s = NULL THEN list.imaginary ELSE list.predecessors[s]

Abort(line) == fault' = line /\ UNCHANGED <<size, parent, ctx, list>>

\* add_leaf() with the node p selected, or none.
AddLeaf(p) ==
  LET n == size + 1
      s == IF p = NULL THEN NULL ELSE list.successor[p]
  IN  /\ fault = "none"
      /\ size < MaxNodes
      /\ \E entry \in {IF p = NULL THEN First(n) ELSE IF s = NULL THEN Appending(n, p)
                       ELSE Displacing(n, p, s)} :
         \E index \in {IndexValues(entry.index)} :
         \E low \in {IF p = NULL THEN 0 ELSE index[p]} :
         \E done \in {CallIndex(IndexAlong(entry.index, Consulted(n, p, s)), Waiting(s))} :
           LET failed == FirstFailed(entry.asserts \o
                           <<<<"hierarch.cpp:120", Index(entry.index, n).offset[n] = 0>>,
                             <<"hierarch.cpp:121", p # NULL => index[n] > low>>,
                             <<"hierarch.cpp:122", s # NULL => index[n] < index[s]>>,
                             <<"index()", done[1].sound>>>>)
           IN  IF failed # "none" THEN Abort(failed)
               ELSE /\ size' = n
                    /\ parent' = [parent EXCEPT ![n] = p]
                    /\ ctx' = done[1]
                    /\ list' = Relinked(n, s, Between(done, Waiting(s), low, n))
                    /\ UNCHANGED fault

\* A client calls index() on n.
Read(n) ==
  /\ fault = "none"
  /\ IF Index(ctx, n).sound
     THEN ctx' = Index(ctx, n) /\ UNCHANGED <<size, parent, list, fault>>
     ELSE Abort("index()")

\* successor_index(): the index of n's successor, or the end of the tree.
SuccessorIndex(n) ==
  IF list.successor[n] = NULL THEN ctx.max_index ELSE IndexValues(ctx)[list.successor[n]]

Init ==
  /\ size = 0
  /\ parent = [n \in Node |-> NULL]
  /\ ctx = [mod |-> 0, max_index |-> 0, avl |-> EmptyTable, sound |-> TRUE,
            base_index |-> [n \in Node |-> 0], offset |-> [n \in Node |-> 0],
            at |-> [n \in Node |-> 0]]
  /\ list = [successor |-> [n \in Node |-> NULL],
             predecessors |-> [n \in Node |-> {}], imaginary |-> {}]
  /\ fault = "none"

Next ==
  \/ \E p \in Nodes \cup {NULL} : AddLeaf(p)
  \/ \E n \in Nodes : Read(n)

Spec == Init /\ [][Next]_vars

\* A node's successor lists it as a predecessor, and the other way round; the nodes
\* at the end of the tree are the imaginary predecessors.  add_leaf takes its
\* decisions from these lists and rewrites three of them (hierarch.cpp:124-149).
SuccessorsMirror ==
  /\ \A m, n \in Nodes : list.successor[m] = n <=> m \in list.predecessors[n]
  /\ \A n \in Nodes : list.successor[n] = NULL <=> n \in list.imaginary

\* An up-to-date node has no offsets all the way up the AVL tree to its root
\* (node.h:29), though rotations change who is above whom: index() may answer with
\* base_index at once.
UpToDateClean ==
  \A n \in Nodes : Fresh(ctx, n) => \A m \in AvlPath(ctx, n) : ctx.offset[m] = 0

\* Every insertion is one modification (tests.cpp:85-128), and a read is none: the
\* AVL root, which would start one, is never out of date when index() gets there.
\* (A node with the index of another one is left out of the AVL tree, as a root of
\* its own.)
OneModPerLeaf == ctx.avl.count = size => ctx.mod = size

\* An insertion moves every index by one or not at all; a read, which hands the offsets
\* down, and an aborted insertion move none.
Shifted == \A n \in Nodes : IndexValues(ctx)'[n] - IndexValues(ctx)[n] \in {0, size' - size}
IndexesShift == [][Shifted]_vars
=============================================================================
