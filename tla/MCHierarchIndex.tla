-------------------------- MODULE MCHierarchIndex --------------------------
(***************************************************************************)
(* Instances of HierarchIndex for TLC, and the properties they are checked *)
(* for.                                                                    *)
(***************************************************************************)
EXTENDS HierarchIndex

\* The children of a node, oldest first: add_leaf appends.
Children(p) == SelectSeq([i \in Node |-> i], LAMBDA m : m \in Nodes /\ parent[m] = p)

DepthFirst ==
  LET walk[n \in Node] ==
        <<n>> \o FlattenSeq([i \in DOMAIN Children(n) |-> walk[Children(n)[i]]])
  IN  IF size = 0 THEN <<>> ELSE walk[1]

Place(n) == (CHOOSE i \in DOMAIN DepthFirst : DepthFirst[i] = n) - 1

Ancestors(n) ==
  LET up[m \in Node \cup {NULL}] == IF m = NULL THEN {} ELSE {m} \cup up[parent[m]]
  IN  up[parent[n]]

\* The number of nodes up to which the index is exact.
Exact == 6

\* Any insertions, and reads between them as long as the tree is small.
SmallReadsNext ==
  \/ \E p \in Nodes \cup {NULL} : AddLeaf(p)
  \/ size < MaxNodes /\ \E n \in Nodes : Read(n)
SmallReadsSpec == Init /\ [][SmallReadsNext]_vars

-----------------------------------------------------------------------------

\* index() of every node is its place in a depth-first walk of the tree, whatever
\* was read between the insertions, for trees of up to Exact nodes (node.cpp:63).
IndexExact == size <= Exact => \A n \in Nodes : IndexValues(ctx)[n] = Place(n)

\* successor_index() is the index that follows a node's last descendant: the
\* successors add_leaf keeps up to date, by comparing indexes, are the right ones.
SuccessorExact ==
  size <= Exact =>
    \A n \in Nodes :
      SuccessorIndex(n) = Place(n) + 1 + Cardinality({m \in Nodes : n \in Ancestors(m)})

\* Whatever add_leaf asserts up to the insertion after the last exact one holds,
\* except when it is called without a selected node on a tree that has nodes
\* (hierarch.cpp:102).
AssertionsHold == size <= Exact => fault \in {"none", "hierarch.cpp:102"}

\* The parent of a new node comes before it (assertion at hierarch.cpp:88).
ParentBeforeChild == fault # "hierarch.cpp:88"
=============================================================================
