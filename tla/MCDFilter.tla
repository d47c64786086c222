------------------------------ MODULE MCDFilter ------------------------------
(***************************************************************************)
(* Instances of DFilter for TLC, and the properties they are checked for.  *)
(***************************************************************************)
EXTENDS DFilter

\* The trees of k nodes in depth-first order: the parent of a new last node is the
\* node before it or one of that node's ancestors.
OneNode == [parent   |-> [n \in Node |-> NULL],
            above    |-> [n \in Node |-> {}],
            children |-> [n \in Node |-> <<>>]]

Extended(t, k, p) ==
  [parent   |-> [t.parent EXCEPT ![k] = p],
   above    |-> [t.above EXCEPT ![k] = t.above[p] \cup {p}],
   children |-> [t.children EXCEPT ![p] = Append(@, k)]]

TreesOfSize ==
  LET trees[k \in 1 .. MaxNodes] ==
        IF k = 1 THEN {OneNode}
        ELSE UNION {{Extended(t, k, p) : p \in t.above[k - 1] \cup {k - 1}} :
                      t \in trees[k - 1]}
  IN  trees

MCTreesUpTo(max) == UNION {{[tree |-> t, size |-> k] : t \in TreesOfSize[k]} : k \in 1 .. max}
MCAllTrees == MCTreesUpTo(MaxNodes)
MCRoot == MCTreesUpTo(1)
MCSmallestAndFull ==
  MCRoot \cup {[tree |-> t, size |-> MaxNodes] : t \in TreesOfSize[MaxNodes]}
MCTwoLeft == UNION {{[tree |-> t, size |-> k] : t \in TreesOfSize[k]} :
                      k \in MaxNodes - 2 .. MaxNodes - 1}
MCAlmostFull == {[tree |-> t, size |-> MaxNodes - 1] : t \in TreesOfSize[MaxNodes - 1]}

\* The types may be exchanged.
MCSymmetry == Permutations(Types)

\* A filter that is only queried, as in test.cpp:269-319 and 468-486.
StaticNext ==
  \/ \E n \in Nodes, k \in Types : Query(n, k)
  \/ \E n \in Nodes : Read({n}) \/ ReadType(n) \/ Successor(n)
  \/ \E k \in 0 .. size : LookUp(k)

\* The loop of test_insertion_stability (test.cpp:331-366): an insertion, then dfi()
\* of every node of the tree.
LoopNext ==
  \/ \E p \in Nodes, pos \in 0 .. MaxNodes, k \in Types : Insert(p, pos, k)
  \/ Read(Nodes)
LoopSpec == Init /\ [][LoopNext]_vars

\* A filter that is queried, and then the loop.
TestSpec == Init /\ [][(Generated /\ StaticNext) \/ LoopNext]_vars

\* Insertions between which single nodes are read, in any order.
ReaderNext ==
  \/ \E p \in Nodes, pos \in 0 .. MaxNodes, k \in Types : Insert(p, pos, k)
  \/ \E n \in Nodes : Read({n}) \/ Successor(n)
ReaderSpec == Init /\ [][ReaderNext]_vars

=============================================================================
