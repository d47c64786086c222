------------------------------ MODULE DfiIndex ------------------------------
(***************************************************************************)
(* The depth-first index of v1's DFilter, in its SIMPLE variant: every     *)
(* node carries base_index, its number in a depth-first walk, valid as of  *)
(* the modification base_mod.  An insertion renumbers only the path from   *)
(* the displaced node to the root and that path's children; any other node *)
(* catches up when dfi() is called on it, by adding to its own index what  *)
(* its parent's index has moved by since the node last looked              *)
(* (cached_parent_dfi).                                                    *)
(*                                                                         *)
(* Nodes are named by the order they are created in: 1 .. k is the initial *)
(* tree in depth-first order, k + 1 the first node inserted, and so on.    *)
(***************************************************************************)
EXTENDS Pavl

CONSTANTS MaxNodes,   \* bound on the number of nodes
          InitTrees   \* the trees a DFilter is built over: see WellFormed

ASSUME NodeAssumption == MaxNodes \in Nat \ {0} /\ Node = 1 .. MaxNodes

VARIABLES tree,   \* the TNodes: parent, children, and above, each node's ancestors
          size,   \* DFilter::size, the number of nodes
          idx,    \* base_index, base_mod, cached_parent_dfi; latest_mod
          suc,    \* cached_successor and cached_successor_dfi of each node
          tbl,    \* DFilter::tbl, the table of all nodes in index order
          fault   \* line of the assertion that aborted the program, or 0

dfiVars == <<tree, size, idx, suc, tbl, fault>>

Nodes == 1 .. size

\* The ancestors of every node are determined by the parent pointers, which are
\* never changed once set: `above` is an auxiliary variable.  Ancestors are created
\* before their descendants.  The last two conjuncts say that ancestry is a tree order.
Ancestry(t, k) ==
  /\ \A n \in 1 .. k :
       /\ t.above[n] \subseteq 1 .. n - 1
       /\ t.parent[n] = NULL => t.above[n] = {}
       /\ t.parent[n] # NULL => /\ t.parent[n] \in 1 .. k
                                /\ t.above[n] = t.above[t.parent[n]] \cup {t.parent[n]}
  /\ \A n \in Node \ 1 .. k : t.parent[n] = NULL /\ t.above[n] = {}
  /\ \A n \in 1 .. k : \A y \in t.above[n] : t.above[y] \subseteq t.above[n]
  /\ \A n \in 1 .. k : \A y, z \in t.above[n] :
        y = z \/ y \in t.above[z] \/ z \in t.above[y]

\* Each node but the root is listed once, among its parent's children.
ChildLists(t, k) ==
  /\ \A p \in 1 .. k : t.children[p] \in Seq(1 .. k)
  /\ \A p \in 1 .. k : \A i \in 1 .. Len(t.children[p]) :
        /\ t.parent[t.children[p][i]] = p
        /\ \A j \in 1 .. i - 1 : t.children[p][j] # t.children[p][i]
  /\ \A n \in 1 .. k : t.parent[n] # NULL =>
        \E i \in 1 .. Len(t.children[t.parent[n]]) : t.children[t.parent[n]][i] = n
  /\ \A p \in Node \ 1 .. k : t.children[p] = <<>>

TreeShape(t) ==
  /\ t.parent \in [Node -> Node \cup {NULL}]
  /\ t.above \in [Node -> SUBSET Node]
  /\ t.children \in [Node -> Seq(Node)]

\* A tree of k nodes numbered 1 .. k in depth-first order, as the walk of
\* generate_index numbers them.
Numbered(t, k) ==
  /\ t.parent[1] = NULL
  /\ \A n \in 2 .. k : 1 \in t.above[n]
  /\ \A n \in 1 .. k : \A y \in t.above[n] : \A m \in y + 1 .. n : y \in t.above[m]
  /\ \A p \in 1 .. k : \A i, j \in 1 .. Len(t.children[p]) :
        i < j => t.children[p][i] < t.children[p][j]

WellFormed(t, k) ==
  TreeShape(t) /\ Ancestry(t, k) /\ ChildLists(t, k) /\ Numbered(t, k)

ASSUME InitTreesAssumption ==
  \A init \in InitTrees : /\ init.size \in 1 .. MaxNodes
                          /\ WellFormed(init.tree, init.size)

-----------------------------------------------------------------------------
(* dfi() *)

\* The value dfi() returns for each node at modification b.latest_mod.
DfiValues(t, b) ==
  LET val[n \in Node] ==
        IF t.parent[n] = NULL \/ b.base_mod[n] >= b.latest_mod
        THEN b.base_index[n]
        ELSE b.base_index[n] + val[t.parent[n]] - b.cached_parent_dfi[n]
  IN  val

\* A mutant: dfi() does not call itself on the parent.
TouchedAlone(t, b, S) == S \cap Node

\* The nodes on which dfi() runs when it is called on each node of S: the calls
\* climb from a node through out-of-date nodes to the first up-to-date one.
Touched(t, b, S) ==
  {y \in Node : \E n \in S \cap Node :
     /\ y = n \/ y \in t.above[n]
     /\ \A z \in t.above[n] \cup {n} :
          y \in t.above[z] => b.base_mod[z] < b.latest_mod}

\* A mutant: cached_parent_dfi is overwritten before the difference is taken.
RefreshSwapped(t, b, S) ==
  LET val == DfiValues(t, b)
      T   == Touched(t, b, S)
  IN  [b EXCEPT
        !.base_mod = [y \in Node |-> IF y \in T THEN b.latest_mod ELSE @[y]],
        !.cached_parent_dfi = [y \in Node |-> IF y \in T /\ t.parent[y] # NULL
                                              THEN val[t.parent[y]] ELSE @[y]]]

\* The index after calling dfi() on every node of S, in any order.
Refresh(t, b, S) ==
  LET val == DfiValues(t, b)
      T   == Touched(t, b, S)
  IN  [base_index |-> [y \in Node |-> IF y \in T THEN val[y] ELSE b.base_index[y]],
       base_mod |-> [y \in Node |-> IF y \in T THEN b.latest_mod ELSE b.base_mod[y]],
       cached_parent_dfi |->
         [y \in Node |-> IF y \in T /\ t.parent[y] # NULL THEN val[t.parent[y]]
                         ELSE b.cached_parent_dfi[y]],
       latest_mod |-> b.latest_mod]

-----------------------------------------------------------------------------
(* Successors: the first node after a node's descendants. *)

Position(t, y) ==
  CHOOSE i \in DOMAIN t.children[t.parent[y]] : t.children[t.parent[y]][i] = y

HasRightSibling(t, y) ==
  /\ t.parent[y] # NULL
  /\ Position(t, y) < Len(t.children[t.parent[y]])

RightSibling(t, y) == t.children[t.parent[y]][Position(t, y) + 1]

\* A mutant: the search does not stop at the first node it finds.
Topmost(t, S) == CHOOSE y \in S : \A z \in S : z = y \/ y \in t.above[z]

\* The member of a set of nodes on one path that is furthest from the root.
Deepest(t, S) == CHOOSE y \in S : \A z \in S : z = y \/ z \in t.above[y]

\* get_successor_manual: the nearest right sibling of n or of an ancestor of n
\* whose index is greater than n's, and the siblings examined on the way.
SuccessorSearch(t, val, n) ==
  LET level == {y \in t.above[n] \cup {n} : HasRightSibling(t, y)}
      good  == {y \in level : val[RightSibling(t, y)] > val[n]}
      stop  == Deepest(t, good)
  IN  IF good = {}
      THEN [node |-> NULL, examined |-> {RightSibling(t, y) : y \in level}]
      ELSE [node |-> RightSibling(t, stop),
            examined |-> {RightSibling(t, y) :
                            y \in {z \in level : z = stop \/ stop \in t.above[z]}}]

\* postorder_successor_dfi(): the node's cache, and the nodes whose dfi() ran.
PostorderSuccessor(t, b, s, k, n) ==
  LET val    == DfiValues(t, b)
      old    == s.node[n]
      newdfi == IF old = NULL THEN k ELSE val[old]
      search == SuccessorSearch(t, val, n)
      current == /\ old # NULL
                 /\ b.base_mod[n] = b.latest_mod
                 /\ b.base_mod[old] = b.latest_mod
      stillLast == old = NULL /\ s.dfi[n] = k
      sameGap == old # NULL /\ b.base_index[n] - val[n] = s.dfi[n] - newdfi
  IN  IF current \/ stillLast THEN [suc |-> s, reads |-> {}]
      ELSE IF sameGap
           THEN [suc |-> [s EXCEPT !.dfi[n] = newdfi], reads |-> {old, n}]
           ELSE [suc |-> [s EXCEPT !.node[n] = search.node,
                                   !.dfi[n] = IF search.node = NULL THEN k
                                              ELSE val[search.node]],
                 reads |-> ({old, n} \cup search.examined) \ {NULL}]

-----------------------------------------------------------------------------
(* Insertion *)

\* A mutant: only the displaced node's siblings are visited.
SideNearest(t, displaced) ==
  {c \in Nodes : c \in ToSet(t.children[displaced]) \/
     (t.parent[displaced] # NULL /\ c \in ToSet(t.children[t.parent[displaced]]))}
    \ {displaced}

\* propagate_dfi_change(displaced, +1): the displaced node's index and all later
\* ones grow by one.  Only the path to the root and its children are visited; b
\* is the index after their dfi() at the previous modification.
Path(t, displaced) == t.above[displaced] \cup {displaced}

Side(t, displaced) ==
  {c \in Nodes : \E y \in Path(t, displaced) : c \in ToSet(t.children[y])}
    \ Path(t, displaced)

\* A mutant: the index the walk starts from is not counted as displaced.
NotBeforeStrict(index, S, from) == {y \in S : index[y] > from}

\* The visited nodes S that move up, and the ones that are marked up to date.
NotBefore(index, S, from) == {y \in S : index[y] >= from}

\* A mutant: the nodes the walk passes without moving them are not marked.
MarkedMoved(path, shift) == shift
Marked(path, shift) == path \cup shift

Propagate(t, b, displaced) ==
  LET path  == Path(t, displaced)
      side  == Side(t, displaced)
      from  == b.base_index[displaced]
      shift == NotBefore(b.base_index, path \cup side, from)
  IN  [base_index |-> [y \in Node |-> b.base_index[y] + IF y \in shift THEN 1 ELSE 0],
       base_mod |-> [y \in Node |-> IF y \in Marked(path, shift) THEN b.latest_mod + 1
                                    ELSE b.base_mod[y]],
       cached_parent_dfi |->
         [y \in Node |-> IF y \in path /\ t.parent[y] \in shift
                         THEN b.base_index[t.parent[y]] + 1
                         ELSE b.cached_parent_dfi[y]],
       latest_mod |-> b.latest_mod + 1]

\* A mutant: the closest node is taken for the one that was asked for.
NodeAtClosest(table, val, k) ==
  LET path == SearchPath(table, val, k)
  IN  IF path = <<>> THEN NULL ELSE path[Len(path)]

\* The node of index k, if the search in a table ends at it.
NodeAt(table, val, k) ==
  LET path == SearchPath(table, val, k)
      hit  == {y \in Nodes : path # <<>> /\ y = path[Len(path)] /\ val[y] = k}
  IN  IF hit = {} THEN NULL ELSE CHOOSE y \in hit : TRUE

\* What insert(p, pos) looks up first: the index the new node takes, the successor
\* caches, and the nodes whose dfi() ran.  For a last child the successor of p is
\* forgotten, and looked up again unless it is known to be the end of the tree.
Target(p, pos) ==
  LET val  == DfiValues(tree, idx)
      kids == tree.children[p]
      Known(index) == [index |-> index, suc |-> suc, reads |-> {}]
      Behind(post) == [index |-> post.suc.dfi[p], suc |-> post.suc, reads |-> post.reads]
  IN  IF kids # <<>> /\ pos = Len(kids)
      THEN Behind(PostorderSuccessor(tree, idx, [suc EXCEPT !.node[p] = NULL], size, p))
      ELSE Known(IF pos = 0 THEN val[p] + 1 ELSE val[kids[pos + 1]])

\* What insert(p, pos) finds out before it changes anything: the new node, the
\* index it takes, the node it displaces, and the nodes whose dfi() ran.
PlanAt(p, pos, target) ==
  LET val     == DfiValues(tree, idx)
      sibling == IF pos < Len(tree.children[p]) THEN tree.children[p][pos + 1] ELSE NULL
      displaced == IF sibling # NULL THEN sibling ELSE NodeAt(tbl, val, target.index)
  IN  [node |-> size + 1,
       tree |-> [tree EXCEPT !.parent[size + 1] = p,
                             !.above[size + 1] = tree.above[p] \cup {p}],
       val |-> val, target |-> target.index,
       displaced |-> displaced,
       index |-> IF displaced # NULL /\ target.index # size THEN val[displaced]
                 ELSE target.index,
       suc |-> target.suc,
       reads |-> {p} \cup target.reads
                     \cup (IF sibling # NULL THEN {sibling}
                           ELSE ToSet(SearchPath(tbl, val, target.index)))]

Plan(p, pos) == PlanAt(p, pos, Target(p, pos))

\* The index when the new node has been created: `early` are the nodes whose
\* dfi() the type index calls before the renumbering.
Created(p, plan, early) ==
  LET moved == plan.displaced # NULL
      reads == plan.reads \cup early
                 \cup (IF moved THEN {plan.displaced} \cup Side(tree, plan.displaced)
                       ELSE {})
      seen  == Refresh(tree, idx, reads)
      b     == IF moved THEN Propagate(tree, seen, plan.displaced) ELSE seen
  IN  [b EXCEPT !.base_index[plan.node] = plan.index,
                !.base_mod[plan.node] = idx.latest_mod,
                !.cached_parent_dfi[plan.node] = DfiValues(tree, b)[p]]

\* The assertions of insert() that fail, named by their lines.
FailedAsserts(p, pos, plan, val, last) ==
  {line \in {65, 80, 93, 131, 151} :
     \/ /\ line = 65
        /\ pos = 0 /\ tree.children[p] # <<>>
        /\ plan.target # plan.val[tree.children[p][1]]
     \/ line = 80 /\ plan.target = size /\ plan.displaced # NULL
     \/ line = 93 /\ plan.displaced = NULL /\ plan.index # size
     \/ line = 131 /\ plan.index \notin 0 .. size + 1
     \/ line = 151 /\ last < val[plan.node]}

\* insert() inserts the new node n into a table: twice, if it displaces no node and so is
\* the last one.  The nodes that the searches meet.
Tabled(table, value, n, moved) ==
  Probe(IF moved THEN table ELSE Probe(table, value, n), value, n)

Met(table, value, n, moved) ==
  ToSet(SearchPath(table, value, value[n]))
    \cup IF moved THEN {} ELSE ToSet(SearchPath(Probe(table, value, n), value, value[n]))

\* The insertion of a new node as child number pos (from 0) of p.  `late` are the
\* nodes whose dfi() the type index calls after the renumbering, and `failed` the
\* assertions that fail in it.
InsertNode(p, pos, early, late, failed) ==
  \E plan \in {Plan(p, pos)} : \E created \in {Created(p, plan, early)} :
    LET n       == plan.node
        moved   == plan.displaced # NULL
        val     == DfiValues(plan.tree, created)
        last    == IF moved THEN val[plan.displaced] ELSE size + 1
        reads   == {p, n} \cup late \cup Met(tbl, val, n, moved)
                     \cup (IF moved THEN {plan.displaced} ELSE {})
        lines   == FailedAsserts(p, pos, plan, val, last) \cup failed
    IN  IF lines # {}
        THEN fault' = Min(lines) /\ UNCHANGED <<tree, size, idx, suc, tbl>>
        ELSE /\ tree' = [plan.tree EXCEPT !.children[p] = InsertAt(@, pos + 1, n)]
             /\ size' = size + 1
             /\ idx' = Refresh(plan.tree, created, reads)
             /\ suc' = [plan.suc EXCEPT !.node[n] = plan.displaced, !.dfi[n] = last]
             /\ tbl' = Tabled(tbl, val, n, moved)
             /\ UNCHANGED fault

CanInsert(p, pos) ==
  /\ fault = 0
  /\ size < MaxNodes
  /\ pos \in 0 .. Len(tree.children[p])

\* insert(NULL, ...): the parent is dereferenced before it is compared with NULL.
InsertRoot ==
  /\ fault = 0
  /\ fault' = 47
  /\ UNCHANGED <<tree, size, idx, suc, tbl>>

\* dfi() called on each node of S; postorder_successor_dfi() called on n.
ReadDfi(S) ==
  /\ fault = 0
  /\ idx' = Refresh(tree, idx, S)
  /\ UNCHANGED <<tree, size, suc, tbl, fault>>

ReadSuccessor(n) ==
  LET post == PostorderSuccessor(tree, idx, suc, size, n)
  IN  /\ fault = 0
      /\ idx' = Refresh(tree, idx, post.reads)
      /\ suc' = post.suc
      /\ UNCHANGED <<tree, size, tbl, fault>>

-----------------------------------------------------------------------------
(* generate_index *)

FreshIndex(t, k) ==
  [base_index |-> [n \in Node |-> IF n \in 1 .. k THEN n - 1 ELSE 0],
   base_mod |-> [n \in Node |-> 0],
   cached_parent_dfi |->
     [n \in Node |-> IF n \in 1 .. k /\ t.parent[n] # NULL THEN t.parent[n] - 1 ELSE 0],
   latest_mod |-> 0]

\* A mutant: the walk's last index is taken from the node's children only.
AfterChildren(t, k, n) == {m \in n + 1 .. k : t.parent[m] # n}

\* The nodes after n that are not its descendants.
After(t, k, n) == {m \in n + 1 .. k : n \notin t.above[m]}

FreshSuccessors(t, k) ==
  [node |-> [n \in Node |-> IF n \in 1 .. k /\ After(t, k, n) # {}
                            THEN Min(After(t, k, n)) ELSE NULL],
   dfi  |-> [n \in Node |-> IF n \notin 1 .. k THEN 0
                            ELSE IF After(t, k, n) = {} THEN k
                            ELSE Min(After(t, k, n)) - 1]]

\* A table of the nodes S, probed in order of their numbers.
FreshTable(S) ==
  LET key == [n \in Node |-> n - 1]
      build[k \in 0 .. MaxNodes] ==
        IF k = 0 THEN EmptyTable
        ELSE IF k \in S THEN Probe(build[k - 1], key, k) ELSE build[k - 1]
  IN  build[MaxNodes]

DfiInit ==
  \E init \in InitTrees :
    /\ tree = init.tree
    /\ size = init.size
    /\ idx = FreshIndex(init.tree, init.size)
    /\ suc = FreshSuccessors(init.tree, init.size)
    /\ tbl = FreshTable(1 .. init.size)
    /\ fault = 0

\* The index on its own: whatever the type index reads and asserts.
DfiNext ==
  \/ \E p \in Nodes, pos \in 0 .. MaxNodes, early, late \in SUBSET Node,
        failed \in SUBSET {150} :
        CanInsert(p, pos) /\ InsertNode(p, pos, early, late, failed)
  \/ InsertRoot
  \/ \E S \in SUBSET Nodes : ReadDfi(S)
  \/ \E n \in Nodes : ReadSuccessor(n)

DfiSpec == DfiInit /\ [][DfiNext]_dfiVars

\* A node is never more up to date than its parent, nor than the index: dfi() may
\* stop climbing at the first node that is up to date, and the comparison of
\* base_mod with latest_mod it starts with (dfilter.cpp:278) holds on every call.
ModsFresh ==
  \A n \in Nodes :
    /\ idx.base_mod[n] <= idx.latest_mod
    /\ tree.parent[n] # NULL => idx.base_mod[n] <= idx.base_mod[tree.parent[n]]

-----------------------------------------------------------------------------
(* What the index should say: document order, read off the tree alone. *)

\* n is in the branch of c.
Under(t, c, n) == n = c \/ c \in t.above[n]

\* Two children of some node have m and n in their branches, m in the earlier one's.
LeftOf(t, m, n) ==
  \E p \in Node : \E i, j \in 1 .. Len(t.children[p]) :
     i < j /\ Under(t, t.children[p][i], m) /\ Under(t, t.children[p][j], n)

\* m comes before n in document order.
Precedes(t, m, n) == m \in t.above[n] \/ LeftOf(t, m, n)

\* A node's place in document order.
Place(n) == Cardinality({m \in Nodes : Precedes(tree, m, n)})

=============================================================================
