------------------------------ MODULE DFilter ------------------------------
(***************************************************************************)
(* v1's DFilter: DfiIndex with the type index on top of it.  For every     *)
(* type there is a table of its nodes and the two bound nodes a query      *)
(* starts from; every node carries type_dfi, its number among the nodes of *)
(* its type, kept as lazily as dfi: type_base_index is valid as of         *)
(* type_mod and follows the nearest ancestor of the same type.             *)
(***************************************************************************)
EXTENDS DfiIndex

CONSTANTS Types,     \* the type codes
          Audit      \* TRUE: the client reads every index between insertions

ASSUME TypesAssumption == NULL \notin Types /\ Audit \in BOOLEAN

VARIABLES type,        \* TNode::type
          ty,          \* type_base_index, type_mod, cached_type_parent_dfi of each
                       \* node; latest_type_mods, min and max type bounds
          type_tables, \* DFilter::type_tables
          unread       \* the nodes not read since the last insertion (auxiliary)

vars == <<dfiVars, type, ty, type_tables, unread>>

val == DfiValues(tree, idx)

-----------------------------------------------------------------------------
(* type_dfi() *)

Count(k) == type_tables[k].count

TypeAncestors(t, of, n) == {y \in t.above[n] : of[y] = of[n]}

TypeParent(t, of, n) ==
  IF TypeAncestors(t, of, n) = {} THEN NULL ELSE Deepest(t, TypeAncestors(t, of, n))

\* The value type_dfi() returns for each node.
TypeValues(t, of, b) ==
  LET number[n \in Node] ==
        IF TypeParent(t, of, n) = NULL \/ b.type_mod[n] >= b.latest_type_mods[of[n]]
        THEN b.type_base_index[n]
        ELSE b.type_base_index[n] + number[TypeParent(t, of, n)]
               - b.cached_type_parent_dfi[n]
  IN  number

\* The nodes on which type_dfi() runs when it is called on n: the calls climb through
\* out-of-date nodes of n's type.
TypeCalled(t, of, b, n) ==
  {y \in TypeAncestors(t, of, n) \cup {n} :
     \A z \in TypeAncestors(t, of, n) \cup {n} :
       y \in t.above[z] => b.type_mod[z] < b.latest_type_mods[of[n]]}

\* The index of the nodes after n.type_dfi(), when n's type counts `count` nodes: the
\* out-of-date nodes on which it runs are brought up to date, topmost first, and become
\* bounds of the type when their number is the first or last.
CallTypeDfi(t, of, b, count, n) ==
  LET k      == of[n]
      latest == b.latest_type_mods[k]
      called == TypeCalled(t, of, b, n)
      stale  == {y \in called : b.type_mod[y] < latest}
      number == TypeValues(t, of, b)
      lasts  == {y \in stale : number[y] = count - 1}
      firsts == {y \in stale : number[y] = 0}
  IN  [type_base_index |->
         [y \in Node |-> IF y \in stale THEN number[y] ELSE b.type_base_index[y]],
       type_mod |-> [y \in Node |-> IF y \in stale THEN latest ELSE b.type_mod[y]],
       cached_type_parent_dfi |->
         [y \in Node |-> IF y \in called /\ TypeParent(t, of, y) # NULL
                         THEN number[TypeParent(t, of, y)]
                         ELSE b.cached_type_parent_dfi[y]],
       latest_type_mods |-> b.latest_type_mods,
       max_type_bounds |-> [b.max_type_bounds EXCEPT
                              ![k] = IF lasts = {} THEN @ ELSE Deepest(t, lasts)],
       min_type_bounds |-> [b.min_type_bounds EXCEPT
                              ![k] = IF firsts = {} THEN @ ELSE Deepest(t, firsts)]]

\* n.type_dfi() on the filter's tree.
CalledType(b, n) == CallTypeDfi(tree, type, b, Count(type[n]), n)

\* type_dfi() called on the nodes of a sequence that are in S.
CallTypeDfis(b, nodes, S) ==
  LET after[i \in 0 .. Len(nodes)] ==
        IF i = 0 THEN b
        ELSE IF nodes[i] \in S THEN CalledType(after[i - 1], nodes[i])
        ELSE after[i - 1]
  IN  after[Len(nodes)]

-----------------------------------------------------------------------------
(* Insertion *)

\* The node pavl_find_closest_node may answer with: the one of index k, or else
\* one of the two neighbours of k in the table.
Closest(table, value, k) ==
  LET path    == Nodes \cap ToSet(SearchPath(table, value, k))
      under   == {y \in path : value[y] < k}
      over    == {y \in path : value[y] > k}
      hit     == {y \in path : value[y] = k}
  IN  IF path = {} THEN {NULL}
      ELSE IF hit # {} THEN hit
      ELSE {y \in under : \A z \in under : value[z] <= value[y]}
             \cup {y \in over : \A z \in over : value[y] <= value[z]}

\* The children of each node from the displaced one to the root, in the order of
\* propagate_dfi_change; it skips those it came up through.
SideSeq(displaced) ==
  LET climb[y \in Node \cup {NULL}] ==
        IF y = NULL THEN <<>> ELSE tree.children[y] \o climb[tree.parent[y]]
  IN  climb[displaced]

\* The type half of propagate_dfi_change(displaced, +1): only the displaced node's
\* own type is renumbered.
PropagateType(b, displaced) ==
  LET k     == type[displaced]
      path  == {y \in Path(tree, displaced) : type[y] = k}
      side  == {y \in Side(tree, displaced) : type[y] = k}
      first == CalledType(b, displaced)
      seen  == CallTypeDfis(first, SideSeq(displaced), Side(tree, displaced))
      shift == NotBefore(seen.type_base_index, path \cup side,
                         first.type_base_index[displaced])
  IN  [type_base_index |->
         [y \in Node |-> seen.type_base_index[y] + IF y \in shift THEN 1 ELSE 0],
       type_mod |-> [y \in Node |-> IF y \in Marked(path, shift)
                                    THEN seen.latest_type_mods[k] + 1 ELSE seen.type_mod[y]],
       cached_type_parent_dfi |->
         [y \in Node |-> IF y \in path /\ TypeParent(tree, type, y) \in shift
                         THEN seen.type_base_index[TypeParent(tree, type, y)] + 1
                         ELSE seen.cached_type_parent_dfi[y]],
       latest_type_mods |-> [seen.latest_type_mods EXCEPT ![k] = @ + 1],
       max_type_bounds |-> seen.max_type_bounds,
       min_type_bounds |-> seen.min_type_bounds]

\* The type index with the new node n of type k: as the last of its type when it
\* displaces no node, otherwise with the number of the closest node of its type.
CreatedType(plan, k, closest) ==
  LET n       == plan.node
      moved   == plan.displaced # NULL
      of      == [type EXCEPT ![n] = k]
      asked   == IF moved /\ closest # NULL THEN CalledType(ty, closest) ELSE ty
      number  == IF ~moved THEN Count(k)
                 ELSE IF closest = NULL THEN 0 ELSE asked.type_base_index[closest]
      renumbered == IF moved THEN PropagateType(asked, plan.displaced) ELSE asked
      parent  == TypeParent(plan.tree, of, n)
      count   == IF moved THEN Count(k) ELSE Count(k) + 1
      b       == IF parent = NULL THEN renumbered
                 ELSE CallTypeDfi(plan.tree, of, renumbered, count, parent)
  IN  [type_base_index |-> [b.type_base_index EXCEPT ![n] = number],
       type_mod |-> [b.type_mod EXCEPT ![n] = ty.latest_type_mods[k]],
       cached_type_parent_dfi |->
         [b.cached_type_parent_dfi EXCEPT
            ![n] = IF parent = NULL THEN 0 ELSE b.type_base_index[parent]],
       latest_type_mods |-> b.latest_type_mods,
       max_type_bounds |-> b.max_type_bounds,
       min_type_bounds |-> b.min_type_bounds]

\* insert(p, pos, k)
Insert(p, pos, k) ==
  /\ CanInsert(p, pos)
  /\ Audit => unread = {}
  /\ \E plan \in {Plan(p, pos)} :
     LET moved == plan.displaced # NULL
         early == IF moved THEN ToSet(SearchPath(type_tables[k], val, plan.index)) ELSE {}
         value == DfiValues(plan.tree, Created(p, plan, early))
         late  == Met(type_tables[k], value, plan.node, moved)
         grown == Tabled(type_tables[k], value, plan.node, moved)
     IN  \E closest \in IF moved THEN Closest(type_tables[k], val, plan.index) ELSE {NULL} :
         \E index \in {CreatedType(plan, k, closest)} :
           LET wrong == index.type_base_index[plan.node] \notin 0 .. grown.count
           IN  /\ InsertNode(p, pos, early, late, IF wrong THEN {150} ELSE {})
               /\ IF fault' # 0 THEN UNCHANGED <<type, ty, type_tables, unread>>
                  ELSE /\ type' = [type EXCEPT ![plan.node] = k]
                       /\ ty' = index
                       /\ type_tables' = [type_tables EXCEPT ![k] = grown]
                       /\ unread' = Nodes'

-----------------------------------------------------------------------------
(* Queries *)

\* A mutant: the bound itself is excluded.
BoundNodeStrict(table, value, k, gth) ==
  LET path == SearchPath(table, value, k)
      Good(y) == IF gth THEN value[y] > k ELSE value[y] < k
      last == {y \in Nodes : \E i \in DOMAIN path :
                 y = path[i] /\ Good(y) /\ \A j \in i + 1 .. Len(path) : ~Good(path[j])}
  IN  IF last = {} THEN NULL ELSE CHOOSE y \in last : TRUE

\* get_bound_node: the last node on the search for k that is on the right side of k.
BoundNode(table, value, k, gth) ==
  LET path == SearchPath(table, value, k)
      Good(y) == IF gth THEN value[y] >= k ELSE value[y] <= k
      last == {y \in Nodes : \E i \in DOMAIN path :
                 y = path[i] /\ Good(y) /\ \A j \in i + 1 .. Len(path) : ~Good(path[j])}
  IN  IF last = {} THEN NULL ELSE CHOOSE y \in last : TRUE

\* get_descendants_by_type(n, k): the first and last node of the result, the nodes
\* whose dfi() ran, and the successor caches; post is n's postorder successor.
DescendantsUpTo(n, k, post) ==
  LET table == type_tables[k]
      end   == post.suc.dfi[n]
      IndexOf(m) == IF m = NULL THEN -1 ELSE val[m]
      max   == ty.max_type_bounds[k]
      min   == ty.min_type_bounds[k]
      first == BoundNode(table, val, val[n] + 1, TRUE)
      last  == BoundNode(table, val, end - 1, FALSE)
      beyond  == val[n] >= IndexOf(max)
      outside == beyond \/ end <= IndexOf(min)
      fromReads == ToSet(SearchPath(table, val, val[n] + 1))
      toReads   == ToSet(SearchPath(table, val, end - 1))
      base  == {n} \cup post.reads
                 \cup (({max} \cup (IF beyond THEN {} ELSE {min})) \ {NULL})
      Answer(a, z, reads) ==
        [first |-> a, last |-> z, reads |-> (base \cup reads), suc |-> post.suc]
  IN  IF outside THEN Answer(NULL, NULL, {})
      ELSE IF first = NULL THEN Answer(NULL, NULL, fromReads)
      ELSE IF val[first] = end - 1 THEN Answer(first, first, fromReads)
      ELSE IF last = NULL \/ val[first] > val[last]
           THEN Answer(NULL, NULL, fromReads \cup toReads)
      ELSE Answer(first, last, fromReads \cup toReads)

Descendants(n, k) ==
  IF tree.children[n] = <<>>
  THEN [first |-> NULL, last |-> NULL, reads |-> {}, suc |-> suc]
  ELSE DescendantsUpTo(n, k, PostorderSuccessor(tree, Refresh(tree, idx, {n}), suc, size, n))

\* A mutant: the iteration runs on to the end of the table.
EnumeratedToEnd(answer, k) ==
  LET ord == InOrder(type_tables[k])
  IN  IF answer.first = NULL THEN <<>>
      ELSE SubSeq(ord, CHOOSE i \in DOMAIN ord : ord[i] = answer.first, Len(ord))

\* What a DResult enumerates: the table of its type from the first node on, up to
\* the first node whose index is beyond the last one's.
Enumerated(answer, k) ==
  LET ord   == InOrder(type_tables[k])
      at    == CHOOSE i \in DOMAIN ord : ord[i] = answer.first
      over  == {i \in at .. Len(ord) : val[ord[i]] > val[answer.last]}
  IN  IF answer.first = NULL THEN <<>>
      ELSE IF answer.first = answer.last THEN <<answer.first>>
      ELSE SubSeq(ord, at, IF over = {} THEN Len(ord) ELSE Min(over) - 1)

\* A query, with the type_dfi() calls of the DResult it constructs.
Query(n, k) ==
  \E answer \in {Descendants(n, k)} :
    /\ fault = 0
    /\ idx' = Refresh(tree, idx, answer.reads)
    /\ suc' = answer.suc
    /\ ty' = IF answer.first = NULL THEN ty
             ELSE CalledType(CalledType(ty, answer.first), answer.last)
    /\ unread' = unread \ Touched(tree, idx, answer.reads)
    /\ UNCHANGED <<tree, size, tbl, fault, type, type_tables>>

\* dfi() called on one node or, one after the other, on all; get_node(k); and
\* postorder_successor_dfi() called on n.
Read(S) ==
  /\ ReadDfi(S)
  /\ unread' = unread \ Touched(tree, idx, S)
  /\ UNCHANGED <<type, ty, type_tables>>

GetNode(k) == NodeAt(tbl, val, k)

LookUp(k) == Read(ToSet(SearchPath(tbl, val, k)))

Successor(n) ==
  /\ ReadSuccessor(n)
  /\ unread' = unread \ Touched(tree, idx, PostorderSuccessor(tree, idx, suc, size, n).reads)
  /\ UNCHANGED <<type, ty, type_tables>>

\* type_dfi() called on n.
ReadType(n) ==
  /\ fault = 0
  /\ ty' = CalledType(ty, n)
  /\ UNCHANGED <<dfiVars, type, type_tables, unread>>

-----------------------------------------------------------------------------
(* generate_index: a type's nodes are numbered and tabled as the walk meets them. *)

\* generate_index_helper and assign_dnode at the node n, which takes for its number the
\* count of its type's table.  Then it is in the table, the last one, and so the upper bound
\* of its type; it is the lower bound if its number is 0.
NumberNode(t, of, w, n) ==
  LET k      == of[n]
      number == w.met[k]
      parent == TypeParent(t, of, n)
  IN  [met |-> [w.met EXCEPT ![k] = @ + 1],
       type_base_index |-> [w.type_base_index EXCEPT ![n] = number],
       cached_type_parent_dfi |->
         [w.cached_type_parent_dfi EXCEPT
            ![n] = IF parent = NULL THEN 0 ELSE w.type_base_index[parent]],
       min_type_bounds |-> [w.min_type_bounds EXCEPT ![k] = IF number = 0 THEN n ELSE @],
       max_type_bounds |-> [w.max_type_bounds EXCEPT ![k] = n]]

\* The walk meets the nodes 1, 2, ..., k in this order; no modification has been made yet.
FreshTypes(t, of, k) ==
  LET walk[n \in 0 .. k] ==
        IF n = 0
        THEN [met |-> [x \in Types |-> 0],
              type_base_index |-> [m \in Node |-> 0],
              cached_type_parent_dfi |-> [m \in Node |-> 0],
              min_type_bounds |-> [x \in Types |-> NULL],
              max_type_bounds |-> [x \in Types |-> NULL]]
        ELSE NumberNode(t, of, walk[n - 1], n)
  IN  [type_base_index |-> walk[k].type_base_index,
       type_mod |-> [n \in Node |-> 0],
       cached_type_parent_dfi |-> walk[k].cached_type_parent_dfi,
       latest_type_mods |-> [x \in Types |-> 0],
       min_type_bounds |-> walk[k].min_type_bounds,
       max_type_bounds |-> walk[k].max_type_bounds]

Init ==
  /\ DfiInit
  /\ \E of \in [Nodes -> Types] :
       /\ type = [n \in Node |-> IF n \in Nodes THEN of[n] ELSE NULL]
       /\ ty = FreshTypes(tree, type, size)
       /\ type_tables = [x \in Types |-> FreshTable({n \in Nodes : of[n] = x})]
  /\ unread = {}

Next ==
  \/ \E p \in Nodes, pos \in 0 .. MaxNodes, k \in Types : Insert(p, pos, k)
  \/ InsertRoot /\ UNCHANGED <<type, ty, type_tables, unread>>
  \/ Read(Nodes)
  \/ \E n \in Nodes : Read({n})
  \/ \E k \in 0 .. size : LookUp(k)
  \/ \E n \in Nodes : Successor(n)
  \/ \E n \in Nodes : ReadType(n)
  \/ \E n \in Nodes, k \in Types : Query(n, k)

Spec == Init /\ [][Next]_vars

\* The same for type_dfi(), whose climb visits the ancestors of a node's own type
\* only (dfilter.cpp:302).
TypeModsFresh ==
  \A n \in Nodes :
    /\ ty.type_mod[n] <= ty.latest_type_mods[type[n]]
    /\ \A y \in TypeAncestors(tree, type, n) : ty.type_mod[n] <= ty.type_mod[y]

\* The number type_dfi() returns.
TypeNumber(n) == CalledType(ty, n).type_base_index[n]

\* Reading is transparent: whatever a caller reads or asks, in whatever order, no
\* dfi() and no type_dfi() returns anything else afterwards.  Only insert changes
\* what they return.
ReadsTransparent ==
  /\ [][size' = size => val' = val]_idx
  /\ [][size' = size => [n \in Nodes |-> TypeNumber(n)]' = [n \in Nodes |-> TypeNumber(n)]]_ty

-----------------------------------------------------------------------------
(* What a filter promises, read off the tree alone. *)

\* dfi() of every node is its place in document order, however the updates left by
\* the insertions so far are spread over the nodes (dfi(), insert and
\* propagate_dfi_change; asserted at test.cpp:363).
DfiCorrect == \A n \in Nodes : val[n] = Place(n)

InDocumentOrder(nodes) ==
  \A i \in DOMAIN nodes : \A j \in 1 .. i - 1 : Precedes(tree, nodes[j], nodes[i])

\* The nodes of S, each once, in document order.
Lists(nodes, S) == ToSet(nodes) = S /\ InDocumentOrder(nodes)

\* The table of all nodes and the table of each type hold exactly their nodes, in
\* document order: the keys moved under the table, and it was never rebuilt.
TablesInOrder ==
  /\ Lists(InOrder(tbl), Nodes)
  /\ \A k \in Types : Lists(InOrder(type_tables[k]), {n \in Nodes : type[n] = k})

\* get_node finds every node at its index, and nothing beyond the last one.
LookUpCorrect ==
  \A k \in 0 .. size :
    IF k = size THEN GetNode(k) = NULL ELSE GetNode(k) \in Nodes /\ Place(GetNode(k)) = k

\* The assertions about the index in insert() never fail; the one about
\* type_base_index, at line 150, is not among them.
IndexAssertionsHold == fault \notin {65, 80, 93, 131, 151}

\* The nodes in the order of their indexes, and its refinement of DocumentOrder: an
\* insertion never changes the relative order of the nodes it finds.
IndexOrder ==
  [i \in Nodes |->
     IF \E n \in Nodes : val[n] = i - 1 THEN CHOOSE n \in Nodes : val[n] = i - 1 ELSE NULL]

Abstract == INSTANCE DocumentOrder WITH order <- IndexOrder

RefinesDocumentOrder == Abstract!Spec

\* The index is as generate_index leaves it for the tree.
Generated ==
  /\ idx = FreshIndex(tree, size)
  /\ suc = FreshSuccessors(tree, size)
  /\ ty = FreshTypes(tree, type, size)

\* On a tree that was indexed as it is, type_dfi() of every node is its place among
\* the nodes of its type (asserted at test.cpp:299).
TypeDfiCorrect ==
  Generated => \A n \in Nodes :
    TypeNumber(n) = Cardinality({m \in Nodes : type[m] = type[n] /\ Precedes(tree, m, n)})

\* While all nodes are of one type, type_dfi() stays in document order, whatever has been
\* inserted, and never falls behind the place of the node: a node may get the number of
\* the one after it, never a lower one than a node before it (insert, propagate_dfi_change).
TypeNumbersOrdered ==
  fault = 0 /\ (\A m, n \in Nodes : type[m] = type[n]) =>
    /\ \A n \in Nodes : Place(n) <= TypeNumber(n)
    /\ \A m, n \in Nodes : Precedes(tree, m, n) => TypeNumber(m) <= TypeNumber(n)

NodesBelow(n) == {m \in Nodes : n \in tree.above[m]}

\* The index that follows a node's last descendant.
End(n) == Place(n) + 1 + Cardinality(NodesBelow(n))

\* The number postorder_successor_dfi() returns.
SuccessorIndex(n) == PostorderSuccessor(tree, idx, suc, size, n).suc.dfi[n]

\* On a tree that was indexed as it is, postorder_successor_dfi() is the index that
\* follows the node's last descendant (asserted at test.cpp:306).
SuccessorCorrect == Generated => \A n \in Nodes : SuccessorIndex(n) = End(n)

\* It may be out of date after insertions, but then it falls short: it never takes
\* in a node that is not a descendant.
SuccessorNeverPast == \A n \in Nodes : SuccessorIndex(n) <= End(n)

\* get_descendants_by_type enumerates the descendants of a node that have the type,
\* each once, in document order (dfilter.cpp:8-13).
QueryCorrect ==
  \A n \in Nodes, k \in Types :
    Lists(Enumerated(Descendants(n, k), k), {m \in NodesBelow(n) : type[m] = k})

\* It does so on a tree that was indexed as it is, whatever was asked of it before.
GeneratedQueryCorrect == Generated => QueryCorrect

\* The nodes a query enumerates after insertions are descendants of the right type,
\* each once, in document order; it can only miss some.
QuerySound ==
  \A n \in Nodes, k \in Types :
    LET found == Enumerated(Descendants(n, k), k)
    IN  ToSet(found) \subseteq {m \in NodesBelow(n) : type[m] = k} /\ InDocumentOrder(found)
=============================================================================
