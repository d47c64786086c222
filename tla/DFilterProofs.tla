---------------------------- MODULE DFilterProofs ----------------------------
(***************************************************************************)
(* What DfiIndexProofs proves of the depth-first index holds in DFilter,   *)
(* whatever the type index, the queries and the audit do: the invariant of *)
(* the index never constrains which nodes they call dfi() on.  The type    *)
(* index is as fresh as the index, and no reading changes what either of   *)
(* them returns.                                                           *)
(*                                                                         *)
(* A filter whose client reads every index between two insertions is       *)
(* correct: its numbers are document order, its tables are sorted by them, *)
(* its look-ups are exact, its queries return descendants only, all of     *)
(* them before the first insertion, and it implements DocumentOrder.  An   *)
(* iteration over the result of a query gives what the query found when it *)
(* was made, and size() counts that on a tree that is indexed as it is.    *)
(***************************************************************************)
EXTENDS DResult, DfiIndexProofs

LEMMA SpecInitSound == Init => IInv
BY InitSound DEF Init

LEMMA SpecNextSound == IInv /\ [Next]_vars => IInv'
<1>. SUFFICES ASSUME IInv, [Next]_vars  PROVE IInv'
  OBVIOUS
<1>1. ASSUME UNCHANGED dfiVars
      PROVE  IInv'
  BY <1>1, NextSound
<1>2. ASSUME NEW p \in Nodes, NEW pos, NEW k, Insert(p, pos, k)
      PROVE  IInv'
  <2>1. /\ CanInsert(p, pos)
        /\ \E early, late, failed : InsertNode(p, pos, early, late, failed)
    BY <1>2, Zenon DEF Insert
  <2>. QED  BY <2>1, InsertNodeSound
<1>3. ASSUME InsertRoot
      PROVE  IInv'
  BY <1>3, NextSound DEF DfiNext
<1>4. ASSUME NEW S, Read(S)
      PROVE  IInv'
  BY <1>4, RefreshSound DEF Read, ReadDfi
<1>5. ASSUME NEW n, Successor(n)
      PROVE  IInv'
  BY <1>5, RefreshSound DEF Successor, ReadSuccessor
<1>6. ASSUME NEW n, ReadType(n)
      PROVE  IInv'
  BY <1>1, <1>6 DEF ReadType
<1>7. ASSUME NEW n, NEW k, Query(n, k)
      PROVE  IInv'
  BY <1>7, RefreshSound DEF Query
<1>8. CASE UNCHANGED vars
  BY <1>1, <1>8 DEF vars
<1>. QED  BY <1>2, <1>3, <1>4, <1>5, <1>6, <1>7, <1>8 DEF Next, LookUp

\* Whatever is inserted, read and queried, no node is more up to date than its
\* parent, or than the index (the climb and the assertion of dfi()).
THEOREM FilterModsFresh == Spec => []ModsFresh
<1>1. IInv => ModsFresh
  BY DEF IInv
<1>. QED  BY <1>1, SpecInitSound, SpecNextSound, PTL DEF Spec

\* Whatever is inserted, read and queried, parents, ancestors and child lists agree
\* (TNode::parent and children in insert and add_child).
THEOREM FilterTreeSound == Spec => []TreeSound
<1>1. IInv => TreeSound
  BY DEF IInv
<1>. QED  BY <1>1, SpecInitSound, SpecNextSound, PTL DEF Spec

-----------------------------------------------------------------------------
(* The climb of type_dfi() *)

\* The nearest ancestor of a node's own type, if it has one, is created before it.
LEMMA TypeParentFacts ==
  ASSUME NEW t, NEW of, NEW k \in 1 .. MaxNodes, TreeShape(t), Ancestry(t, k),
         NEW n \in Node, TypeParent(t, of, n) # NULL
  PROVE  /\ n \in 1 .. k
         /\ TypeParent(t, of, n) \in TypeAncestors(t, of, n)
         /\ TypeParent(t, of, n) \in 1 .. n - 1
         /\ \A y \in TypeAncestors(t, of, n) :
              y = TypeParent(t, of, n) \/ y \in t.above[TypeParent(t, of, n)]
<1>1. TypeAncestors(t, of, n) # {}
  BY DEF TypeParent
<1>2. n \in 1 .. k
  BY <1>1 DEF TypeAncestors, Ancestry
<1>3. PICK S : S = TypeAncestors(t, of, n)
  OBVIOUS
<1>4. S \subseteq t.above[n] \cup {n} /\ S # {} /\ S \subseteq t.above[n]
  BY <1>1, <1>3 DEF TypeAncestors
<1>5. TypeParent(t, of, n) = Deepest(t, S)
  BY <1>1, <1>3 DEF TypeParent
<1>6. /\ Deepest(t, S) \in S
      /\ \A z \in S : z = Deepest(t, S) \/ z \in t.above[Deepest(t, S)]
  BY <1>2, <1>4, DeepestOf
<1>7. Deepest(t, S) \in 1 .. n - 1
  BY <1>2, <1>4, <1>6 DEF Ancestry
<1>. QED  BY <1>2, <1>3, <1>5, <1>6, <1>7

\* The values of type_dfi() are the ones the recursion computes.
LEMMA TypeValuesDef ==
  ASSUME NEW t, NEW of, NEW b, NEW k \in 1 .. MaxNodes, TreeShape(t), Ancestry(t, k)
  PROVE  TypeValues(t, of, b) =
           [n \in Node |->
              IF TypeParent(t, of, n) = NULL \/ b.type_mod[n] >= b.latest_type_mods[of[n]]
              THEN b.type_base_index[n]
              ELSE b.type_base_index[n] + TypeValues(t, of, b)[TypeParent(t, of, n)]
                     - b.cached_type_parent_dfi[n]]
<1>. DEFINE S == {n \in Node : ~(\/ TypeParent(t, of, n) = NULL
                                 \/ b.type_mod[n] >= b.latest_type_mods[of[n]])}
            up == [n \in Node |-> TypeParent(t, of, n)]
<1>1. Node = 1 .. MaxNodes /\ MaxNodes \in Nat
  BY NodeAssumption
<1>2. \A n \in 1 .. MaxNodes : n \in S => up[n] \in 1 .. n - 1
  BY <1>1, TypeParentFacts
<1>3. \E f : Climbs(f, 1 .. MaxNodes, S, up, b.type_base_index, b.cached_type_parent_dfi)
  <2>. HIDE DEF S, up
  <2>. QED  BY <1>1, <1>2, ClimbDefined
<1>4. PICK f : f = [n \in Node |->
                      IF n \in S THEN b.type_base_index[n] + f[up[n]]
                                        - b.cached_type_parent_dfi[n]
                      ELSE b.type_base_index[n]]
  BY <1>1, <1>3, Zenon DEF Climbs
<1>5. \A n \in Node : (n \in S <=> ~(\/ TypeParent(t, of, n) = NULL
                                     \/ b.type_mod[n] >= b.latest_type_mods[of[n]]))
                      /\ up[n] = TypeParent(t, of, n)
  OBVIOUS
<1>6. f = [n \in Node |->
             IF TypeParent(t, of, n) = NULL \/ b.type_mod[n] >= b.latest_type_mods[of[n]]
             THEN b.type_base_index[n]
             ELSE b.type_base_index[n] + f[TypeParent(t, of, n)]
                    - b.cached_type_parent_dfi[n]]
  <2>. HIDE DEF S, up
  <2>. QED  BY <1>4, <1>5
<1>. QED  BY <1>6 DEF TypeValues

TypesTyped(of, b, k) ==
  /\ b.type_mod = [n \in Node |-> b.type_mod[n]]
  /\ b.latest_type_mods \in [Types -> Int]
  /\ \A n \in 1 .. k : of[n] \in Types /\ b.type_mod[n] \in Int

\* TypeModsFresh for the first k nodes of a tree t, their types `of` and a type index b.
TypesFresh(t, of, b, k) ==
  \A n \in 1 .. k :
    /\ b.type_mod[n] <= b.latest_type_mods[of[n]]
    /\ \A y \in TypeAncestors(t, of, n) : b.type_mod[n] <= b.type_mod[y]

\* What type_dfi() of n does to a type index b.
CallEffect(t, of, b, r, n) ==
  /\ r.latest_type_mods = b.latest_type_mods
  /\ \A y \in Node :
       /\ y \in TypeCalled(t, of, b, n) => of[y] = of[n]
       /\ IF y \in TypeCalled(t, of, b, n) /\ b.type_mod[y] < b.latest_type_mods[of[n]]
          THEN /\ r.type_mod[y] = b.latest_type_mods[of[n]]
               /\ r.type_base_index[y] = TypeValues(t, of, b)[y]
          ELSE /\ r.type_mod[y] = b.type_mod[y]
               /\ r.type_base_index[y] = b.type_base_index[y]
       /\ y \notin TypeCalled(t, of, b, n) =>
            r.cached_type_parent_dfi[y] = b.cached_type_parent_dfi[y]

LEMMA CallMods ==
  ASSUME NEW t, NEW of, NEW b, NEW count, NEW k \in 1 .. MaxNodes, NEW n \in 1 .. k,
         TypesTyped(of, b, k)
  PROVE  /\ CallEffect(t, of, b, CallTypeDfi(t, of, b, count, n), n)
         /\ TypesTyped(of, CallTypeDfi(t, of, b, count, n), k)
<1>. PICK r : r = CallTypeDfi(t, of, b, count, n)
  OBVIOUS
<1>. DEFINE called == TypeCalled(t, of, b, n)
<1>. DEFINE stale == {y \in called : b.type_mod[y] < b.latest_type_mods[of[n]]}
<1>1. /\ r.latest_type_mods = b.latest_type_mods
      /\ r.type_mod = [y \in Node |-> IF y \in stale THEN b.latest_type_mods[of[n]]
                                      ELSE b.type_mod[y]]
      /\ r.type_base_index = [y \in Node |-> IF y \in stale THEN TypeValues(t, of, b)[y]
                                             ELSE b.type_base_index[y]]
      /\ \A y \in Node : y \notin called =>
           r.cached_type_parent_dfi[y] = b.cached_type_parent_dfi[y]
  BY DEF CallTypeDfi
<1>2. \A y \in called : of[y] = of[n]
  BY DEF TypeCalled, TypeAncestors
<1>3. TypesTyped(of, r, k)
  <2>0. 1 .. k \subseteq Node
    BY NodeAssumption
  <2>1. b.latest_type_mods[of[n]] \in Int
    BY DEF TypesTyped
  <2>2. r.type_mod = [y \in Node |-> r.type_mod[y]]
    BY <1>1
  <2>3. \A y \in 1 .. k : r.type_mod[y] \in Int
    BY <1>1, <2>0, <2>1 DEF TypesTyped
  <2>. QED  BY <1>1, <2>2, <2>3 DEF TypesTyped
<1>4. \A y \in Node : y \in stale <=> y \in called /\ b.type_mod[y] < b.latest_type_mods[of[n]]
  OBVIOUS
<1>5. CallEffect(t, of, b, r, n)
  <2>. HIDE DEF stale
  <2>. QED  BY <1>1, <1>2, <1>4 DEF CallEffect
<1>. QED  BY <1>3, <1>5

\* A node whose type_dfi() is called runs it.
LEMMA TypeCalledItself ==
  ASSUME NEW t, NEW of, NEW b, NEW k \in 1 .. MaxNodes, Ancestry(t, k), NEW n \in 1 .. k
  PROVE  n \in TypeCalled(t, of, b, n)
<1>1. \A z \in TypeAncestors(t, of, n) \cup {n} : n \notin t.above[z]
  BY AboveBefore DEF TypeAncestors
<1>. QED  BY <1>1 DEF TypeCalled

\* The number type_dfi() answers with, and that it is up to date afterwards.
LEMMA CallAnswers ==
  ASSUME NEW t, NEW of, NEW b, NEW count, NEW k \in 1 .. MaxNodes, TreeShape(t),
         Ancestry(t, k), NEW n \in 1 .. k, TypesTyped(of, b, k)
  PROVE  /\ CallTypeDfi(t, of, b, count, n).type_base_index[n] = TypeValues(t, of, b)[n]
         /\ CallTypeDfi(t, of, b, count, n).type_mod[n] >= b.latest_type_mods[of[n]]
<1>. PICK r : r = CallTypeDfi(t, of, b, count, n)
  OBVIOUS
<1>. DEFINE called == TypeCalled(t, of, b, n)
<1>c. CallEffect(t, of, b, r, n) /\ TypesTyped(of, r, k)
  BY CallMods
<1>. DEFINE latest == b.latest_type_mods[of[n]]
<1>1. n \in Node /\ n \in TypeCalled(t, of, b, n)
  BY TypeCalledItself, NodeAssumption
<1>2. b.type_mod[n] \in Int /\ latest \in Int
  BY DEF TypesTyped
<1>3. IF b.type_mod[n] < latest
      THEN r.type_mod[n] = latest /\ r.type_base_index[n] = TypeValues(t, of, b)[n]
      ELSE r.type_mod[n] = b.type_mod[n] /\ r.type_base_index[n] = b.type_base_index[n]
  BY <1>1, <1>c DEF CallEffect
<1>4. b.type_mod[n] >= latest => TypeValues(t, of, b)[n] = b.type_base_index[n]
  <2>1. TypeValues(t, of, b)[n] =
          IF TypeParent(t, of, n) = NULL \/ b.type_mod[n] >= b.latest_type_mods[of[n]]
          THEN b.type_base_index[n]
          ELSE b.type_base_index[n] + TypeValues(t, of, b)[TypeParent(t, of, n)]
                 - b.cached_type_parent_dfi[n]
    BY <1>1, TypeValuesDef
  <2>. QED  BY <2>1
<1>. QED  BY <1>2, <1>3, <1>4

\* Whatever is read, type_dfi() answers what it would have answered before.
LEMMA CallKeepsValues ==
  ASSUME NEW t, NEW of, NEW b, NEW count, NEW k \in 1 .. MaxNodes, TreeShape(t),
         Ancestry(t, k), NEW n \in 1 .. k, TypesTyped(of, b, k)
  PROVE  TypeValues(t, of, CallTypeDfi(t, of, b, count, n)) = TypeValues(t, of, b)
<1>. PICK r : r = CallTypeDfi(t, of, b, count, n)
  OBVIOUS
<1>. DEFINE called == TypeCalled(t, of, b, n)
<1>c. CallEffect(t, of, b, r, n) /\ TypesTyped(of, r, k)
  BY CallMods
<1>. DEFINE f == TypeValues(t, of, r)
            g == TypeValues(t, of, b)
            up == [m \in Node |-> TypeParent(t, of, m)]
<1>1. /\ r.latest_type_mods = b.latest_type_mods
      /\ \A y \in Node :
           /\ y \in called => of[y] = of[n]
           /\ IF y \in called /\ b.type_mod[y] < b.latest_type_mods[of[n]]
              THEN /\ r.type_mod[y] = b.latest_type_mods[of[n]]
                   /\ r.type_base_index[y] = g[y]
              ELSE /\ r.type_mod[y] = b.type_mod[y]
                   /\ r.type_base_index[y] = b.type_base_index[y]
           /\ y \notin called =>
                r.cached_type_parent_dfi[y] = b.cached_type_parent_dfi[y]
  BY <1>c DEF CallEffect
<1>2. \A y \in Node :
        f[y] = IF TypeParent(t, of, y) = NULL \/ r.type_mod[y] >= r.latest_type_mods[of[y]]
               THEN r.type_base_index[y]
               ELSE r.type_base_index[y] + f[TypeParent(t, of, y)]
                      - r.cached_type_parent_dfi[y]
  BY TypeValuesDef
<1>3. \A y \in Node :
        g[y] = IF TypeParent(t, of, y) = NULL \/ b.type_mod[y] >= b.latest_type_mods[of[y]]
               THEN b.type_base_index[y]
               ELSE b.type_base_index[y] + g[TypeParent(t, of, y)]
                      - b.cached_type_parent_dfi[y]
  BY TypeValuesDef
<1>4. \A y \in 1 .. k : b.type_mod[y] \in Int /\ b.latest_type_mods[of[y]] \in Int
  BY DEF TypesTyped
<1>5. Node = 1 .. MaxNodes /\ MaxNodes \in Nat
  BY NodeAssumption
<1>6. ASSUME NEW y \in Node
      PROVE  \/ f[y] = g[y]
             \/ up[y] \in 1 .. y - 1 /\ (f[up[y]] = g[up[y]] => f[y] = g[y])
  <2>0. up[y] = TypeParent(t, of, y)
    OBVIOUS
  <2>. HIDE DEF f, g, up
  <2>1. CASE TypeParent(t, of, y) = NULL
    BY <1>1, <1>2, <1>3, <2>1
  <2>2. CASE TypeParent(t, of, y) # NULL
    <3>1. y \in 1 .. k /\ TypeParent(t, of, y) \in 1 .. y - 1
      BY <2>2, TypeParentFacts
    <3>2. CASE y \in called
      BY <1>1, <1>2, <1>3, <1>4, <3>1, <3>2
    <3>3. CASE y \notin called
      BY <1>1, <1>2, <1>3, <2>0, <3>1, <3>3
    <3>. QED  BY <3>2, <3>3
  <2>. QED  BY <2>1, <2>2
<1>7. \A y \in 1 .. MaxNodes : f[y] = g[y]
  <2>. HIDE DEF f, g, up
  <2>1. AgreeFromBelow(f, g, up, MaxNodes)
    BY <1>5, <1>6 DEF AgreeFromBelow
  <2>. QED  BY <1>5, <2>1, ClimbUnique DEF Agree
<1>8. f = [y \in Node |-> f[y]] /\ g = [y \in Node |-> g[y]]
  BY TypeValuesDef
<1>. QED  BY <1>5, <1>7, <1>8, Zenon

\* A call of type_dfi() keeps the type index fresh, and makes no node less up to date.
LEMMA CallKeepsFresh ==
  ASSUME NEW t, NEW of, NEW b, NEW count, NEW k \in 1 .. MaxNodes, NEW K \in k .. MaxNodes,
         TreeShape(t), Ancestry(t, K), NEW n \in 1 .. k,
         TypesTyped(of, b, k), TypesFresh(t, of, b, k)
  PROVE  /\ TypesFresh(t, of, CallTypeDfi(t, of, b, count, n), k)
         /\ \A y \in 1 .. k : b.type_mod[y] <= CallTypeDfi(t, of, b, count, n).type_mod[y]
<1>. PICK r : r = CallTypeDfi(t, of, b, count, n)
  OBVIOUS
<1>. DEFINE called == TypeCalled(t, of, b, n)
<1>c. CallEffect(t, of, b, r, n) /\ TypesTyped(of, r, k)
  BY CallMods
<1>. DEFINE latest == b.latest_type_mods[of[n]]
<1>0. 1 .. k \subseteq Node /\ 1 .. k \subseteq 1 .. K /\ K \in 1 .. MaxNodes
  BY NodeAssumption
<1>1. /\ r.latest_type_mods = b.latest_type_mods
      /\ \A y \in 1 .. k :
           /\ y \in called => of[y] = of[n]
           /\ r.type_mod[y] = IF y \in called /\ b.type_mod[y] < latest THEN latest
                              ELSE b.type_mod[y]
  BY <1>0, <1>c DEF CallEffect
<1>2. \A y \in 1 .. k : b.type_mod[y] \in Int /\ b.latest_type_mods[of[y]] \in Int
  BY DEF TypesTyped
<1>3. \A y \in 1 .. k : b.type_mod[y] <= r.type_mod[y]
  BY <1>1, <1>2
<1>4. \A y \in 1 .. k : r.type_mod[y] <= r.latest_type_mods[of[y]]
  BY <1>1, <1>2 DEF TypesFresh
<1>5. ASSUME NEW m \in 1 .. k, NEW y \in TypeAncestors(t, of, m)
      PROVE  r.type_mod[m] <= r.type_mod[y]
  <2>1. y \in t.above[m] /\ of[y] = of[m] /\ y \in 1 .. k
    BY <1>0, AboveBefore DEF TypeAncestors
  <2>2. b.type_mod[m] <= b.type_mod[y]
    BY DEF TypesFresh
  <2>3. CASE ~(m \in called /\ b.type_mod[m] < latest)
    <3>1. r.type_mod[m] = b.type_mod[m]
      BY <1>1, <2>3
    <3>. QED  BY <1>1, <1>2, <2>1, <2>2, <3>1
  <2>4. CASE m \in called /\ b.type_mod[m] < latest /\ b.type_mod[y] >= latest
    BY <1>1, <1>2, <2>1, <2>4
  <2>5. CASE m \in called /\ b.type_mod[m] < latest /\ b.type_mod[y] < latest
    <3>1. m \in TypeAncestors(t, of, n) \cup {n} /\ of[m] = of[n]
      BY <2>5 DEF TypeCalled, TypeAncestors
    <3>2. y \in TypeAncestors(t, of, n)
      BY <1>0, <2>1, <3>1 DEF TypeAncestors, Ancestry
    <3>3. ASSUME NEW z \in TypeAncestors(t, of, n) \cup {n}, y \in t.above[z]
          PROVE  b.type_mod[z] < latest
      <4>1. z \in 1 .. k /\ of[z] = of[n]
        BY <1>0, AboveBefore DEF TypeAncestors
      <4>2. CASE z = m
        BY <2>5, <4>2
      <4>3. CASE m \in t.above[z]
        BY <2>5, <3>3, <4>3 DEF TypeCalled
      <4>4. CASE z \in t.above[m]
        <5>1. b.type_mod[z] <= b.type_mod[y]
          BY <2>1, <3>1, <3>3, <4>1 DEF TypesFresh, TypeAncestors
        <5>2. latest \in Int
          BY <1>2
        <5>. QED  BY <1>2, <2>1, <2>5, <4>1, <5>1, <5>2
      <4>5. z = m \/ m \in t.above[z] \/ z \in t.above[m]
        BY <1>0, <3>1 DEF TypeAncestors, Ancestry
      <4>. QED  BY <4>2, <4>3, <4>4, <4>5
    <3>4. y \in called
      BY <3>2, <3>3 DEF TypeCalled
    <3>. QED  BY <1>1, <1>2, <2>1, <2>5, <3>4
  <2>. QED  BY <1>2, <2>1, <2>3, <2>4, <2>5
<1>6. TypesFresh(t, of, r, k)
  <2>. HIDE DEF latest
  <2>. QED  BY <1>4, <1>5 DEF TypesFresh
<1>. QED  BY <1>3, <1>6

-----------------------------------------------------------------------------
(* Several calls of type_dfi(), one after the other *)

\* r is what the type index b becomes by calls of type_dfi().
CaughtUp(b, r) ==
  /\ TypesTyped(type, r, size)
  /\ TypesFresh(tree, type, r, size)
  /\ r.latest_type_mods = b.latest_type_mods
  /\ TypeValues(tree, type, r) = TypeValues(tree, type, b)
  /\ \A y \in Nodes : r.type_mod[y] \in Int /\ b.type_mod[y] <= r.type_mod[y]

LEMMA CaughtUpItself ==
  ASSUME TreeSound, NEW b, TypesTyped(type, b, size), TypesFresh(tree, type, b, size)
  PROVE  CaughtUp(b, b)
<1>1. \A y \in Nodes : b.type_mod[y] \in Int
  BY DEF TypesTyped, Nodes
<1>. QED  BY <1>1 DEF CaughtUp

LEMMA CalledCatchesUp ==
  ASSUME TreeSound, NEW b, TypesTyped(type, b, size), NEW r, CaughtUp(b, r), NEW n \in Nodes
  PROVE  CaughtUp(b, CalledType(r, n))
<1>. PICK q : q = CallTypeDfi(tree, type, r, Count(type[n]), n)
  OBVIOUS
<1>1. /\ size \in 1 .. MaxNodes /\ size \in size .. MaxNodes /\ n \in 1 .. size
      /\ TreeShape(tree) /\ Ancestry(tree, size)
      /\ TypesTyped(type, r, size) /\ TypesFresh(tree, type, r, size)
  BY DEF TreeSound, Nodes, CaughtUp
<1>2. CallEffect(tree, type, r, q, n) /\ TypesTyped(type, q, size)
  BY <1>1, CallMods
<1>3. TypesFresh(tree, type, q, size) /\ \A y \in 1 .. size : r.type_mod[y] <= q.type_mod[y]
  BY <1>1, CallKeepsFresh
<1>4. TypeValues(tree, type, q) = TypeValues(tree, type, r)
  BY <1>1, CallKeepsValues
<1>5. \A y \in Nodes : q.type_mod[y] \in Int /\ b.type_mod[y] \in Int
  BY <1>2 DEF TypesTyped, Nodes
<1>6. q.latest_type_mods = r.latest_type_mods
  BY <1>2 DEF CallEffect
<1>7. \A y \in Nodes : q.type_mod[y] \in Int /\ b.type_mod[y] <= q.type_mod[y]
  BY <1>3, <1>5 DEF CaughtUp, Nodes
<1>8. CaughtUp(b, q)
  BY <1>2, <1>3, <1>4, <1>6, <1>7 DEF CaughtUp
<1>. QED  BY <1>8 DEF CalledType

\* The calls of CallTypeDfis can be made.
CallSteps(f, b, nodes, S, k) ==
  f = [i \in 0 .. k |->
         IF i = 0 THEN b
         ELSE IF nodes[i] \in S THEN CalledType(f[i - 1], nodes[i])
         ELSE f[i - 1]]

LEMMA CallStepsDefined ==
  ASSUME NEW b, NEW nodes, NEW S, NEW L \in Nat
  PROVE  \E f : CallSteps(f, b, nodes, S, L)
<1>. DEFINE T == {k \in 0 .. L : \E f : CallSteps(f, b, nodes, S, k)}
<1>1. 0 \in T
  <2>1. CallSteps([i \in 0 .. 0 |-> b], b, nodes, S, 0)
    BY DEF CallSteps
  <2>. QED  BY <2>1
<1>2. ASSUME NEW k \in 0 .. L - 1, k \in T
      PROVE  k + 1 \in T
  <2>1. PICK f : CallSteps(f, b, nodes, S, k)
    BY <1>2
  <2>. PICK last : last = IF nodes[k + 1] \in S THEN CalledType(f[k], nodes[k + 1]) ELSE f[k]
    OBVIOUS
  <2>. PICK g : g = [i \in 0 .. k + 1 |-> IF i = k + 1 THEN last ELSE f[i]]
    OBVIOUS
  <2>2. k + 1 \in 0 .. L /\ \A i \in 0 .. k : i \in 0 .. k + 1 /\ i # k + 1
    OBVIOUS
  <2>3. g[k + 1] = last /\ \A i \in 0 .. k : g[i] = f[i]
    BY <2>2
  <2>4. ASSUME NEW i \in 0 .. k + 1
        PROVE  g[i] = IF i = 0 THEN b
                      ELSE IF nodes[i] \in S THEN CalledType(g[i - 1], nodes[i])
                      ELSE g[i - 1]
    <3>1. CASE i = k + 1
      <4>1. i - 1 = k /\ i # 0 /\ g[i - 1] = f[k]
        BY <2>3, <3>1
      <4>. QED  BY <2>3, <3>1, <4>1
    <3>2. CASE i \in 0 .. k
      <4>1. f[i] = IF i = 0 THEN b
                   ELSE IF nodes[i] \in S THEN CalledType(f[i - 1], nodes[i])
                   ELSE f[i - 1]
        BY <2>1, <3>2 DEF CallSteps
      <4>2. g[i] = f[i] /\ (i # 0 => g[i - 1] = f[i - 1])
        BY <2>3, <3>2
      <4>. QED  BY <4>1, <4>2
    <3>. QED  BY <3>1, <3>2
  <2>5. g = [i \in 0 .. k + 1 |-> g[i]]
    OBVIOUS
  <2>6. CallSteps(g, b, nodes, S, k + 1)
    BY <2>4, <2>5 DEF CallSteps
  <2>. QED  BY <2>2, <2>6
<1>3. 0 .. L \subseteq T
  BY <1>1, <1>2, Reaches
<1>. QED  BY <1>3

LEMMA CallsCatchUp ==
  ASSUME TreeSound, NEW b, TypesTyped(type, b, size), TypesFresh(tree, type, b, size),
         NEW nodes, Len(nodes) \in Nat, NEW S, S \subseteq Nodes
  PROVE  CaughtUp(b, CallTypeDfis(b, nodes, S))
<1>. PICK L \in Nat : L = Len(nodes)
  OBVIOUS
<1>. DEFINE after == CHOOSE f : CallSteps(f, b, nodes, S, L)
<1>1. CallSteps(after, b, nodes, S, L)
  BY CallStepsDefined
<1>2. CallTypeDfis(b, nodes, S) = after[L]
  BY DEF CallTypeDfis, CallSteps
<1>. HIDE DEF after
<1>. DEFINE T == {i \in 0 .. L : CaughtUp(b, after[i])}
<1>3. 0 \in T
  <2>1. after[0] = b
    BY <1>1 DEF CallSteps
  <2>. QED  BY <2>1, CaughtUpItself
<1>4. ASSUME NEW i \in 0 .. L - 1, i \in T
      PROVE  i + 1 \in T
  <2>1. i + 1 \in 0 .. L /\ i + 1 # 0 /\ (i + 1) - 1 = i /\ CaughtUp(b, after[i])
    BY <1>4
  <2>2. after[i + 1] = IF nodes[i + 1] \in S THEN CalledType(after[i], nodes[i + 1])
                       ELSE after[i]
    BY <1>1, <2>1 DEF CallSteps
  <2>3. CaughtUp(b, after[i + 1])
    BY <2>1, <2>2, CalledCatchesUp
  <2>. QED  BY <2>1, <2>3
<1>5. 0 .. L \subseteq T
  BY <1>3, <1>4, Reaches
<1>. QED  BY <1>2, <1>5

\* The climb of propagate_dfi_change, which SideSeq follows, ends at the root.
SideClimb(f, k) ==
  f = [y \in 1 .. k \cup {NULL} |->
         IF y = NULL THEN <<>> ELSE tree.children[y] \o f[tree.parent[y]]]

LEMMA SideClimbDefined ==
  ASSUME TreeSound
  PROVE  \E f : SideClimb(f, MaxNodes)
<1>. DEFINE T == {k \in 0 .. MaxNodes : \E f : SideClimb(f, k)}
<1>0. MaxNodes \in Nat /\ Node = 1 .. MaxNodes /\ NULL \notin 1 .. MaxNodes
  BY NodeAssumption, NullAssumption
<1>1. 0 \in T
  <2>1. SideClimb([y \in 1 .. 0 \cup {NULL} |-> <<>>], 0)
    BY DEF SideClimb
  <2>. QED  BY <1>0, <2>1
<1>2. ASSUME NEW k \in 0 .. MaxNodes - 1, k \in T
      PROVE  k + 1 \in T
  <2>1. PICK f : SideClimb(f, k)
    BY <1>2
  <2>. PICK n : n = k + 1
    OBVIOUS
  <2>. PICK last : last = tree.children[n] \o f[tree.parent[n]]
    OBVIOUS
  <2>. PICK g : g = [y \in 1 .. n \cup {NULL} |-> IF y = n THEN last ELSE f[y]]
    OBVIOUS
  <2>2. /\ n \in 0 .. MaxNodes /\ n \in Node /\ n # NULL
        /\ 1 .. n \cup {NULL} = (1 .. k \cup {NULL}) \cup {n} /\ n \notin 1 .. k \cup {NULL}
    BY <1>0
  <2>3. g[n] = last /\ \A y \in 1 .. k \cup {NULL} : g[y] = f[y]
    BY <2>2
  <2>4. \A y \in 1 .. n : tree.parent[y] \in 1 .. k \cup {NULL}
    <3>. SUFFICES ASSUME NEW y \in 1 .. n, tree.parent[y] # NULL
                  PROVE  tree.parent[y] \in 1 .. k
      OBVIOUS
    <3>1. y \in Node /\ size \in 1 .. MaxNodes
      BY <1>0, <2>2 DEF TreeSound
    <3>2. tree.parent[y] \in 1 .. y - 1
      BY <3>1, ParentBefore DEF TreeSound
    <3>. QED  BY <3>2
  <2>5. ASSUME NEW y \in 1 .. n \cup {NULL}
        PROVE  g[y] = IF y = NULL THEN <<>> ELSE tree.children[y] \o g[tree.parent[y]]
    <3>1. CASE y = n
      BY <2>2, <2>3, <2>4, <3>1
    <3>2. CASE y \in 1 .. k \cup {NULL}
      <4>1. f[y] = IF y = NULL THEN <<>> ELSE tree.children[y] \o f[tree.parent[y]]
        BY <2>1, <3>2 DEF SideClimb
      <4>2. y # NULL => y \in 1 .. n
        OBVIOUS
      <4>. QED  BY <2>3, <2>4, <3>2, <4>1, <4>2
    <3>. QED  BY <2>2, <3>1, <3>2
  <2>6. g = [y \in 1 .. n \cup {NULL} |-> g[y]]
    OBVIOUS
  <2>7. SideClimb(g, n)
    BY <2>5, <2>6 DEF SideClimb
  <2>. QED  BY <2>2, <2>7
<1>3. 0 .. MaxNodes \subseteq T
  BY <1>0, <1>1, <1>2, Reaches
<1>. QED  BY <1>0, <1>3

LEMMA SideSeqTyped ==
  ASSUME TreeSound, NEW d \in Nodes
  PROVE  SideSeq(d) \in Seq(Node) /\ Len(SideSeq(d)) \in Nat
<1>. DEFINE climb == CHOOSE f : SideClimb(f, MaxNodes)
<1>0. /\ MaxNodes \in Nat /\ Node = 1 .. MaxNodes /\ NULL \notin 1 .. MaxNodes
      /\ size \in 1 .. MaxNodes
  BY NodeAssumption, NullAssumption DEF TreeSound
<1>1. SideClimb(climb, MaxNodes)
  BY SideClimbDefined
<1>2. SideSeq(d) = climb[d]
  BY <1>0, Zenon DEF SideSeq, SideClimb
<1>. HIDE DEF climb
<1>. DEFINE T == {y \in 1 .. MaxNodes : climb[y] \notin Seq(Node)}
<1>3. T = {}
  <2>. SUFFICES ASSUME T # {}  PROVE FALSE
    OBVIOUS
  <2>1. PICK y \in T : \A z \in T : y <= z
    <3>1. T \subseteq Nat
      OBVIOUS
    <3>. HIDE DEF T
    <3>. QED  BY <3>1, LeastMember
  <2>2. climb[y] = tree.children[y] \o climb[tree.parent[y]] /\ climb[NULL] = <<>>
    BY <1>0, <1>1 DEF SideClimb
  <2>3. climb[tree.parent[y]] \in Seq(Node)
    <3>1. CASE tree.parent[y] = NULL
      BY <2>2, <3>1, EmptySeq
    <3>2. CASE tree.parent[y] # NULL
      <4>1. PICK q \in 1 .. y - 1 : q = tree.parent[y]
        BY <1>0, <3>2, ParentBefore DEF TreeSound
      <4>2. q \in 1 .. MaxNodes /\ ~(y <= q)
        BY <1>0
      <4>3. q \notin T
        BY <2>1, <4>2
      <4>. QED  BY <4>1, <4>2, <4>3
    <3>. QED  BY <3>1, <3>2
  <2>4. tree.children[y] \in Seq(Node)
    BY <1>0 DEF TreeSound, TreeShape
  <2>5. climb[y] \in Seq(Node)
    BY <2>2, <2>3, <2>4, ConcatProperties
  <2>. QED  BY <2>5
<1>4. climb[d] \in Seq(Node)
  BY <1>0, <1>3 DEF Nodes
<1>. QED  BY <1>2, <1>4

-----------------------------------------------------------------------------
(* The type index after an insertion *)

\* propagate_dfi_change keeps the type index fresh: of the displaced node's type it
\* marks every ancestor of a node it marks.
LEMMA PropagateTypeFresh ==
  ASSUME TreeSound, NEW d \in Nodes, NEW b,
         TypesTyped(type, b, size), TypesFresh(tree, type, b, size)
  PROVE  /\ TypesTyped(type, PropagateType(b, d), size)
         /\ TypesFresh(tree, type, PropagateType(b, d), size)
         /\ \A x \in Types :
              b.latest_type_mods[x] <= PropagateType(b, d).latest_type_mods[x]
<1>. DEFINE k == type[d]
            first == CalledType(b, d)
            seen == CallTypeDfis(first, SideSeq(d), Side(tree, d))
            path == {y \in Path(tree, d) : type[y] = k}
            side == {y \in Side(tree, d) : type[y] = k}
            shift == NotBefore(seen.type_base_index, path \cup side,
                               first.type_base_index[d])
            M == Marked(path, shift)
            r == PropagateType(b, d)
<1>0. Nodes = 1 .. size /\ Nodes \subseteq Node /\ k \in Types
  <2>1. Nodes = 1 .. size /\ Nodes \subseteq Node
    BY NodeAssumption DEF TreeSound, Nodes
  <2>. QED  BY <2>1 DEF TypesTyped
<1>1. CaughtUp(b, first)
  BY CaughtUpItself, CalledCatchesUp
<1>2. CaughtUp(first, seen)
  <2>. HIDE DEF first
  <2>1. Len(SideSeq(d)) \in Nat /\ Side(tree, d) \subseteq Nodes
    BY SideSeqTyped DEF Side
  <2>. QED  BY <1>1, <2>1, CallsCatchUp DEF CaughtUp
<1>3. /\ r.type_mod = [y \in Node |-> IF y \in M THEN seen.latest_type_mods[k] + 1
                                      ELSE seen.type_mod[y]]
      /\ r.latest_type_mods = [seen.latest_type_mods EXCEPT ![k] = @ + 1]
  BY DEF PropagateType
<1>4. \A y \in M : type[y] = k /\ y \in Path(tree, d) \cup Side(tree, d)
  BY DEF Marked, NotBefore
<1>5. \A y \in Path(tree, d) : type[y] = k => y \in M
  BY DEF Marked
<1>. HIDE DEF first, seen, path, side, shift, M, r
<1>6. /\ seen.latest_type_mods = b.latest_type_mods
      /\ b.latest_type_mods \in [Types -> Int]
      /\ TypesTyped(type, seen, size) /\ TypesFresh(tree, type, seen, size)
  BY <1>1, <1>2 DEF CaughtUp, TypesTyped
<1>7. /\ r.latest_type_mods \in [Types -> Int]
      /\ \A x \in Types : /\ seen.latest_type_mods[x] <= r.latest_type_mods[x]
                          /\ x = k => r.latest_type_mods[x] = seen.latest_type_mods[k] + 1
  BY <1>0, <1>3, <1>6
<1>8. \A y \in Nodes : /\ type[y] \in Types /\ seen.type_mod[y] \in Int
                       /\ seen.type_mod[y] <= seen.latest_type_mods[type[y]]
                       /\ seen.latest_type_mods[type[y]] \in Int
                       /\ seen.latest_type_mods[k] \in Int
                       /\ r.latest_type_mods[type[y]] \in Int
  BY <1>0, <1>6, <1>7 DEF TypesTyped, TypesFresh
<1>9. \A y \in Nodes : r.type_mod[y] = IF y \in M THEN seen.latest_type_mods[k] + 1
                                       ELSE seen.type_mod[y]
  BY <1>0, <1>3
<1>10. TypesTyped(type, r, size)
  <2>1. r.type_mod = [y \in Node |-> r.type_mod[y]]
    BY <1>3
  <2>. QED  BY <1>0, <1>7, <1>8, <1>9, <2>1, ZenonT(60) DEF TypesTyped
<1>11. \A y \in Nodes : r.type_mod[y] <= r.latest_type_mods[type[y]]
  BY <1>4, <1>7, <1>8, <1>9
<1>12. ASSUME NEW n \in Nodes, NEW y \in TypeAncestors(tree, type, n)
       PROVE  r.type_mod[n] <= r.type_mod[y]
  <2>1. y \in tree.above[n] /\ type[y] = type[n]
    BY DEF TypeAncestors
  <2>2. y \in Nodes
    BY <1>0, <2>1, AboveBefore DEF TreeSound
  <2>3. CASE n \in M
    <3>1. y \in Path(tree, d) /\ type[y] = k
      BY <1>4, <2>1, <2>3, VisitedAncestors
    <3>2. y \in M
      BY <1>5, <3>1
    <3>. QED  BY <1>8, <1>9, <2>2, <2>3, <3>2
  <2>4. CASE n \notin M
    <3>1. seen.type_mod[n] <= seen.type_mod[y]
      BY <1>0, <1>6 DEF TypesFresh
    <3>2. y \in M => type[n] = k
      BY <1>4, <2>1
    <3>. QED  BY <1>8, <1>9, <2>2, <2>4, <3>1, <3>2
  <2>. QED  BY <2>3, <2>4
<1>13. TypesFresh(tree, type, r, size)
  BY <1>0, <1>11, <1>12 DEF TypesFresh
<1>14. \A x \in Types : b.latest_type_mods[x] <= r.latest_type_mods[x]
  BY <1>6, <1>7
<1>. QED  BY <1>10, <1>13, <1>14 DEF r

\* What holds of a type index in a filter holds of it in the filter with one node more,
\* as long as it is said of the old nodes only.
LEMMA HungTypes ==
  ASSUME TreeSound, size < MaxNodes, NEW p \in Nodes, NEW k \in Types,
         type \in [Node -> Types \cup {NULL}], NEW b,
         TypesTyped(type, b, size), TypesFresh(tree, type, b, size)
  PROVE  LET of == [type EXCEPT ![size + 1] = k]
         IN  TypesTyped(of, b, size) /\ TypesFresh(Hung(tree, size + 1, p), of, b, size)
<1>. PICK of : of = [type EXCEPT ![size + 1] = k]
  OBVIOUS
<1>. PICK h : h = Hung(tree, size + 1, p)
  OBVIOUS
<1>1. /\ size + 1 \in Node /\ size + 1 \notin 1 .. size /\ 1 .. size \subseteq Node
      /\ size \in 1 .. MaxNodes
  BY NodeAssumption DEF TreeSound
<1>2. \A n \in 1 .. size : of[n] = type[n] /\ h.above[n] = tree.above[n]
  BY <1>1 DEF Hung, TreeSound, TreeShape
<1>3. \A n \in 1 .. size : tree.above[n] \subseteq 1 .. size
  BY <1>1, AboveBefore DEF TreeSound
<1>4. TypesTyped(of, b, size)
  BY <1>2 DEF TypesTyped
<1>5. TypesFresh(h, of, b, size)
  BY <1>2, <1>3 DEF TypesFresh, TypeAncestors
<1>. QED  BY <1>4, <1>5

\* The new node is as up to date as its type was when insert() began, and no more
\* than its ancestors of the type.
LEMMA CreatedTypeFresh ==
  ASSUME TreeSound, size < MaxNodes, NEW p \in Nodes, NEW k \in Types, NEW plan,
         plan.node = size + 1, plan.tree = Hung(tree, size + 1, p),
         plan.displaced \in Nodes \cup {NULL}, NEW closest \in Nodes \cup {NULL},
         type \in [Node -> Types \cup {NULL}],
         TypesTyped(type, ty, size), TypesFresh(tree, type, ty, size)
  PROVE  LET of == [type EXCEPT ![size + 1] = k]
             r  == CreatedType(plan, k, closest)
         IN  TypesTyped(of, r, size + 1) /\ TypesFresh(plan.tree, of, r, size + 1)
<1>. PICK n : n = size + 1
  OBVIOUS
<1>. PICK h : h = plan.tree
  OBVIOUS
<1>. PICK of : of = [type EXCEPT ![n] = k]
  OBVIOUS
<1>. DEFINE moved == plan.displaced # NULL
            asked == IF moved /\ closest # NULL THEN CalledType(ty, closest) ELSE ty
            renumbered == IF moved THEN PropagateType(asked, plan.displaced) ELSE asked
            parent == TypeParent(h, of, n)
            count == IF moved THEN Count(k) ELSE Count(k) + 1
            b == IF parent = NULL THEN renumbered
                 ELSE CallTypeDfi(h, of, renumbered, count, parent)
            r == CreatedType(plan, k, closest)
<1>0. /\ n \in Node /\ n \in 1 .. MaxNodes /\ n \notin 1 .. size /\ 1 .. size \subseteq Node
      /\ size \in 1 .. MaxNodes /\ n \in size .. MaxNodes /\ Nodes = 1 .. size
      /\ 1 .. n = 1 .. size \cup {n}
  BY NodeAssumption DEF TreeSound, Nodes
<1>1. TreeShape(h) /\ Ancestry(h, n)
  BY <1>0, HungSound DEF TreeSound
<1>2. CaughtUp(ty, asked)
  BY CaughtUpItself, CalledCatchesUp
<1>3. /\ TypesTyped(type, renumbered, size) /\ TypesFresh(tree, type, renumbered, size)
      /\ ty.latest_type_mods[k] <= renumbered.latest_type_mods[k]
      /\ ty.latest_type_mods[k] \in Int /\ renumbered.latest_type_mods[k] \in Int
  <2>. HIDE DEF asked
  <2>0. /\ TypesTyped(type, asked, size) /\ TypesFresh(tree, type, asked, size)
        /\ asked.latest_type_mods = ty.latest_type_mods
        /\ ty.latest_type_mods[k] \in Int
    BY <1>2 DEF CaughtUp, TypesTyped
  <2>1. CASE ~moved
    BY <2>0, <2>1
  <2>2. CASE moved
    <3>1. /\ TypesTyped(type, PropagateType(asked, plan.displaced), size)
          /\ TypesFresh(tree, type, PropagateType(asked, plan.displaced), size)
          /\ \A x \in Types : asked.latest_type_mods[x]
                               <= PropagateType(asked, plan.displaced).latest_type_mods[x]
      BY <2>0, <2>2, PropagateTypeFresh
    <3>. QED  BY <2>0, <2>2, <3>1 DEF TypesTyped
  <2>. QED  BY <2>1, <2>2
<1>4. TypesTyped(of, renumbered, size) /\ TypesFresh(h, of, renumbered, size)
  <2>. HIDE DEF renumbered
  <2>. QED  BY <1>3, HungTypes
<1>5. r.type_mod = [b.type_mod EXCEPT ![n] = ty.latest_type_mods[k]]
      /\ r.latest_type_mods = b.latest_type_mods
  BY DEF CreatedType
<1>6. parent # NULL => /\ parent \in 1 .. size /\ of[parent] = k
                       /\ parent \in TypeAncestors(h, of, n)
  <2>. SUFFICES ASSUME parent # NULL
                PROVE  /\ parent \in 1 .. size /\ of[parent] = k
                       /\ parent \in TypeAncestors(h, of, n)
    OBVIOUS
  <2>1. parent \in TypeAncestors(h, of, n) /\ parent \in 1 .. n - 1
    BY <1>0, <1>1, TypeParentFacts
  <2>2. of[n] = k /\ n - 1 = size
    BY <1>0
  <2>3. of[parent] = of[n]
    BY <2>1 DEF TypeAncestors
  <2>. HIDE DEF parent
  <2>. QED  BY <2>1, <2>2, <2>3
<1>. HIDE DEF moved, asked, renumbered, count, r
<1>7. /\ TypesTyped(of, b, size) /\ TypesFresh(h, of, b, size)
      /\ b.latest_type_mods = renumbered.latest_type_mods
      /\ parent # NULL => b.type_mod[parent] >= renumbered.latest_type_mods[k]
  <2>1. CASE parent = NULL
    BY <1>4, <2>1
  <2>2. CASE parent # NULL
    <3>. PICK q : q = parent
      OBVIOUS
    <3>. PICK c : c = CallTypeDfi(h, of, renumbered, count, q)
      OBVIOUS
    <3>1. q \in 1 .. size /\ of[q] = k
      BY <1>6, <2>2
    <3>2. CallEffect(h, of, renumbered, c, q) /\ TypesTyped(of, c, size)
      BY <1>0, <1>4, <3>1, CallMods
    <3>3. TypesFresh(h, of, c, size)
      BY <1>0, <1>1, <1>4, <3>1, CallKeepsFresh
    <3>4. q \in Node /\ q \in TypeCalled(h, of, renumbered, q)
      <4>1. q \in 1 .. n
        BY <1>0, <3>1
      <4>. QED  BY <1>0, <1>1, <3>1, <4>1, TypeCalledItself
    <3>5. c.type_mod[q] >= renumbered.latest_type_mods[k]
      <4>1. renumbered.latest_type_mods[k] \in Int /\ renumbered.type_mod[q] \in Int
        BY <1>3, <1>4, <3>1 DEF TypesTyped
      <4>2. IF renumbered.type_mod[q] < renumbered.latest_type_mods[of[q]]
            THEN c.type_mod[q] = renumbered.latest_type_mods[of[q]]
            ELSE c.type_mod[q] = renumbered.type_mod[q]
        BY <3>2, <3>4 DEF CallEffect
      <4>. QED  BY <3>1, <4>1, <4>2
    <3>6. b = c
      BY <2>2
    <3>. QED  BY <3>2, <3>3, <3>5, <3>6 DEF CallEffect
  <2>. QED  BY <2>1, <2>2
<1>. HIDE DEF b, parent
<1>8. /\ r.type_mod[n] = ty.latest_type_mods[k]
      /\ \A m \in 1 .. size : r.type_mod[m] = b.type_mod[m]
      /\ of[n] = k
      /\ \A m \in 1 .. size : of[m] \in Types /\ b.type_mod[m] \in Int
      /\ b.latest_type_mods \in [Types -> Int]
      /\ r.type_mod = [m \in Node |-> r.type_mod[m]]
  BY <1>0, <1>5, <1>7 DEF TypesTyped
<1>9. TypesTyped(of, r, n)
  <2>1. \A m \in 1 .. n : of[m] \in Types /\ r.type_mod[m] \in Int
    BY <1>0, <1>3, <1>8
  <2>. QED  BY <1>5, <1>8, <2>1 DEF TypesTyped
<1>10. ASSUME NEW m \in 1 .. n
       PROVE  /\ r.type_mod[m] <= r.latest_type_mods[of[m]]
              /\ \A y \in TypeAncestors(h, of, m) : r.type_mod[m] <= r.type_mod[y]
  <2>1. CASE m \in 1 .. size
    <3>1. \A y \in TypeAncestors(h, of, m) : y \in 1 .. size
      BY <1>0, <1>1, <2>1, AboveBefore DEF TypeAncestors
    <3>. QED  BY <1>5, <1>7, <1>8, <2>1, <3>1 DEF TypesFresh
  <2>2. CASE m = n
    <3>1. r.type_mod[n] <= r.latest_type_mods[k]
      BY <1>3, <1>5, <1>7, <1>8
    <3>2. ASSUME NEW y \in TypeAncestors(h, of, n)
          PROVE  r.type_mod[n] <= r.type_mod[y]
      <4>0. parent # NULL
        <5>1. TypeAncestors(h, of, n) # {}
          BY <3>2
        <5>2. PICK S : S = TypeAncestors(h, of, n)
          OBVIOUS
        <5>3. Deepest(h, S) \in S
          <6>1. S \subseteq h.above[n] \cup {n} /\ n \in 1 .. n
            BY <1>0, <5>2 DEF TypeAncestors
          <6>. QED  BY <1>0, <1>1, <5>1, <5>2, <6>1, DeepestOf
        <5>4. S \subseteq Node
          BY <1>0, <1>1, <5>2 DEF TypeAncestors, TreeShape
        <5>5. parent = Deepest(h, S)
          BY <5>1, <5>2 DEF parent, TypeParent
        <5>. QED  BY <5>3, <5>4, <5>5, NullAssumption
      <4>1. y = parent \/ y \in h.above[parent]
        BY <1>0, <1>1, <3>2, <4>0, TypeParentFacts DEF parent
      <4>2. y \in 1 .. size /\ of[y] = k
        BY <1>0, <1>1, <1>8, <3>2, AboveBefore DEF TypeAncestors
      <4>3. b.type_mod[parent] <= b.type_mod[y]
        <5>1. CASE y = parent
          BY <1>8, <4>2, <5>1
        <5>2. CASE y \in h.above[parent]
          <6>1. parent \in 1 .. size /\ of[parent] = k
            BY <1>6, <4>0
          <6>2. y \in TypeAncestors(h, of, parent)
            BY <4>2, <5>2, <6>1 DEF TypeAncestors
          <6>. QED  BY <1>7, <6>1, <6>2 DEF TypesFresh
        <5>. QED  BY <4>1, <5>1, <5>2
      <4>4. parent \in 1 .. size
        BY <1>6, <4>0
      <4>. QED  BY <1>3, <1>7, <1>8, <4>0, <4>2, <4>3, <4>4
    <3>. QED  BY <1>8, <2>2, <3>1, <3>2
  <2>. QED  BY <1>0, <2>1, <2>2
<1>11. TypesFresh(h, of, r, n)
  BY <1>10 DEF TypesFresh
<1>. QED  BY <1>9, <1>11 DEF r

-----------------------------------------------------------------------------
(* The invariant of the type index. *)

TInv ==
  /\ IInv
  /\ type \in [Node -> Types \cup {NULL}]
  /\ TypesTyped(type, ty, size)
  /\ TypeModsFresh

LEMMA TInvFresh == TInv <=> /\ IInv
                            /\ type \in [Node -> Types \cup {NULL}]
                            /\ TypesTyped(type, ty, size)
                            /\ TypesFresh(tree, type, ty, size)
BY DEF TInv, TypeModsFresh, TypesFresh, Nodes

\* An insertion fails and changes nothing, or adds its node to the type index.
LEMMA InsertOutcome ==
  ASSUME TInv, NEW p \in Nodes, NEW pos, NEW k \in Types, Insert(p, pos, k)
  PROVE  \/ UNCHANGED <<tree, size, idx, type, ty>>
         \/ \E plan, closest :
              /\ plan = Plan(p, pos)
              /\ closest \in Nodes \cup {NULL}
              /\ size' = size + 1
              /\ tree' = [plan.tree EXCEPT !.children[p] = InsertAt(@, pos + 1, plan.node)]
              /\ type' = [type EXCEPT ![plan.node] = k]
              /\ ty' = CreatedType(plan, k, closest)
<1>1. PICK plan, closest, early, late, failed :
        /\ plan = Plan(p, pos)
        /\ \/ closest = NULL
           \/ closest \in Closest(type_tables[k], val, plan.index)
        /\ failed \in SUBSET {150}
        /\ InsertNode(p, pos, early, late, failed)
        /\ IF fault' # 0 THEN UNCHANGED <<type, ty, type_tables, unread>>
           ELSE /\ type' = [type EXCEPT ![plan.node] = k]
                /\ ty' = CreatedType(plan, k, closest)
  <2>1. PICK plan :
          /\ plan = Plan(p, pos)
          /\ LET moved == plan.displaced # NULL
                 early == IF moved THEN ToSet(SearchPath(type_tables[k], val, plan.index))
                          ELSE {}
                 value == DfiValues(plan.tree, Created(p, plan, early))
                 late  == Met(type_tables[k], value, plan.node, moved)
                 grown == Tabled(type_tables[k], value, plan.node, moved)
             IN  \E closest \in IF moved THEN Closest(type_tables[k], val, plan.index)
                                ELSE {NULL} :
                 \E index \in {CreatedType(plan, k, closest)} :
                   LET wrong == index.type_base_index[plan.node] \notin 0 .. grown.count
                   IN  /\ InsertNode(p, pos, early, late, IF wrong THEN {150} ELSE {})
                       /\ IF fault' # 0 THEN UNCHANGED <<type, ty, type_tables, unread>>
                          ELSE /\ type' = [type EXCEPT ![plan.node] = k]
                               /\ ty' = index
                               /\ type_tables' = [type_tables EXCEPT ![k] = grown]
                               /\ unread' = Nodes'
    BY Zenon DEF Insert
  <2>. PICK early, value, late, grown :
         /\ early = IF plan.displaced # NULL
                    THEN ToSet(SearchPath(type_tables[k], val, plan.index)) ELSE {}
         /\ value = DfiValues(plan.tree, Created(p, plan, early))
         /\ late  = Met(type_tables[k], value, plan.node, plan.displaced # NULL)
         /\ grown = Tabled(type_tables[k], value, plan.node, plan.displaced # NULL)
    OBVIOUS
  <2>2. PICK closest \in IF plan.displaced # NULL
                         THEN Closest(type_tables[k], val, plan.index) ELSE {NULL} :
          \E index \in {CreatedType(plan, k, closest)} :
            LET wrong == index.type_base_index[plan.node] \notin 0 .. grown.count
            IN  /\ InsertNode(p, pos, early, late, IF wrong THEN {150} ELSE {})
                /\ IF fault' # 0 THEN UNCHANGED <<type, ty, type_tables, unread>>
                   ELSE /\ type' = [type EXCEPT ![plan.node] = k]
                        /\ ty' = index
    BY <2>1
  <2>3. closest = NULL \/ closest \in Closest(type_tables[k], val, plan.index)
    BY <2>2
  <2>4. \E failed \in SUBSET {150} :
          /\ InsertNode(p, pos, early, late, failed)
          /\ IF fault' # 0 THEN UNCHANGED <<type, ty, type_tables, unread>>
             ELSE /\ type' = [type EXCEPT ![plan.node] = k]
                  /\ ty' = CreatedType(plan, k, closest)
    BY <2>2, Zenon
  <2>. QED  BY <2>1, <2>3, <2>4
<1>2. PICK created, lines :
        /\ lines = FailedAsserts(p, pos, plan, DfiValues(plan.tree, created),
                                 IF plan.displaced # NULL
                                 THEN DfiValues(plan.tree, created)[plan.displaced]
                                 ELSE size + 1) \cup failed
        /\ \/ lines # {} /\ fault' = Min(lines) /\ UNCHANGED <<tree, size, idx>>
           \/ /\ lines = {}
              /\ tree' = [plan.tree EXCEPT !.children[p] = InsertAt(@, pos + 1, plan.node)]
              /\ size' = size + 1
              /\ UNCHANGED fault
  BY <1>1 DEF InsertNode
<1>3. fault = 0
  BY DEF Insert, CanInsert
<1>4. closest \in Nodes \cup {NULL}
  BY <1>1, Zenon DEF Closest
<1>5. CASE lines # {}
  <2>1. lines \subseteq Nat /\ 0 \notin lines
    BY <1>1, <1>2 DEF FailedAsserts
  <2>2. \E x \in lines : \A y \in lines : x <= y
    BY <1>5, <2>1, LeastMember
  <2>3. Min(lines) \in lines
    BY <2>2 DEF Min
  <2>. QED  BY <1>1, <1>2, <1>5, <2>1, <2>3
<1>6. CASE lines = {}
  BY <1>1, <1>2, <1>3, <1>4, <1>6
<1>. QED  BY <1>5, <1>6

LEMMA InsertTypesFresh ==
  ASSUME TInv, NEW p \in Nodes, NEW pos, NEW k \in Types, Insert(p, pos, k), IInv'
  PROVE  TInv'
<1>1. TypesTyped(type, ty, size) /\ TypesFresh(tree, type, ty, size) /\ TreeSound
  BY TInvFresh DEF IInv
<1>2. CASE UNCHANGED <<tree, size, idx, type, ty>>
  BY <1>2 DEF TInv, TypesTyped, TypeModsFresh, TypeAncestors, Nodes
<1>3. CASE \E plan, closest :
              /\ plan = Plan(p, pos)
              /\ closest \in Nodes \cup {NULL}
              /\ size' = size + 1
              /\ tree' = [plan.tree EXCEPT !.children[p] = InsertAt(@, pos + 1, plan.node)]
              /\ type' = [type EXCEPT ![plan.node] = k]
              /\ ty' = CreatedType(plan, k, closest)
  <2>1. PICK plan, closest :
              /\ plan = Plan(p, pos)
              /\ closest \in Nodes \cup {NULL}
              /\ size' = size + 1
              /\ tree' = [plan.tree EXCEPT !.children[p] = InsertAt(@, pos + 1, plan.node)]
              /\ type' = [type EXCEPT ![plan.node] = k]
              /\ ty' = CreatedType(plan, k, closest)
    BY <1>3
  <2>2. size < MaxNodes /\ pos \in 0 .. Len(tree.children[p])
    BY DEF Insert, CanInsert
  <2>3. /\ plan.node = size + 1 /\ plan.tree = Hung(tree, size + 1, p)
        /\ plan.displaced \in Nodes \cup {NULL}
    BY <1>1, <2>1, <2>2, PlanFacts
  <2>. PICK of, r : of = [type EXCEPT ![size + 1] = k] /\ r = CreatedType(plan, k, closest)
    OBVIOUS
  <2>4. TypesTyped(of, r, size + 1) /\ TypesFresh(plan.tree, of, r, size + 1)
    BY <1>1, <2>1, <2>2, <2>3, CreatedTypeFresh DEF TInv
  <2>5. type' = of /\ ty' = r
    BY <2>1, <2>3
  <2>6. of \in [Node -> Types \cup {NULL}]
    <3>1. size + 1 \in Node
      BY <1>1, <2>2, NodeAssumption DEF TreeSound
    <3>. QED  BY <3>1 DEF TInv
  <2>7. tree'.above = plan.tree.above
    BY <2>1, <2>3 DEF Hung
  <2>8. TypesFresh(tree', of, r, size + 1)
    BY <2>4, <2>7 DEF TypesFresh, TypeAncestors
  <2>9. type' \in [Node -> Types \cup {NULL}] /\ TypesTyped(type', ty', size')
        /\ TypesFresh(tree', type', ty', size')
    BY <2>1, <2>4, <2>5, <2>6, <2>8
  <2>. QED  BY <2>9 DEF TInv, TypesTyped, TypeModsFresh, TypesFresh, TypeAncestors, Nodes
<1>. QED  BY <1>2, <1>3, InsertOutcome

\* A query calls type_dfi() on nodes of the filter.
Answered(answer) ==
  answer.first = NULL \/ (answer.first \in Nodes /\ answer.last \in Nodes)

LEMMA QueryAnswers ==
  ASSUME NEW n, NEW k
  PROVE  Answered(Descendants(n, k))
<1>1. ASSUME NEW table, NEW value, NEW at, NEW gth
      PROVE  BoundNode(table, value, at, gth) \in Nodes \cup {NULL}
  <2>. PICK last :
         last = {y \in Nodes : \E i \in DOMAIN SearchPath(table, value, at) :
                      /\ y = SearchPath(table, value, at)[i]
                      /\ IF gth THEN value[y] >= at ELSE value[y] <= at
                      /\ \A j \in i + 1 .. Len(SearchPath(table, value, at)) :
                           ~(IF gth THEN value[SearchPath(table, value, at)[j]] >= at
                             ELSE value[SearchPath(table, value, at)[j]] <= at)}
    OBVIOUS
  <2>1. BoundNode(table, value, at, gth) = IF last = {} THEN NULL ELSE CHOOSE y \in last : TRUE
    BY Zenon DEF BoundNode
  <2>2. last # {} => (CHOOSE y \in last : TRUE) \in last
    OBVIOUS
  <2>3. last \subseteq Nodes
    OBVIOUS
  <2>. QED  BY <2>1, <2>2, <2>3
<1>2. ASSUME NEW post
      PROVE  Answered(DescendantsUpTo(n, k, post))
  BY <1>1 DEF DescendantsUpTo, Answered
<1>. QED  BY <1>2 DEF Descendants, Answered

\* Reads and queries leave the tree and the types alone, and only call type_dfi().
LEMMA ReadOutcome ==
  ASSUME TInv, [Next]_vars
  PROVE  \/ \E p \in Nodes, pos \in 0 .. MaxNodes, k \in Types : Insert(p, pos, k)
         \/ /\ UNCHANGED <<tree, size, type>>
            /\ idx' = idx \/ \E S : idx' = Refresh(tree, idx, S)
            /\ CaughtUp(ty, ty')
<1>1. TypesTyped(type, ty, size) /\ TypesFresh(tree, type, ty, size) /\ TreeSound
  BY TInvFresh DEF IInv
<1>2. CaughtUp(ty, ty)
  BY <1>1, CaughtUpItself
<1>3. ASSUME InsertRoot /\ UNCHANGED <<type, ty, type_tables, unread>>
      PROVE  UNCHANGED <<tree, size, type>> /\ idx' = idx /\ ty' = ty
  BY <1>3 DEF InsertRoot
<1>4. ASSUME NEW S, Read(S)
      PROVE  UNCHANGED <<tree, size, type>> /\ idx' = Refresh(tree, idx, S) /\ ty' = ty
  BY <1>4 DEF Read, ReadDfi
<1>5. ASSUME NEW n, Successor(n)
      PROVE  /\ UNCHANGED <<tree, size, type>> /\ ty' = ty
             /\ \E S : idx' = Refresh(tree, idx, S)
  BY <1>5 DEF Successor, ReadSuccessor
<1>6. ASSUME NEW n \in Nodes, ReadType(n)
      PROVE  UNCHANGED <<tree, size, type>> /\ idx' = idx /\ CaughtUp(ty, ty')
  <2>. PICK r : r = ty'
    OBVIOUS
  <2>1. r = CalledType(ty, n)
    BY <1>6 DEF ReadType
  <2>2. CaughtUp(ty, r)
    BY <1>1, <1>2, <2>1, CalledCatchesUp
  <2>. QED  BY <1>6, <2>2 DEF ReadType, dfiVars
<1>7. ASSUME NEW n \in Nodes, NEW k \in Types, Query(n, k)
      PROVE  /\ UNCHANGED <<tree, size, type>>
             /\ \E S : idx' = Refresh(tree, idx, S)
             /\ CaughtUp(ty, ty')
  <2>. PICK r : r = ty'
    OBVIOUS
  <2>1. PICK answer :
          /\ answer = Descendants(n, k)
          /\ idx' = Refresh(tree, idx, answer.reads)
          /\ r = IF answer.first = NULL THEN ty
                 ELSE CalledType(CalledType(ty, answer.first), answer.last)
          /\ UNCHANGED <<tree, size, type>>
    BY <1>7 DEF Query
  <2>2. Answered(answer)
    BY <2>1, QueryAnswers
  <2>3. CASE answer.first = NULL
    BY <1>2, <2>1, <2>3
  <2>4. CASE answer.first # NULL
    <3>. PICK a, z, q : a = answer.first /\ z = answer.last /\ q = CalledType(ty, a)
      OBVIOUS
    <3>1. a \in Nodes /\ z \in Nodes /\ r = CalledType(q, z)
      BY <2>1, <2>2, <2>4 DEF Answered
    <3>2. CaughtUp(ty, q)
      BY <1>1, <1>2, <3>1, CalledCatchesUp
    <3>3. CaughtUp(ty, r)
      BY <1>1, <3>1, <3>2, CalledCatchesUp
    <3>. QED  BY <2>1, <3>3
  <2>. QED  BY <2>3, <2>4
<1>8. ASSUME UNCHANGED vars
      PROVE  UNCHANGED <<tree, size, type>> /\ idx' = idx /\ ty' = ty
  BY <1>8 DEF vars, dfiVars
<1>. QED  BY <1>2, <1>3, <1>4, <1>5, <1>6, <1>7, <1>8 DEF Next, LookUp

LEMMA TypesInit == Init => TInv
<1>. SUFFICES ASSUME Init  PROVE TInv
  OBVIOUS
<1>1. IInv
  BY SpecInitSound
<1>2. Nodes = 1 .. size /\ 1 .. size \subseteq Node
  BY <1>1, NodeAssumption DEF IInv, TreeSound, Nodes
<1>3. PICK of \in [Nodes -> Types] :
        /\ type = [n \in Node |-> IF n \in Nodes THEN of[n] ELSE NULL]
        /\ ty = FreshTypes(tree, type, size)
  BY DEF Init
<1>4. /\ ty.type_mod = [n \in Node |-> 0]
      /\ ty.latest_type_mods = [x \in Types |-> 0]
  <2>1. /\ FreshTypes(tree, type, size).type_mod = [n \in Node |-> 0]
        /\ FreshTypes(tree, type, size).latest_type_mods = [x \in Types |-> 0]
    BY DEF FreshTypes
  <2>. QED  BY <1>3, <2>1
<1>5. type \in [Node -> Types \cup {NULL}] /\ \A n \in 1 .. size : type[n] \in Types
  BY <1>2, <1>3
<1>6. TypesTyped(type, ty, size)
  BY <1>2, <1>4, <1>5 DEF TypesTyped
<1>7. TypesFresh(tree, type, ty, size)
  <2>1. \A n \in 1 .. size : \A y \in TypeAncestors(tree, type, n) : y \in Node
    BY <1>1, <1>2, AboveBefore DEF TypeAncestors, IInv, TreeSound
  <2>. QED  BY <1>2, <1>4, <1>5, <2>1 DEF TypesFresh
<1>. QED  BY <1>1, <1>5, <1>6, <1>7, TInvFresh

LEMMA TypesNext == TInv /\ [Next]_vars => TInv'
<1>. SUFFICES ASSUME TInv, [Next]_vars  PROVE TInv'
  OBVIOUS
<1>1. IInv'
  BY SpecNextSound DEF TInv
<1>2. CASE \E p \in Nodes, pos \in 0 .. MaxNodes, k \in Types : Insert(p, pos, k)
  BY <1>1, <1>2, InsertTypesFresh
<1>3. CASE UNCHANGED <<tree, size, type>> /\ CaughtUp(ty, ty')
  <2>. PICK r : r = ty'
    OBVIOUS
  <2>1. TypesTyped(type, r, size) /\ TypesFresh(tree, type, r, size)
    BY <1>3 DEF CaughtUp
  <2>. QED
    BY <1>1, <1>3, <2>1 DEF TInv, TypesTyped, TypeModsFresh, TypesFresh, TypeAncestors, Nodes
<1>. QED  BY <1>2, <1>3, ReadOutcome

\* Whatever is inserted, read and queried, no node's type index is more up to date than
\* the type, or than an ancestor of the same type (the climb of type_dfi(),
\* dfilter.cpp:300-325).
THEOREM TypesStayFresh == Spec => []TypeModsFresh
<1>1. TInv => TypeModsFresh
  BY DEF TInv
<1>. QED  BY <1>1, TypesInit, TypesNext, PTL DEF Spec

-----------------------------------------------------------------------------
(* Reading changes nothing that can be read. *)

\* type_dfi() answers with the value of its recursion.
LEMMA TypeNumberDef ==
  TInv => [n \in Nodes |-> TypeNumber(n)] = [n \in Nodes |-> TypeValues(tree, type, ty)[n]]
<1>. SUFFICES ASSUME TInv, NEW n \in Nodes
              PROVE  TypeNumber(n) = TypeValues(tree, type, ty)[n]
  OBVIOUS
<1>1. /\ size \in 1 .. MaxNodes /\ n \in 1 .. size
      /\ TreeShape(tree) /\ Ancestry(tree, size) /\ TypesTyped(type, ty, size)
  BY DEF TInv, IInv, TreeSound, Nodes
<1>2. CallTypeDfi(tree, type, ty, Count(type[n]), n).type_base_index[n]
        = TypeValues(tree, type, ty)[n]
  BY <1>1, CallAnswers
<1>. QED  BY <1>2 DEF TypeNumber, CalledType

LEMMA StepTransparent ==
  ASSUME TInv, [Next]_vars, size' = size
  PROVE  /\ val' = val
         /\ [n \in Nodes |-> TypeNumber(n)]' = [n \in Nodes |-> TypeNumber(n)]
<1>1. TInv'
  BY TypesNext
<1>2. \/ UNCHANGED <<tree, size, idx, type, ty>>
      \/ /\ UNCHANGED <<tree, size, type>>
         /\ idx' = idx \/ \E S : idx' = Refresh(tree, idx, S)
         /\ CaughtUp(ty, ty')
  <2>1. size + 1 # size
    BY DEF TInv, IInv, TreeSound
  <2>. QED  BY <2>1, ReadOutcome, InsertOutcome
<1>3. UNCHANGED <<tree, size, type>>
  BY <1>2
<1>4. val' = val
  <2>1. CASE idx' = idx
    BY <1>3, <2>1 DEF val
  <2>2. CASE \E S : idx' = Refresh(tree, idx, S)
    <3>1. PICK S : idx' = Refresh(tree, idx, S)
      BY <2>2
    <3>2. DfiValues(tree, Refresh(tree, idx, S)) = DfiValues(tree, idx)
      BY RefreshValues DEF TInv, IInv, TreeSound
    <3>. QED  BY <1>3, <3>1, <3>2 DEF val
  <2>. QED  BY <1>2, <2>1, <2>2
<1>5. TypeValues(tree, type, ty') = TypeValues(tree, type, ty)
  BY <1>2 DEF CaughtUp
<1>6. ([n \in Nodes |-> TypeNumber(n)] = [n \in Nodes |-> TypeValues(tree, type, ty)[n]])'
  BY <1>1, TypeNumberDef, PTL
<1>7. [n \in Nodes |-> TypeValues(tree, type, ty)[n]]'
        = [n \in Nodes |-> TypeValues(tree, type, ty)[n]]
  BY <1>3, <1>5 DEF Nodes
<1>. QED  BY <1>4, <1>6, <1>7, TypeNumberDef

\* No dfi() and no type_dfi() returns anything else after a read or a query: the caches
\* they write on the way never show (dfilter.cpp:274-325).
THEOREM ReadsStayTransparent == Spec => ReadsTransparent
<1>1. TInv /\ [Next]_vars => [size' = size => val' = val]_idx
  BY StepTransparent
<1>2. TInv /\ [Next]_vars =>
        [size' = size =>
           [n \in Nodes |-> TypeNumber(n)]' = [n \in Nodes |-> TypeNumber(n)]]_ty
  BY StepTransparent
<1>. QED  BY <1>1, <1>2, TypesInit, TypesNext, PTL DEF Spec, ReadsTransparent

-----------------------------------------------------------------------------
(* The audit: the client reads every index between insertions. *)

\* The nodes of the first k that are not in U are up to date.
Seen(t, k, b, U) ==
  \A y \in 1 .. k : y \notin U =>
    /\ b.base_mod[y] = b.latest_mod
    /\ t.parent[y] # NULL => b.cached_parent_dfi[y] = DfiValues(t, b)[t.parent[y]]

LEMMA SeenUpToDate ==
  ASSUME NEW t, NEW k \in 1 .. MaxNodes, TreeShape(t), Ancestry(t, k), NEW b, IndexTyped(b),
         Seen(t, k, b, {}), NEW v, v = DfiValues(t, b)
  PROVE  UpToDate(t, k, b, v)
<1>1. 1 .. k \subseteq Node
  BY NodeAssumption
<1>2. ASSUME NEW y \in 1 .. k
      PROVE  b.base_index[y] = v[y]
  <2>1. v[y] = IF t.parent[y] = NULL \/ b.base_mod[y] >= b.latest_mod THEN b.base_index[y]
               ELSE b.base_index[y] + v[t.parent[y]] - b.cached_parent_dfi[y]
    BY <1>1, ValuesAt
  <2>2. b.base_mod[y] = b.latest_mod /\ b.latest_mod \in Int
    BY DEF Seen, IndexTyped, ModsTyped
  <2>. QED  BY <2>1, <2>2
<1>. QED  BY <1>2 DEF Seen, UpToDate, IndexTyped

\* A node on which dfi() runs is up to date afterwards.
LEMMA RefreshSeen ==
  ASSUME NEW t, NEW k \in 1 .. MaxNodes, TreeShape(t), Ancestry(t, k), NEW b, IndexTyped(b),
         NEW U, Seen(t, k, b, U), NEW S
  PROVE  Seen(t, k, Refresh(t, b, S), U \ Touched(t, b, S))
<1>. PICK c, v, T : c = Refresh(t, b, S) /\ v = DfiValues(t, b) /\ T = Touched(t, b, S)
  OBVIOUS
<1>1. DfiValues(t, c) = v
  BY RefreshValues DEF IndexTyped
<1>2. /\ c.latest_mod = b.latest_mod
      /\ \A y \in Node : /\ c.base_mod[y] = IF y \in T THEN b.latest_mod ELSE b.base_mod[y]
                         /\ c.cached_parent_dfi[y] =
                              IF y \in T /\ t.parent[y] # NULL THEN v[t.parent[y]]
                              ELSE b.cached_parent_dfi[y]
  BY DEF Refresh
<1>3. 1 .. k \subseteq Node
  BY NodeAssumption
<1>4. Seen(t, k, c, U \ T)
  BY <1>1, <1>2, <1>3 DEF Seen
<1>. QED  BY <1>4

\* The index says what it should after any calls of dfi().
LEMMA RefreshExact ==
  ASSUME NEW t, NEW k \in 1 .. MaxNodes, NEW b, NEW s, NEW table, Exact(t, k, b, s, table),
         NEW S, NEW c, SuccessorsSound(c, t, k)
  PROVE  Exact(t, k, Refresh(t, b, S), c, table)
<1>1. TreeShape(t) /\ Ancestry(t, k) /\ ModsTyped(b) /\ IndexTyped(b)
  BY DEF Exact, OneTree, IndexTyped
<1>2. DfiValues(t, Refresh(t, b, S)) = DfiValues(t, b)
  BY <1>1, RefreshValues
<1>3. IndexTyped(Refresh(t, b, S))
  BY <1>1, RefreshTyped
<1>. QED  BY <1>2, <1>3 DEF Exact

-----------------------------------------------------------------------------
(* The invariant of an audited filter *)

Members(x) == {n \in Nodes : type[n] = x}

TypeTables ==
  /\ type_tables = [x \in Types |-> type_tables[x]]
  /\ \A x \in Types : Sound(type_tables[x], Members(x)) /\ Sorted(type_tables[x], Members(x), val)

AInv ==
  /\ TInv
  /\ Exact(tree, size, idx, suc, tbl)
  /\ TypeTables
  /\ Seen(tree, size, idx, unread)
  /\ fault \in {0, 47, 150}

LEMMA FreshValues ==
  ASSUME NEW t, NEW k \in 1 .. MaxNodes, TreeShape(t), Ancestry(t, k), NEW b,
         b = FreshIndex(t, k)
  PROVE  /\ IndexTyped(b) /\ Seen(t, k, b, {})
         /\ \A n \in 1 .. k : DfiValues(t, b)[n] = n - 1
<1>0. 1 .. k \subseteq Node /\ Node \subseteq Nat /\ k \in Nat
  BY NodeAssumption
<1>1. /\ b.base_index = [n \in Node |-> IF n \in 1 .. k THEN n - 1 ELSE 0]
      /\ b.base_mod = [n \in Node |-> 0] /\ b.latest_mod = 0
      /\ b.cached_parent_dfi =
           [n \in Node |-> IF n \in 1 .. k /\ t.parent[n] # NULL THEN t.parent[n] - 1 ELSE 0]
  BY DEF FreshIndex
<1>2. \A n \in Node : t.parent[n] # NULL => t.parent[n] \in 1 .. k /\ n \in 1 .. k
  BY <1>0, ParentBefore DEF Ancestry
<1>3. IndexTyped(b)
  <2>1. b.base_index \in [Node -> Int] /\ b.base_mod \in [Node -> Int] /\ b.latest_mod \in Int
    BY <1>0, <1>1
  <2>2. b.cached_parent_dfi \in [Node -> Int]
    BY <1>0, <1>1, <1>2
  <2>. QED  BY <2>1, <2>2 DEF IndexTyped, ModsTyped
<1>4. ASSUME NEW n \in 1 .. k
      PROVE  DfiValues(t, b)[n] = n - 1
  <2>. PICK v : v = DfiValues(t, b)
    OBVIOUS
  <2>1. v[n] = IF t.parent[n] = NULL \/ b.base_mod[n] >= b.latest_mod THEN b.base_index[n]
               ELSE b.base_index[n] + v[t.parent[n]] - b.cached_parent_dfi[n]
    BY <1>0, ValuesAt
  <2>. QED  BY <1>0, <1>1, <2>1
<1>5. Seen(t, k, b, {})
  BY <1>0, <1>1, <1>2, <1>4 DEF Seen
<1>. QED  BY <1>3, <1>4, <1>5

LEMMA FreshSuccessorsSound ==
  ASSUME NEW t, NEW k \in 1 .. MaxNodes, OneTree(t, k), NEW v, Numbers(v, t, k),
         \A n \in 1 .. k : v[n] = n - 1, NEW s, s = FreshSuccessors(t, k)
  PROVE  SuccessorsSound(s, t, k)
<1>0. 1 .. k \subseteq Node /\ k \in Nat
  BY NodeAssumption
<1>1. /\ s.node = [n \in Node |-> IF n \in 1 .. k /\ After(t, k, n) # {}
                                  THEN Min(After(t, k, n)) ELSE NULL]
      /\ s.dfi = [n \in Node |-> IF n \notin 1 .. k THEN 0
                                 ELSE IF After(t, k, n) = {} THEN k
                                 ELSE Min(After(t, k, n)) - 1]
      /\ IsCache(s)
  BY DEF FreshSuccessors, IsCache
<1>2. ASSUME NEW n \in 1 .. k, After(t, k, n) # {}
      PROVE  Min(After(t, k, n)) \in 1 .. k
  <2>. PICK S : S = After(t, k, n)
    OBVIOUS
  <2>1. S \subseteq 1 .. k /\ S \subseteq Nat
    BY DEF After
  <2>2. \E x \in S : \A y \in S : x <= y
    BY <1>2, <2>1, LeastMember
  <2>3. Min(S) \in S
    BY <2>2 DEF Min
  <2>. QED  BY <2>1, <2>3
<1>3. ASSUME NEW n \in 1 .. k, After(t, k, n) = {}
      PROVE  AtEnd(t, k, n)
  <2>1. ASSUME NEW z \in 1 .. k, LeftOf(t, n, z)
        PROVE  FALSE
    <3>1. v[n] < v[z]
      BY <2>1, NumbersOrder
    <3>2. z \in n + 1 .. k
      BY <3>1
    <3>3. n \in t.above[z]
      BY <1>3, <3>2 DEF After
    <3>4. LeftOf(t, z, z)
      BY <2>1, <3>3, LeftOfBranch DEF Under
    <3>5. v[z] < v[z]
      BY <3>4, NumbersOrder
    <3>. QED  BY <3>5
  <2>. QED  BY <2>1, EndIsLast
<1>4. s.node \in [Node -> Node \cup {NULL}] /\ s.dfi \in [Node -> Int]
  BY <1>0, <1>1, <1>2
<1>5. ASSUME NEW n \in 1 .. k
      PROVE  /\ s.node[n] \in 1 .. k \cup {NULL}
             /\ s.dfi[n] <= k
             /\ s.dfi[n] = k => AtEnd(t, k, n)
  <2>1. CASE After(t, k, n) = {}
    BY <1>0, <1>1, <1>3, <2>1
  <2>2. CASE After(t, k, n) # {}
    <3>1. Min(After(t, k, n)) \in 1 .. k
      BY <1>2, <2>2
    <3>2. s.node[n] = Min(After(t, k, n)) /\ s.dfi[n] = Min(After(t, k, n)) - 1
      BY <1>0, <1>1, <2>2
    <3>. QED  BY <3>1, <3>2
  <2>. QED  BY <2>1, <2>2
<1>. QED  BY <1>1, <1>4, <1>5 DEF SuccessorsSound

\* Any numbering by which a table is in order may stand for one that agrees on its members.
LEMMA SortedByNumber ==
  ASSUME NEW table, NEW M, Sound(table, M), Sorted(table, M, Number), NEW v \in [Node -> Int],
         M \subseteq Node, \A n \in M : v[n] = n - 1
  PROVE  Sorted(table, M, v)
<1>1. Node \subseteq Nat
  BY NodeAssumption
<1>2. Alike(Number, v, M)
  BY <1>1 DEF Alike, Number
<1>. QED  BY <1>2, SortedRekeyed

LEMMA AuditInit == Init => AInv
<1>. SUFFICES ASSUME Init  PROVE AInv
  OBVIOUS
<1>1. TInv
  BY TypesInit
<1>2. PICK init \in InitTrees :
        /\ tree = init.tree
        /\ size = init.size
        /\ idx = FreshIndex(init.tree, init.size)
        /\ suc = FreshSuccessors(init.tree, init.size)
        /\ tbl = FreshTable(1 .. init.size)
        /\ fault = 0
  BY DEF Init, DfiInit
<1>3. /\ size \in 1 .. MaxNodes /\ WellFormed(tree, size) /\ idx = FreshIndex(tree, size)
      /\ suc = FreshSuccessors(tree, size) /\ tbl = FreshTable(1 .. size) /\ fault = 0
  BY <1>2, InitTreesAssumption
<1>4. Nodes = 1 .. size /\ 1 .. size \subseteq Node /\ unread = {}
  BY <1>3, NodeAssumption DEF Nodes, Init
<1>5. TreeShape(tree) /\ Ancestry(tree, size)
  BY <1>3 DEF WellFormed
<1>6. IndexTyped(idx) /\ Seen(tree, size, idx, {}) /\ \A n \in 1 .. size : val[n] = n - 1
  BY <1>3, <1>5, FreshValues DEF val
<1>7. OneTree(tree, size) /\ Numbers(val, tree, size)
  BY <1>3, <1>6, StartNumbers
<1>8. val \in [Node -> Int]
  BY <1>3, <1>5, <1>6, ValuesTyped DEF val
<1>9. SuccessorsSound(suc, tree, size)
  BY <1>3, <1>6, <1>7, FreshSuccessorsSound
<1>10. ASSUME NEW M, M \subseteq 1 .. size
       PROVE  Sound(FreshTable(M), M) /\ Sorted(FreshTable(M), M, val)
  <2>1. Sound(FreshTable(M), M) /\ Sorted(FreshTable(M), M, Number)
    BY <1>4, <1>10, FreshTableSorted
  <2>2. M \subseteq Node /\ \A n \in M : val[n] = n - 1
    BY <1>4, <1>6, <1>10
  <2>. QED  BY <1>8, <2>1, <2>2, SortedByNumber
<1>11. Exact(tree, size, idx, suc, tbl)
  BY <1>3, <1>6, <1>7, <1>9, <1>10 DEF Exact, val
<1>12. TypeTables
  <2>1. PICK of \in [Nodes -> Types] :
          /\ type = [n \in Node |-> IF n \in Nodes THEN of[n] ELSE NULL]
          /\ type_tables = [x \in Types |-> FreshTable({n \in Nodes : of[n] = x})]
    BY DEF Init
  <2>2. ASSUME NEW x \in Types
        PROVE  type_tables[x] = FreshTable(Members(x)) /\ Members(x) \subseteq 1 .. size
    <3>1. Members(x) = {n \in Nodes : of[n] = x}
      BY <1>4, <2>1 DEF Members
    <3>. QED  BY <1>4, <2>1, <3>1
  <2>3. type_tables = [x \in Types |-> type_tables[x]]
    BY <2>1
  <2>. QED  BY <1>10, <2>2, <2>3 DEF TypeTables
<1>. QED  BY <1>1, <1>3, <1>4, <1>6, <1>11, <1>12 DEF AInv

\* What an insertion does, as far as the audit is concerned.
Inserts(p, pos, k, early, w) ==
  /\ \E late, failed : failed \in SUBSET {150} /\ InsertNode(p, pos, early, late, failed)
  /\ IF fault' # 0 THEN UNCHANGED <<type, ty, type_tables, unread>>
     ELSE /\ type' = [type EXCEPT ![size + 1] = k]
          /\ \E moved : type_tables' = [type_tables EXCEPT
                                           ![k] = Tabled(type_tables[k], w, size + 1, moved)]
          /\ unread' = Nodes'

LEMMA InsertParts ==
  ASSUME NEW p, NEW pos, NEW k, Insert(p, pos, k)
  PROVE  \E early, w : ValuesAfter(w, p, pos, early) /\ Inserts(p, pos, k, early, w)
<1>1. PICK plan :
          /\ plan = Plan(p, pos)
          /\ LET moved == plan.displaced # NULL
                 early == IF moved THEN ToSet(SearchPath(type_tables[k], val, plan.index))
                          ELSE {}
                 value == DfiValues(plan.tree, Created(p, plan, early))
                 late  == Met(type_tables[k], value, plan.node, moved)
                 grown == Tabled(type_tables[k], value, plan.node, moved)
             IN  \E closest \in IF moved THEN Closest(type_tables[k], val, plan.index)
                                ELSE {NULL} :
                 \E index \in {CreatedType(plan, k, closest)} :
                   LET wrong == index.type_base_index[plan.node] \notin 0 .. grown.count
                   IN  /\ InsertNode(p, pos, early, late, IF wrong THEN {150} ELSE {})
                       /\ IF fault' # 0 THEN UNCHANGED <<type, ty, type_tables, unread>>
                          ELSE /\ type' = [type EXCEPT ![plan.node] = k]
                               /\ ty' = index
                               /\ type_tables' = [type_tables EXCEPT ![k] = grown]
                               /\ unread' = Nodes'
  BY Zenon DEF Insert
<1>0. PICK early, w, late, grown :
         /\ early = IF plan.displaced # NULL
                    THEN ToSet(SearchPath(type_tables[k], val, plan.index)) ELSE {}
         /\ w = DfiValues(plan.tree, Created(p, plan, early))
         /\ late  = Met(type_tables[k], w, plan.node, plan.displaced # NULL)
         /\ grown = Tabled(type_tables[k], w, plan.node, plan.displaced # NULL)
  OBVIOUS
<1>2. PICK closest :
          \E index \in {CreatedType(plan, k, closest)} :
            LET wrong == index.type_base_index[plan.node] \notin 0 .. grown.count
            IN  /\ InsertNode(p, pos, early, late, IF wrong THEN {150} ELSE {})
                /\ IF fault' # 0 THEN UNCHANGED <<type, ty, type_tables, unread>>
                   ELSE /\ type' = [type EXCEPT ![plan.node] = k]
                        /\ type_tables' = [type_tables EXCEPT ![k] = grown]
                        /\ unread' = Nodes'
  BY <1>0, <1>1, SMTT(60)
<1>3. plan.node = size + 1
  BY <1>1 DEF Plan, PlanAt
<1>4. \E failed \in SUBSET {150} :
          /\ InsertNode(p, pos, early, late, failed)
          /\ IF fault' # 0 THEN UNCHANGED <<type, ty, type_tables, unread>>
             ELSE /\ type' = [type EXCEPT ![plan.node] = k]
                  /\ type_tables' = [type_tables EXCEPT ![k] = grown]
                  /\ unread' = Nodes'
  BY <1>2, Zenon
<1>5. \E moved : grown = Tabled(type_tables[k], w, size + 1, moved)
  BY <1>0, <1>3
<1>6. Inserts(p, pos, k, early, w)
  <2>1. PICK moved : grown = Tabled(type_tables[k], w, size + 1, moved)
    BY <1>5
  <2>2. IF fault' # 0 THEN UNCHANGED <<type, ty, type_tables, unread>>
        ELSE /\ type' = [type EXCEPT ![size + 1] = k]
             /\ type_tables' = [type_tables EXCEPT ![k] = grown]
             /\ unread' = Nodes'
    BY <1>3, <1>4
  <2>3. fault' = 0 => \E b : type_tables' = [type_tables EXCEPT
                                             ![k] = Tabled(type_tables[k], w, size + 1, b)]
    BY <2>1, <2>2
  <2>4. \E l, f : f \in SUBSET {150} /\ InsertNode(p, pos, early, l, f)
    BY <1>4
  <2>. QED  BY <2>2, <2>3, <2>4 DEF Inserts
<1>. QED  BY <1>0, <1>1, <1>6 DEF ValuesAfter

\* The tables of the types follow an insertion.
LEMMA TypeTablesFollow ==
  ASSUME TInv, TypeTables, size < MaxNodes, IntOn(val, 1 .. size), NEW k \in Types,
         NEW r \in Int, NEW w \in [Node -> Int], MovedUp(w, val, size, size + 1, r),
         size' = size + 1, val' = w, type' = [type EXCEPT ![size + 1] = k], NEW moved,
         type_tables' = [type_tables EXCEPT ![k] = Tabled(type_tables[k], w, size + 1, moved)]
  PROVE  TypeTables'
<1>. PICK n, g, M : /\ n = size + 1 /\ g = type_tables'
                    /\ M = [x \in Types |-> Members(x)]
  OBVIOUS
<1>0. /\ size \in 1 .. MaxNodes /\ Nodes = 1 .. size /\ size \in Nat /\ MaxNodes \in Nat
      /\ Nodes' = 1 .. n /\ 1 .. n = 1 .. size \cup {n} /\ n \in Node /\ n \notin 1 .. size
      /\ type \in [Node -> Types \cup {NULL}] /\ 1 .. size \subseteq Node
  BY NodeAssumption DEF TInv, IInv, TreeSound, Nodes
<1>1. \A x \in Types : M[x] \subseteq 1 .. size /\ M[x] = Members(x)
  BY <1>0 DEF Members
<1>2. \A x \in Types : Members(x)' = IF x = k THEN M[x] \cup {n} ELSE M[x]
  <2>. SUFFICES ASSUME NEW x \in Types
                PROVE  {y \in 1 .. n : type'[y] = x} = IF x = k THEN M[x] \cup {n} ELSE M[x]
    BY <1>0 DEF Members
  <2>1. type'[n] = k /\ \A y \in 1 .. size : type'[y] = type[y]
    BY <1>0
  <2>2. \A y : y \in M[x] <=> y \in 1 .. size /\ type[y] = x
    BY <1>0, <1>1 DEF Members
  <2>. QED  BY <1>0, <2>1, <2>2
<1>3. ASSUME NEW x \in Types
      PROVE  TableMoved(type_tables[x], M[x], w, n) /\ Sound(type_tables[x], M[x])
  <2>1. Sound(type_tables[x], M[x]) /\ Sorted(type_tables[x], M[x], val)
    BY <1>1 DEF TypeTables
  <2>. PICK tx, Mx, v : tx = type_tables[x] /\ Mx = M[x] /\ v = val
    OBVIOUS
  <2>2. TableMoved(tx, Mx, w, n)
    BY <1>0, <1>1, <2>1, TableFollows
  <2>. QED  BY <2>1, <2>2
<1>4. ASSUME NEW x \in Types
      PROVE  Sound(g[x], Members(x)') /\ Sorted(g[x], Members(x)', w)
  <2>1. type_tables = [y \in Types |-> type_tables[y]]
    BY DEF TypeTables
  <2>2. CASE x = k
    <3>1. g[x] = Tabled(type_tables[x], w, n, moved) /\ Members(x)' = M[x] \cup {n}
      BY <1>2, <2>1, <2>2
    <3>2. Tabled(type_tables[x], w, n, moved) = Probe(type_tables[x], w, n)
      BY <1>3, TabledOnce
    <3>. QED  BY <1>3, <3>1, <3>2 DEF TableMoved
  <2>3. CASE x # k
    <3>1. g[x] = type_tables[x] /\ Members(x)' = M[x]
      BY <1>2, <2>1, <2>3
    <3>. QED  BY <1>3, <3>1 DEF TableMoved
  <2>. QED  BY <2>2, <2>3
<1>5. g = [x \in Types |-> g[x]]
  BY DEF TypeTables
<1>. QED  BY <1>4, <1>5 DEF TypeTables

LEMMA AuditInsert ==
  ASSUME Audit, AInv, NEW p \in Nodes, NEW pos, NEW k \in Types, Insert(p, pos, k), TInv'
  PROVE  AInv'
<1>1. PICK early, w : ValuesAfter(w, p, pos, early) /\ Inserts(p, pos, k, early, w)
  BY InsertParts
<1>2. PICK late, failed : failed \in SUBSET {150} /\ InsertNode(p, pos, early, late, failed)
  BY <1>1 DEF Inserts
<1>3. CanInsert(p, pos) /\ size < MaxNodes /\ unread = {} /\ fault = 0
  BY DEF Insert, CanInsert
<1>4. IInv /\ Exact(tree, size, idx, suc, tbl) /\ size \in 1 .. MaxNodes
      /\ TreeShape(tree) /\ Ancestry(tree, size) /\ IndexTyped(idx)
  BY DEF AInv, TInv, IInv, TreeSound, Exact
<1>5. PICK v : v = DfiValues(tree, idx)
  OBVIOUS
<1>6. UpToDate(tree, size, idx, v)
  BY <1>3, <1>4, <1>5, SeenUpToDate DEF AInv
<1>7. InsertedExact(v, w)
  BY <1>1, <1>2, <1>3, <1>4, <1>5, <1>6, InsertNodeExact
<1>8. CASE fault' = 150 /\ UNCHANGED <<tree, size, idx, suc, tbl>>
  <2>1. UNCHANGED <<type, ty, type_tables, unread>>
    BY <1>1, <1>8 DEF Inserts
  <2>2. TypeTables'
    BY <1>8, <2>1 DEF AInv, TypeTables, Members, Nodes, val
  <2>. QED  BY <1>8, <2>1, <2>2 DEF AInv
<1>9. CASE /\ fault' = fault /\ size' = size + 1
           /\ \E r \in Int : Follow(tree', idx', suc', tbl', v, w, r, size')
  <2>1. PICK r \in Int : Follow(tree', idx', suc', tbl', v, w, r, size')
    BY <1>9
  <2>2. /\ Exact(tree', size', idx', suc', tbl') /\ DfiValues(tree', idx') = w
        /\ w \in [Node -> Int] /\ MovedUp(w, v, size, size', r)
    BY <2>1 DEF Follow
  <2>3. /\ type' = [type EXCEPT ![size + 1] = k]
        /\ unread' = Nodes'
        /\ \E moved : type_tables' = [type_tables EXCEPT
                                         ![k] = Tabled(type_tables[k], w, size + 1, moved)]
    BY <1>1, <1>3, <1>9 DEF Inserts
  <2>4. Seen(tree', size', idx', unread')
    BY <2>3 DEF Seen, Nodes
  <2>5. IntOn(val, 1 .. size)
    BY <1>4 DEF Exact, Numbers, IntOn, val
  <2>6. MovedUp(w, val, size, size + 1, r) /\ val' = w
    BY <1>5, <1>9, <2>2 DEF val
  <2>7. TypeTables'
    <3>1. PICK moved : type_tables' = [type_tables EXCEPT
                                         ![k] = Tabled(type_tables[k], w, size + 1, moved)]
      BY <2>3
    <3>2. TInv /\ TypeTables
      BY DEF AInv
    <3>. QED  BY <1>3, <1>9, <2>2, <2>3, <2>5, <2>6, <3>1, <3>2, TypeTablesFollow
  <2>. QED  BY <1>3, <1>9, <2>2, <2>4, <2>7 DEF AInv
<1>. QED  BY <1>7, <1>8, <1>9 DEF InsertedExact

\* What a step that inserts nothing does, as far as the audit is concerned.
Asks(S) ==
  /\ UNCHANGED <<tree, size, tbl, type, type_tables>>
  /\ idx' = Refresh(tree, idx, S) /\ unread' = unread \ Touched(tree, idx, S)
  /\ SuccessorsSound(suc', tree, size)
  /\ fault' \in {0, 47, 150}

Rests ==
  /\ UNCHANGED <<tree, size, idx, suc, tbl, type, type_tables, unread>>
  /\ fault' \in {0, 47, 150}

LEMMA AuditAsks ==
  ASSUME AInv, TInv', NEW S, Asks(S)
  PROVE  AInv'
<1>1. /\ size \in 1 .. MaxNodes /\ TreeShape(tree) /\ Ancestry(tree, size) /\ IndexTyped(idx)
      /\ ModsTyped(idx)
  BY DEF AInv, TInv, IInv, TreeSound, Exact
<1>. PICK i, u, c, x : /\ i = Refresh(tree, idx, S) /\ u = unread \ Touched(tree, idx, S)
                       /\ c = suc' /\ x = idx
  OBVIOUS
<1>2. SuccessorsSound(c, tree, size) /\ Exact(tree, size, idx, suc, tbl)
      /\ Seen(tree, size, idx, unread)
  BY DEF Asks, AInv
<1>3. Exact(tree, size, i, c, tbl)
  BY <1>1, <1>2, RefreshExact
<1>4. Seen(tree, size, i, u)
  BY <1>1, <1>2, RefreshSeen
<1>5. DfiValues(tree, i) = DfiValues(tree, idx)
  BY <1>1, RefreshValues
<1>6. TypeTables'
  BY <1>5 DEF Asks, AInv, TypeTables, Members, Nodes, val
<1>. QED  BY <1>3, <1>4, <1>6 DEF Asks, AInv

LEMMA AuditRests == AInv /\ TInv' /\ Rests => AInv'
BY DEF AInv, Rests, TypeTables, Members, Nodes, val

\* postorder_successor_dfi() keeps the caches sound; a query calls it when dfi() of its
\* node has run.
LEMMA SuccessorSound ==
  ASSUME AInv, NEW n \in Nodes, NEW b, b = idx \/ b = Refresh(tree, idx, {n}), NEW c,
         c = PostorderSuccessor(tree, b, suc, size, n).suc
  PROVE  SuccessorsSound(c, tree, size)
<1>1. /\ size \in 1 .. MaxNodes /\ OneTree(tree, size) /\ TreeShape(tree) /\ Ancestry(tree, size)
      /\ ModsTyped(idx) /\ Numbers(val, tree, size) /\ SuccessorsSound(suc, tree, size)
      /\ n \in 1 .. size
  BY DEF AInv, TInv, IInv, TreeSound, Exact, val, Nodes
<1>2. val = DfiValues(tree, b)
  BY <1>1, RefreshValues DEF val
<1>3. IsCache(suc)
  BY <1>1 DEF SuccessorsSound
<1>4. SuccessorOutcome(c, suc, tree, val, size, n)
  BY <1>2, <1>3, SuccessorOutcomes
<1>. QED  BY <1>1, <1>4, SuccessorsStaySound

LEMMA QuerySuccessors ==
  ASSUME AInv, NEW n \in Nodes, NEW k
  PROVE  SuccessorsSound(Descendants(n, k).suc, tree, size)
<1>1. SuccessorsSound(suc, tree, size)
  BY DEF AInv, Exact
<1>2. ASSUME NEW post
      PROVE  DescendantsUpTo(n, k, post).suc = post.suc
  BY DEF DescendantsUpTo
<1>3. CASE tree.children[n] = <<>>
  BY <1>1, <1>3 DEF Descendants
<1>4. CASE tree.children[n] # <<>>
  <2>. PICK b : b = Refresh(tree, idx, {n})
    OBVIOUS
  <2>1. SuccessorsSound(PostorderSuccessor(tree, b, suc, size, n).suc, tree, size)
    BY SuccessorSound
  <2>. QED  BY <1>2, <1>4, <2>1 DEF Descendants
<1>. QED  BY <1>3, <1>4

LEMMA AuditNext == Audit /\ AInv /\ [Next]_vars => AInv'
<1>. SUFFICES ASSUME Audit, AInv, [Next]_vars  PROVE AInv'
  OBVIOUS
<1>1. TInv' /\ TInv
  BY TypesNext DEF AInv
<1>2. SuccessorsSound(suc, tree, size) /\ fault \in {0, 47, 150}
  BY DEF AInv, Exact
<1>3. CASE \E p \in Nodes, pos \in 0 .. MaxNodes, k \in Types : Insert(p, pos, k)
  BY <1>1, <1>3, AuditInsert
<1>4. CASE InsertRoot /\ UNCHANGED <<type, ty, type_tables, unread>>
  <2>1. Rests
    BY <1>4 DEF InsertRoot, Rests
  <2>. QED  BY <1>1, <2>1, AuditRests
<1>5. ASSUME NEW S, Read(S)
      PROVE  AInv'
  <2>1. Asks(S)
    BY <1>2, <1>5 DEF Read, ReadDfi, Asks
  <2>. QED  BY <1>1, <2>1, AuditAsks
<1>6. ASSUME NEW n \in Nodes, Successor(n)
      PROVE  AInv'
  <2>. PICK post : post = PostorderSuccessor(tree, idx, suc, size, n)
    OBVIOUS
  <2>1. SuccessorsSound(post.suc, tree, size)
    BY SuccessorSound
  <2>2. Asks(post.reads)
    BY <1>2, <1>6, <2>1 DEF Successor, ReadSuccessor, Asks
  <2>. QED  BY <1>1, <2>2, AuditAsks
<1>7. ASSUME NEW n \in Nodes, ReadType(n)
      PROVE  AInv'
  <2>1. Rests
    BY <1>2, <1>7 DEF ReadType, Rests, dfiVars
  <2>. QED  BY <1>1, <2>1, AuditRests
<1>8. ASSUME NEW n \in Nodes, NEW k \in Types, Query(n, k)
      PROVE  AInv'
  <2>. PICK answer : answer = Descendants(n, k)
    OBVIOUS
  <2>1. SuccessorsSound(answer.suc, tree, size)
    BY QuerySuccessors
  <2>2. Asks(answer.reads)
    BY <1>2, <1>8, <2>1 DEF Query, Asks
  <2>. QED  BY <1>1, <2>2, AuditAsks
<1>9. CASE UNCHANGED vars
  <2>1. Rests
    BY <1>2, <1>9 DEF vars, dfiVars, Rests
  <2>. QED  BY <1>1, <2>1, AuditRests
<1>. QED  BY <1>3, <1>4, <1>5, <1>6, <1>7, <1>8, <1>9 DEF Next, LookUp

-----------------------------------------------------------------------------
(* What an audited filter promises. *)

\* The invariant of an audited filter: dfi() numbers the nodes in document order, every table
\* is in the order of these numbers, the nodes that were read are up to date, and only a
\* node with nothing after it caches the number of nodes as its successor's (insert,
\* propagate_dfi_change, dfi and postorder_successor_dfi).
THEOREM AuditHolds == ASSUME Audit PROVE Spec => []AInv
<1>1. AInv /\ [Next]_vars => AInv'
  BY AuditNext
<1>. QED  BY <1>1, AuditInit, PTL DEF Spec

\* Under the audit dfi() returns, for every node, its place in document order, however many
\* insertions came before (TNode::dfi over the lazy modification list).
THEOREM DfiStaysCorrect == ASSUME Audit PROVE Spec => []DfiCorrect
<1>1. AInv => DfiCorrect
  <2>. SUFFICES ASSUME AInv, NEW n \in Nodes  PROVE val[n] = Place(n)
    BY DEF DfiCorrect
  <2>1. size \in 1 .. MaxNodes /\ OneTree(tree, size) /\ Numbers(val, tree, size) /\ n \in 1 .. size
    BY DEF AInv, TInv, IInv, TreeSound, Exact, val, Nodes
  <2>2. val[n] = Cardinality({m \in 1 .. size : Precedes(tree, m, n)})
    BY <2>1, NumberIsPlace
  <2>. QED  BY <2>2 DEF Place, Nodes
<1>. QED  BY <1>1, AuditHolds, PTL

\* Under the audit insert() never fails its assertions about the index: the first child has the
\* number after its parent's (65), a number displaces no node only if it is the number of
\* nodes (80, 93), it is in range (131), and the cached successor is not before the new
\* node (151).
THEOREM AssertionsStayTrue == ASSUME Audit PROVE Spec => []IndexAssertionsHold
<1>1. AInv => IndexAssertionsHold
  BY DEF AInv, IndexAssertionsHold
<1>. QED  BY <1>1, AuditHolds, PTL

\* A table in the order of the numbers lists its nodes in document order.
LEMMA TableLists ==
  ASSUME AInv, NEW t, NEW M, M \subseteq Nodes, Sound(t, M), Sorted(t, M, val)
  PROVE  Lists(InOrder(t), M)
<1>. PICK s, v : s = InOrder(t) /\ v = val
  OBVIOUS
<1>1. s \in Seq(Node) /\ ToSet(s) = M /\ Rising(s, v, Int)
  BY InOrderOf DEF InOrderIs
<1>2. size \in 1 .. MaxNodes /\ OneTree(tree, size) /\ Numbers(v, tree, size) /\ Nodes = 1 .. size
  BY DEF AInv, TInv, IInv, TreeSound, Exact, val, Nodes
<1>3. ASSUME NEW i \in DOMAIN s, NEW j \in 1 .. i - 1
      PROVE  Precedes(tree, s[j], s[i])
  <2>1. i \in 1 .. Len(s) /\ j \in 1 .. Len(s) /\ j < i
    BY <1>1, <1>3
  <2>2. v[s[j]] < v[s[i]]
    BY <1>1, <2>1 DEF Rising
  <2>3. s[i] \in M /\ s[j] \in M
    BY <1>1, <2>1 DEF ToSet
  <2>. QED  BY <1>2, <2>2, <2>3, NumbersTell
<1>. QED  BY <1>1, <1>3 DEF Lists, InDocumentOrder

\* Under the audit the table of all nodes and the tables of the types list their nodes in
\* document order, although their keys change while they are in the tables
\* (pavl_insert with dfi and type_dfi as the comparison).
THEOREM TablesStayInOrder == ASSUME Audit PROVE Spec => []TablesInOrder
<1>1. AInv => TablesInOrder
  <2>. SUFFICES ASSUME AInv  PROVE TablesInOrder
    OBVIOUS
  <2>1. Sound(tbl, Nodes) /\ Sorted(tbl, Nodes, val)
    BY DEF AInv, Exact, val, Nodes
  <2>2. Lists(InOrder(tbl), Nodes)
    BY <2>1, TableLists
  <2>3. ASSUME NEW x \in Types
        PROVE  Lists(InOrder(type_tables[x]), {n \in Nodes : type[n] = x})
    <3>1. /\ Sound(type_tables[x], Members(x)) /\ Sorted(type_tables[x], Members(x), val)
          /\ Members(x) \subseteq Nodes
      BY DEF AInv, TypeTables, Members
    <3>2. Lists(InOrder(type_tables[x]), Members(x))
      BY <3>1, TableLists
    <3>. QED  BY <3>2 DEF Members
  <2>. QED  BY <2>2, <2>3 DEF TablesInOrder
<1>. QED  BY <1>1, AuditHolds, PTL

\* Under the audit get_node() finds every node at its place in document order, and nothing
\* beyond the last one (the search of the table of all nodes by dfi()).
THEOREM LookUpStaysCorrect == ASSUME Audit PROVE Spec => []LookUpCorrect
<1>1. AInv => LookUpCorrect
  <2>. SUFFICES ASSUME AInv, NEW k \in 0 .. size
                PROVE  IF k = size THEN GetNode(k) = NULL
                       ELSE GetNode(k) \in Nodes /\ Place(GetNode(k)) = k
    BY DEF LookUpCorrect
  <2>1. size \in 1 .. MaxNodes /\ OneTree(tree, size) /\ Numbers(val, tree, size)
        /\ Nodes = 1 .. size /\ Sound(tbl, Nodes) /\ Sorted(tbl, Nodes, val)
    BY DEF AInv, TInv, IInv, TreeSound, Exact, val, Nodes
  <2>. PICK y, v : y = GetNode(k) /\ v = val
    OBVIOUS
  <2>2. IF k = size THEN y = NULL ELSE y \in Nodes /\ v[y] = k
    BY <2>1, NodeAtExact DEF GetNode
  <2>3. ASSUME y \in Nodes
        PROVE  v[y] = Place(y)
    <3>1. v[y] = Cardinality({m \in 1 .. size : Precedes(tree, m, y)})
      BY <2>1, <2>3, NumberIsPlace
    <3>. QED  BY <3>1 DEF Place, Nodes
  <2>. QED  BY <2>2, <2>3
<1>. QED  BY <1>1, AuditHolds, PTL

-----------------------------------------------------------------------------
(* The nodes in the order of their numbers *)

\* o lists the first k nodes by their numbers.
ListsBy(o, v, k) ==
  /\ o \in Seq(1 .. k) /\ Len(o) = k
  /\ \A i \in 1 .. k : o[i] \in 1 .. k /\ v[o[i]] = i - 1
  /\ \A n \in 1 .. k : v[n] \in 0 .. k - 1 /\ o[v[n] + 1] = n

LEMMA IndexOrderIs == AInv => ListsBy(IndexOrder, val, size)
<1>. SUFFICES ASSUME AInv  PROVE ListsBy(IndexOrder, val, size)
  OBVIOUS
<1>. PICK v, o : v = val /\ o = IndexOrder
  OBVIOUS
<1>1. /\ size \in 1 .. MaxNodes /\ OneTree(tree, size) /\ Numbers(v, tree, size)
      /\ Nodes = 1 .. size /\ size \in Nat
  BY NodeAssumption DEF AInv, TInv, IInv, TreeSound, Exact, val, Nodes
<1>2. o = [i \in Nodes |->
     IF \E n \in Nodes : v[n] = i - 1 THEN CHOOSE n \in Nodes : v[n] = i - 1 ELSE NULL]
  BY DEF IndexOrder
<1>3. ASSUME NEW i \in 1 .. size
      PROVE  o[i] \in 1 .. size /\ v[o[i]] = i - 1
  <2>1. i - 1 \in 0 .. size - 1
    BY <1>1
  <2>2. \E n \in Nodes : v[n] = i - 1
    BY <1>1, <2>1 DEF Numbers
  <2>3. o[i] = CHOOSE n \in Nodes : v[n] = i - 1
    BY <1>1, <1>2, <2>2
  <2>4. o[i] \in Nodes /\ v[o[i]] = i - 1
    BY <2>2, <2>3
  <2>. QED  BY <1>1, <2>4
<1>4. o \in Seq(1 .. size) /\ Len(o) = size
  BY <1>1, <1>2, <1>3
<1>5. ASSUME NEW n \in 1 .. size
      PROVE  v[n] \in 0 .. size - 1 /\ o[v[n] + 1] = n
  <2>1. v[n] \in 0 .. size - 1
    BY <1>1 DEF Numbers
  <2>2. o[v[n] + 1] \in 1 .. size /\ v[o[v[n] + 1]] = v[n]
    BY <1>1, <1>3, <2>1
  <2>. QED  BY <1>1, <2>1, <2>2, NumbersTell
<1>. QED  BY <1>3, <1>4, <1>5 DEF ListsBy

\* An insertion fails, or it moves the numbers up from the new node's on.
LEMMA InsertMoves ==
  ASSUME Audit, AInv, NEW p \in Nodes, NEW pos, NEW k \in Types, Insert(p, pos, k)
  PROVE  \/ size' = size
         \/ /\ size' = size + 1 /\ size < MaxNodes
            /\ \E r \in Int : MovedUp(val', val, size, size + 1, r)
<1>1. PICK early, w : ValuesAfter(w, p, pos, early) /\ Inserts(p, pos, k, early, w)
  BY InsertParts
<1>2. PICK late, failed : failed \in SUBSET {150} /\ InsertNode(p, pos, early, late, failed)
  BY <1>1 DEF Inserts
<1>3. CanInsert(p, pos) /\ size < MaxNodes /\ unread = {}
  BY DEF Insert, CanInsert
<1>4. IInv /\ Exact(tree, size, idx, suc, tbl) /\ size \in 1 .. MaxNodes
      /\ TreeShape(tree) /\ Ancestry(tree, size) /\ IndexTyped(idx)
  BY DEF AInv, TInv, IInv, TreeSound, Exact
<1>5. PICK v : v = DfiValues(tree, idx)
  OBVIOUS
<1>6. UpToDate(tree, size, idx, v)
  BY <1>3, <1>4, <1>5, SeenUpToDate DEF AInv
<1>7. InsertedExact(v, w)
  BY <1>1, <1>2, <1>3, <1>4, <1>5, <1>6, InsertNodeExact
<1>8. CASE fault' = 150 /\ UNCHANGED <<tree, size, idx, suc, tbl>>
  BY <1>8
<1>9. CASE /\ fault' = fault /\ size' = size + 1
           /\ \E r \in Int : Follow(tree', idx', suc', tbl', v, w, r, size')
  <2>1. PICK r \in Int : Follow(tree', idx', suc', tbl', v, w, r, size')
    BY <1>9
  <2>2. DfiValues(tree', idx') = w /\ MovedUp(w, v, size, size', r)
    BY <2>1 DEF Follow
  <2>3. MovedUp(val', val, size, size + 1, r)
    BY <1>5, <1>9, <2>2 DEF val
  <2>. QED  BY <1>3, <1>9, <2>3
<1>. QED  BY <1>7, <1>8, <1>9 DEF InsertedExact

LEMMA OrderGrows ==
  ASSUME NEW k \in Nat, NEW n, n = k + 1, NEW v, NEW w, NEW r \in 1 .. k, MovedUp(w, v, k, n, r),
         NEW o, ListsBy(o, v, k), NEW q, ListsBy(q, w, n)
  PROVE  q = InsertAt(o, r + 1, n)
<1>. PICK d, i : d = InsertAt(o, i, n) /\ i = r + 1
  OBVIOUS
<1>1. o \in Seq(1 .. n) /\ Len(o) = k
  <2>1. o \in Seq(1 .. k) /\ Len(o) = k /\ 1 .. k \subseteq 1 .. n
    BY DEF ListsBy
  <2>. QED  BY <2>1
<1>2. IsGrown(o, d, n, i, 1 .. n)
  <2>1. n \in 1 .. n /\ i \in 1 .. Len(o) + 1
    BY <1>1
  <2>2. PICK T : T = 1 .. n
    OBVIOUS
  <2>. QED  BY <1>1, <2>1, <2>2, InsertAtFacts
<1>3. /\ d \in Seq(1 .. n) /\ Len(d) = n
      /\ \A j \in 1 .. n : /\ j < i => d[j] = o[j]
                           /\ j = i => d[j] = n
                           /\ j > i => d[j] = o[j - 1]
  BY <1>1, <1>2 DEF IsGrown
<1>4. /\ q \in Seq(1 .. n) /\ Len(q) = n
      /\ \A y \in 1 .. n : q[w[y] + 1] = y
  <2>1. q \in Seq(1 .. n) /\ Len(q) = n
    BY DEF ListsBy
  <2>2. ASSUME NEW y \in 1 .. n
        PROVE  q[w[y] + 1] = y
    BY DEF ListsBy
  <2>. QED  BY <2>1, <2>2
<1>5. ASSUME NEW j \in 1 .. k
      PROVE  o[j] \in 1 .. k /\ o[j] \in 1 .. n /\ v[o[j]] = j - 1
             /\ w[o[j]] = (j - 1) + IF r <= j - 1 THEN 1 ELSE 0
  <2>1. o[j] \in 1 .. k /\ v[o[j]] = j - 1
    BY DEF ListsBy
  <2>2. w[o[j]] = v[o[j]] + IF r <= v[o[j]] THEN 1 ELSE 0
    BY <2>1 DEF MovedUp
  <2>. QED  BY <2>1, <2>2
<1>6. ASSUME NEW j \in 1 .. n
      PROVE  q[j] = d[j]
  <2>1. CASE j < i
    <3>1. j \in 1 .. k /\ j - 1 < r
      BY <2>1
    <3>2. w[o[j]] = j - 1 /\ o[j] \in 1 .. n
      BY <1>5, <3>1
    <3>3. q[w[o[j]] + 1] = o[j]
      BY <1>4, <3>2
    <3>4. w[o[j]] + 1 = j
      BY <3>2
    <3>. QED  BY <1>3, <2>1, <3>3, <3>4
  <2>2. CASE j = i
    <3>1. w[n] = r /\ n \in 1 .. n
      BY DEF MovedUp
    <3>2. q[r + 1] = n
      BY <1>4, <3>1
    <3>. QED  BY <1>3, <2>2, <3>2
  <2>3. CASE j > i
    <3>1. j - 1 \in 1 .. k /\ r <= j - 2
      BY <2>3
    <3>2. w[o[j - 1]] = j - 1 /\ o[j - 1] \in 1 .. n
      BY <1>5, <3>1
    <3>3. q[w[o[j - 1]] + 1] = o[j - 1]
      BY <1>4, <3>2
    <3>4. w[o[j - 1]] + 1 = j
      BY <3>2
    <3>. QED  BY <1>3, <2>3, <3>3, <3>4
  <2>. QED  BY <2>1, <2>2, <2>3
<1>. QED  BY <1>3, <1>4, <1>6, SMTT(60)

LEMMA OrderStep ==
  ASSUME Audit, AInv, AInv', [Next]_vars
  PROVE  [Abstract!Grow]_IndexOrder
<1>1. TInv
  BY DEF AInv
<1>2. CASE size' = size
  <2>1. val' = val
    BY <1>1, <1>2, StepTransparent
  <2>2. IndexOrder' = IndexOrder
    BY <1>2, <2>1 DEF IndexOrder, Nodes
  <2>. QED  BY <2>2
<1>3. CASE size' # size
  <2>1. PICK p \in Nodes, pos \in 0 .. MaxNodes, k \in Types : Insert(p, pos, k)
    BY <1>1, <1>3, ReadOutcome
  <2>2. size' = size + 1 /\ \E r \in Int : MovedUp(val', val, size, size + 1, r)
    BY <1>3, <2>1, InsertMoves
  <2>. PICK n, v, w, o, q : n = size + 1 /\ v = val /\ w = val' /\ o = IndexOrder /\ q = IndexOrder'
    OBVIOUS
  <2>3. PICK r \in Int : MovedUp(w, v, size, n, r)
    BY <2>2
  <2>4. ListsBy(o, v, size) /\ size \in 1 .. MaxNodes /\ size \in Nat
    BY IndexOrderIs, NodeAssumption DEF AInv, TInv, IInv, TreeSound
  <2>5. ListsBy(q, w, n)
    <3>1. ListsBy(IndexOrder, val, size)'
      BY IndexOrderIs, PTL
    <3>. QED  BY <2>2, <3>1
  <2>6. r \in 1 .. size
    <3>1. /\ n \in 1 .. MaxNodes /\ OneTree(tree', n) /\ Numbers(w, tree', n)
      BY <2>2 DEF AInv, TInv, IInv, TreeSound, Exact, val
    <3>2. 1 \in 1 .. n /\ n \in 1 .. n /\ n \in 2 .. n
      BY <2>4
    <3>3. 1 \in tree'.above[n]
      BY <3>1, <3>2 DEF OneTree
    <3>4. w[1] < w[n] /\ w[1] \in 0 .. n - 1 /\ w[n] \in 0 .. n - 1
      BY <3>1, <3>2, <3>3 DEF Numbers, Precedes
    <3>5. w[n] = r
      BY <2>3 DEF MovedUp
    <3>. QED  BY <2>4, <3>4, <3>5
  <2>7. q = InsertAt(o, r + 1, n)
    BY <2>3, <2>4, <2>5, <2>6, OrderGrows
  <2>8. Len(o) + 1 = n /\ r + 1 \in 2 .. Len(o) + 1
    BY <2>4, <2>6 DEF ListsBy
  <2>9. Abstract!Grow
    <3>1. IndexOrder' = InsertAt(IndexOrder, r + 1, Len(IndexOrder) + 1)
      BY <2>7, <2>8
    <3>. QED  BY <2>8, <3>1 DEF Abstract!Grow, Abstract!InsertAt, InsertAt
  <2>. QED  BY <2>9
<1>. QED  BY <1>2, <1>3

LEMMA OrderInit == Init => Abstract!Init
<1>. SUFFICES ASSUME Init  PROVE Abstract!Init
  OBVIOUS
<1>. PICK v, o : v = val /\ o = IndexOrder
  OBVIOUS
<1>1. AInv
  BY AuditInit
<1>2. ListsBy(o, v, size) /\ size \in 1 .. MaxNodes /\ size \in Nat
      /\ TreeShape(tree) /\ Ancestry(tree, size)
  BY <1>1, IndexOrderIs, NodeAssumption DEF AInv, TInv, IInv, TreeSound
<1>3. idx = FreshIndex(tree, size)
  BY DEF Init, DfiInit
<1>4. \A n \in 1 .. size : v[n] = n - 1
  BY <1>2, <1>3, FreshValues DEF val
<1>5. o \in Seq(1 .. size) /\ Len(o) = size /\ \A i \in 1 .. size : o[i] = i
  <2>1. o \in Seq(1 .. size) /\ Len(o) = size
    BY <1>2 DEF ListsBy
  <2>2. ASSUME NEW i \in 1 .. size
        PROVE  o[i] = i
    <3>1. o[v[i] + 1] = i
      BY <1>2 DEF ListsBy
    <3>. QED  BY <1>4, <3>1
  <2>. QED  BY <2>1, <2>2
<1>6. o = [i \in 1 .. Len(o) |-> i]
  BY <1>5
<1>. QED  BY <1>2, <1>5, <1>6 DEF Abstract!Init

\* Under the audit the filter implements the document order: it starts as the numbered list
\* of the nodes, and every insertion puts the new node into the list at its place, and every
\* other step leaves the list alone (generate_index, insert and dfi together).
THEOREM OrderIsRefined == ASSUME Audit PROVE Spec => RefinesDocumentOrder
<1>1. AInv /\ AInv' /\ [Next]_vars => [Abstract!Grow]_IndexOrder
  BY OrderStep
<1>. QED
  BY <1>1, OrderInit, AuditHolds, PTL DEF Spec, RefinesDocumentOrder, Abstract!Spec

\* As many nodes have a number of an interval as the interval has members.
LEMMA CountBetween ==
  ASSUME NEW t, NEW k \in 1 .. MaxNodes, OneTree(t, k), NEW v, Numbers(v, t, k),
         NEW a \in Nat, NEW c \in Nat, a + c <= k
  PROVE  Cardinality({m \in 1 .. k : a <= v[m] /\ v[m] < a + c}) = c
<1>. DEFINE S == {m \in 1 .. k : a <= v[m] /\ v[m] < a + c}
            f == [i \in 1 .. c |-> CHOOSE m \in 1 .. k : v[m] = (a + i) - 1]
<1>0. k \in Nat
  BY NodeAssumption
<1>1. \A m \in 1 .. k : v[m] \in Int /\ v[m] \in 0 .. k - 1
  BY NumbersOrder
<1>2. ASSUME NEW i \in 1 .. c
      PROVE  f[i] \in 1 .. k /\ v[f[i]] = (a + i) - 1
  <2>1. (a + i) - 1 \in 0 .. k - 1
    BY <1>0
  <2>2. \E m \in 1 .. k : v[m] = (a + i) - 1
    BY <2>1 DEF Numbers
  <2>. QED  BY <2>2, Zenon
<1>. HIDE DEF f
<1>3. f \in [1 .. c -> S]
  <2>1. f = [i \in 1 .. c |-> f[i]]
    BY DEF f
  <2>2. \A i \in 1 .. c : f[i] \in S
    BY <1>2
  <2>. QED  BY <2>1, <2>2, Zenon
<1>4. \A i, j \in 1 .. c : f[i] = f[j] => i = j
  BY <1>2
<1>5. \A m \in S : \E i \in 1 .. c : f[i] = m
  <2>. SUFFICES ASSUME NEW m \in S  PROVE \E i \in 1 .. c : f[i] = m
    OBVIOUS
  <2>1. m \in 1 .. k /\ a <= v[m] /\ v[m] < a + c /\ v[m] \in Int
    BY <1>1
  <2>2. PICK i \in 1 .. c : v[m] = (a + i) - 1
    <3>1. (v[m] - a) + 1 \in 1 .. c /\ v[m] = (a + ((v[m] - a) + 1)) - 1
      BY <2>1
    <3>. QED  BY <3>1
  <2>3. f[i] \in 1 .. k /\ v[f[i]] = v[m]
    BY <1>2, <2>2
  <2>4. f[i] = m
    BY <2>1, <2>3, NumbersTell
  <2>. QED  BY <2>4
<1>6. ExistsBijection(1 .. c, S)
  <2>1. f \in Bijection(1 .. c, S)
    BY <1>3, <1>4, <1>5 DEF Bijection, Injection, Surjection, IsInjective
  <2>. QED  BY <2>1 DEF ExistsBijection
<1>. HIDE DEF S
<1>7. Cardinality(S) = c
  BY <1>6, FS_CountingElements
<1>. QED  BY <1>7 DEF S

\* What follows the branch of n has the number that follows its last descendant's.
LEMMA FollowsAtEnd ==
  ASSUME NEW t, NEW k \in 1 .. MaxNodes, OneTree(t, k), NEW v, Numbers(v, t, k), NEW n \in 1 .. k,
         NEW r, Follows(v, t, k, n, r)
  PROVE  r = v[n] + 1 + Cardinality({m \in 1 .. k : n \in t.above[m]})
<1>0. k \in Nat
  BY NodeAssumption
<1>1. \A m \in 1 .. k : v[m] \in Int /\ v[m] \in 0 .. k - 1
  BY NumbersOrder
<1>2. r \in 0 .. k /\ v[n] < r
  BY DEF Follows, Under
<1>. PICK a, c : a = v[n] + 1 /\ c = r - (v[n] + 1)
  OBVIOUS
<1>3. a \in Nat /\ c \in Nat /\ a + c = r /\ r \in Int
  BY <1>0, <1>1, <1>2
<1>4. ASSUME NEW m \in 1 .. k
      PROVE  n \in t.above[m] <=> a <= v[m] /\ v[m] < a + c
  <2>1. n \in t.above[m] => v[n] < v[m] /\ v[m] < r
    BY NumbersOrder DEF Follows, Under
  <2>2. v[n] < v[m] => Precedes(t, n, m)
    BY NumbersTell
  <2>3. LeftOf(t, n, m) => r <= v[m]
    BY DEF Follows
  <2>4. v[n] < v[m] /\ v[m] < r => n \in t.above[m]
    BY <1>1, <1>3, <2>2, <2>3 DEF Precedes
  <2>. QED  BY <1>1, <1>3, <2>1, <2>4
<1>5. {m \in 1 .. k : n \in t.above[m]} = {m \in 1 .. k : a <= v[m] /\ v[m] < a + c}
  BY <1>4
<1>6. a + c <= k
  BY <1>0, <1>2, <1>3
<1>7. Cardinality({m \in 1 .. k : a <= v[m] /\ v[m] < a + c}) = c
  BY <1>3, <1>6, CountBetween
<1>. QED  BY <1>0, <1>1, <1>3, <1>5, <1>7

\* The successors of generate_index are exact.
LEMMA FreshSuccessorsExact ==
  ASSUME NEW t, NEW k \in 1 .. MaxNodes, OneTree(t, k), NEW v, Numbers(v, t, k),
         \A n \in 1 .. k : v[n] = n - 1, NEW s, s = FreshSuccessors(t, k), NEW n \in 1 .. k
  PROVE  /\ Follows(v, t, k, n, s.dfi[n])
         /\ s.node[n] # NULL => s.node[n] \in 1 .. k /\ v[s.node[n]] = s.dfi[n]
<1>0. 1 .. k \subseteq Node /\ k \in Nat /\ NULL \notin Node
  BY NodeAssumption, NullAssumption
<1>. PICK S : S = After(t, k, n)
  OBVIOUS
<1>1. /\ s.node[n] = IF S # {} THEN Min(S) ELSE NULL
      /\ s.dfi[n] = IF S = {} THEN k ELSE Min(S) - 1
  BY <1>0 DEF FreshSuccessors
<1>2. \A m : m \in S <=> m \in n + 1 .. k /\ n \notin t.above[m]
  BY DEF After
<1>3. CASE S = {}
  <2>1. SuccessorsSound(s, t, k)
    BY FreshSuccessorsSound
  <2>2. AtEnd(t, k, n)
    BY <1>1, <1>3, <2>1 DEF SuccessorsSound
  <2>. QED  BY <1>1, <1>3, <2>2, EndAfter
<1>4. CASE S # {}
  <2>1. S \subseteq Nat
    BY <1>0, <1>2
  <2>2. \E x \in S : \A y \in S : x <= y
    BY <1>4, <2>1, LeastMember
  <2>. PICK m : m = Min(S)
    OBVIOUS
  <2>3. m \in S /\ \A y \in S : m <= y
    BY <2>2 DEF Min
  <2>4. m \in 1 .. k /\ n < m /\ n \notin t.above[m] /\ m \in Nat /\ v[m] = m - 1
    BY <1>0, <1>2, <2>3
  <2>5. LeftOf(t, n, m)
    <3>1. v[n] < v[m]
      BY <2>4
    <3>2. Precedes(t, n, m)
      BY <2>4, <3>1, NumbersTell
    <3>. QED  BY <2>4, <3>2 DEF Precedes
  <2>6. ASSUME NEW y \in 1 .. k
        PROVE  /\ Under(t, n, y) => v[y] < v[m]
               /\ LeftOf(t, n, y) => v[m] <= v[y]
    <3>1. ASSUME Under(t, n, y)
          PROVE  v[y] < v[m]
      <4>1. LeftOf(t, y, m)
        BY <2>5, <3>1, LeftOfBranch
      <4>. QED  BY <2>4, <4>1, NumbersOrder
    <3>2. ASSUME LeftOf(t, n, y)
          PROVE  v[m] <= v[y]
      <4>1. v[n] < v[y]
        BY <3>2, NumbersOrder
      <4>2. y \in n + 1 .. k
        BY <4>1
      <4>3. n \notin t.above[y]
        <5>1. ASSUME n \in t.above[y]
              PROVE  FALSE
          <6>1. LeftOf(t, y, y)
            BY <3>2, <5>1, LeftOfBranch DEF Under
          <6>2. v[y] < v[y]
            BY <6>1, NumbersOrder
          <6>. QED  BY <6>2
        <5>. QED  BY <5>1
      <4>4. m <= y
        BY <1>2, <2>3, <4>2, <4>3
      <4>. QED  BY <2>4, <4>4
    <3>. QED  BY <3>1, <3>2
  <2>7. s.dfi[n] = v[m] /\ s.node[n] = m /\ v[m] \in 0 .. k
    BY <1>0, <1>1, <1>4, <2>4
  <2>8. Follows(v, t, k, n, v[m])
    BY <2>6, <2>7 DEF Follows
  <2>. QED  BY <2>4, <2>7, <2>8
<1>. QED  BY <1>3, <1>4

\* On a fresh index postorder_successor_dfi() is exact.
LEMMA OutcomeExact ==
  ASSUME NEW t, NEW k \in 1 .. MaxNodes, OneTree(t, k), NEW v, Numbers(v, t, k), NEW n \in 1 .. k,
         NEW s, Follows(v, t, k, n, s.dfi[n]), s.dfi \in [Node -> Int],
         s.node[n] # NULL => v[s.node[n]] = s.dfi[n], NEW c,
         SuccessorOutcome(c, s, t, v, k, n)
  PROVE  Follows(v, t, k, n, c.dfi[n])
<1>1. n \in Node
  BY NodeAssumption
<1>2. CASE c = s
  BY <1>2
<1>3. CASE s.node[n] # NULL /\ c.dfi = [s.dfi EXCEPT ![n] = v[s.node[n]]]
  <2>1. c.dfi[n] = s.dfi[n]
    BY <1>1, <1>3
  <2>. QED  BY <2>1
<1>4. CASE \E m : /\ m = SuccessorSearch(t, v, n).node
                  /\ c.dfi = [s.dfi EXCEPT ![n] = IF m = NULL THEN k ELSE v[m]]
  <2>1. PICK m : /\ m = SuccessorSearch(t, v, n).node
                 /\ c.dfi = [s.dfi EXCEPT ![n] = IF m = NULL THEN k ELSE v[m]]
    BY <1>4
  <2>2. IF m = NULL THEN AtEnd(t, k, n) ELSE Follows(v, t, k, n, v[m])
    BY <2>1, SearchExact
  <2>3. c.dfi[n] = IF m = NULL THEN k ELSE v[m]
    BY <1>1, <2>1
  <2>. QED  BY <2>2, <2>3, EndAfter
<1>. QED  BY <1>2, <1>3, <1>4 DEF SuccessorOutcome

LEMMA NumbersAre ==
  ASSUME AInv, NEW n \in Nodes, NEW r, Follows(val, tree, size, n, r)
  PROVE  r = End(n)
<1>1. size \in 1 .. MaxNodes /\ OneTree(tree, size) /\ Numbers(val, tree, size) /\ n \in 1 .. size
  BY DEF AInv, TInv, IInv, TreeSound, Exact, val, Nodes
<1>. PICK v : v = val
  OBVIOUS
<1>2. v[n] = Cardinality({m \in 1 .. size : Precedes(tree, m, n)})
  BY <1>1, NumberIsPlace
<1>3. r = v[n] + 1 + Cardinality({m \in 1 .. size : n \in tree.above[m]})
  BY <1>1, FollowsAtEnd
<1>. QED  BY <1>2, <1>3 DEF End, Place, NodesBelow, Nodes

\* On a tree indexed as it is, postorder_successor_dfi() is the number after that of the
\* node's last descendant (the search from a last child up, and the cache).
THEOREM SuccessorStaysCorrect == ASSUME Audit PROVE Spec => []SuccessorCorrect
<1>1. AInv => SuccessorCorrect
  <2>. SUFFICES ASSUME AInv, Generated, NEW n \in Nodes  PROVE SuccessorIndex(n) = End(n)
    BY DEF SuccessorCorrect
  <2>1. /\ size \in 1 .. MaxNodes /\ OneTree(tree, size) /\ Numbers(val, tree, size)
        /\ n \in 1 .. size /\ SuccessorsSound(suc, tree, size)
        /\ TreeShape(tree) /\ Ancestry(tree, size)
    BY DEF AInv, TInv, IInv, TreeSound, Exact, val, Nodes
  <2>. PICK v, c : v = val /\ c = PostorderSuccessor(tree, idx, suc, size, n).suc
    OBVIOUS
  <2>2. \A y \in 1 .. size : v[y] = y - 1
    BY <2>1, FreshValues DEF Generated, val
  <2>3. suc = FreshSuccessors(tree, size)
    BY DEF Generated
  <2>4. /\ Follows(v, tree, size, n, suc.dfi[n])
        /\ suc.node[n] # NULL => v[suc.node[n]] = suc.dfi[n]
    BY <2>1, <2>2, <2>3, FreshSuccessorsExact
  <2>5. IsCache(suc) /\ suc.dfi \in [Node -> Int]
    BY <2>1 DEF SuccessorsSound
  <2>6. SuccessorOutcome(c, suc, tree, v, size, n)
    BY <2>5, SuccessorOutcomes DEF val
  <2>7. Follows(v, tree, size, n, c.dfi[n])
    BY <2>1, <2>4, <2>5, <2>6, OutcomeExact
  <2>8. c.dfi[n] = End(n)
    BY <2>7, NumbersAre
  <2>. QED  BY <2>8 DEF SuccessorIndex
<1>. QED  BY <1>1, AuditHolds, PTL

-----------------------------------------------------------------------------
(* The walk of generate_index that numbers the nodes of each type. *)

\* The counts, numbers and bounds after the walk has met the nodes 1 .. n.
WalkOf(t, of, w, k) ==
  /\ w = [n \in 0 .. k |-> w[n]]
  /\ w[0] = [met |-> [x \in Types |-> 0],
             type_base_index |-> [m \in Node |-> 0],
             cached_type_parent_dfi |-> [m \in Node |-> 0],
             min_type_bounds |-> [x \in Types |-> NULL],
             max_type_bounds |-> [x \in Types |-> NULL]]
  /\ \A n \in 1 .. k : w[n] = NumberNode(t, of, w[n - 1], n)

LEMMA WalkOfExists ==
  ASSUME NEW t, NEW of, NEW k \in Nat
  PROVE  \E w : WalkOf(t, of, w, k)
<1>. DEFINE T == {j \in 0 .. k : \E w : WalkOf(t, of, w, j)}
<1>1. 0 \in T
  <2>. DEFINE s == [met |-> [x \in Types |-> 0],
                    type_base_index |-> [m \in Node |-> 0],
                    cached_type_parent_dfi |-> [m \in Node |-> 0],
                    min_type_bounds |-> [x \in Types |-> NULL],
                    max_type_bounds |-> [x \in Types |-> NULL]]
              w == [n \in 0 .. 0 |-> s]
  <2>1. w[0] = s /\ w = [n \in 0 .. 0 |-> w[n]]
    OBVIOUS
  <2>2. WalkOf(t, of, w, 0)
    <3>. HIDE DEF w
    <3>. QED  BY <2>1 DEF WalkOf
  <2>. QED  BY <2>2
<1>2. ASSUME NEW j \in 0 .. k - 1, j \in T
      PROVE  j + 1 \in T
  <2>1. PICK w : WalkOf(t, of, w, j)
    BY <1>2
  <2>. DEFINE last == NumberNode(t, of, w[j], j + 1)
              v == [n \in 0 .. j + 1 |-> IF n = j + 1 THEN last ELSE w[n]]
  <2>2. v[j + 1] = last /\ (v = [n \in 0 .. j + 1 |-> v[n]]) /\ \A n \in 0 .. j : v[n] = w[n]
    <3>. HIDE DEF last
    <3>. QED  OBVIOUS
  <2>. HIDE DEF v
  <2>3. v[0] = w[0]
    BY <2>2
  <2>4. ASSUME NEW n \in 1 .. j + 1
        PROVE  v[n] = NumberNode(t, of, v[n - 1], n)
    <3>1. CASE n = j + 1
      <4>1. n - 1 = j /\ j \in 0 .. j
        BY <3>1
      <4>2. v[n - 1] = w[j]
        BY <2>2, <4>1
      <4>3. v[n] = last
        BY <2>2, <3>1
      <4>. QED  BY <3>1, <4>2, <4>3
    <3>2. CASE n \in 1 .. j
      <4>1. n \in 0 .. j /\ n - 1 \in 0 .. j
        BY <3>2
      <4>2. v[n] = w[n] /\ v[n - 1] = w[n - 1]
        BY <2>2, <4>1
      <4>. QED  BY <2>1, <3>2, <4>2 DEF WalkOf
    <3>. QED  BY <3>1, <3>2
  <2>5. WalkOf(t, of, v, j + 1)
    BY <2>1, <2>2, <2>3, <2>4 DEF WalkOf
  <2>6. j + 1 \in 0 .. k
    OBVIOUS
  <2>. QED  BY <2>5, <2>6
<1>3. k \in T
  <2>. HIDE DEF T
  <2>1. 0 .. k \subseteq T
    BY <1>1, <1>2, Reaches
  <2>. QED  BY <2>1
<1>. QED  BY <1>3

\* What generate_index leaves is what the walk has found when it has met the last node.
LEMMA FreshIsWalked ==
  ASSUME NEW t, NEW of, NEW k \in Nat
  PROVE  \E w : /\ WalkOf(t, of, w, k)
                /\ FreshTypes(t, of, k).type_base_index = w[k].type_base_index
                /\ FreshTypes(t, of, k).min_type_bounds = w[k].min_type_bounds
                /\ FreshTypes(t, of, k).max_type_bounds = w[k].max_type_bounds
<1>. DEFINE s == [met |-> [x \in Types |-> 0],
                  type_base_index |-> [m \in Node |-> 0],
                  cached_type_parent_dfi |-> [m \in Node |-> 0],
                  min_type_bounds |-> [x \in Types |-> NULL],
                  max_type_bounds |-> [x \in Types |-> NULL]]
            Eq(w) == w = [n \in 0 .. k |-> IF n = 0 THEN s ELSE NumberNode(t, of, w[n - 1], n)]
            walk == CHOOSE w : Eq(w)
<1>1. PICK w : WalkOf(t, of, w, k)
  BY WalkOfExists
<1>2. Eq(w)
  <2>. DEFINE v == [n \in 0 .. k |-> IF n = 0 THEN s ELSE NumberNode(t, of, w[n - 1], n)]
  <2>1. ASSUME NEW n \in 0 .. k
        PROVE  w[n] = IF n = 0 THEN s ELSE NumberNode(t, of, w[n - 1], n)
    <3>1. n = 0 \/ n \in 1 .. k
      OBVIOUS
    <3>. QED  BY <1>1, <3>1 DEF WalkOf
  <2>2. w = [n \in 0 .. k |-> w[n]]
    BY <1>1 DEF WalkOf
  <2>. HIDE DEF s
  <2>. QED  BY <2>1, <2>2
<1>3. Eq(walk)
  BY <1>2
<1>4. WalkOf(t, of, walk, k)
  <2>. HIDE DEF walk
  <2>1. walk[0] = s
    <3>. HIDE DEF s
    <3>. QED  BY <1>3
  <2>2. ASSUME NEW n \in 1 .. k
        PROVE  walk[n] = NumberNode(t, of, walk[n - 1], n)
    <3>. HIDE DEF s
    <3>. QED  BY <1>3
  <2>3. walk = [n \in 0 .. k |-> walk[n]]
    <3>. HIDE DEF s
    <3>. QED  BY <1>3
  <2>. QED  BY <2>1, <2>2, <2>3 DEF WalkOf
<1>5. /\ FreshTypes(t, of, k).type_base_index = walk[k].type_base_index
      /\ FreshTypes(t, of, k).min_type_bounds = walk[k].min_type_bounds
      /\ FreshTypes(t, of, k).max_type_bounds = walk[k].max_type_bounds
  BY DEF FreshTypes
<1>. QED  BY <1>4, <1>5

\* The place of a node among the nodes of its type, and the nodes of a type among the first.
TypeRank(of, n) == Cardinality({m \in 1 .. n - 1 : of[m] = of[n]})
FirstOf(of, n, x) == {m \in 1 .. n : of[m] = x}

LEMMA FirstOfNext ==
  ASSUME NEW of, NEW n \in Nat, n # 0, NEW x
  PROVE  /\ FirstOf(of, n, x) = IF of[n] = x THEN FirstOf(of, n - 1, x) \cup {n}
                                ELSE FirstOf(of, n - 1, x)
         /\ Cardinality(FirstOf(of, n, x)) =
              Cardinality(FirstOf(of, n - 1, x)) + IF of[n] = x THEN 1 ELSE 0
         /\ Cardinality(FirstOf(of, n - 1, x)) \in Nat
<1>1. FirstOf(of, n, x) = IF of[n] = x THEN FirstOf(of, n - 1, x) \cup {n}
                          ELSE FirstOf(of, n - 1, x)
  BY DEF FirstOf
<1>2. IsFiniteSet(FirstOf(of, n - 1, x)) /\ n \notin FirstOf(of, n - 1, x)
  <2>1. IsFiniteSet(1 .. n - 1)
    BY FS_Interval
  <2>2. FirstOf(of, n - 1, x) \subseteq 1 .. n - 1
    BY DEF FirstOf
  <2>. QED  BY <2>1, <2>2, FS_Subset
<1>3. Cardinality(FirstOf(of, n - 1, x)) \in Nat
  BY <1>2, FS_CardinalityType
<1>4. CASE of[n] = x
  BY <1>1, <1>2, <1>3, <1>4, FS_AddElement
<1>5. CASE of[n] # x
  BY <1>1, <1>3, <1>5
<1>. QED  BY <1>1, <1>3, <1>4, <1>5

\* What the walk has found after n nodes.
CountsOf(w, of, n) ==
  /\ DOMAIN w.met = Types /\ \A x \in Types : w.met[x] = Cardinality(FirstOf(of, n, x))
  /\ DOMAIN w.type_base_index = Node /\ \A m \in 1 .. n : w.type_base_index[m] = TypeRank(of, m)
BoundsOf(w, of, n) ==
  /\ DOMAIN w.min_type_bounds = Types /\ DOMAIN w.max_type_bounds = Types
  /\ \A x \in Types : FirstOf(of, n, x) # {} =>
       /\ w.min_type_bounds[x] \in FirstOf(of, n, x)
       /\ \A m \in FirstOf(of, n, x) : w.min_type_bounds[x] <= m
       /\ w.max_type_bounds[x] \in FirstOf(of, n, x)
       /\ \A m \in FirstOf(of, n, x) : m <= w.max_type_bounds[x]

LEMMA NumberNodeCounts ==
  ASSUME NEW t, NEW of, NEW n \in Node, of[n] \in Types, NEW w, CountsOf(w, of, n - 1),
         BoundsOf(w, of, n - 1)
  PROVE  CountsOf(NumberNode(t, of, w, n), of, n) /\ BoundsOf(NumberNode(t, of, w, n), of, n)
<1>. PICK v : v = NumberNode(t, of, w, n)
  OBVIOUS
<1>0. n \in Nat /\ n # 0 /\ n - 1 \in Nat
  BY NodeAssumption
<1>1. /\ v.met = [w.met EXCEPT ![of[n]] = @ + 1]
      /\ v.type_base_index = [w.type_base_index EXCEPT ![n] = w.met[of[n]]]
      /\ v.min_type_bounds = [w.min_type_bounds EXCEPT ![of[n]] = IF w.met[of[n]] = 0 THEN n ELSE @]
      /\ v.max_type_bounds = [w.max_type_bounds EXCEPT ![of[n]] = n]
  BY DEF NumberNode
<1>2. \A x \in Types : w.met[x] = Cardinality(FirstOf(of, n - 1, x))
  BY DEF CountsOf
<1>3. ASSUME NEW x \in Types
      PROVE  v.met[x] = Cardinality(FirstOf(of, n, x))
  <2>1. /\ Cardinality(FirstOf(of, n, x)) =
             Cardinality(FirstOf(of, n - 1, x)) + IF of[n] = x THEN 1 ELSE 0
        /\ Cardinality(FirstOf(of, n - 1, x)) \in Nat
    BY <1>0, FirstOfNext
  <2>2. v.met[x] = w.met[x] + IF of[n] = x THEN 1 ELSE 0
    BY <1>1, <1>2, <2>1 DEF CountsOf
  <2>. QED  BY <1>2, <2>1, <2>2
<1>4. w.met[of[n]] = TypeRank(of, n)
  BY <1>2 DEF FirstOf, TypeRank
<1>5. ASSUME NEW m \in 1 .. n
      PROVE  v.type_base_index[m] = TypeRank(of, m)
  <2>1. CASE m = n
    BY <1>1, <1>4, <2>1 DEF CountsOf
  <2>2. CASE m \in 1 .. n - 1
    <3>1. w.type_base_index[m] = TypeRank(of, m) /\ m # n /\ m \in Node
      BY <2>2, NodeAssumption DEF CountsOf
    <3>. QED  BY <1>1, <3>1 DEF CountsOf
  <2>. QED  BY <1>0, <2>1, <2>2
<1>6. CountsOf(v, of, n)
  BY <1>1, <1>3, <1>5 DEF CountsOf
<1>7. ASSUME NEW x \in Types, FirstOf(of, n, x) # {}
      PROVE  /\ v.min_type_bounds[x] \in FirstOf(of, n, x)
             /\ \A m \in FirstOf(of, n, x) : v.min_type_bounds[x] <= m
             /\ v.max_type_bounds[x] \in FirstOf(of, n, x)
             /\ \A m \in FirstOf(of, n, x) : m <= v.max_type_bounds[x]
  <2>. PICK F, G : F = FirstOf(of, n, x) /\ G = FirstOf(of, n - 1, x)
    OBVIOUS
  <2>1. F = (IF of[n] = x THEN G \cup {n} ELSE G) /\ G \subseteq 1 .. n - 1
    BY <1>0, FirstOfNext DEF FirstOf
  <2>2. G # {} => /\ w.min_type_bounds[x] \in G
                  /\ \A m \in G : w.min_type_bounds[x] <= m
                  /\ w.max_type_bounds[x] \in G
                  /\ \A m \in G : m <= w.max_type_bounds[x]
    BY DEF BoundsOf
  <2>3. DOMAIN w.min_type_bounds = Types /\ DOMAIN w.max_type_bounds = Types
    BY DEF BoundsOf
  <2>4. CASE of[n] # x
    <3>1. v.min_type_bounds[x] = w.min_type_bounds[x] /\ v.max_type_bounds[x] = w.max_type_bounds[x]
      BY <1>1, <2>3, <2>4
    <3>2. F = G /\ G # {}
      BY <1>7, <2>1, <2>4
    <3>. QED  BY <2>2, <3>1, <3>2
  <2>5. CASE of[n] = x
    <3>1. v.max_type_bounds[x] = n /\ F = G \cup {n}
      BY <1>1, <2>1, <2>3, <2>5
    <3>2. w.met[x] = 0 <=> G = {}
      <4>1. IsFiniteSet(G)
        <5>1. IsFiniteSet(1 .. n - 1)
          BY <1>0, FS_Interval
        <5>. QED  BY <2>1, <5>1, FS_Subset
      <4>2. Cardinality(G) = 0 <=> G = {}
        BY <4>1, FS_EmptySet
      <4>. QED  BY <1>2, <4>2
    <3>3. v.min_type_bounds[x] = IF G = {} THEN n ELSE w.min_type_bounds[x]
      BY <1>1, <2>3, <2>5, <3>2
    <3>4. \A m \in G : m <= n /\ m \in Nat
      BY <1>0, <2>1
    <3>. QED  BY <1>0, <2>2, <3>1, <3>3, <3>4
  <2>. QED  BY <2>4, <2>5
<1>8. BoundsOf(v, of, n)
  BY <1>1, <1>7 DEF BoundsOf
<1>. QED  BY <1>6, <1>8

\* generate_index numbers the nodes of each type from 0 on, in document order, and bounds each
\* type by its first and its last node.
LEMMA FreshTypesAre ==
  ASSUME NEW t, NEW of, NEW k \in Nat, 1 .. k \subseteq Node, \A n \in 1 .. k : of[n] \in Types
  PROVE  /\ \A n \in 1 .. k : FreshTypes(t, of, k).type_base_index[n] = TypeRank(of, n)
         /\ BoundsOf(FreshTypes(t, of, k), of, k)
<1>1. PICK w : /\ WalkOf(t, of, w, k)
               /\ FreshTypes(t, of, k).type_base_index = w[k].type_base_index
               /\ FreshTypes(t, of, k).min_type_bounds = w[k].min_type_bounds
               /\ FreshTypes(t, of, k).max_type_bounds = w[k].max_type_bounds
  BY FreshIsWalked
<1>. DEFINE T == {n \in 0 .. k : CountsOf(w[n], of, n) /\ BoundsOf(w[n], of, n)}
<1>2. 0 \in T
  <2>1. \A x \in Types : FirstOf(of, 0, x) = {} /\ Cardinality(FirstOf(of, 0, x)) = 0
    BY FS_EmptySet DEF FirstOf
  <2>2. /\ w[0].met = [x \in Types |-> 0] /\ w[0].type_base_index = [m \in Node |-> 0]
        /\ w[0].min_type_bounds = [x \in Types |-> NULL]
        /\ w[0].max_type_bounds = [x \in Types |-> NULL]
    BY <1>1 DEF WalkOf
  <2>3. CountsOf(w[0], of, 0)
    BY <2>1, <2>2 DEF CountsOf
  <2>4. BoundsOf(w[0], of, 0)
    BY <2>1, <2>2 DEF BoundsOf
  <2>. QED  BY <2>3, <2>4
<1>3. ASSUME NEW n \in 0 .. k - 1, n \in T
      PROVE  n + 1 \in T
  <2>. PICK m : m = n + 1
    OBVIOUS
  <2>1. m \in 1 .. k /\ m \in Node /\ of[m] \in Types /\ n = m - 1
    OBVIOUS
  <2>2. w[m] = NumberNode(t, of, w[m - 1], m)
    BY <1>1, <2>1 DEF WalkOf
  <2>3. CountsOf(w[m - 1], of, m - 1) /\ BoundsOf(w[m - 1], of, m - 1)
    BY <1>3, <2>1
  <2>4. CountsOf(w[m], of, m) /\ BoundsOf(w[m], of, m)
    BY <2>1, <2>2, <2>3, NumberNodeCounts
  <2>. QED  BY <2>1, <2>4
<1>4. k \in T
  <2>. HIDE DEF T
  <2>1. 0 .. k \subseteq T
    BY <1>2, <1>3, Reaches
  <2>. QED  BY <2>1
<1>5. CountsOf(w[k], of, k) /\ BoundsOf(w[k], of, k)
  BY <1>4
<1>6. BoundsOf(FreshTypes(t, of, k), of, k)
  BY <1>1, <1>5 DEF BoundsOf
<1>. QED  BY <1>1, <1>5, <1>6 DEF CountsOf

LEMMA GeneratedTypeDfi == AInv => TypeDfiCorrect
<1>. SUFFICES ASSUME AInv, Generated, NEW n \in Nodes
              PROVE  TypeNumber(n) =
                       Cardinality({m \in Nodes : type[m] = type[n] /\ Precedes(tree, m, n)})
  BY DEF TypeDfiCorrect
<1>1. /\ size \in 1 .. MaxNodes /\ OneTree(tree, size) /\ Numbers(val, tree, size)
      /\ n \in 1 .. size /\ Nodes = 1 .. size /\ 1 .. size \subseteq Node
      /\ TreeShape(tree) /\ Ancestry(tree, size) /\ TInv /\ type[n] \in Types /\ n \in Node
  <2>1. /\ size \in 1 .. MaxNodes /\ OneTree(tree, size) /\ Numbers(val, tree, size)
        /\ n \in 1 .. size /\ Nodes = 1 .. size /\ TreeShape(tree) /\ Ancestry(tree, size) /\ TInv
    BY DEF AInv, TInv, IInv, TreeSound, Exact, val, Nodes
  <2>2. type[n] \in Types
    BY <2>1 DEF TInv, TypesTyped
  <2>3. 1 .. size \subseteq Node
    BY <2>1, NodeAssumption
  <2>. QED  BY <2>1, <2>2, <2>3
<1>2. \A y \in 1 .. size : val[y] = y - 1
  BY <1>1, FreshValues DEF Generated, val
<1>3. ASSUME NEW m \in 1 .. size
      PROVE  Precedes(tree, m, n) <=> m < n
  <2>1. Precedes(tree, m, n) <=> val[m] < val[n]
    BY <1>1, NumbersTell
  <2>. QED  BY <1>1, <1>2, <2>1
<1>4. {m \in Nodes : type[m] = type[n] /\ Precedes(tree, m, n)}
        = {m \in 1 .. n - 1 : type[m] = type[n]}
  BY <1>1, <1>3
<1>5. TypeNumber(n) = TypeValues(tree, type, ty)[n]
  BY <1>1, TypeNumberDef
<1>6. /\ ty.type_base_index[n] = TypeRank(type, n) /\ ty.type_mod[n] = 0
      /\ ty.latest_type_mods[type[n]] = 0
  <2>0. size \in Nat
    BY <1>1, NodeAssumption
  <2>1. \A m \in 1 .. size : type[m] \in Types
    BY <1>1 DEF TInv, TypesTyped
  <2>2. FreshTypes(tree, type, size).type_base_index[n] = TypeRank(type, n)
    BY <1>1, <2>0, <2>1, FreshTypesAre
  <2>3. /\ FreshTypes(tree, type, size).type_mod = [y \in Node |-> 0]
        /\ FreshTypes(tree, type, size).latest_type_mods = [x \in Types |-> 0]
    BY DEF FreshTypes
  <2>. QED  BY <1>1, <2>2, <2>3 DEF Generated
<1>7. TypeValues(tree, type, ty)[n] = TypeRank(type, n)
  <2>1. TypeValues(tree, type, ty) =
         [y \in Node |->
            IF TypeParent(tree, type, y) = NULL \/ ty.type_mod[y] >= ty.latest_type_mods[type[y]]
            THEN ty.type_base_index[y]
            ELSE ty.type_base_index[y] + TypeValues(tree, type, ty)[TypeParent(tree, type, y)]
                   - ty.cached_type_parent_dfi[y]]
    <3>1. size \in 1 .. MaxNodes /\ TreeShape(tree) /\ Ancestry(tree, size)
      BY <1>1
    <3>. QED  BY <3>1, TypeValuesDef
  <2>. QED  BY <1>1, <1>6, <2>1
<1>. QED  BY <1>4, <1>5, <1>7 DEF TypeRank

\* On a tree indexed as it is, the numbers that the walk of generate_index counts are ranks:
\* type_dfi() is a node's rank among the nodes of its own type in document order, and stays so
\* whatever is read or queried (dfilter.cpp:633-654, 702-720, 298-322).
THEOREM TypeDfiStaysCorrect == ASSUME Audit PROVE Spec => []TypeDfiCorrect
BY GeneratedTypeDfi, AuditHolds, PTL

-----------------------------------------------------------------------------
(* Cached successors never go past the descendants. *)

\* The successor old that n has cached, with the number d: n has moved by no more than old
\* since, and if by as much, old is not past n's last descendant, whose number e follows.
NotPast(old, d, base, v, n, e) ==
  /\ d \in Int /\ d <= e /\ base \in Int /\ base <= v[n]
  /\ old # NULL => /\ v[n] < v[old]
                   /\ v[n] - base <= v[old] - d
                   /\ v[n] - base = v[old] - d => v[old] <= e

NeverPast(s, base, v, t, k) ==
  \A n \in 1 .. k, e \in Int : Follows(v, t, k, n, e) => NotPast(s.node[n], s.dfi[n], base[n], v, n, e)

\* Some number follows every branch.
LEMMA SomeFollows ==
  ASSUME NEW t, NEW k \in 1 .. MaxNodes, OneTree(t, k), NEW v, Numbers(v, t, k), NEW n \in 1 .. k
  PROVE  \E e \in Int : Follows(v, t, k, n, e)
<1>. PICK s : s = SuccessorSearch(t, v, n).node
  OBVIOUS
<1>1. k \in Int
  BY NodeAssumption
<1>2. IF s = NULL THEN AtEnd(t, k, n) ELSE s \in 1 .. k /\ Follows(v, t, k, n, v[s])
  BY SearchExact
<1>3. CASE s = NULL
  BY <1>1, <1>2, <1>3, EndAfter
<1>4. CASE s # NULL
  <2>1. v[s] \in Int
    BY <1>2, <1>4, NumbersOrder
  <2>. QED  BY <1>2, <1>4, <2>1
<1>. QED  BY <1>3, <1>4

\* Only one does.
LEMMA OneFollows ==
  ASSUME NEW t, NEW k \in 1 .. MaxNodes, OneTree(t, k), NEW v, Numbers(v, t, k), NEW n \in 1 .. k,
         NEW d, Follows(v, t, k, n, d), NEW e, Follows(v, t, k, n, e)
  PROVE  d = e
BY FollowsAtEnd

\* The entry of n in the caches after postorder_successor_dfi() of n: it was up to date, or
\* has moved as far as n has, or is looked up.
Answer(old, d, was, was_dfi, base, v, t, k, n) ==
  \/ old = was /\ d = was_dfi /\ (was = NULL => was_dfi = k)
  \/ was # NULL /\ old = was /\ d = v[was] /\ base - v[n] = was_dfi - v[was]
  \/ old = SuccessorSearch(t, v, n).node /\ d = IF old = NULL THEN k ELSE v[old]

LEMMA AnswerNotPast ==
  ASSUME NEW t, NEW k \in 1 .. MaxNodes, OneTree(t, k), NEW v, Numbers(v, t, k), NEW n \in 1 .. k,
         NEW was \in 1 .. k \cup {NULL}, NEW was_dfi, NEW base, NEW e \in Int,
         Follows(v, t, k, n, e), NotPast(was, was_dfi, base, v, n, e), NEW old, NEW d,
         Answer(old, d, was, was_dfi, base, v, t, k, n), NEW new, new = base \/ new = v[n],
         (old = was /\ d = was_dfi) \/ new = v[n]
  PROVE  NotPast(old, d, new, v, n, e)
<1>0. k \in Int /\ v[n] \in Int /\ base \in Int /\ was_dfi \in Int /\ NULL \notin 1 .. k
  BY NumbersOrder, NodeAssumption, NullAssumption DEF NotPast
<1>1. was # NULL => was \in 1 .. k /\ v[was] \in Int
  BY NumbersOrder
<1>2. CASE old = was /\ d = was_dfi
  BY <1>0, <1>1, <1>2 DEF NotPast
<1>3. CASE was # NULL /\ old = was /\ d = v[was] /\ base - v[n] = was_dfi - v[was] /\ new = v[n]
  BY <1>0, <1>1, <1>3 DEF NotPast
<1>4. CASE /\ old = SuccessorSearch(t, v, n).node /\ d = IF old = NULL THEN k ELSE v[old]
           /\ new = v[n]
  <2>1. IF old = NULL THEN AtEnd(t, k, n) ELSE old \in 1 .. k /\ Follows(v, t, k, n, v[old])
    BY <1>4, SearchExact
  <2>2. CASE old = NULL
    <3>1. Follows(v, t, k, n, k)
      BY <2>1, <2>2, EndAfter
    <3>2. k = e
      BY <3>1, OneFollows
    <3>. QED  BY <1>0, <1>4, <2>2, <3>2 DEF NotPast
  <2>3. CASE old # NULL
    <3>1. v[old] = e /\ d = v[old]
      BY <1>4, <2>1, <2>3, OneFollows
    <3>2. v[n] < e
      BY DEF Follows, Under
    <3>. QED  BY <1>0, <1>4, <3>1, <3>2 DEF NotPast
  <2>. QED  BY <2>2, <2>3
<1>. QED  BY <1>2, <1>3, <1>4 DEF Answer

\* Nodes that dfi() ran on have new base indexes.
Caught(new, base, v, k) == \A y \in 1 .. k : new[y] = base[y] \/ new[y] = v[y]

LEMMA CaughtNotPast ==
  ASSUME NEW t, NEW k \in 1 .. MaxNodes, OneTree(t, k), NEW v, Numbers(v, t, k), NEW s,
         SuccessorsSound(s, t, k), NEW base, NeverPast(s, base, v, t, k), NEW new,
         Caught(new, base, v, k)
  PROVE  NeverPast(s, new, v, t, k)
<1>. SUFFICES ASSUME NEW n \in 1 .. k, NEW e \in Int, Follows(v, t, k, n, e)
              PROVE  NotPast(s.node[n], s.dfi[n], new[n], v, n, e)
  BY DEF NeverPast
<1>. PICK was, d : was = s.node[n] /\ d = s.dfi[n]
  OBVIOUS
<1>1. NotPast(was, d, base[n], v, n, e)
  BY DEF NeverPast
<1>2. (new[n] = base[n] \/ new[n] = v[n]) /\ was \in 1 .. k \cup {NULL}
  BY DEF Caught, SuccessorsSound
<1>3. v[n] \in Int /\ (was # NULL => v[was] \in Int)
  BY <1>2, NumbersOrder
<1>. QED  BY <1>1, <1>2, <1>3 DEF NotPast

\* What postorder_successor_dfi() of n does to the caches s and the base indexes.
Asked(c, s, base, new, v, t, k, n) ==
  /\ \A y \in 1 .. k : y # n => c.node[y] = s.node[y] /\ c.dfi[y] = s.dfi[y]
  /\ Answer(c.node[n], c.dfi[n], s.node[n], s.dfi[n], base[n], v, t, k, n)
  /\ Caught(new, base, v, k)
  /\ (c.node[n] = s.node[n] /\ c.dfi[n] = s.dfi[n]) \/ new[n] = v[n]

LEMMA AskedNotPast ==
  ASSUME NEW t, NEW k \in 1 .. MaxNodes, OneTree(t, k), NEW v, Numbers(v, t, k), NEW s,
         SuccessorsSound(s, t, k), NEW base, NeverPast(s, base, v, t, k), NEW n \in 1 .. k,
         NEW c, NEW new, Asked(c, s, base, new, v, t, k, n)
  PROVE  NeverPast(c, new, v, t, k)
<1>1. NeverPast(s, new, v, t, k)
  BY CaughtNotPast DEF Asked
<1>. SUFFICES ASSUME NEW y \in 1 .. k, NEW e \in Int, Follows(v, t, k, y, e)
              PROVE  NotPast(c.node[y], c.dfi[y], new[y], v, y, e)
  BY DEF NeverPast
<1>2. CASE y # n
  BY <1>1, <1>2 DEF Asked, NeverPast
<1>3. CASE y = n
  <2>. PICK old, d, was, was_dfi, b, x : /\ old = c.node[n] /\ d = c.dfi[n] /\ was = s.node[n]
                                     /\ was_dfi = s.dfi[n] /\ b = base[n] /\ x = new[n]
    OBVIOUS
  <2>1. NotPast(was, was_dfi, b, v, n, e) /\ was \in 1 .. k \cup {NULL}
    BY <1>3 DEF NeverPast, SuccessorsSound
  <2>2. /\ Answer(old, d, was, was_dfi, b, v, t, k, n)
        /\ x = b \/ x = v[n]
        /\ (old = was /\ d = was_dfi) \/ x = v[n]
    BY DEF Asked, Caught
  <2>3. NotPast(old, d, x, v, n, e)
    BY <1>3, <2>1, <2>2, AnswerNotPast
  <2>. QED  BY <1>3, <2>3
<1>. QED  BY <1>2, <1>3

\* dfi() leaves every base index as it was or makes it the node's number.
LEMMA RefreshCaught ==
  ASSUME NEW t, NEW k \in 1 .. MaxNodes, TreeShape(t), Ancestry(t, k), NEW b, NEW v,
         v = DfiValues(t, b), NEW S
  PROVE  /\ Caught(Refresh(t, b, S).base_index, b.base_index, v, k)
         /\ \A y \in 1 .. k : y \in S => Refresh(t, b, S).base_index[y] = v[y]
<1>. PICK T, c : T = Touched(t, b, S) /\ c = Refresh(t, b, S).base_index
  OBVIOUS
<1>1. 1 .. k \subseteq Node
  BY NodeAssumption
<1>2. \A y \in Node : c[y] = IF y \in T THEN v[y] ELSE b.base_index[y]
  BY DEF Refresh
<1>3. ASSUME NEW y \in 1 .. k, y \in S
      PROVE  y \in T
  BY <1>1, <1>3, AboveBefore DEF Touched
<1>. QED  BY <1>1, <1>2, <1>3 DEF Caught

\* What postorder_successor_dfi() of n writes, and that it calls dfi() of n when it does.
Answers(c, s, b, v, t, k, n, reads) ==
  /\ \A y \in 1 .. k : y # n => c.node[y] = s.node[y] /\ c.dfi[y] = s.dfi[y]
  /\ Answer(c.node[n], c.dfi[n], s.node[n], s.dfi[n], b.base_index[n], v, t, k, n)
  /\ (c.node[n] = s.node[n] /\ c.dfi[n] = s.dfi[n]) \/ n \in reads

LEMMA PostorderAnswers ==
  ASSUME NEW t, NEW b, NEW s, NEW k \in 1 .. MaxNodes, SuccessorsSound(s, t, k), NEW n \in 1 .. k,
         NEW v, v = DfiValues(t, b), NEW post, post = PostorderSuccessor(t, b, s, k, n)
  PROVE  Answers(post.suc, s, b, v, t, k, n, post.reads)
<1>0. n \in Node /\ 1 .. k \subseteq Node /\ NULL \notin Node
  BY NodeAssumption, NullAssumption
<1>1. IsCache(s) /\ s.node \in [Node -> Node \cup {NULL}] /\ s.dfi \in [Node -> Int]
  BY DEF SuccessorsSound
<1>. PICK old, newdfi, search, current, stillLast, sameGap, c :
       /\ old = s.node[n] /\ newdfi = IF old = NULL THEN k ELSE v[old]
       /\ search = SuccessorSearch(t, v, n)
       /\ current = (old # NULL /\ b.base_mod[n] = b.latest_mod /\ b.base_mod[old] = b.latest_mod)
       /\ stillLast = (old = NULL /\ s.dfi[n] = k)
       /\ sameGap = (old # NULL /\ b.base_index[n] - v[n] = s.dfi[n] - newdfi)
       /\ c = post.suc
  OBVIOUS
<1>2. post = IF current \/ stillLast THEN [suc |-> s, reads |-> {}]
             ELSE IF sameGap
                  THEN [suc |-> [s EXCEPT !.dfi[n] = newdfi], reads |-> {old, n}]
                  ELSE [suc |-> [s EXCEPT !.node[n] = search.node,
                                          !.dfi[n] = IF search.node = NULL THEN k
                                                     ELSE v[search.node]],
                        reads |-> ({old, n} \cup search.examined) \ {NULL}]
  BY Zenon DEF PostorderSuccessor
<1>3. CASE current \/ stillLast
  <2>1. c = s
    BY <1>2, <1>3
  <2>2. s.node[n] = NULL => s.dfi[n] = k
    BY <1>3
  <2>. QED  BY <2>1, <2>2 DEF Answers, Answer
<1>4. CASE ~(current \/ stillLast) /\ sameGap
  <2>1. c = [s EXCEPT !.dfi[n] = newdfi] /\ n \in post.reads
    BY <1>2, <1>4
  <2>2. c.node = s.node /\ c.dfi = [s.dfi EXCEPT ![n] = newdfi]
    BY <1>1, <2>1 DEF IsCache
  <2>3. c.dfi[n] = newdfi /\ \A y \in 1 .. k : y # n => c.dfi[y] = s.dfi[y]
    BY <1>0, <1>1, <2>2
  <2>4. old # NULL /\ newdfi = v[old] /\ b.base_index[n] - v[n] = s.dfi[n] - v[old]
    BY <1>4
  <2>. QED  BY <2>1, <2>2, <2>3, <2>4 DEF Answers, Answer
<1>5. CASE ~(current \/ stillLast) /\ ~sameGap
  <2>. PICK m, d : m = search.node /\ d = IF m = NULL THEN k ELSE v[m]
    OBVIOUS
  <2>1. c = [s EXCEPT !.node[n] = m, !.dfi[n] = d] /\ n \in post.reads
    BY <1>0, <1>2, <1>5
  <2>2. c.node = [s.node EXCEPT ![n] = m] /\ c.dfi = [s.dfi EXCEPT ![n] = d]
    BY <1>1, <2>1 DEF IsCache
  <2>3. /\ c.dfi[n] = d /\ c.node[n] = m
        /\ \A y \in 1 .. k : y # n => c.dfi[y] = s.dfi[y] /\ c.node[y] = s.node[y]
    BY <1>0, <1>1, <2>2
  <2>. QED  BY <2>1, <2>3 DEF Answers, Answer
<1>. QED  BY <1>3, <1>4, <1>5

\* postorder_successor_dfi() keeps the caches from going past the descendants.
LEMMA PostorderNotPast ==
  ASSUME NEW t, NEW k \in 1 .. MaxNodes, OneTree(t, k), NEW b, NEW v, v = DfiValues(t, b),
         Numbers(v, t, k), NEW s, SuccessorsSound(s, t, k), NeverPast(s, b.base_index, v, t, k),
         NEW n \in 1 .. k, NEW post, post = PostorderSuccessor(t, b, s, k, n), NEW S,
         post.reads \subseteq S
  PROVE  NeverPast(post.suc, Refresh(t, b, S).base_index, v, t, k)
<1>. PICK c, base, new : /\ c = post.suc /\ base = b.base_index
                         /\ new = Refresh(t, b, S).base_index
  OBVIOUS
<1>1. TreeShape(t) /\ Ancestry(t, k)
  BY DEF OneTree
<1>2. Answers(c, s, b, v, t, k, n, post.reads)
  BY PostorderAnswers
<1>3. Caught(new, base, v, k) /\ \A y \in 1 .. k : y \in S => new[y] = v[y]
  BY <1>1, RefreshCaught
<1>4. Asked(c, s, base, new, v, t, k, n)
  BY <1>2, <1>3 DEF Answers, Asked
<1>. QED  BY <1>4, AskedNotPast

\* A node's last descendant moves at least as far as the node.
LEMMA EndGrows ==
  ASSUME NEW t, NEW k \in 1 .. MaxNodes, k < MaxNodes, OneTree(t, k), NEW v, Numbers(v, t, k),
         NEW p, NEW pos, NEW n, n = k + 1, NEW g, Grows(g, t, k, p, pos, n), NEW r \in Int, NEW w,
         MovedUp(w, v, k, n, r), NEW y \in 1 .. k, NEW e \in Int, Follows(v, t, k, y, e),
         NEW f \in Int, Follows(w, g, n, y, f)
  PROVE  (e + w[y]) - v[y] <= f
<1>0. k \in Nat /\ 1 .. k \subseteq 1 .. n
  BY NodeAssumption
<1>1. v[y] \in Int /\ v[y] \in 0 .. k - 1 /\ v[y] < e /\ e \in 0 .. k
  BY NumbersOrder DEF Follows, Under
<1>2. PICK z \in 1 .. k : v[z] = e - 1
  <2>1. e - 1 \in 0 .. k - 1
    BY <1>0, <1>1
  <2>. QED  BY <2>1 DEF Numbers
<1>3. Under(t, y, z)
  <2>1. CASE v[y] = v[z]
    BY <2>1, NumbersTell DEF Under
  <2>2. CASE v[y] < v[z]
    <3>1. Precedes(t, y, z)
      BY <2>2, NumbersTell
    <3>2. ~LeftOf(t, y, z)
      BY <1>1, <1>2 DEF Follows
    <3>. QED  BY <3>1, <3>2 DEF Precedes, Under
  <2>. QED  BY <1>1, <1>2, <2>1, <2>2
<1>4. Under(g, y, z)
  BY <1>3 DEF Grows, Under
<1>5. w[z] < f
  BY <1>0, <1>4 DEF Follows
<1>6. w[z] = v[z] + (IF r <= v[z] THEN 1 ELSE 0) /\ w[y] = v[y] + (IF r <= v[y] THEN 1 ELSE 0)
  BY DEF MovedUp
<1>. QED  BY <1>1, <1>2, <1>5, <1>6

\* The numbers a of a node and c of its cached successor, which was d, become i and j.
Distances(a, c, i, j, d, e, f, r, new) ==
  /\ i = a + (IF r <= a THEN 1 ELSE 0) /\ j = c + (IF r <= c THEN 1 ELSE 0)
  /\ a < c /\ d <= c /\ (d = c => c <= e) /\ d <= e
  /\ new = a \/ new = i
  /\ (e + i) - a <= f

NewDistances(i, j, d, f, new) ==
  /\ new \in Int /\ new <= i /\ i < j /\ d <= f
  /\ i - new <= j - d
  /\ i - new = j - d => j <= f

LEMMA DistancesKept ==
  ASSUME NEW a \in Int, NEW c \in Int, NEW d \in Int, NEW e \in Int, NEW f \in Int,
         NEW r \in Int, NEW i, NEW j, NEW new, Distances(a, c, i, j, d, e, f, r, new)
  PROVE  NewDistances(i, j, d, f, new)
<1>1. CASE r <= a
  <2>1. i = a + 1 /\ j = c + 1
    BY <1>1 DEF Distances
  <2>. QED  BY <2>1 DEF Distances, NewDistances
<1>2. CASE ~(r <= a) /\ r <= c
  <2>1. i = a /\ j = c + 1
    BY <1>2 DEF Distances
  <2>. QED  BY <2>1 DEF Distances, NewDistances
<1>3. CASE ~(r <= a) /\ ~(r <= c)
  <2>1. i = a /\ j = c
    BY <1>3 DEF Distances
  <2>. QED  BY <2>1 DEF Distances, NewDistances
<1>. QED  BY <1>1, <1>2, <1>3 DEF Distances

LEMMA MovedNotPast ==
  ASSUME NEW k, NEW v, IntOn(v, 1 .. k), NEW n, NEW r \in Int, NEW w, MovedUp(w, v, k, n, r),
         NEW y \in 1 .. k, NEW old \in 1 .. k \cup {NULL}, NEW d, NEW base, base = v[y],
         NEW e \in Int, NotPast(old, d, base, v, y, e), NEW new, new = v[y] \/ new = w[y],
         NEW f \in Int, (e + w[y]) - v[y] <= f
  PROVE  NotPast(old, d, new, w, y, f)
<1>1. v[y] \in Int /\ w[y] = v[y] + IF r <= v[y] THEN 1 ELSE 0
  BY DEF IntOn, MovedUp
<1>2. d \in Int /\ d <= e
  BY DEF NotPast
<1>3. CASE old = NULL
  BY <1>1, <1>2, <1>3 DEF NotPast
<1>4. CASE old # NULL
  <2>1. v[old] \in Int /\ w[old] = v[old] + IF r <= v[old] THEN 1 ELSE 0
    BY <1>4 DEF IntOn, MovedUp
  <2>2. /\ v[y] < v[old] /\ 0 <= v[old] - d
        /\ 0 = v[old] - d => v[old] <= e
    BY <1>1, <1>2, <1>4, <2>1 DEF NotPast
  <2>3. /\ new \in Int /\ new <= w[y] /\ w[y] < w[old] /\ d <= f
        /\ w[y] - new <= w[old] - d
        /\ w[y] - new = w[old] - d => w[old] <= f
    <3>. PICK a, c, i, j : a = v[y] /\ c = v[old] /\ i = w[y] /\ j = w[old]
      OBVIOUS
    <3>1. /\ a \in Int /\ c \in Int /\ i = a + (IF r <= a THEN 1 ELSE 0)
          /\ j = c + (IF r <= c THEN 1 ELSE 0) /\ a < c /\ 0 <= c - d
          /\ 0 = c - d => c <= e
          /\ new = a \/ new = i
          /\ (e + i) - a <= f
      BY <1>1, <2>1, <2>2
    <3>2. /\ new \in Int /\ new <= i /\ i < j /\ d <= f
          /\ i - new <= j - d
          /\ i - new = j - d => j <= f
      <4>1. a \in Int /\ c \in Int /\ d \in Int
        BY <1>1, <1>2, <2>1, <3>1
      <4>2. Distances(a, c, i, j, d, e, f, r, new)
        BY <1>2, <3>1, <4>1, SMTT(60) DEF Distances
      <4>3. NewDistances(i, j, d, f, new)
        BY <4>1, <4>2, DistancesKept
      <4>. QED  BY <4>3 DEF NewDistances
    <3>. QED  BY <3>2
  <2>. QED  BY <1>2, <2>3 DEF NotPast
<1>. QED  BY <1>3, <1>4

\* Up-to-date nodes may be asked for their numbers again.
LEMMA UpToDateNotPast ==
  ASSUME NEW t, NEW k \in 1 .. MaxNodes, OneTree(t, k), NEW b, IndexTyped(b), NEW v,
         v = DfiValues(t, b), Numbers(v, t, k), UpToDate(t, k, b, v), NEW S, NEW s, SuccessorsSound(s, t, k),
         NeverPast(s, Refresh(t, b, S).base_index, v, t, k)
  PROVE  NeverPast(s, b.base_index, v, t, k)
<1>. PICK new, base : new = b.base_index /\ base = Refresh(t, b, S).base_index
  OBVIOUS
<1>1. \A y \in 1 .. k : new[y] = v[y]
  BY DEF UpToDate
<1>2. Caught(new, base, v, k)
  BY <1>1 DEF Caught
<1>3. NeverPast(s, new, v, t, k)
  BY <1>2, CaughtNotPast
<1>. QED  BY <1>3

\* Forgetting a cached node does no harm.
LEMMA ForgottenNotPast ==
  ASSUME NEW t, NEW k \in 1 .. MaxNodes, NEW v, NEW base, NEW s, SuccessorsSound(s, t, k),
         NeverPast(s, base, v, t, k), NEW p \in 1 .. k, NEW c, c = [s EXCEPT !.node[p] = NULL]
  PROVE  NeverPast(c, base, v, t, k)
<1>1. IsCache(s) /\ s.node \in [Node -> Node \cup {NULL}] /\ p \in Node /\ 1 .. k \subseteq Node
  BY NodeAssumption DEF SuccessorsSound
<1>2. c.node = [s.node EXCEPT ![p] = NULL] /\ c.dfi = s.dfi
  BY <1>1 DEF IsCache
<1>3. \A y \in 1 .. k : c.node[y] = IF y = p THEN NULL ELSE s.node[y]
  BY <1>1, <1>2
<1>. SUFFICES ASSUME NEW y \in 1 .. k, NEW e \in Int, Follows(v, t, k, y, e)
              PROVE  NotPast(c.node[y], c.dfi[y], base[y], v, y, e)
  BY DEF NeverPast
<1>4. NotPast(s.node[y], s.dfi[y], base[y], v, y, e)
  BY DEF NeverPast
<1>. QED  BY <1>2, <1>3, <1>4 DEF NotPast

\* What insert() looks up does not go past either.
LEMMA TargetNotPast ==
  ASSUME OneTree(tree, size), size \in 1 .. MaxNodes, IndexTyped(idx), NEW v,
         v = DfiValues(tree, idx), Numbers(v, tree, size), UpToDate(tree, size, idx, v),
         SuccessorsSound(suc, tree, size), NeverPast(suc, idx.base_index, v, tree, size),
         NEW p \in Nodes, NEW pos
  PROVE  NeverPast(Target(p, pos).suc, idx.base_index, v, tree, size)
<1>. PICK c : c = Target(p, pos).suc
  OBVIOUS
<1>1. CASE c = suc
  BY <1>1
<1>2. CASE c # suc
  <2>. PICK s, post : /\ s = [suc EXCEPT !.node[p] = NULL]
                      /\ post = PostorderSuccessor(tree, idx, s, size, p)
    OBVIOUS
  <2>1. c = post.suc
    BY <1>2 DEF Target
  <2>2. p \in 1 .. size
    BY DEF Nodes
  <2>3. SuccessorsSound(s, tree, size) /\ s.node[p] = NULL /\ IsCache(s)
    <3>1. Forgotten(s, tree, size, p)
      BY <2>2, Forgets
    <3>. QED  BY <3>1 DEF Forgotten
  <2>4. NeverPast(s, idx.base_index, v, tree, size)
    BY <2>2, ForgottenNotPast
  <2>. PICK S : S = post.reads
    OBVIOUS
  <2>5. NeverPast(post.suc, Refresh(tree, idx, S).base_index, v, tree, size)
    BY <2>2, <2>3, <2>4, PostorderNotPast
  <2>6. SuccessorsSound(c, tree, size)
    <3>1. SuccessorOutcome(c, s, tree, v, size, p)
      BY <2>1, <2>3, SuccessorOutcomes
    <3>. QED  BY <2>2, <2>3, <3>1, SuccessorsStaySound
  <2>7. NeverPast(c, Refresh(tree, idx, S).base_index, v, tree, size)
    BY <2>1, <2>5
  <2>. QED  BY <2>6, <2>7, UpToDateNotPast
<1>. QED  BY <1>1, <1>2

\* In propagate_dfi_change the base index of a node becomes its new number, if it changes.
Stepped(new, v, w, k) == \A y \in 1 .. k : new[y] = v[y] \/ new[y] = w[y]

LEMMA PropagateStepped ==
  ASSUME TreeSound, NEW b, NEW v, IntOn(v, 1 .. size), UpToDate(tree, size, b, v), NEW d \in Nodes, NEW w, NEW n,
         MovedUp(w, v, size, n, v[d])
  PROVE  Stepped(Propagate(tree, b, d).base_index, v, w, size)
<1>. PICK c, T, base : /\ base = b.base_index /\ T = NotBefore(base, Path(tree, d) \cup Side(tree, d), base[d])
                 /\ c = Propagate(tree, b, d).base_index
  OBVIOUS
<1>1. c = [y \in Node |-> base[y] + IF y \in T THEN 1 ELSE 0]
  BY DEF Propagate
<1>2. Nodes = 1 .. size /\ Nodes \subseteq Node
  BY NodeAssumption DEF Nodes, TreeSound
<1>3. \A y \in 1 .. size : base[y] = v[y] /\ v[y] \in Int
  BY DEF UpToDate, IntOn
<1>4. \A y \in T : base[y] >= base[d]
  BY DEF NotBefore
<1>5. ASSUME NEW y \in 1 .. size
      PROVE  c[y] = v[y] \/ c[y] = w[y]
  <2>1. c[y] = v[y] + IF y \in T THEN 1 ELSE 0
    BY <1>1, <1>2, <1>3
  <2>2. w[y] = v[y] + IF v[d] <= v[y] THEN 1 ELSE 0
    BY DEF MovedUp
  <2>3. y \in T => v[d] <= v[y]
    BY <1>2, <1>3, <1>4
  <2>. QED  BY <1>3, <2>1, <2>2, <2>3
<1>. QED  BY <1>5 DEF Stepped

\* The base indexes when the new node has been created.
LEMMA CreatedStepped ==
  ASSUME TreeSound, OneTree(tree, size), size < MaxNodes, IndexTyped(idx), NEW v,
         v = DfiValues(tree, idx), Numbers(v, tree, size), UpToDate(tree, size, idx, v),
         NEW p \in Nodes, NEW plan, NEW r, NEW n, n = size + 1, Planned(plan, v, n, r),
         NEW early, NEW b, b = Created(p, plan, early), NEW w, MovedUp(w, v, size, n, r)
  PROVE  Stepped(b.base_index, v, w, size)
<1>. PICK d, reads, seen, c, f :
       /\ d = plan.displaced /\ seen = Refresh(tree, idx, reads)
       /\ c = IF d # NULL THEN Propagate(tree, seen, d) ELSE seen
       /\ c = Renewed(plan, early)
       /\ f = DfiValues(tree, c)[p]
       /\ b = WithNew(c, plan.node, plan.index, idx.latest_mod, f)
  BY DEF Created, Renewed, WithNew
<1>0. /\ Nodes = 1 .. size /\ size \in 1 .. MaxNodes /\ size \in Nat /\ Nodes \subseteq Node
      /\ TreeShape(tree) /\ Ancestry(tree, size) /\ IntOn(v, 1 .. size)
      /\ plan.node = n /\ n \notin 1 .. size
  BY NodeAssumption, NumbersOrder, SMTT(60)
     DEF TreeSound, Nodes, IndexTyped, ModsTyped, Planned, IntOn
<1>1. UpToDate(tree, size, seen, v)
  BY <1>0, RefreshUpToDate
<1>2. Stepped(c.base_index, v, w, size)
  <2>1. CASE d = NULL
    BY <1>1, <2>1 DEF Stepped, UpToDate
  <2>2. CASE d # NULL
    <3>1. d \in Nodes /\ v[d] = r
      BY <2>2 DEF Planned
    <3>2. MovedUp(w, v, size, n, v[d])
      BY <3>1
    <3>3. Stepped(Propagate(tree, seen, d).base_index, v, w, size)
      BY <1>0, <1>1, <3>1, <3>2, PropagateStepped
    <3>. QED  BY <2>2, <3>3
  <2>. QED  BY <2>1, <2>2
<1>3. IsIndex(c) /\ IndexTyped(c)
  BY RenewedFacts
<1>4. ASSUME NEW y \in 1 .. size
      PROVE  b.base_index[y] = c.base_index[y]
  <2>1. b.base_index = [c.base_index EXCEPT ![n] = plan.index]
    BY <1>0, <1>3 DEF WithNew, IsIndex
  <2>. QED  BY <1>0, <1>3, <2>1 DEF IndexTyped
<1>. QED  BY <1>2, <1>4 DEF Stepped

\* And after the calls of dfi() at the end of insert().
LEMMA InsertedStepped ==
  ASSUME TreeSound, OneTree(tree, size), size < MaxNodes, IndexTyped(idx), NEW v,
         v = DfiValues(tree, idx), Numbers(v, tree, size), UpToDate(tree, size, idx, v),
         NEW p \in Nodes, NEW pos, NEW plan, NEW r, NEW n, NEW early, NEW b, b = Created(p, plan, early),
         NEW w, PlanSound(plan, v, p, pos, r), GrownExact(v, w, p, pos, n, b, plan, r), NEW reads, n \in reads
  PROVE  /\ Stepped(Refresh(plan.tree, b, reads).base_index, v, w, size)
         /\ Refresh(plan.tree, b, reads).base_index[n] = w[n]
<1>. PICK h, c : h = plan.tree /\ c = Refresh(h, b, reads).base_index
  OBVIOUS
<1>1. /\ n = size + 1 /\ w = DfiValues(h, b) /\ MovedUp(w, v, size, n, r)
      /\ Planned(plan, v, n, r) /\ h = Hung(tree, n, p)
  BY DEF GrownExact, PlanSound
<1>2. Stepped(b.base_index, v, w, size)
  BY <1>1, CreatedStepped
<1>0. /\ Nodes = 1 .. size /\ size \in 1 .. MaxNodes /\ size \in Nat
      /\ n \in 1 .. MaxNodes /\ n \in 1 .. n /\ 1 .. size \subseteq 1 .. n
  BY <1>1, NodeAssumption DEF TreeSound, Nodes
<1>3. TreeShape(h) /\ Ancestry(h, n)
  <2>1. TreeShape(Hung(tree, size + 1, p)) /\ Ancestry(Hung(tree, size + 1, p), size + 1)
    BY <1>0, HungSound DEF TreeSound
  <2>. QED  BY <1>1, <2>1
<1>4. Caught(c, b.base_index, w, n) /\ \A y \in 1 .. n : y \in reads => c[y] = w[y]
  BY <1>0, <1>1, <1>3, RefreshCaught
<1>5. Stepped(c, v, w, size)
  BY <1>0, <1>2, <1>4 DEF Stepped, Caught
<1>. QED  BY <1>0, <1>4, <1>5

\* The nodes numbered r and after it have moved up, for a new node n that displaces d.
Displaces(d, v, w, k, n, r) ==
  /\ r \in Int /\ MovedUp(w, v, k, n, r)
  /\ d \in 1 .. k \cup {NULL}
  /\ d # NULL => w[d] = r + 1
  /\ d = NULL => r = k

LEMMA NewNotPast ==
  ASSUME NEW k \in Nat, NEW v, NEW n, n = k + 1, NEW r, NEW w, NEW d, Displaces(d, v, w, k, n, r),
         NEW last, last = LastOf(d, w, n), NEW f \in Int, w[n] < f
  PROVE  NotPast(d, last, w[n], w, n, f)
<1>1. r \in Int /\ w[n] = r
  BY DEF Displaces, MovedUp
<1>2. CASE d = NULL
  <2>1. r = k /\ last = n
    BY <1>2 DEF Displaces, LastOf
  <2>. QED  BY <1>1, <1>2, <2>1 DEF NotPast
<1>3. CASE d # NULL
  <2>1. w[d] = r + 1 /\ last = w[d]
    BY <1>3 DEF Displaces, LastOf
  <2>. QED  BY <1>1, <1>3, <2>1 DEF NotPast
<1>. QED  BY <1>2, <1>3

\* No cached successor goes past the descendants after an insertion if none did before.
LEMMA GrownNotPast ==
  ASSUME NEW t, NEW k \in 1 .. MaxNodes, k < MaxNodes, OneTree(t, k), NEW v, Numbers(v, t, k),
         NEW p, NEW pos, NEW n, n = k + 1, NEW g, Grows(g, t, k, p, pos, n), OneTree(g, n),
         NEW r, NEW w, Numbers(w, g, n), NEW d, Displaces(d, v, w, k, n, r),
         NEW s, SuccessorsSound(s, t, k), NEW base, NeverPast(s, base, v, t, k),
         \A y \in 1 .. k : base[y] = v[y], NEW new, Stepped(new, v, w, k), new[n] = w[n],
         NEW c, CacheWith(c, s, n, d, LastOf(d, w, n))
  PROVE  NeverPast(c, new, w, g, n)
<1>. PICK last : last = LastOf(d, w, n)
  OBVIOUS
<1>0. /\ k \in Nat /\ n \in Node /\ 1 .. k \subseteq Node /\ n \notin 1 .. k /\ n \in 1 .. n
      /\ n \in 1 .. MaxNodes
  BY NodeAssumption
<1>1. s.node \in [Node -> Node \cup {NULL}] /\ s.dfi \in [Node -> Int]
  BY DEF SuccessorsSound
<1>2. c.node = [s.node EXCEPT ![n] = d] /\ c.dfi = [s.dfi EXCEPT ![n] = last]
  BY DEF CacheWith
<1>3. /\ c.node[n] = d /\ c.dfi[n] = last
      /\ \A y \in 1 .. k : c.node[y] = s.node[y] /\ c.dfi[y] = s.dfi[y]
  BY <1>0, <1>1, <1>2
<1>4. IntOn(v, 1 .. k) /\ MovedUp(w, v, k, n, r) /\ r \in Int
  BY NumbersOrder DEF IntOn, Displaces
<1>. SUFFICES ASSUME NEW y \in 1 .. n, NEW f \in Int, Follows(w, g, n, y, f)
              PROVE  NotPast(c.node[y], c.dfi[y], new[y], w, y, f)
  BY DEF NeverPast
<1>5. CASE y = n
  <2>1. w[n] < f
    BY <1>0, <1>5 DEF Follows, Under
  <2>2. NotPast(d, last, w[n], w, n, f)
    BY <1>0, <2>1, NewNotPast
  <2>. QED  BY <1>3, <1>5, <2>2
<1>6. CASE y # n
  <2>1. y \in 1 .. k
    BY <1>0, <1>6
  <2>2. PICK e \in Int : Follows(v, t, k, y, e)
    BY <2>1, SomeFollows
  <2>. PICK old, dfi, b, m : old = s.node[y] /\ dfi = s.dfi[y] /\ b = base[y] /\ m = new[y]
    OBVIOUS
  <2>3. NotPast(old, dfi, b, v, y, e) /\ b = v[y] /\ old \in 1 .. k \cup {NULL}
    BY <2>1, <2>2 DEF NeverPast, SuccessorsSound
  <2>4. (e + w[y]) - v[y] <= f
    BY <1>0, <1>4, <2>1, <2>2, EndGrows
  <2>5. m = v[y] \/ m = w[y]
    BY <2>1 DEF Stepped
  <2>6. NotPast(old, dfi, m, w, y, f)
    BY <1>4, <2>1, <2>2, <2>3, <2>4, <2>5, MovedNotPast
  <2>. QED  BY <1>3, <2>1, <2>6
<1>. QED  BY <1>5, <1>6

\* insert() lets no cached successor go past the descendants.
LEMMA InsertionNotPast ==
  ASSUME IInv, Exact(tree, size, idx, suc, tbl), size < MaxNodes, NEW v,
         v = DfiValues(tree, idx), UpToDate(tree, size, idx, v),
         NeverPast(suc, idx.base_index, v, tree, size), NEW p \in Nodes, NEW pos, NEW plan,
         plan = Plan(p, pos), NEW early, NEW b, b = Created(p, plan, early), NEW r, NEW n, NEW w,
         PlanSound(plan, v, p, pos, r), GrownExact(v, w, p, pos, n, b, plan, r), NEW reads,
         n \in reads
  PROVE  NeverPast(NewCaches(plan, w, n), Refresh(plan.tree, b, reads).base_index, w,
                   Grown(tree, n, p, pos), n)
<1>. PICK g, new, base, q, d, c :
       /\ g = Grown(tree, n, p, pos) /\ new = Refresh(plan.tree, b, reads).base_index
       /\ base = idx.base_index /\ q = plan.suc /\ d = plan.displaced
       /\ c = NewCaches(plan, w, n)
  OBVIOUS
<1>0. /\ TreeSound /\ size \in 1 .. MaxNodes /\ OneTree(tree, size) /\ IndexTyped(idx)
      /\ Numbers(v, tree, size) /\ SuccessorsSound(suc, tree, size) /\ Nodes = 1 .. size
  BY DEF IInv, TreeSound, Exact, Nodes
<1>1. /\ n = size + 1 /\ MovedUp(w, v, size, n, r) /\ Numbers(w, g, n)
      /\ Grows(g, tree, size, p, pos, n) /\ OneTree(g, n)
      /\ d # NULL => w[d] = r + 1
      /\ d = NULL => r = size
  BY DEF GrownExact
<1>2. /\ SuccessorsSound(q, tree, size) /\ r \in Int /\ d \in 1 .. size \cup {NULL}
  BY <1>0 DEF PlanSound, Planned
<1>3. Displaces(d, v, w, size, n, r)
  BY <1>1, <1>2 DEF Displaces
<1>4. NeverPast(q, base, v, tree, size)
  <2>1. q = Target(p, pos).suc
    BY DEF Plan, PlanAt
  <2>. QED  BY <1>0, <2>1, TargetNotPast
<1>5. Stepped(new, v, w, size) /\ new[n] = w[n]
  BY <1>0, InsertedStepped
<1>6. \A y \in 1 .. size : base[y] = v[y]
  BY DEF UpToDate
<1>7. CacheWith(c, q, n, d, LastOf(d, w, n))
  BY <1>2 DEF SuccessorsSound, CacheWith, IsCache, NewCaches
<1>8. NeverPast(c, new, w, g, n)
  BY <1>0, <1>1, <1>2, <1>3, <1>4, <1>5, <1>6, <1>7, GrownNotPast
<1>. QED  BY <1>8

-----------------------------------------------------------------------------
(* The invariant of the cached successors *)

BInv == AInv /\ NeverPast(suc, idx.base_index, val, tree, size)

LEMMA BoundsInsert ==
  ASSUME Audit, BInv, NEW p \in Nodes, NEW pos, NEW k \in Types, Insert(p, pos, k), AInv'
  PROVE  BInv'
<1>1. PICK early, w : ValuesAfter(w, p, pos, early) /\ Inserts(p, pos, k, early, w)
  BY InsertParts
<1>2. PICK late, failed : failed \in SUBSET {150} /\ InsertNode(p, pos, early, late, failed)
  BY <1>1 DEF Inserts
<1>3. /\ CanInsert(p, pos) /\ size < MaxNodes /\ unread = {}
      /\ pos \in 0 .. Len(tree.children[p])
  BY DEF Insert, CanInsert
<1>4. IInv /\ Exact(tree, size, idx, suc, tbl) /\ size \in 1 .. MaxNodes /\ TreeSound
      /\ TreeShape(tree) /\ Ancestry(tree, size) /\ IndexTyped(idx)
  BY DEF BInv, AInv, TInv, IInv, TreeSound, Exact
<1>5. PICK v : v = DfiValues(tree, idx)
  OBVIOUS
<1>6. UpToDate(tree, size, idx, v)
  BY <1>3, <1>4, <1>5, SeenUpToDate DEF BInv, AInv
<1>7. NeverPast(suc, idx.base_index, v, tree, size)
  BY <1>5 DEF BInv, val
<1>8. PICK plan, n, r, b, reads :
        /\ plan = Plan(p, pos) /\ b = Created(p, plan, early) /\ n \in reads
        /\ InsertedBy(plan, n, r, b, reads, v, w, p, pos)
  BY <1>1, <1>2, <1>3, <1>4, <1>5, <1>6, InsertNodeBy
<1>9. PlanSound(plan, v, p, pos, r) /\ GrownExact(v, w, p, pos, n, b, plan, r)
  BY <1>8 DEF InsertedBy
<1>10. CASE fault' = 150 /\ UNCHANGED <<tree, size, idx, suc, tbl>>
  BY <1>10 DEF BInv, val
<1>11. CASE /\ fault' = fault /\ size' = n
            /\ tree' = Grown(tree, n, p, pos)
            /\ idx' = Refresh(plan.tree, b, reads)
            /\ suc' = NewCaches(plan, w, n)
            /\ tbl' = Probe(tbl, w, n)
  <2>1. NeverPast(NewCaches(plan, w, n), Refresh(plan.tree, b, reads).base_index, w,
                  Grown(tree, n, p, pos), n)
    BY <1>3, <1>4, <1>5, <1>6, <1>7, <1>8, <1>9, InsertionNotPast
  <2>2. Follow(Grown(tree, n, p, pos), Refresh(plan.tree, b, reads), NewCaches(plan, w, n),
               Probe(tbl, w, n), v, w, r, n)
    BY <1>3, <1>4, <1>5, <1>9, FollowsInsertion
  <2>3. DfiValues(Grown(tree, n, p, pos), Refresh(plan.tree, b, reads)) = w
    BY <2>2 DEF Follow
  <2>4. val' = w
    BY <1>11, <2>3 DEF val
  <2>. QED  BY <1>11, <2>1, <2>4 DEF BInv
<1>. QED  BY <1>8, <1>10, <1>11 DEF InsertedBy

LEMMA AuditFacts ==
  ASSUME AInv
  PROVE  /\ size \in 1 .. MaxNodes /\ OneTree(tree, size) /\ TreeShape(tree)
         /\ Ancestry(tree, size) /\ IndexTyped(idx) /\ ModsTyped(idx)
         /\ Numbers(val, tree, size) /\ SuccessorsSound(suc, tree, size)
         /\ Nodes = 1 .. size /\ val = DfiValues(tree, idx)
BY DEF AInv, TInv, IInv, TreeSound, Exact, OneTree, IndexTyped, Nodes, val

\* dfi() alone.
LEMMA ReadsNotPast ==
  ASSUME BInv, NEW S
  PROVE  NeverPast(suc, Refresh(tree, idx, S).base_index, val, tree, size)
<1>. PICK v, new, base : v = val /\ new = Refresh(tree, idx, S).base_index /\ base = idx.base_index
  OBVIOUS
<1>1. /\ size \in 1 .. MaxNodes /\ OneTree(tree, size) /\ TreeShape(tree)
      /\ Ancestry(tree, size) /\ Numbers(v, tree, size) /\ SuccessorsSound(suc, tree, size)
      /\ v = DfiValues(tree, idx)
  BY AuditFacts DEF BInv
<1>2. Caught(new, base, v, size)
  BY <1>1, RefreshCaught
<1>3. NeverPast(suc, base, v, tree, size)
  BY DEF BInv
<1>. QED  BY <1>1, <1>2, <1>3, CaughtNotPast

\* postorder_successor_dfi(), by a query or not.
LEMMA SuccessorNotPast ==
  ASSUME BInv, NEW n \in Nodes, NEW U, NEW b, b = Refresh(tree, idx, U), NEW post,
         post = PostorderSuccessor(tree, b, suc, size, n), NEW S, post.reads \subseteq S
  PROVE  NeverPast(post.suc, Refresh(tree, b, S).base_index, val, tree, size)
<1>. PICK v : v = val
  OBVIOUS
<1>1. /\ size \in 1 .. MaxNodes /\ OneTree(tree, size) /\ TreeShape(tree)
      /\ Ancestry(tree, size) /\ Numbers(v, tree, size) /\ SuccessorsSound(suc, tree, size)
      /\ v = DfiValues(tree, idx) /\ ModsTyped(idx) /\ n \in 1 .. size
  BY AuditFacts DEF BInv
<1>2. v = DfiValues(tree, b)
  BY <1>1, RefreshValues
<1>3. NeverPast(suc, b.base_index, v, tree, size)
  BY ReadsNotPast
<1>. QED  BY <1>1, <1>2, <1>3, PostorderNotPast

LEMMA IdleNotPast ==
  ASSUME BInv, NEW n \in Nodes, NEW post,
         post = PostorderSuccessor(tree, idx, suc, size, n)
  PROVE  NeverPast(post.suc, Refresh(tree, idx, post.reads).base_index, val, tree, size)
<1>. PICK v, S : v = val /\ S = post.reads
  OBVIOUS
<1>1. /\ size \in 1 .. MaxNodes /\ OneTree(tree, size) /\ Numbers(v, tree, size)
      /\ SuccessorsSound(suc, tree, size) /\ v = DfiValues(tree, idx) /\ n \in 1 .. size
      /\ NeverPast(suc, idx.base_index, v, tree, size)
  BY AuditFacts DEF BInv
<1>2. NeverPast(post.suc, Refresh(tree, idx, S).base_index, v, tree, size)
  BY <1>1, PostorderNotPast
<1>. QED  BY <1>2

\* The answer of a query whose first node is f and whose last one is l, for an index that
\* has end after the last descendant.
QueryAnswer(a, z, base, reads, s) ==
  [first |-> a, last |-> z, reads |-> base \cup reads, suc |-> s]

\* The bounds of the type k exclude the interval of n.
Outside(n, k, end) ==
  LET max == ty.max_type_bounds[k]
      min == ty.min_type_bounds[k]
  IN  \/ val[n] >= IF max = NULL THEN -1 ELSE val[max]
      \/ end <= IF min = NULL THEN -1 ELSE val[min]

AnswerFrom(answer, f, l, v, end, outside) ==
  \/ answer.first = NULL /\ (outside \/ f = NULL \/ l = NULL \/ v[f] > v[l])
  \/ answer.first = f /\ answer.last = f /\ f # NULL /\ v[f] = end - 1
  \/ answer.first = f /\ answer.last = l /\ f # NULL /\ l # NULL /\ ~(v[f] > v[l])

AnswerShape(answer, n, k, post) ==
  /\ answer.suc = post.suc /\ {n} \cup post.reads \subseteq answer.reads
  /\ AnswerFrom(answer, BoundNode(type_tables[k], val, val[n] + 1, TRUE),
                BoundNode(type_tables[k], val, post.suc.dfi[n] - 1, FALSE), val, post.suc.dfi[n],
                Outside(n, k, post.suc.dfi[n]))

LEMMA AnswerIs ==
  ASSUME NEW n, NEW k, NEW post, NEW answer, answer = DescendantsUpTo(n, k, post)
  PROVE  AnswerShape(answer, n, k, post)
<1>a. PICK outside : outside = Outside(n, k, post.suc.dfi[n])
  OBVIOUS
<1>. PICK max, min, beyond, X :
       /\ max = ty.max_type_bounds[k] /\ min = ty.min_type_bounds[k]
       /\ beyond = (val[n] >= IF max = NULL THEN -1 ELSE val[max])
       /\ X = ({max} \cup (IF beyond THEN {} ELSE {min})) \ {NULL}
  OBVIOUS
<1>. PICK table, end, v, c, first, last, from, to, base :
       /\ table = type_tables[k] /\ end = post.suc.dfi[n] /\ v = val /\ c = post.suc
       /\ first = BoundNode(table, v, v[n] + 1, TRUE)
       /\ last = BoundNode(table, v, end - 1, FALSE)
       /\ from = ToSet(SearchPath(table, v, v[n] + 1))
       /\ to = ToSet(SearchPath(table, v, end - 1))
       /\ base = {n} \cup post.reads \cup X
  OBVIOUS
<1>b. outside = (beyond \/ end <= IF min = NULL THEN -1 ELSE val[min])
  BY <1>a DEF Outside
<1>c. outside \in BOOLEAN
  BY <1>b
<1>1. answer = IF outside THEN QueryAnswer(NULL, NULL, base, {}, c)
               ELSE IF first = NULL THEN QueryAnswer(NULL, NULL, base, from, c)
               ELSE IF v[first] = end - 1 THEN QueryAnswer(first, first, base, from, c)
               ELSE IF last = NULL \/ v[first] > v[last]
                    THEN QueryAnswer(NULL, NULL, base, from \cup to, c)
               ELSE QueryAnswer(first, last, base, from \cup to, c)
  BY <1>b, Zenon DEF DescendantsUpTo, QueryAnswer
<1>2. answer.suc = c /\ base \subseteq answer.reads
      /\ AnswerFrom(answer, first, last, v, end, outside)
  <2>1. ASSUME NEW a, NEW z, NEW reads, answer = QueryAnswer(a, z, base, reads, c)
        PROVE  /\ answer.first = a /\ answer.last = z /\ answer.suc = c
               /\ base \subseteq answer.reads
    BY <2>1 DEF QueryAnswer
  <2>2. CASE outside
    <3>1. answer = QueryAnswer(NULL, NULL, base, {}, c)
      BY <1>c, <1>1, <2>2
    <3>. QED  BY <2>1, <2>2, <3>1 DEF AnswerFrom
  <2>3. CASE ~outside /\ first = NULL
    <3>1. answer = QueryAnswer(NULL, NULL, base, from, c)
      BY <1>c, <1>1, <2>3
    <3>. QED  BY <2>1, <2>3, <3>1, ZenonT(60) DEF AnswerFrom
  <2>4. CASE ~outside /\ first # NULL /\ v[first] = end - 1
    <3>1. answer = QueryAnswer(first, first, base, from, c)
      BY <1>c, <1>1, <2>4
    <3>2. answer.first = first /\ answer.last = first /\ answer.suc = c /\ base \subseteq answer.reads
      BY <3>1 DEF QueryAnswer
    <3>. QED  BY <2>4, <3>2 DEF AnswerFrom
  <2>5. CASE ~outside /\ first # NULL /\ v[first] # end - 1 /\ (last = NULL \/ v[first] > v[last])
    <3>1. answer = QueryAnswer(NULL, NULL, base, from \cup to, c)
      BY <1>c, <1>1, <2>5
    <3>. QED  BY <2>1, <2>5, <3>1 DEF AnswerFrom
  <2>6. CASE ~outside /\ first # NULL /\ v[first] # end - 1 /\ last # NULL /\ ~(v[first] > v[last])
    <3>1. answer = QueryAnswer(first, last, base, from \cup to, c)
      BY <1>c, <1>1, <2>6
    <3>2. answer.first = first /\ answer.last = last /\ answer.suc = c /\ base \subseteq answer.reads
      BY <3>1 DEF QueryAnswer
    <3>. QED  BY <2>6, <3>2 DEF AnswerFrom
  <2>. QED  BY <2>2, <2>3, <2>4, <2>5, <2>6
<1>. QED  BY <1>a, <1>2 DEF AnswerShape

LEMMA QueryNotPast ==
  ASSUME BInv, NEW n \in Nodes, NEW k, NEW answer, answer = Descendants(n, k)
  PROVE  NeverPast(answer.suc, Refresh(tree, idx, answer.reads).base_index, val, tree, size)
<1>1. CASE tree.children[n] = <<>>
  <2>1. answer.suc = suc
    BY <1>1 DEF Descendants
  <2>. QED  BY <2>1, ReadsNotPast
<1>2. CASE tree.children[n] # <<>>
  <2>. PICK b, post, S : /\ b = Refresh(tree, idx, {n})
                         /\ post = PostorderSuccessor(tree, b, suc, size, n)
                         /\ S = answer.reads
    OBVIOUS
  <2>1. answer = DescendantsUpTo(n, k, post)
    BY <1>2 DEF Descendants
  <2>2. answer.suc = post.suc /\ n \in S /\ post.reads \subseteq S
    <3>1. AnswerShape(answer, n, k, post)
      BY <2>1, AnswerIs, Zenon
    <3>. QED  BY <3>1 DEF AnswerShape
  <2>3. NeverPast(post.suc, Refresh(tree, b, S).base_index, val, tree, size)
    BY <2>2, SuccessorNotPast
  <2>4. Refresh(tree, b, S) = Refresh(tree, idx, S)
    <3>1. Refresh(tree, b, S) = Refresh(tree, idx, {n} \cup S)
      BY AuditFacts, ReadsCommute DEF BInv
    <3>2. {n} \cup S = S
      BY <2>2
    <3>. QED  BY <3>1, <3>2
  <2>. QED  BY <2>2, <2>3, <2>4
<1>. QED  BY <1>1, <1>2

LEMMA BoundsAsk ==
  ASSUME BInv, AInv', NEW S, Asks(S),
         NeverPast(suc', Refresh(tree, idx, S).base_index, val, tree, size)
  PROVE  BInv'
<1>1. /\ size \in 1 .. MaxNodes /\ TreeShape(tree) /\ Ancestry(tree, size) /\ ModsTyped(idx)
  BY AuditFacts DEF BInv
<1>2. DfiValues(tree, Refresh(tree, idx, S)) = DfiValues(tree, idx)
  BY <1>1, RefreshValues
<1>3. UNCHANGED <<tree, size>> /\ idx' = Refresh(tree, idx, S)
  BY DEF Asks
<1>4. val' = val
  BY <1>2, <1>3 DEF val
<1>. QED  BY <1>3, <1>4 DEF BInv

LEMMA BoundsRest ==
  ASSUME BInv, AInv', Rests
  PROVE  BInv'
BY DEF BInv, Rests, val

LEMMA BoundsInit == Init => BInv
<1>. SUFFICES ASSUME Init  PROVE BInv
  OBVIOUS
<1>1. AInv
  BY AuditInit
<1>. PICK v, base : v = val /\ base = idx.base_index
  OBVIOUS
<1>2. /\ size \in 1 .. MaxNodes /\ OneTree(tree, size) /\ TreeShape(tree)
      /\ Ancestry(tree, size) /\ Numbers(v, tree, size) /\ v = DfiValues(tree, idx)
      /\ 1 .. size \subseteq Node
  BY <1>1, AuditFacts, NodeAssumption
<1>3. idx = FreshIndex(tree, size) /\ suc = FreshSuccessors(tree, size)
  BY DEF Init, DfiInit
<1>4. \A y \in 1 .. size : v[y] = y - 1 /\ base[y] = v[y] /\ v[y] \in Int
  <2>1. \A y \in 1 .. size : v[y] = y - 1
    BY <1>2, <1>3, FreshValues
  <2>2. \A y \in 1 .. size : base[y] = y - 1
    BY <1>2, <1>3 DEF FreshIndex
  <2>. QED  BY <2>1, <2>2
<1>5. ASSUME NEW n \in 1 .. size, NEW e \in Int, Follows(v, tree, size, n, e)
      PROVE  NotPast(suc.node[n], suc.dfi[n], base[n], v, n, e)
  <2>. PICK m, d : m = suc.node[n] /\ d = suc.dfi[n]
    OBVIOUS
  <2>1. Follows(v, tree, size, n, d) /\ (m # NULL => v[m] = d)
    BY <1>2, <1>3, <1>4, FreshSuccessorsExact
  <2>2. d = e
    BY <1>2, <1>5, <2>1, OneFollows
  <2>3. v[n] < e
    BY <1>5 DEF Follows, Under
  <2>4. base[n] = v[n] /\ v[n] \in Int
    BY <1>4
  <2>5. NotPast(m, d, base[n], v, n, e)
    BY <2>1, <2>2, <2>3, <2>4 DEF NotPast
  <2>. QED  BY <2>5
<1>. QED  BY <1>1, <1>5 DEF BInv, NeverPast

LEMMA BoundsNext == Audit /\ BInv /\ [Next]_vars => BInv'
<1>. SUFFICES ASSUME Audit, BInv, [Next]_vars  PROVE BInv'
  OBVIOUS
<1>1. AInv /\ AInv' /\ SuccessorsSound(suc, tree, size)
  BY AuditNext, AuditFacts DEF BInv
<1>2. fault \in {0, 47, 150}
  BY <1>1 DEF AInv
<1>3. CASE \E p \in Nodes, pos \in 0 .. MaxNodes, k \in Types : Insert(p, pos, k)
  BY <1>1, <1>3, BoundsInsert
<1>4. CASE InsertRoot /\ UNCHANGED <<type, ty, type_tables, unread>>
  <2>1. Rests
    BY <1>4 DEF InsertRoot, Rests
  <2>. QED  BY <1>1, <2>1, BoundsRest
<1>5. ASSUME NEW S, Read(S)
      PROVE  BInv'
  <2>1. Asks(S) /\ suc' = suc
    BY <1>1, <1>2, <1>5 DEF Read, ReadDfi, Asks
  <2>2. NeverPast(suc', Refresh(tree, idx, S).base_index, val, tree, size)
    BY <2>1, ReadsNotPast
  <2>. QED  BY <1>1, <2>1, <2>2, BoundsAsk
<1>6. ASSUME NEW n \in Nodes, Successor(n)
      PROVE  BInv'
  <2>. PICK post : post = PostorderSuccessor(tree, idx, suc, size, n)
    OBVIOUS
  <2>1. SuccessorsSound(post.suc, tree, size)
    BY <1>1, SuccessorSound
  <2>2. Asks(post.reads) /\ suc' = post.suc
    BY <1>2, <1>6, <2>1 DEF Successor, ReadSuccessor, Asks
  <2>3. NeverPast(post.suc, Refresh(tree, idx, post.reads).base_index, val, tree, size)
    BY IdleNotPast
  <2>. QED  BY <1>1, <2>2, <2>3, BoundsAsk
<1>7. ASSUME NEW n \in Nodes, ReadType(n)
      PROVE  BInv'
  <2>1. Rests
    BY <1>2, <1>7 DEF ReadType, Rests, dfiVars
  <2>. QED  BY <1>1, <2>1, BoundsRest
<1>8. ASSUME NEW n \in Nodes, NEW k \in Types, Query(n, k)
      PROVE  BInv'
  <2>. PICK answer : answer = Descendants(n, k)
    OBVIOUS
  <2>1. SuccessorsSound(answer.suc, tree, size)
    BY <1>1, QuerySuccessors
  <2>2. Asks(answer.reads) /\ suc' = answer.suc
    BY <1>2, <1>8, <2>1 DEF Query, Asks
  <2>3. NeverPast(answer.suc, Refresh(tree, idx, answer.reads).base_index, val, tree, size)
    BY QueryNotPast
  <2>. QED  BY <1>1, <2>2, <2>3, BoundsAsk
<1>9. CASE UNCHANGED vars
  <2>1. Rests
    BY <1>2, <1>9 DEF vars, dfiVars, Rests
  <2>. QED  BY <1>1, <2>1, BoundsRest
<1>. QED  BY <1>3, <1>4, <1>5, <1>6, <1>7, <1>8, <1>9 DEF Next, LookUp

LEMMA BoundsHold == ASSUME Audit PROVE Spec => []BInv
<1>1. BInv /\ [Next]_vars => BInv'
  BY BoundsNext
<1>. QED  BY <1>1, BoundsInit, PTL DEF Spec

\* Where the cached successor does not go past, postorder_successor_dfi() does not.
LEMMA AnswersNotPast ==
  ASSUME AInv, NEW base, NEW s, NeverPast(s, base, val, tree, size), NEW n \in Nodes
  PROVE  s.dfi[n] \in Int /\ s.dfi[n] <= End(n) /\ Follows(val, tree, size, n, End(n))
<1>. PICK v, d : v = val /\ d = s.dfi[n]
  OBVIOUS
<1>1. size \in 1 .. MaxNodes /\ OneTree(tree, size) /\ Numbers(v, tree, size) /\ n \in 1 .. size
  BY AuditFacts
<1>2. PICK e \in Int : Follows(v, tree, size, n, e)
  BY <1>1, SomeFollows
<1>3. NotPast(s.node[n], d, base[n], v, n, e)
  BY <1>1, <1>2 DEF NeverPast
<1>4. e = End(n)
  BY <1>2, NumbersAre
<1>. QED  BY <1>2, <1>3, <1>4 DEF NotPast

\* Under the audit postorder_successor_dfi() never lies past a node's descendants, whatever
\* its caches were left at (the caches that insert fills, and the shift by which
\* postorder_successor_dfi brings them up to date).
THEOREM SuccessorStaysShort == ASSUME Audit PROVE Spec => []SuccessorNeverPast
<1>1. BInv => SuccessorNeverPast
  <2>. SUFFICES ASSUME BInv, NEW n \in Nodes  PROVE SuccessorIndex(n) <= End(n)
    BY DEF SuccessorNeverPast
  <2>. PICK post : post = PostorderSuccessor(tree, idx, suc, size, n)
    OBVIOUS
  <2>1. NeverPast(post.suc, Refresh(tree, idx, post.reads).base_index, val, tree, size)
    BY IdleNotPast
  <2>2. post.suc.dfi[n] <= End(n)
    BY <2>1, AnswersNotPast DEF BInv
  <2>. QED  BY <2>2 DEF SuccessorIndex
<1>. QED  BY <1>1, BoundsHold, PTL

-----------------------------------------------------------------------------
(* Queries *)

\* The nodes of the branch of n are those with numbers from n's own to its end.
LEMMA BelowByNumber ==
  ASSUME AInv, NEW n \in Nodes, Follows(val, tree, size, n, End(n)), NEW m \in Nodes,
         val[n] < val[m], NEW d \in Int, val[m] < d, d <= End(n)
  PROVE  m \in NodesBelow(n)
<1>. PICK v, e : v = val /\ e = End(n)
  OBVIOUS
<1>1. size \in 1 .. MaxNodes /\ OneTree(tree, size) /\ Numbers(v, tree, size) /\ Nodes = 1 .. size
  BY AuditFacts
<1>2. Precedes(tree, n, m)
  BY <1>1, NumbersTell
<1>3. ~LeftOf(tree, n, m)
  <2>1. LeftOf(tree, n, m) => e <= v[m]
    BY <1>1 DEF Follows
  <2>2. e \in Int /\ v[m] \in Int
    BY <1>1, NumbersOrder DEF Follows
  <2>. QED  BY <2>1, <2>2
<1>. QED  BY <1>2, <1>3 DEF Precedes, NodesBelow

\* get_bound_node answers with a node of the table on the right side of the bound, if any.
Bounded(y, M, v, i, gth) ==
  y # NULL => y \in M /\ IF gth THEN v[y] >= i ELSE v[y] <= i

LEMMA BoundNodeGood ==
  ASSUME NEW table, NEW M, Sound(table, M), NEW v, NEW i, NEW gth, NEW y,
         y = BoundNode(table, v, i, gth)
  PROVE  Bounded(y, M, v, i, gth)
<1>. PICK path : path = SearchPath(table, v, i)
  OBVIOUS
<1>1. path \in Seq(M)
  BY SearchMisses
<1>. PICK last : last = {x \in Nodes : \E h \in DOMAIN path :
       /\ x = path[h] /\ (IF gth THEN v[x] >= i ELSE v[x] <= i)
       /\ \A j \in h + 1 .. Len(path) :
            ~(IF gth THEN v[path[j]] >= i ELSE v[path[j]] <= i)}
  OBVIOUS
<1>2. y = IF last = {} THEN NULL ELSE CHOOSE x \in last : TRUE
  BY ZenonT(60) DEF BoundNode
<1>3. y # NULL => y \in last
  BY <1>2
<1>4. \A x \in last : x \in M /\ IF gth THEN v[x] >= i ELSE v[x] <= i
  BY <1>1
<1>. QED  BY <1>3, <1>4 DEF Bounded

\* A list of a type's nodes, by their numbers, between a and c.
Slice(found, ord, lo, hi) ==
  /\ found = SubSeq(ord, lo, hi) /\ lo \in 1 .. Len(ord) /\ hi \in lo - 1 .. Len(ord)

LEMMA SliceInOrder ==
  ASSUME NEW ord \in Seq(Node), NEW v, Rising(ord, v, Int), NEW lo, NEW hi, NEW found,
         Slice(found, ord, lo, hi)
  PROVE  /\ \A y \in ToSet(found) : \E i \in lo .. hi : i \in 1 .. Len(ord) /\ y = ord[i]
         /\ Rising(found, v, Int)
<1>1. /\ Len(ord) \in Nat /\ lo \in Int /\ hi \in Int /\ 1 <= lo /\ lo <= Len(ord)
      /\ lo - 1 <= hi /\ hi <= Len(ord)
  BY DEF Slice
<1>2. /\ Len(found) = (hi - lo) + 1 /\ DOMAIN found = 1 .. Len(found)
      /\ \A i \in 1 .. Len(found) : found[i] = ord[(lo + i) - 1]
  BY <1>1 DEF Slice
<1>3. \A i \in 1 .. Len(found) : (lo + i) - 1 \in lo .. hi /\ (lo + i) - 1 \in 1 .. Len(ord)
  BY <1>1, <1>2
<1>4. ASSUME NEW y \in ToSet(found)
      PROVE  \E i \in lo .. hi : i \in 1 .. Len(ord) /\ y = ord[i]
  <2>1. PICK i \in 1 .. Len(found) : found[i] = y
    BY <1>2 DEF ToSet
  <2>2. (lo + i) - 1 \in lo .. hi /\ (lo + i) - 1 \in 1 .. Len(ord) /\ y = ord[(lo + i) - 1]
    BY <1>2, <1>3, <2>1
  <2>. QED  BY <2>2
<1>5. \A i \in 1 .. Len(found) : v[found[i]] \in Int
  BY <1>2, <1>3 DEF Rising
<1>6. ASSUME NEW i \in 1 .. Len(found), NEW j \in 1 .. Len(found), i < j
      PROVE  v[found[i]] < v[found[j]]
  <2>1. (lo + i) - 1 < (lo + j) - 1
    BY <1>1, <1>6
  <2>2. v[ord[(lo + i) - 1]] < v[ord[(lo + j) - 1]]
    BY <1>3, <2>1 DEF Rising
  <2>. QED  BY <1>2, <2>2
<1>. QED  BY <1>4, <1>5, <1>6 DEF Rising

\* A rising list of nodes is in document order.
LEMMA RisingInOrder ==
  ASSUME AInv, NEW found, ToSet(found) \subseteq Nodes, DOMAIN found = 1 .. Len(found),
         Len(found) \in Nat, Rising(found, val, Int)
  PROVE  InDocumentOrder(found)
<1>. PICK v : v = val
  OBVIOUS
<1>1. size \in 1 .. MaxNodes /\ OneTree(tree, size) /\ Numbers(v, tree, size) /\ Nodes = 1 .. size
  BY AuditFacts
<1>2. ASSUME NEW i \in DOMAIN found, NEW j \in 1 .. i - 1
      PROVE  Precedes(tree, found[j], found[i])
  <2>1. i \in 1 .. Len(found) /\ j \in 1 .. Len(found) /\ j < i
    BY <1>2
  <2>2. v[found[j]] < v[found[i]]
    BY <2>1 DEF Rising
  <2>3. found[i] \in Nodes /\ found[j] \in Nodes
    BY <2>1 DEF ToSet
  <2>. QED  BY <1>1, <2>2, <2>3, NumbersTell
<1>. QED  BY <1>2 DEF InDocumentOrder

\* A DResult runs from the answer's first node to the last one up to the number of its last.
Runs(found, ord, v, f, l) ==
  \E lo, hi : /\ Slice(found, ord, lo, hi) /\ ord[lo] = f
              /\ \A i \in lo .. hi : ~(v[ord[i]] > v[l])

RunOf(found, ord, v, f, l) ==
  LET at   == CHOOSE i \in DOMAIN ord : ord[i] = f
      over == {i \in at .. Len(ord) : v[ord[i]] > v[l]}
  IN  found = SubSeq(ord, at, IF over = {} THEN Len(ord) ELSE Min(over) - 1)

LEMMA EnumeratedRun ==
  ASSUME NEW answer, NEW k, answer.first # NULL, answer.first # answer.last
  PROVE  RunOf(Enumerated(answer, k), InOrder(type_tables[k]), val, answer.first, answer.last)
BY Zenon DEF Enumerated, RunOf

LEMMA EnumerationRuns ==
  ASSUME NEW ord \in Seq(Node), NEW v, NEW f \in ToSet(ord), NEW l, NEW found,
         RunOf(found, ord, v, f, l)
  PROVE  Runs(found, ord, v, f, l)
<1>1. PICK at : at = CHOOSE i \in DOMAIN ord : ord[i] = f
  OBVIOUS
<1>2. at \in 1 .. Len(ord) /\ ord[at] = f /\ Len(ord) \in Nat
  <2>1. \E i \in DOMAIN ord : ord[i] = f
    BY DEF ToSet
  <2>. QED  BY <1>1, <2>1
<1>3. PICK over : over = {i \in at .. Len(ord) : v[ord[i]] > v[l]}
  OBVIOUS
<1>4. PICK hi : hi = IF over = {} THEN Len(ord) ELSE Min(over) - 1
  OBVIOUS
<1>5. found = SubSeq(ord, at, hi)
  BY <1>1, <1>3, <1>4 DEF RunOf
<1>6. hi \in at - 1 .. Len(ord) /\ \A i \in at .. hi : i \notin over
  <2>1. CASE over = {}
    BY <1>2, <1>4, <2>1
  <2>2. CASE over # {}
    <3>1. over \subseteq at .. Len(ord) /\ over \subseteq Nat
      BY <1>2, <1>3
    <3>2. \E x \in over : \A y \in over : x <= y
      BY <2>2, <3>1, LeastMember
    <3>3. PICK m : m = Min(over)
      OBVIOUS
    <3>4. m \in over /\ \A y \in over : m <= y
      BY <3>2, <3>3 DEF Min
    <3>5. m \in at .. Len(ord) /\ hi = m - 1
      BY <1>4, <2>2, <3>1, <3>3, <3>4
    <3>. QED  BY <1>2, <3>4, <3>5
  <2>. QED  BY <2>1, <2>2
<1>7. \A i \in at .. hi : ~(v[ord[i]] > v[l])
  BY <1>2, <1>3, <1>6
<1>8. Slice(found, ord, at, hi)
  BY <1>2, <1>5, <1>6 DEF Slice
<1>. QED  BY <1>2, <1>7, <1>8 DEF Runs

\* What a query answers lies between n and its end: from a node of the type to another.
Spanned(answer, M, v, n, end) ==
  answer.first # NULL =>
    /\ answer.first \in M /\ v[n] + 1 <= v[answer.first]
    /\ answer.last \in M /\ v[answer.last] <= end - 1

LEMMA AnswerSpanned ==
  ASSUME AInv, NEW n \in Nodes, NEW k \in Types, NEW post, post.suc.dfi[n] \in Int, NEW answer,
         AnswerShape(answer, n, k, post)
  PROVE  Spanned(answer, Members(k), val, n, post.suc.dfi[n])
<1>. PICK table, M, v, end, f, l :
       /\ table = type_tables[k] /\ M = Members(k) /\ v = val /\ end = post.suc.dfi[n]
       /\ end \in Int
       /\ f = BoundNode(table, v, v[n] + 1, TRUE) /\ l = BoundNode(table, v, end - 1, FALSE)
  OBVIOUS
<1>1. Sound(table, M) /\ M \subseteq Nodes
  BY DEF AInv, TypeTables, Members
<1>2. Bounded(f, M, v, v[n] + 1, TRUE) /\ Bounded(l, M, v, end - 1, FALSE)
  BY <1>1, BoundNodeGood
<1>3. AnswerFrom(answer, f, l, v, end, Outside(n, k, end))
  BY DEF AnswerShape
<1>4. \A m \in Nodes : v[m] \in Int
  BY AuditFacts, NumbersOrder
<1>5. /\ f # NULL => f \in M /\ f \in Nodes /\ v[f] >= v[n] + 1 /\ v[f] \in Int
      /\ l # NULL => l \in M /\ l \in Nodes /\ v[l] <= end - 1 /\ v[l] \in Int
  BY <1>1, <1>2, <1>4 DEF Bounded
<1>6. Spanned(answer, M, v, n, end)
  <2>. SUFFICES ASSUME answer.first # NULL
                PROVE  /\ answer.first \in M /\ v[n] + 1 <= v[answer.first]
                       /\ answer.last \in M /\ v[answer.last] <= end - 1
    BY DEF Spanned
  <2>1. CASE answer.first = f /\ answer.last = f /\ f # NULL /\ v[f] = end - 1
    <3>1. v[f] \in Int /\ v[n] \in Int /\ end \in Int /\ f \in M /\ v[f] >= v[n] + 1
      BY <1>4, <1>5, <2>1
    <3>2. v[n] + 1 <= v[f] /\ v[f] <= end - 1
      BY <2>1, <3>1
    <3>. QED  BY <2>1, <3>1, <3>2
  <2>2. CASE answer.first = f /\ answer.last = l /\ f # NULL /\ l # NULL /\ ~(v[f] > v[l])
    BY <1>4, <1>5, <2>2
  <2>. QED  BY <1>3, <2>1, <2>2 DEF AnswerFrom
<1>. QED  BY <1>6

LEMMA SpannedSound ==
  ASSUME AInv, NEW n \in Nodes, NEW k \in Types, NEW end \in Int, end <= End(n),
         Follows(val, tree, size, n, End(n)), NEW answer,
         Spanned(answer, Members(k), val, n, end), NEW found, found = Enumerated(answer, k)
  PROVE  /\ ToSet(found) \subseteq {m \in NodesBelow(n) : type[m] = k}
         /\ InDocumentOrder(found)
<1>. PICK ord, v, M, f, l :
       /\ ord = InOrder(type_tables[k]) /\ v = val /\ M = Members(k)
       /\ f = answer.first /\ l = answer.last
  OBVIOUS
<1>0. /\ \A m \in Nodes : v[m] \in Int
      /\ M \subseteq Nodes /\ Nodes \subseteq Node /\ NULL \notin Node
      /\ \A m \in M : type[m] = k
  BY AuditFacts, NumbersOrder, NodeAssumption, NullAssumption DEF Members
<1>1. ord \in Seq(Node) /\ ToSet(ord) = M /\ Rising(ord, v, Int)
  <2>1. Sound(type_tables[k], M) /\ Sorted(type_tables[k], M, v)
    BY DEF AInv, TypeTables
  <2>. QED  BY <2>1, InOrderOf DEF InOrderIs
<1>2. ASSUME NEW m \in M, v[n] < v[m], v[m] < end
      PROVE  m \in NodesBelow(n) /\ type[m] = k
  BY <1>0, <1>2, BelowByNumber
<1>3. CASE f = NULL
  <2>1. found = <<>>
    BY <1>3 DEF Enumerated
  <2>. QED  BY <2>1 DEF ToSet, InDocumentOrder
<1>4. CASE f # NULL /\ f = l
  <2>1. found = <<f>>
    BY <1>4 DEF Enumerated
  <2>2. f \in M /\ v[n] + 1 <= v[f] /\ v[f] <= end - 1
    BY <1>4 DEF Spanned
  <2>3. f \in NodesBelow(n) /\ type[f] = k
    BY <1>0, <1>2, <2>2
  <2>. QED  BY <2>1, <2>3 DEF ToSet, InDocumentOrder
<1>5. CASE f # NULL /\ f # l
  <2>1. f \in M /\ l \in M /\ v[n] + 1 <= v[f] /\ v[l] <= end - 1
    BY <1>5 DEF Spanned
  <2>2. Runs(found, ord, v, f, l)
    <3>1. RunOf(found, ord, v, f, l)
      BY <1>5, EnumeratedRun, Zenon
    <3>. QED  BY <1>1, <2>1, <3>1, EnumerationRuns
  <2>3. PICK lo, hi : /\ Slice(found, ord, lo, hi) /\ ord[lo] = f
                      /\ \A i \in lo .. hi : ~(v[ord[i]] > v[l])
    BY <2>2 DEF Runs
  <2>4. /\ \A y \in ToSet(found) : \E i \in lo .. hi : i \in 1 .. Len(ord) /\ y = ord[i]
        /\ Rising(found, v, Int)
    BY <1>1, <2>3, SliceInOrder
  <2>5. lo \in 1 .. Len(ord) /\ DOMAIN found = 1 .. Len(found) /\ Len(found) \in Nat
    BY <1>1, <2>3 DEF Slice
  <2>6. ASSUME NEW y \in ToSet(found)
        PROVE  y \in NodesBelow(n) /\ type[y] = k
    <3>1. PICK i \in lo .. hi : i \in 1 .. Len(ord) /\ y = ord[i]
      BY <2>4
    <3>2. y \in M
      BY <1>1, <3>1 DEF ToSet
    <3>3. ~(v[y] > v[l])
      BY <2>3, <3>1
    <3>4. v[f] <= v[y]
      <4>1. CASE i = lo
        BY <1>0, <2>1, <2>3, <3>1, <4>1
      <4>2. CASE i # lo
        <5>1. lo < i
          BY <2>5, <3>1, <4>2
        <5>2. v[ord[lo]] < v[ord[i]]
          BY <1>1, <2>5, <3>1, <5>1 DEF Rising
        <5>. QED  BY <1>0, <2>1, <2>3, <3>1, <3>2, <5>2
      <4>. QED  BY <4>1, <4>2
    <3>5. v[n] < v[y] /\ v[y] < end
      BY <1>0, <2>1, <3>2, <3>3, <3>4
    <3>. QED  BY <1>2, <3>2, <3>5
  <2>7. ToSet(found) \subseteq Nodes
    BY <2>6 DEF NodesBelow
  <2>8. InDocumentOrder(found)
    BY <2>4, <2>5, <2>7, RisingInOrder
  <2>. QED  BY <2>6, <2>8
<1>. QED  BY <1>3, <1>4, <1>5

\* Under the audit the nodes a query enumerates are descendants of its node that have the
\* type it asks for, each once, in document order (descendants and the bounds it searches).
THEOREM QueriesStaySound == ASSUME Audit PROVE Spec => []QuerySound
<1>1. BInv => QuerySound
  <2>. SUFFICES ASSUME BInv, NEW n \in Nodes, NEW k \in Types, NEW answer,
                       answer = Descendants(n, k), NEW found, found = Enumerated(answer, k)
                PROVE  /\ ToSet(found) \subseteq {m \in NodesBelow(n) : type[m] = k}
                       /\ InDocumentOrder(found)
    BY DEF QuerySound
  <2>0. AInv
    BY DEF BInv
  <2>1. CASE tree.children[n] = <<>>
    <3>1. answer.first = NULL
      BY <2>1 DEF Descendants
    <3>2. found = <<>>
      BY <3>1 DEF Enumerated
    <3>. QED  BY <3>2 DEF ToSet, InDocumentOrder
  <2>2. CASE tree.children[n] # <<>>
    <3>. PICK b, post, end : /\ b = Refresh(tree, idx, {n})
                             /\ post = PostorderSuccessor(tree, b, suc, size, n)
                             /\ end = post.suc.dfi[n]
      OBVIOUS
    <3>1. AnswerShape(answer, n, k, post)
      <4>1. answer = DescendantsUpTo(n, k, post)
        BY <2>2 DEF Descendants
      <4>. QED  BY <4>1, AnswerIs, Zenon
    <3>2. NeverPast(post.suc, Refresh(tree, b, post.reads).base_index, val, tree, size)
      BY SuccessorNotPast
    <3>3. end \in Int /\ end <= End(n) /\ Follows(val, tree, size, n, End(n))
      BY <2>0, <3>2, AnswersNotPast
    <3>4. Spanned(answer, Members(k), val, n, end)
      BY <2>0, <3>1, <3>3, AnswerSpanned
    <3>. QED  BY <2>0, <3>3, <3>4, SpannedSound
  <2>. QED  BY <2>1, <2>2
<1>. QED  BY <1>1, BoundsHold, PTL

-----------------------------------------------------------------------------
(* Queries of a tree as it was indexed *)

\* get_bound_node answers with the member nearest to the bound on its right side.
LEMMA BoundNodeBest ==
  ASSUME NEW table, NEW M, Sound(table, M), M \subseteq Nodes, NEW v, Sorted(table, M, v),
         NEW i \in Int, NEW gth \in BOOLEAN, NEW y, y = BoundNode(table, v, i, gth)
  PROVE  BestBound(y, M, v, i, gth)
<1>. PICK p : p = SearchPath(table, v, i)
  OBVIOUS
<1>1. PICK span : Ordered(table, M, v, span)
  BY DEF Sorted
<1>2. Searched(table, M, v, i, table.root, p)
  <2>1. PICK H, h : TableType(table) /\ Linked(table, M) /\ Balanceable(table, h, H)
    BY DEF Sound
  <2>. QED  BY <2>1, SearchFrom
<1>3. p \in Seq(M) /\ Len(p) \in Nat /\ \A j \in 1 .. Len(p) : p[j] \in M
  BY <1>2 DEF Searched
<1>4. PICK good : good = {h \in 1 .. Len(p) : OnSide(v[p[h]], i, gth)}
  OBVIOUS
<1>5. PICK last : last = {x \in Nodes : \E h \in DOMAIN p :
        /\ x = p[h] /\ OnSide(v[x], i, gth)
        /\ \A j \in h + 1 .. Len(p) : ~OnSide(v[p[j]], i, gth)}
  OBVIOUS
<1>6. y = IF last = {} THEN NULL ELSE CHOOSE x \in last : TRUE
  BY <1>5, ZenonT(60) DEF BoundNode, OnSide
<1>7. CASE last = {}
  <2>1. good = {}
    <3>. SUFFICES ASSUME good # {}  PROVE FALSE
      OBVIOUS
    <3>1. good \subseteq 0 .. Len(p) /\ good \subseteq 1 .. Len(p)
      BY <1>3, <1>4
    <3>2. PICK h \in good : \A j \in good : j <= h
      BY <1>3, <3>1, GreatestMember
    <3>3. h \in DOMAIN p /\ OnSide(v[p[h]], i, gth) /\ p[h] \in Nodes
      BY <1>3, <1>4, <3>1
    <3>4. \A j \in h + 1 .. Len(p) : ~OnSide(v[p[j]], i, gth)
      BY <1>3, <1>4, <3>1, <3>2
    <3>5. p[h] \in last
      BY <1>5, <3>3, <3>4
    <3>. QED  BY <1>7, <3>5
  <2>2. \A j \in 1 .. Len(p) : ~OnSide(v[p[j]], i, gth)
    BY <1>4, <2>1
  <2>3. BestBound(NULL, M, v, i, gth)
    BY <1>1, <1>2, <2>2, NoneIsBest
  <2>. QED  BY <1>6, <1>7, <2>3
<1>8. CASE last # {}
  <2>1. y \in last
    BY <1>6, <1>8
  <2>2. PICK h \in 1 .. Len(p) : /\ y = p[h] /\ OnSide(v[y], i, gth)
                                /\ \A j \in h + 1 .. Len(p) : ~OnSide(v[p[j]], i, gth)
    BY <1>3, <1>5, <2>1
  <2>3. BestBound(p[h], M, v, i, gth)
    BY <1>1, <1>2, <2>2, LastIsBest
  <2>. QED  BY <2>2, <2>3
<1>. QED  BY <1>7, <1>8

\* A node numbered up to the last one's number is within the run.
LEMMA RunReaches ==
  ASSUME NEW ord \in Seq(Node), NEW v, Rising(ord, v, Int), NEW f \in ToSet(ord), NEW l,
         v[l] \in Int, NEW found, RunOf(found, ord, v, f, l), NEW m \in ToSet(ord), v[f] <= v[m],
         v[m] <= v[l]
  PROVE  m \in ToSet(found)
<1>1. PICK at : at = CHOOSE i \in DOMAIN ord : ord[i] = f
  OBVIOUS
<1>2. at \in 1 .. Len(ord) /\ ord[at] = f /\ Len(ord) \in Nat
  <2>1. \E i \in DOMAIN ord : ord[i] = f
    BY DEF ToSet
  <2>. QED  BY <1>1, <2>1
<1>3. PICK over : over = {i \in at .. Len(ord) : v[ord[i]] > v[l]}
  OBVIOUS
<1>4. PICK hi : hi = IF over = {} THEN Len(ord) ELSE Min(over) - 1
  OBVIOUS
<1>5. found = SubSeq(ord, at, hi)
  BY <1>1, <1>3, <1>4 DEF RunOf
<1>6. PICK j \in 1 .. Len(ord) : ord[j] = m
  BY DEF ToSet
<1>7. at <= j
  <2>1. v[ord[at]] \in Int /\ v[ord[j]] \in Int
    BY <1>2, <1>6 DEF Rising
  <2>2. j < at => v[ord[j]] < v[ord[at]]
    BY <1>2, <1>6 DEF Rising
  <2>. QED  BY <1>2, <1>6, <2>1, <2>2
<1>8. hi \in Int /\ hi <= Len(ord) /\ j <= hi
  <2>1. CASE over = {}
    BY <1>2, <1>4, <1>6, <2>1
  <2>2. CASE over # {}
    <3>1. over \subseteq at .. Len(ord) /\ over \subseteq Nat
      BY <1>2, <1>3
    <3>2. \E x \in over : \A y \in over : x <= y
      BY <2>2, <3>1, LeastMember
    <3>3. PICK o : o = Min(over)
      OBVIOUS
    <3>4. o \in over /\ \A y \in over : o <= y
      BY <3>2, <3>3 DEF Min
    <3>5. o \in at .. Len(ord) /\ hi = o - 1 /\ v[ord[o]] > v[l]
      BY <1>3, <1>4, <2>2, <3>1, <3>3, <3>4
    <3>6. j < o
      <4>1. v[ord[o]] \in Int /\ v[ord[j]] \in Int
        BY <1>2, <1>6, <3>5 DEF Rising
      <4>2. o < j => v[ord[o]] < v[ord[j]]
        BY <1>2, <1>6, <3>5 DEF Rising
      <4>3. ~(o < j) /\ o # j
        BY <1>6, <3>5, <4>1, <4>2
      <4>. QED  BY <1>2, <1>6, <3>5, <4>3
    <3>. QED  BY <1>2, <1>6, <3>5, <3>6
  <2>. QED  BY <2>1, <2>2
<1>9. (j - at) + 1 \in 1 .. Len(found) /\ found[(j - at) + 1] = m /\ DOMAIN found = 1 .. Len(found)
  <2>1. at <= hi + 1 /\ at \in Int /\ j \in Int
    BY <1>2, <1>6, <1>7, <1>8
  <2>2. /\ Len(found) = (hi - at) + 1 /\ DOMAIN found = 1 .. Len(found)
        /\ \A i \in 1 .. Len(found) : found[i] = ord[(at + i) - 1]
    BY <1>2, <1>5, <1>8, <2>1
  <2>3. (j - at) + 1 \in 1 .. Len(found) /\ (at + ((j - at) + 1)) - 1 = j
    BY <1>7, <1>8, <2>1, <2>2
  <2>. QED  BY <1>6, <2>2, <2>3
<1>. QED  BY <1>9 DEF ToSet

LEMMA Sandwich ==
  ASSUME NEW a \in Int, NEW b \in Int, NEW c \in Int, a <= b, b <= c
  PROVE  ~(a > c)
OBVIOUS

\* The answer of a query spans the members between its node and its end.
Covering(answer, M, v, n, end) ==
  \A m \in M : v[n] < v[m] /\ v[m] < end =>
    /\ answer.first # NULL /\ answer.first \in M /\ answer.last \in M
    /\ v[answer.first] <= v[m] /\ v[m] <= v[answer.last]

LEMMA AnswerCovers ==
  ASSUME AInv, NEW n \in Nodes, NEW k \in Types, NEW post, post.suc.dfi[n] \in Int, NEW answer,
         AnswerShape(answer, n, k, post),
         \A m \in Members(k) : val[n] < val[m] /\ val[m] < post.suc.dfi[n] =>
           ~Outside(n, k, post.suc.dfi[n])
  PROVE  Covering(answer, Members(k), val, n, post.suc.dfi[n])
<1>. PICK table, M, v, end, f, l :
       /\ table = type_tables[k] /\ M = Members(k) /\ v = val /\ end = post.suc.dfi[n]
       /\ end \in Int
       /\ f = BoundNode(table, v, v[n] + 1, TRUE) /\ l = BoundNode(table, v, end - 1, FALSE)
  OBVIOUS
<1>1. Sound(table, M) /\ Sorted(table, M, v) /\ M \subseteq Nodes
  BY DEF AInv, TypeTables, Members
<1>2. \A m \in Nodes : v[m] \in Int
  BY AuditFacts, NumbersOrder
<1>3. BestBound(f, M, v, v[n] + 1, TRUE) /\ BestBound(l, M, v, end - 1, FALSE)
  <2>1. v[n] + 1 \in Int /\ end - 1 \in Int
    BY <1>2
  <2>2. BestBound(f, M, v, v[n] + 1, TRUE)
    BY <1>1, <2>1, BoundNodeBest
  <2>3. BestBound(l, M, v, end - 1, FALSE)
    BY <1>1, <2>1, BoundNodeBest
  <2>. QED  BY <2>2, <2>3
<1>4. AnswerFrom(answer, f, l, v, end, Outside(n, k, end))
  BY DEF AnswerShape
<1>5. ASSUME NEW m \in M, v[n] < v[m], v[m] < end
      PROVE  /\ answer.first # NULL /\ answer.first \in M /\ answer.last \in M
             /\ v[answer.first] <= v[m] /\ v[m] <= v[answer.last]
  <2>1. v[m] \in Int /\ v[n] \in Int /\ v[m] >= v[n] + 1 /\ v[m] <= end - 1
    BY <1>1, <1>2, <1>5
  <2>2. f # NULL /\ f \in M /\ v[f] <= v[m] /\ v[f] \in Int
    <3>1. OnSide(v[m], v[n] + 1, TRUE)
      BY <2>1 DEF OnSide
    <3>2. f # NULL /\ f \in M /\ NotBeyond(v[f], v[m], TRUE)
      BY <1>3, <3>1 DEF BestBound
    <3>. QED  BY <1>1, <1>2, <3>2 DEF NotBeyond
  <2>3. l # NULL /\ l \in M /\ v[m] <= v[l] /\ v[l] \in Int
    <3>1. OnSide(v[m], end - 1, FALSE)
      BY <2>1 DEF OnSide
    <3>2. l # NULL /\ l \in M /\ NotBeyond(v[l], v[m], FALSE)
      BY <1>3, <3>1 DEF BestBound
    <3>. QED  BY <1>1, <1>2, <3>2 DEF NotBeyond
  <2>4. ~Outside(n, k, end)
    BY <1>5
  <2>5. ~(v[f] > v[l])
    BY <2>1, <2>2, <2>3, Sandwich
  <2>6. \/ answer.first = f /\ answer.last = f /\ v[f] = end - 1
        \/ answer.first = f /\ answer.last = l
    BY <1>4, <2>2, <2>3, <2>4, <2>5 DEF AnswerFrom
  <2>. QED  BY <2>1, <2>2, <2>3, <2>6
<1>. QED  BY <1>5 DEF Covering

\* What the answer covers the iteration enumerates.
LEMMA CoveredEnumerated ==
  ASSUME AInv, NEW n \in Nodes, NEW k \in Types, NEW end, NEW answer,
         Covering(answer, Members(k), val, n, end), NEW found, found = Enumerated(answer, k),
         NEW m \in Members(k), val[n] < val[m], val[m] < end
  PROVE  m \in ToSet(found)
<1>. PICK ord, v, M, f, l :
       /\ ord = InOrder(type_tables[k]) /\ v = val /\ M = Members(k)
       /\ f = answer.first /\ l = answer.last
  OBVIOUS
<1>1. ord \in Seq(Node) /\ ToSet(ord) = M /\ Rising(ord, v, Int)
  <2>1. Sound(type_tables[k], M) /\ Sorted(type_tables[k], M, v)
    BY DEF AInv, TypeTables
  <2>. QED  BY <2>1, InOrderOf DEF InOrderIs
<1>2. f # NULL /\ f \in M /\ l \in M /\ v[f] <= v[m] /\ v[m] <= v[l]
  BY DEF Covering
<1>3. size \in 1 .. MaxNodes /\ OneTree(tree, size) /\ Numbers(v, tree, size) /\ Nodes = 1 .. size
      /\ M \subseteq Nodes
  BY AuditFacts DEF Members
<1>4. v[f] \in Int /\ v[l] \in Int /\ v[m] \in Int
  BY <1>2, <1>3, NumbersOrder
<1>5. CASE f = l
  <2>1. found = <<f>>
    BY <1>2, <1>5 DEF Enumerated
  <2>2. v[f] = v[m]
    BY <1>2, <1>4, <1>5
  <2>3. f = m
    BY <1>2, <1>3, <2>2, NumbersTell
  <2>. QED  BY <2>1, <2>3 DEF ToSet
<1>6. CASE f # l
  <2>1. RunOf(found, ord, v, f, l)
    BY <1>2, <1>6, EnumeratedRun, Zenon
  <2>. QED  BY <1>1, <1>2, <1>4, <2>1, RunReaches
<1>. QED  BY <1>5, <1>6

\* Before any insertion the nodes are numbered as they were created.
LEMMA GeneratedValues ==
  ASSUME AInv, Generated
  PROVE  \A y \in 1 .. size : val[y] = y - 1
<1>1. size \in 1 .. MaxNodes /\ TreeShape(tree) /\ Ancestry(tree, size)
  BY AuditFacts
<1>. QED  BY <1>1, FreshValues DEF Generated, val

\* The bounds of a type span its members.
LEMMA GeneratedInside ==
  ASSUME AInv, Generated, NEW n \in Nodes, NEW k \in Types, NEW end \in Int, NEW m \in Members(k),
         val[n] < val[m], val[m] < end
  PROVE  ~Outside(n, k, end)
<1>. PICK v, S, max, min :
       /\ v = val /\ S = Members(k) /\ max = ty.max_type_bounds[k] /\ min = ty.min_type_bounds[k]
  OBVIOUS
<1>1. size \in 1 .. MaxNodes /\ size \in Nat /\ Nodes = 1 .. size /\ NULL \notin 1 .. size
  BY AuditFacts, NodeAssumption, NullAssumption
<1>2. \A y \in 1 .. size : v[y] = y - 1
  BY GeneratedValues
<1>3. m \in S /\ S \subseteq 1 .. size /\ S \subseteq 0 .. size /\ S \subseteq Nat
      /\ S = {y \in 1 .. size : type[y] = k}
  BY <1>1 DEF Members
<1>4. BoundsOf(ty, type, size)
  <2>0. 1 .. size \subseteq Node
    BY <1>1, NodeAssumption
  <2>1. \A y \in 1 .. size : type[y] \in Types
    BY <1>1 DEF AInv, TInv, TypesTyped
  <2>2. BoundsOf(FreshTypes(tree, type, size), type, size)
    BY <1>1, <2>0, <2>1, FreshTypesAre
  <2>. QED  BY <2>2 DEF Generated
<1>5. max \in S /\ \A y \in S : y <= max
  BY <1>3, <1>4 DEF BoundsOf, FirstOf
<1>6. min \in S /\ \A y \in S : min <= y
  BY <1>3, <1>4 DEF BoundsOf, FirstOf
<1>7. max # NULL /\ min # NULL /\ v[max] \in Int /\ v[min] \in Int /\ v[m] \in Int /\ v[n] \in Int
      /\ v[m] <= v[max] /\ v[min] <= v[m]
  <2>1. max \in 1 .. size /\ min \in 1 .. size /\ m \in 1 .. size /\ n \in 1 .. size
    BY <1>1, <1>3, <1>5, <1>6
  <2>2. v[max] = max - 1 /\ v[min] = min - 1 /\ v[m] = m - 1 /\ v[n] = n - 1
    BY <1>2, <2>1
  <2>3. m <= max /\ min <= m
    BY <1>3, <1>5, <1>6
  <2>. QED  BY <1>1, <2>1, <2>2, <2>3, SMTT(60)
<1>8. ~(v[n] >= v[max]) /\ ~(end <= v[min])
  BY <1>7
<1>. QED  BY <1>7, <1>8 DEF Outside

\* The index after the last descendant is found at once, and then read from the cache.
LEMMA GeneratedEnd ==
  ASSUME AInv, Generated, NEW n \in Nodes, NEW b, b = Refresh(tree, idx, {n}), NEW post,
         post = PostorderSuccessor(tree, b, suc, size, n)
  PROVE  post.suc.dfi[n] = End(n) /\ Follows(val, tree, size, n, End(n))
<1>. PICK v, c : v = val /\ c = post.suc
  OBVIOUS
<1>1. /\ size \in 1 .. MaxNodes /\ OneTree(tree, size) /\ TreeShape(tree) /\ Ancestry(tree, size)
      /\ ModsTyped(idx) /\ Numbers(v, tree, size) /\ SuccessorsSound(suc, tree, size)
      /\ n \in 1 .. size /\ v = DfiValues(tree, idx)
  BY AuditFacts
<1>2. \A y \in 1 .. size : v[y] = y - 1
  BY GeneratedValues
<1>3. suc = FreshSuccessors(tree, size)
  BY DEF Generated
<1>4. /\ Follows(v, tree, size, n, suc.dfi[n])
      /\ suc.node[n] # NULL => v[suc.node[n]] = suc.dfi[n]
  BY <1>1, <1>2, <1>3, FreshSuccessorsExact
<1>5. IsCache(suc) /\ suc.dfi \in [Node -> Int]
  BY <1>1 DEF SuccessorsSound
<1>6. v = DfiValues(tree, b)
  BY <1>1, RefreshValues
<1>7. SuccessorOutcome(c, suc, tree, v, size, n)
  BY <1>5, <1>6, SuccessorOutcomes
<1>8. Follows(v, tree, size, n, c.dfi[n])
  BY <1>1, <1>4, <1>5, <1>7, OutcomeExact
<1>9. c.dfi[n] = End(n)
  BY <1>8, NumbersAre
<1>. QED  BY <1>8, <1>9

\* A node without children has no descendants.
LEMMA LeafBelow ==
  ASSUME AInv, NEW n \in Nodes, tree.children[n] = <<>>
  PROVE  NodesBelow(n) = {}
<1>. SUFFICES ASSUME NEW m \in Nodes, n \in tree.above[m]  PROVE FALSE
  BY DEF NodesBelow
<1>1. size \in 1 .. MaxNodes /\ OneTree(tree, size) /\ m \in 1 .. size
  BY AuditFacts
<1>2. \E i \in 1 .. Len(tree.children[n]) : Under(tree, tree.children[n][i], m)
  BY <1>1, BranchOf
<1>. QED  BY <1>2

\* Every descendant of the type is within the bounds of a query.
LEMMA BelowInside ==
  ASSUME AInv, NEW n \in Nodes, NEW k, Follows(val, tree, size, n, End(n)),
         NEW m \in {y \in NodesBelow(n) : type[y] = k}
  PROVE  m \in Members(k) /\ val[n] < val[m] /\ val[m] < End(n)
<1>. PICK v : v = val
  OBVIOUS
<1>1. size \in 1 .. MaxNodes /\ OneTree(tree, size) /\ Numbers(v, tree, size) /\ Nodes = 1 .. size
  BY AuditFacts
<1>2. m \in Nodes /\ n \in tree.above[m] /\ type[m] = k
  BY DEF NodesBelow
<1>3. v[n] < v[m]
  BY <1>1, <1>2, NumbersOrder
<1>4. v[m] < End(n)
  BY <1>1, <1>2 DEF Follows, Under
<1>. QED  BY <1>2, <1>3, <1>4 DEF Members

\* On a tree indexed as it is, a query answers with every descendant that has the type, each
\* once, in document order (get_descendants_by_type, the descents of get_bound_node and the
\* bounds and successors that generate_index has computed).
THEOREM GeneratedQueriesComplete == ASSUME Audit PROVE Spec => []GeneratedQueryCorrect
<1>1. BInv => GeneratedQueryCorrect
  <2>. SUFFICES ASSUME BInv, Generated, NEW n \in Nodes, NEW k \in Types, NEW answer,
                       answer = Descendants(n, k), NEW found, found = Enumerated(answer, k)
                PROVE  Lists(found, {m \in NodesBelow(n) : type[m] = k})
    BY DEF GeneratedQueryCorrect, QueryCorrect
  <2>0. AInv
    BY DEF BInv
  <2>1. CASE tree.children[n] = <<>>
    <3>1. answer.first = NULL
      BY <2>1 DEF Descendants
    <3>2. found = <<>>
      BY <3>1 DEF Enumerated
    <3>3. NodesBelow(n) = {}
      BY <2>0, <2>1, LeafBelow
    <3>. QED  BY <3>2, <3>3 DEF Lists, ToSet, InDocumentOrder
  <2>2. CASE tree.children[n] # <<>>
    <3>. PICK b, post, end : /\ b = Refresh(tree, idx, {n})
                             /\ post = PostorderSuccessor(tree, b, suc, size, n)
                             /\ end = post.suc.dfi[n]
      OBVIOUS
    <3>1. AnswerShape(answer, n, k, post)
      <4>1. answer = DescendantsUpTo(n, k, post)
        BY <2>2 DEF Descendants
      <4>. QED  BY <4>1, AnswerIs, Zenon
    <3>2. end = End(n) /\ Follows(val, tree, size, n, End(n))
      BY <2>0, GeneratedEnd
    <3>3. end \in Int
      <4>1. size \in Nat
        BY <2>0, AuditFacts, NodeAssumption
      <4>. QED  BY <3>2, <4>1 DEF Follows
    <3>4. Spanned(answer, Members(k), val, n, end)
      BY <2>0, <3>1, <3>3, AnswerSpanned
    <3>5. Covering(answer, Members(k), val, n, end)
      <4>1. \A m \in Members(k) : val[n] < val[m] /\ val[m] < end => ~Outside(n, k, end)
        BY <2>0, <3>3, GeneratedInside
      <4>. QED  BY <2>0, <3>1, <3>3, <4>1, AnswerCovers
    <3>6. /\ ToSet(found) \subseteq {m \in NodesBelow(n) : type[m] = k}
          /\ InDocumentOrder(found)
      <4>1. end <= End(n)
        BY <3>2, <3>3
      <4>. QED  BY <2>0, <3>2, <3>3, <3>4, <4>1, SpannedSound
    <3>7. ASSUME NEW m \in {y \in NodesBelow(n) : type[y] = k}
          PROVE  m \in ToSet(found)
      <4>1. m \in Members(k) /\ val[n] < val[m] /\ val[m] < end
        BY <2>0, <3>2, BelowInside
      <4>. QED  BY <2>0, <3>5, <4>1, CoveredEnumerated
    <3>. QED  BY <3>6, <3>7 DEF Lists
  <2>. QED  BY <2>1, <2>2
<1>. QED  BY <1>1, BoundsHold, PTL

-----------------------------------------------------------------------------
(* The next node of a table *)

LEMMA FollowingIs ==
  ASSUME NEW t, NEW M, Sound(t, M), NEW n
  PROVE  \E f, g : /\ Leftward(f, t) /\ Upward(g, t)
                   /\ Following(t, n) = IF t.link[n][1] # NULL THEN f[t.link[n][1]] ELSE g[n]
<1>1. PICK f : f = CHOOSE x : Leftward(x, t)
  OBVIOUS
<1>2. PICK g : g = CHOOSE x : Upward(x, t)
  OBVIOUS
<1>3. Leftward(f, t)
  BY <1>1, LeftwardExists
<1>4. Upward(g, t)
  BY <1>2, UpwardExists
<1>5. Following(t, n) = IF t.link[n][1] # NULL THEN f[t.link[n][1]] ELSE g[n]
  <2>1. Following(t, n) = IF t.link[n][1] # NULL THEN (CHOOSE x : Leftward(x, t))[t.link[n][1]]
                          ELSE (CHOOSE x : Upward(x, t))[n]
    BY DEF Following, Leftward, Upward
  <2>. QED  BY <1>1, <1>2, <2>1
<1>. QED  BY <1>3, <1>4, <1>5

\* Where next() goes along the links of a table is the member with the next key.
LEMMA FollowingNext ==
  ASSUME NEW t, NEW M, Sound(t, M), NEW rank, Sorted(t, M, rank), NEW n \in M, NEW y,
         y = Following(t, n)
  PROVE  NextOf(y, M, rank, n)
<1>1. PICK f, g : /\ Leftward(f, t) /\ Upward(g, t)
                  /\ y = IF t.link[n][1] # NULL THEN f[t.link[n][1]] ELSE g[n]
  BY FollowingIs
<1>2. PICK span : Ordered(t, M, rank, span)
  BY DEF Sorted
<1>3. TableType(t) /\ Linked(t, M) /\ M \subseteq Node /\ NULL \notin Node
  BY NullAssumption DEF Sound, Linked
<1>4. \A c \in M : /\ rank[c] \in span[c] /\ span[c] \subseteq Int /\ rank[c] \in Int
                   /\ Convex(span[c])
  <2>1. \A c \in M : Convex(span[c])
    BY <1>2, SpanConvex
  <2>. QED  BY <1>2, <1>3, <2>1 DEF Ordered
<1>5. ASSUME NEW m \in M, rank[n] < rank[m], rank[m] \in span[n]
      PROVE  t.link[n][1] \in M /\ rank[m] \in span[t.link[n][1]]
  <2>1. rank[m] \in Part(span[n], rank[n], 1)
    BY <1>4, <1>5 DEF Part
  <2>. QED  BY <1>2, <2>1, FurtherDown DEF Sides
<1>6. CASE t.link[n][1] # NULL
  <2>. PICK c : c = t.link[n][1]
    OBVIOUS
  <2>1. c \in M /\ span[c] = Part(span[n], rank[n], 1)
    BY <1>2, <1>3, <1>6 DEF Linked, Ordered, Sides
  <2>2. FirstIn(y, M, rank, span[c])
    BY <1>1, <1>2, <1>6, <2>1, LeftwardFirst
  <2>3. y \in M /\ rank[y] \in span[n] /\ rank[n] < rank[y] /\ y # NULL
    BY <1>3, <2>1, <2>2 DEF FirstIn, Part
  <2>4. ASSUME NEW m \in M, rank[n] < rank[m]
        PROVE  rank[y] <= rank[m]
    <3>1. CASE rank[m] \in span[n]
      <4>1. rank[m] \in span[c]
        BY <1>5, <2>4, <3>1
      <4>. QED  BY <2>2, <4>1 DEF FirstIn
    <3>2. CASE rank[m] \notin span[n]
      <4>1. rank[m] \in Int /\ rank[n] \in span[n] /\ Convex(span[n])
        BY <1>4
      <4>2. ~(rank[m] < rank[y])
        BY <2>3, <2>4, <3>2, <4>1 DEF Convex
      <4>3. rank[y] \in Int
        BY <1>4, <2>3
      <4>. QED  BY <4>1, <4>2, <4>3
    <3>. QED  BY <3>1, <3>2
  <2>. QED  BY <2>3, <2>4 DEF NextOf
<1>7. CASE t.link[n][1] = NULL
  <2>1. y = g[n] /\ EndsAt(y, M, rank, rank[n], span[n])
    BY <1>1, <1>2, <1>7, UpwardEnds
  <2>2. \A m \in M : rank[n] < rank[m] => rank[m] \notin span[n]
    BY <1>3, <1>5, <1>7
  <2>3. CASE y = NULL
    <3>1. \A m \in M : rank[m] <= rank[n]
      BY <1>4, <2>1, <2>2, <2>3 DEF EndsAt
    <3>. QED  BY <2>3, <3>1 DEF NextOf
  <2>4. CASE y # NULL
    <3>1. y \in M /\ rank[n] < rank[y]
      BY <1>4, <2>1, <2>4 DEF EndsAt
    <3>2. ASSUME NEW m \in M, rank[n] < rank[m]
          PROVE  rank[y] <= rank[m]
      <4>1. rank[m] \in Int /\ rank[y] \in Int /\ rank[m] \notin span[n]
        BY <1>4, <2>2, <3>1, <3>2
      <4>2. ~(rank[m] < rank[y])
        BY <2>1, <2>4, <3>2, <4>1 DEF EndsAt
      <4>. QED  BY <4>1, <4>2
    <3>. QED  BY <2>4, <3>1, <3>2 DEF NextOf
  <2>. QED  BY <2>3, <2>4
<1>. QED  BY <1>6, <1>7

-----------------------------------------------------------------------------
(* Steps of a filter while a client iterates *)

\* dfi() of any nodes keeps the invariant of the audit, and its answers.
LEMMA ReadKeepsAudit ==
  ASSUME AInv, NEW S, Read(S)
  PROVE  /\ AInv' /\ UNCHANGED <<tree, size, type, type_tables>>
         /\ val' = val /\ idx'.latest_mod = idx.latest_mod
<1>1. IInv' /\ UNCHANGED <<tree, size, tbl, suc, fault, type, ty, type_tables>>
      /\ idx' = Refresh(tree, idx, S) /\ unread' = unread \ Touched(tree, idx, S)
  BY RefreshSound DEF Read, ReadDfi, AInv, TInv
<1>2. TInv'
  BY <1>1 DEF AInv, TInv, TypesTyped, TypeModsFresh, TypeAncestors, Nodes
<1>3. Asks(S)
  BY <1>1 DEF Asks, AInv, Exact
<1>4. AInv'
  BY <1>2, <1>3, AuditAsks
<1>5. DfiValues(tree, Refresh(tree, idx, S)) = DfiValues(tree, idx)
  BY AuditFacts, RefreshValues
<1>6. Refresh(tree, idx, S).latest_mod = idx.latest_mod
  BY RefreshMods
<1>. QED  BY <1>1, <1>4, <1>5, <1>6 DEF val

\* The step of the filter that makes a result.
LEMMA QueryKeeps ==
  ASSUME Audit, AInv, NEW n \in Nodes, NEW k \in Types, Query(n, k)
  PROVE  /\ AInv' /\ UNCHANGED <<tree, size, type, type_tables>>
         /\ val' = val /\ idx'.latest_mod = idx.latest_mod
<1>1. [Next]_vars
  BY DEF Next
<1>2. UNCHANGED <<tree, size, type, type_tables>> /\ \E S : idx' = Refresh(tree, idx, S)
  BY DEF Query
<1>3. AInv' /\ TInv
  BY <1>1, AuditNext DEF AInv
<1>4. val' = val
  BY <1>1, <1>2, <1>3, StepTransparent
<1>5. idx'.latest_mod = idx.latest_mod
  <2>1. PICK S : idx' = Refresh(tree, idx, S)
    BY <1>2
  <2>. QED  BY <2>1, RefreshMods
<1>. QED  BY <1>2, <1>3, <1>4, <1>5

\* A new node of type k gets the number after all others, unless nodes are renumbered, of
\* which latest_mod tells.
Enters(k) ==
  \/ UNCHANGED <<tree, size, idx, type>>
  \/ /\ size' = size + 1 /\ size < MaxNodes /\ type' = [type EXCEPT ![size + 1] = k]
     /\ \E r \in Int : /\ MovedUp(val', val, size, size + 1, r)
                       /\ idx'.latest_mod = IF r = size THEN idx.latest_mod ELSE idx.latest_mod + 1

LEMMA CreatedMod ==
  ASSUME NEW p, NEW plan, NEW early
  PROVE  Created(p, plan, early).latest_mod
           = IF plan.displaced = NULL THEN idx.latest_mod ELSE idx.latest_mod + 1
<1>0. PICK c, reads, seen :
       /\ c = Renewed(plan, early) /\ seen = Refresh(tree, idx, reads)
       /\ c = IF plan.displaced # NULL THEN Propagate(tree, seen, plan.displaced) ELSE seen
  BY DEF Renewed
<1>1. PICK cached : Created(p, plan, early)
                      = WithNew(c, plan.node, plan.index, idx.latest_mod, cached)
  BY <1>0 DEF Created, Renewed, WithNew
<1>2. seen.latest_mod = idx.latest_mod /\ IsIndex(seen)
  BY <1>0 DEF Refresh, IsIndex
<1>3. c.latest_mod = (IF plan.displaced = NULL THEN idx.latest_mod ELSE idx.latest_mod + 1)
      /\ IsIndex(c)
  <2>. PICK d, q : d = plan.displaced /\ q = Propagate(tree, seen, d)
    OBVIOUS
  <2>1. q.latest_mod = seen.latest_mod + 1 /\ IsIndex(q)
    BY DEF Propagate, IsIndex
  <2>2. CASE d = NULL
    BY <1>0, <1>2, <2>2
  <2>3. CASE d # NULL
    BY <1>0, <1>2, <2>1, <2>3
  <2>. QED  BY <2>2, <2>3
<1>4. WithNew(c, plan.node, plan.index, idx.latest_mod, cached).latest_mod = c.latest_mod
  BY <1>3 DEF WithNew, IsIndex
<1>. QED  BY <1>1, <1>3, <1>4

LEMMA InsertEnters ==
  ASSUME Audit, AInv, NEW p \in Nodes, NEW pos, NEW k \in Types, Insert(p, pos, k)
  PROVE  Enters(k)
<1>1. PICK early, w : ValuesAfter(w, p, pos, early) /\ Inserts(p, pos, k, early, w)
  BY InsertParts
<1>2. PICK late, failed : failed \in SUBSET {150} /\ InsertNode(p, pos, early, late, failed)
  BY <1>1 DEF Inserts
<1>3. CanInsert(p, pos) /\ size < MaxNodes /\ unread = {} /\ fault = 0
      /\ pos \in 0 .. Len(tree.children[p])
  BY DEF Insert, CanInsert
<1>4. IInv /\ TreeSound /\ Exact(tree, size, idx, suc, tbl) /\ size \in 1 .. MaxNodes
      /\ TreeShape(tree) /\ Ancestry(tree, size) /\ IndexTyped(idx)
  BY DEF AInv, TInv, IInv, TreeSound, Exact
<1>5. PICK v : v = DfiValues(tree, idx)
  OBVIOUS
<1>6. UpToDate(tree, size, idx, v)
  BY <1>3, <1>4, <1>5, SeenUpToDate DEF AInv
<1>7. PICK plan, n, r, b, reads :
        /\ plan = Plan(p, pos) /\ b = Created(p, plan, early) /\ n \in reads
        /\ InsertedBy(plan, n, r, b, reads, v, w, p, pos)
  BY <1>1, <1>2, <1>3, <1>4, <1>5, <1>6, InsertNodeBy
<1>8. PlanSound(plan, v, p, pos, r) /\ GrownExact(v, w, p, pos, n, b, plan, r)
  BY <1>7 DEF InsertedBy
<1>9. CASE fault' = 150 /\ UNCHANGED <<tree, size, idx, suc, tbl>>
  BY <1>1, <1>9 DEF Inserts, Enters
<1>10. CASE /\ fault' = fault /\ size' = n
            /\ tree' = Grown(tree, n, p, pos)
            /\ idx' = Refresh(plan.tree, b, reads)
            /\ suc' = NewCaches(plan, w, n)
            /\ tbl' = Probe(tbl, w, n)
  <2>1. Follow(Grown(tree, n, p, pos), Refresh(plan.tree, b, reads), NewCaches(plan, w, n),
               Probe(tbl, w, n), v, w, r, n)
    BY <1>3, <1>4, <1>5, <1>8, FollowsInsertion
  <2>2. DfiValues(Grown(tree, n, p, pos), Refresh(plan.tree, b, reads)) = w
    BY <2>1 DEF Follow
  <2>3. val' = w /\ val = v
    BY <1>5, <1>10, <2>2 DEF val
  <2>4. n = size + 1 /\ MovedUp(w, v, size, n, r)
    BY <1>8 DEF GrownExact
  <2>5. r \in Int /\ plan.displaced \in Nodes \cup {NULL}
        /\ (plan.displaced # NULL => v[plan.displaced] = r)
        /\ (plan.displaced = NULL => r = size)
    <3>1. r \in 0 .. size
      BY <1>8 DEF PlanSound, Planned
    <3>. QED  BY <1>4, <1>8, <3>1 DEF PlanSound, Planned
  <2>6. r = size <=> plan.displaced = NULL
    <3>1. \A m \in Nodes : v[m] \in 0 .. size - 1
      BY AuditFacts, NumbersOrder, <2>3
    <3>. QED  BY <1>4, <2>5, <3>1
  <2>7. Refresh(plan.tree, b, reads).latest_mod = b.latest_mod
    BY RefreshMods
  <2>8. idx'.latest_mod = IF r = size THEN idx.latest_mod ELSE idx.latest_mod + 1
    BY <1>7, <1>10, <2>6, <2>7, CreatedMod
  <2>9. type' = [type EXCEPT ![size + 1] = k]
    BY <1>1, <1>3, <1>10 DEF Inserts
  <2>. QED  BY <1>3, <1>10, <2>3, <2>4, <2>5, <2>8, <2>9 DEF Enters
<1>. QED  BY <1>7, <1>9, <1>10 DEF InsertedBy

\* What a query answers with begins and ends a list of all members between.
LEMMA BeginLists ==
  ASSUME AInv, NEW n \in Nodes, NEW k \in Types, NEW answer, answer = Descendants(n, k),
         answer.first # NULL, NEW list, list = Enumerated(answer, k)
  PROVE  /\ answer.first \in Members(k) /\ answer.last \in Members(k)
         /\ Listed(list, Members(k), val, answer.first, answer.last)
         /\ ListsAll(list, Members(k), val, answer.first, answer.last)
<1>. PICK ord, v, M, f, l :
       /\ ord = InOrder(type_tables[k]) /\ v = val /\ M = Members(k)
       /\ f = answer.first /\ l = answer.last
  OBVIOUS
<1>0. /\ \A m \in Nodes : v[m] \in Int
      /\ M \subseteq Nodes /\ Nodes \subseteq Node /\ NULL \notin Node
  BY AuditFacts, NumbersOrder, NodeAssumption, NullAssumption DEF Members
<1>1. ord \in Seq(Node) /\ ToSet(ord) = M /\ Rising(ord, v, Int)
  <2>1. Sound(type_tables[k], M) /\ Sorted(type_tables[k], M, v)
    BY DEF AInv, TypeTables
  <2>. QED  BY <2>1, InOrderOf DEF InOrderIs
<1>2. f \in M /\ l \in M /\ v[f] <= v[l]
  <2>1. tree.children[n] # <<>>
    BY DEF Descendants
  <2>. PICK b, post : b = Refresh(tree, idx, {n}) /\ post = PostorderSuccessor(tree, b, suc, size, n)
    OBVIOUS
  <2>2. AnswerShape(answer, n, k, post)
    <3>1. answer = DescendantsUpTo(n, k, post)
      BY <2>1 DEF Descendants
    <3>. QED  BY <3>1, AnswerIs, Zenon
  <2>3. post.suc.dfi[n] \in Int
    <3>1. SuccessorsSound(post.suc, tree, size)
      BY SuccessorSound
    <3>. QED  BY <1>0, <3>1 DEF SuccessorsSound
  <2>4. Spanned(answer, M, v, n, post.suc.dfi[n])
    BY <2>2, <2>3, AnswerSpanned
  <2>5. f \in M /\ l \in M
    BY <2>4 DEF Spanned
  <2>6. f = l \/ ~(v[f] > v[l])
    BY <2>2 DEF AnswerShape, AnswerFrom
  <2>. QED  BY <1>0, <2>5, <2>6
<1>3. CASE f = l
  <2>1. list = <<f>>
    BY <1>3 DEF Enumerated
  <2>2. f \in Node /\ v[f] \in Int
    BY <1>0, <1>2
  <2>3. Listed(list, M, v, f, l)
    BY <1>2, <1>3, <2>1, <2>2 DEF Listed, Rising
  <2>4. ListsAll(list, M, v, f, l)
    <3>. SUFFICES ASSUME NEW m \in M, v[f] <= v[m], v[m] <= v[l]
                  PROVE  \E i \in 1 .. Len(list) : list[i] = m
      BY DEF ListsAll
    <3>1. v[m] = v[f] /\ m \in Nodes /\ f \in Nodes
      BY <1>0, <1>2, <1>3
    <3>2. m = f
      BY <3>1, AuditFacts, NumbersTell
    <3>. QED  BY <2>1, <3>2
  <2>. QED  BY <1>2, <2>3, <2>4
<1>4. CASE f # l
  <2>1. RunOf(list, ord, v, f, l)
    BY <1>4, EnumeratedRun, Zenon
  <2>2. PICK lo, hi : /\ Slice(list, ord, lo, hi) /\ ord[lo] = f
                      /\ \A i \in lo .. hi : ~(v[ord[i]] > v[l])
    BY <1>1, <1>2, <2>1, EnumerationRuns DEF Runs
  <2>3. /\ \A y \in ToSet(list) : \E i \in lo .. hi : i \in 1 .. Len(ord) /\ y = ord[i]
        /\ Rising(list, v, Int)
    BY <1>1, <2>2, SliceInOrder
  <2>4. list \in Seq(Node) /\ Len(list) \in Nat
    BY <1>1, <2>2 DEF Slice
  <2>5. \A m \in M : v[f] <= v[m] /\ v[m] <= v[l] => m \in ToSet(list)
    BY <1>0, <1>1, <1>2, <2>1, RunReaches
  <2>6. ListsAll(list, M, v, f, l)
    BY <2>4, <2>5 DEF ListsAll, ToSet
  <2>7. Len(list) # 0
    <3>1. f \in ToSet(list)
      BY <1>0, <1>2, <2>5
    <3>. QED  BY <2>4, <3>1 DEF ToSet
  <2>8. list[1] = f
    BY <1>1, <2>2, <2>4, <2>7 DEF Slice
  <2>9. ASSUME NEW i \in 1 .. Len(list)
        PROVE  list[i] \in M /\ v[list[i]] <= v[l]
    <3>1. list[i] \in ToSet(list)
      BY <2>4 DEF ToSet
    <3>2. PICK j \in lo .. hi : j \in 1 .. Len(ord) /\ list[i] = ord[j]
      BY <2>3, <3>1
    <3>3. list[i] \in M
      BY <1>1, <3>2 DEF ToSet
    <3>4. ~(v[list[i]] > v[l])
      BY <2>2, <3>2
    <3>. QED  BY <1>0, <1>2, <3>3, <3>4
  <2>10. Listed(list, M, v, f, l)
    BY <2>3, <2>4, <2>7, <2>8, <2>9 DEF Listed
  <2>. QED  BY <1>2, <2>6, <2>10
<1>. QED  BY <1>3, <1>4

-----------------------------------------------------------------------------
(* The invariant of an iteration *)

IsCursor(c) ==
  c = [first |-> c.first, last |-> c.last, node |-> c.node, type |-> c.type,
       base_mod |-> c.base_mod, type_mod |-> c.type_mod]

\* The result c promises a list, of which some nodes have been given.  While the index has not
\* been renumbered since the query, the list has all members between its ends.
Iterating(c, some, list, M, v, mod) ==
  IF c.first = NULL THEN c.node = NULL /\ some = <<>> /\ list = <<>>
  ELSE /\ c.first \in M /\ c.last \in M /\ c.node \in M \cup {NULL}
       /\ Listed(list, M, v, c.first, c.last)
       /\ Reached(some, list, v, c.node, c.last)
       /\ c.base_mod \in 0 .. mod
       /\ c.base_mod = mod => ListsAll(list, M, v, c.first, c.last)

WInv ==
  /\ IsCursor(cursor)
  /\ cursor.first # NULL => cursor.type \in Types
  /\ idx.latest_mod \in Nat
  /\ Iterating(cursor, given, promised, Members(cursor.type), val, idx.latest_mod)

\* The assertion of next() is the only one that stops a client with an index that is right.
RInv == (fault # 789 => AInv) /\ WInv /\ SizeExact

LEMMA WalkExact == WInv => IterationExact
<1>. SUFFICES ASSUME WInv  PROVE IterationExact
  OBVIOUS
<1>1. Iterating(cursor, given, promised, Members(cursor.type), val, idx.latest_mod)
  BY DEF WInv
<1>2. CASE cursor.first = NULL
  <2>1. given = <<>> /\ promised = <<>>
    BY <1>1, <1>2 DEF Iterating
  <2>2. <<>> = SubSeq(<<>>, 1, Len(<<>>))
    OBVIOUS
  <2>. QED  BY <2>1, <2>2 DEF IterationExact
<1>3. CASE cursor.first # NULL
  <2>1. Reached(given, promised, val, cursor.node, cursor.last)
    BY <1>1, <1>3 DEF Iterating
  <2>. QED  BY <2>1 DEF Reached, IterationExact, HasNext
<1>. QED  BY <1>2, <1>3

\* The numbers size() subtracts are those type_dfi() returns.
LEMMA SizeNumbers ==
  ASSUME AInv, NEW f \in Nodes, NEW l \in Nodes
  PROVE  /\ CalledType(ty, l).type_base_index[l] = TypeNumber(l)
         /\ CalledType(CalledType(ty, l), f).type_base_index[f] = TypeNumber(f)
<1>1. /\ size \in 1 .. MaxNodes /\ f \in 1 .. size /\ TreeShape(tree) /\ Ancestry(tree, size)
      /\ TypesTyped(type, ty, size) /\ TypesFresh(tree, type, ty, size) /\ TreeSound /\ TInv
  BY TInvFresh DEF AInv, TInv, IInv, TreeSound, Nodes
<1>. PICK q : q = CalledType(ty, l)
  OBVIOUS
<1>2. CaughtUp(ty, ty)
  BY <1>1, CaughtUpItself
<1>3. CaughtUp(ty, q)
  BY <1>1, <1>2, CalledCatchesUp
<1>4. TypesTyped(type, q, size) /\ TypeValues(tree, type, q) = TypeValues(tree, type, ty)
  BY <1>3 DEF CaughtUp
<1>5. CallTypeDfi(tree, type, q, Count(type[f]), f).type_base_index[f] = TypeValues(tree, type, q)[f]
  BY <1>1, <1>4, CallAnswers
<1>6. TypeNumber(f) = TypeValues(tree, type, ty)[f]
  BY <1>1, TypeNumberDef
<1>. QED  BY <1>4, <1>5, <1>6 DEF CalledType, TypeNumber

LEMMA GeneratedRank ==
  ASSUME AInv, Generated, NEW k, NEW n \in Members(k)
  PROVE  TypeNumber(n) = Cardinality({m \in Members(k) : val[m] < val[n]})
<1>1. n \in Nodes /\ type[n] = k
  BY DEF Members
<1>2. TypeNumber(n) = Cardinality({m \in Nodes : type[m] = type[n] /\ Precedes(tree, m, n)})
  BY <1>1, GeneratedTypeDfi DEF TypeDfiCorrect
<1>3. \A m \in Nodes : Precedes(tree, m, n) <=> val[m] < val[n]
  BY <1>1, AuditFacts, NumbersTell
<1>4. {m \in Nodes : type[m] = type[n] /\ Precedes(tree, m, n)}
        = {m \in Members(k) : val[m] < val[n]}
  BY <1>1, <1>3 DEF Members
<1>. QED  BY <1>2, <1>4

LEMMA WalkSize == AInv /\ WInv => SizeExact
<1>. SUFFICES ASSUME AInv, WInv, Generated, cursor.first # NULL
              PROVE  ResultSize = Len(promised)
  BY DEF SizeExact
<1>. PICK M, v, f, l, k :
       /\ M = Members(k) /\ v = val /\ f = cursor.first /\ l = cursor.last /\ k = cursor.type
  OBVIOUS
<1>1. idx.latest_mod = 0
  BY DEF Generated, FreshIndex
<1>2. f \in M /\ l \in M /\ Listed(promised, M, v, f, l) /\ ListsAll(promised, M, v, f, l)
  <2>1. Iterating(cursor, given, promised, M, v, 0)
    BY <1>1 DEF WInv
  <2>2. cursor.base_mod \in 0 .. 0
    BY <2>1 DEF Iterating
  <2>3. cursor.base_mod = 0
    BY <2>2
  <2>. QED  BY <2>1, <2>3 DEF Iterating
<1>3. /\ IntOn(v, M) /\ M \subseteq Nodes /\ M \subseteq Node /\ Nodes = 1 .. size /\ size \in Nat
      /\ \A m, n \in M : v[m] = v[n] => m = n
  <2>1. M \subseteq Nodes /\ Nodes = 1 .. size /\ size \in 1 .. MaxNodes
    BY AuditFacts DEF Members
  <2>2. IntOn(v, M)
    BY <2>1, AuditFacts, NumbersOrder DEF IntOn
  <2>3. \A m, n \in M : v[m] = v[n] => m = n
    BY <2>1, AuditFacts, NumbersTell
  <2>. QED  BY <2>1, <2>2, <2>3, NodeAssumption
<1>4. Cardinality({m \in M : v[f] <= v[m] /\ v[m] <= v[l]}) = Len(promised)
  BY <1>2, <1>3, ListCounts
<1>5. CASE f = l
  <2>1. {m \in M : v[f] <= v[m] /\ v[m] <= v[l]} = {f}
    BY <1>2, <1>3, <1>5 DEF IntOn
  <2>2. Cardinality({f}) = 1
    BY FS_Singleton
  <2>. QED  BY <1>4, <1>5, <2>1, <2>2 DEF ResultSize
<1>6. CASE f # l
  <2>1. ResultSize = (TypeNumber(l) - TypeNumber(f)) + 1
    <3>1. f \in Nodes /\ l \in Nodes
      BY <1>2, <1>3
    <3>2. ResultSize = CalledType(ty, l).type_base_index[l]
                         - CalledType(CalledType(ty, l), f).type_base_index[f] + 1
      BY <1>6 DEF ResultSize
    <3>. QED  BY <3>1, <3>2, SizeNumbers
  <2>2. /\ TypeNumber(l) = Cardinality({m \in M : v[m] < v[l]})
        /\ TypeNumber(f) = Cardinality({m \in M : v[m] < v[f]})
    BY <1>2, GeneratedRank
  <2>3. IsFiniteSet(M)
    <3>1. IsFiniteSet(1 .. size)
      BY <1>3, FS_Interval
    <3>. QED  BY <1>3, <3>1, FS_Subset
  <2>4. v[f] <= v[l]
    BY <1>2 DEF Listed
  <2>5. (Cardinality({m \in M : v[m] < v[l]}) - Cardinality({m \in M : v[m] < v[f]})) + 1
          = Cardinality({m \in M : v[f] <= v[m] /\ v[m] <= v[l]})
    <3>1. RanksTell(M, v, f, l)
      BY <1>2, <1>3, <2>3, <2>4, RanksCount
    <3>. QED  BY <3>1 DEF RanksTell
  <2>. QED  BY <1>4, <2>1, <2>2, <2>5
<1>. QED  BY <1>5, <1>6

LEMMA BeginKeeps ==
  ASSUME Audit, AInv, WInv, NEW n \in Nodes, NEW k \in Types, Begin(n, k)
  PROVE  AInv' /\ WInv'
<1>1. /\ AInv' /\ UNCHANGED <<tree, size, type, type_tables>> /\ val' = val
      /\ idx'.latest_mod = idx.latest_mod /\ idx.latest_mod \in Nat
  BY QueryKeeps DEF Begin, WInv
<1>. PICK answer, list : answer = Descendants(n, k) /\ list = Enumerated(answer, k)
  OBVIOUS
<1>2. /\ cursor' = IF answer.first = NULL THEN NoResult
                   ELSE [first |-> answer.first, last |-> answer.last, node |-> answer.first,
                         type |-> k, base_mod |-> idx.latest_mod,
                         type_mod |-> ty.latest_type_mods[k]]
      /\ given' = <<>> /\ promised' = list
  BY DEF Begin
<1>3. \A x : Members(x)' = Members(x)
  BY <1>1 DEF Members, Nodes
<1>4. CASE answer.first = NULL
  <2>1. list = <<>>
    BY <1>4 DEF Enumerated
  <2>2. cursor' = NoResult
    BY <1>2, <1>4
  <2>. QED  BY <1>1, <1>2, <2>1, <2>2 DEF WInv, Iterating, IsCursor, NoResult
<1>5. CASE answer.first # NULL
  <2>. PICK f, l, M, mod : /\ f = answer.first /\ l = answer.last /\ M = Members(k)
                           /\ mod = idx.latest_mod
    OBVIOUS
  <2>1. f \in M /\ l \in M /\ Listed(list, M, val, f, l) /\ ListsAll(list, M, val, f, l)
    BY <1>5, BeginLists
  <2>2. /\ cursor'.first = f /\ cursor'.last = l /\ cursor'.node = f /\ cursor'.type = k
        /\ cursor'.base_mod = mod /\ IsCursor(cursor')
    BY <1>2, <1>5 DEF IsCursor
  <2>3. Reached(<<>>, list, val, f, l)
    <3>1. list \in Seq(Node) /\ Len(list) \in Nat \ {0} /\ list[1] = f /\ val[list[1]] <= val[l]
      BY <2>1 DEF Listed
    <3>2. Len(<<>>) = 0 /\ SubSeq(list, 1, 0) = <<>>
      BY <3>1
    <3>3. f # NULL
      BY <1>5
    <3>. QED  BY <3>1, <3>2, <3>3 DEF Reached
  <2>4. mod \in 0 .. mod
    BY <1>1
  <2>5. Iterating(cursor', <<>>, list, M, val, mod)
    BY <1>5, <2>1, <2>2, <2>3, <2>4 DEF Iterating
  <2>6. Members(cursor.type)' = M
    BY <1>3, <2>2
  <2>. QED  BY <1>1, <1>2, <2>2, <2>5, <2>6 DEF WInv
<1>. QED  BY <1>4, <1>5

\* next() aborts, or gives the node at the cursor and goes on to the next.
LEMMA AdvanceKeeps ==
  ASSUME AInv, WInv, Advance
  PROVE  \/ AInv' /\ WInv'
         \/ fault' = 789 /\ UNCHANGED <<tree, size, idx, suc, tbl, type, ty, type_tables, resultVars>>
<1>. PICK M, v, f, l, k, node, table, y :
       /\ M = Members(k) /\ v = val /\ f = cursor.first /\ l = cursor.last /\ k = cursor.type
       /\ node = cursor.node /\ table = type_tables[k]
       /\ y = IF f = l THEN NULL ELSE Following(table, node)
  OBVIOUS
<1>1. node # NULL /\ v[node] <= v[l]
  BY DEF Advance, HasNext
<1>2. /\ IsCursor(cursor) /\ idx.latest_mod \in Nat
      /\ Iterating(cursor, given, promised, M, v, idx.latest_mod)
      /\ (f # NULL => k \in Types)
  BY DEF WInv
<1>3. f # NULL
  BY <1>1, <1>2 DEF Iterating
<1>4. /\ f \in M /\ l \in M /\ node \in M /\ Listed(promised, M, v, f, l) /\ k \in Types
      /\ Reached(given, promised, v, node, l) /\ cursor.base_mod \in 0 .. idx.latest_mod
      /\ cursor.base_mod = idx.latest_mod => ListsAll(promised, M, v, f, l)
  BY <1>1, <1>2, <1>3 DEF Iterating
<1>5. CASE ~Current
  BY <1>5 DEF Advance
<1>6. CASE Current
  <2>1. Read({node, l}) /\ promised' = promised
        /\ given' = (IF Len(given) > MaxNodes THEN given ELSE Append(given, node))
        /\ cursor' = [cursor EXCEPT !.node = y]
    BY <1>6 DEF Advance
  <2>2. /\ AInv' /\ UNCHANGED <<tree, size, type, type_tables>> /\ val' = val
        /\ idx'.latest_mod = idx.latest_mod
    BY <2>1, ReadKeepsAudit
  <2>3. ~(Len(given) > MaxNodes)
    <3>1. promised \in Seq(Node) /\ Rising(promised, v, Int)
      BY <1>4 DEF Listed
    <3>2. Len(promised) <= MaxNodes
      BY <3>1, ListShort
    <3>3. Len(given) \in 0 .. Len(promised) /\ Len(promised) \in Nat /\ MaxNodes \in Nat
      BY <1>4, <3>1, NodeAssumption DEF Reached
    <3>. QED  BY <3>2, <3>3
  <2>4. /\ IntOn(v, M) /\ NULL \notin M
    <3>1. M \subseteq Nodes /\ Nodes \subseteq Node
      BY AuditFacts, NodeAssumption DEF Members
    <3>. QED  BY <3>1, AuditFacts, NumbersOrder, NullAssumption DEF IntOn
  <2>5. ListsAll(promised, M, v, f, l)
    BY <1>4, <1>6 DEF Current
  <2>6. Sound(table, M) /\ Sorted(table, M, v)
    BY <1>4 DEF AInv, TypeTables
  <2>7. y \in M \cup {NULL} /\ Reached(Append(given, node), promised, v, y, l)
    <3>1. CASE f = l
      BY <1>1, <1>4, <2>4, <3>1, OnlyReached
    <3>2. CASE f # l
      <4>1. y = Following(table, node)
        BY <3>2
      <4>2. NextOf(y, M, v, node)
        BY <1>4, <2>6, <4>1, FollowingNext
      <4>3. y \in M \cup {NULL}
        BY <4>2 DEF NextOf
      <4>. QED  BY <1>1, <1>4, <2>4, <2>5, <4>2, <4>3, NextReached
    <3>. QED  BY <3>1, <3>2
  <2>8. /\ cursor'.first = f /\ cursor'.last = l /\ cursor'.node = y /\ cursor'.type = k
        /\ cursor'.base_mod = cursor.base_mod /\ IsCursor(cursor')
    BY <1>2, <2>1 DEF IsCursor
  <2>9. Iterating(cursor', Append(given, node), promised, M, v, idx.latest_mod)
    BY <1>3, <1>4, <2>7, <2>8 DEF Iterating
  <2>10. Members(cursor.type)' = M
    BY <2>2, <2>8 DEF Members, Nodes
  <2>. QED  BY <1>2, <1>4, <2>1, <2>2, <2>3, <2>8, <2>9, <2>10 DEF WInv
<1>. QED  BY <1>5, <1>6

\* An insertion adds to the members between the ends of a list only when it renumbers nodes.
LEMMA EnterKeeps ==
  ASSUME AInv, WInv, NEW x \in Types, Enters(x), UNCHANGED resultVars
  PROVE  WInv'
<1>. PICK M, v, f, l, k, c, mod :
       /\ M = Members(k) /\ v = val /\ f = cursor.first /\ l = cursor.last /\ k = cursor.type
       /\ c = cursor /\ mod = idx.latest_mod
  OBVIOUS
<1>1. cursor' = c /\ given' = given /\ promised' = promised
  BY DEF resultVars
<1>2. /\ IsCursor(c) /\ mod \in Nat /\ Iterating(c, given, promised, M, v, mod)
      /\ (f # NULL => k \in Types)
  BY DEF WInv
<1>3. CASE UNCHANGED <<tree, size, idx, type>>
  <2>1. val' = val /\ Members(k)' = Members(k)
    BY <1>3 DEF val, Members, Nodes
  <2>. QED  BY <1>1, <1>2, <1>3, <2>1 DEF WInv
<1>4. CASE /\ size' = size + 1 /\ size < MaxNodes /\ type' = [type EXCEPT ![size + 1] = x]
           /\ \E r \in Int : /\ MovedUp(val', val, size, size + 1, r)
                             /\ idx'.latest_mod = IF r = size THEN idx.latest_mod
                                                  ELSE idx.latest_mod + 1
  <2>. PICK w, N, new : w = val' /\ N = Members(k)' /\ new = idx'.latest_mod
    OBVIOUS
  <2>1. PICK r \in Int : MovedUp(w, v, size, size + 1, r) /\ new = IF r = size THEN mod ELSE mod + 1
    BY <1>4
  <2>2. /\ size \in Nat /\ IntOn(v, 1 .. size) /\ Nodes = 1 .. size
        /\ \A y \in 1 .. size : v[y] < size
    <3>1. size \in 1 .. MaxNodes /\ Nodes = 1 .. size
          /\ \A y \in 1 .. size : v[y] \in Int /\ v[y] \in 0 .. size - 1
      BY AuditFacts, NumbersOrder
    <3>. QED  BY <3>1, NodeAssumption DEF IntOn
  <2>3. M \subseteq 1 .. size /\ M \subseteq N /\ N \subseteq M \cup {size + 1}
    <3>1. type \in [Node -> Types \cup {NULL}] /\ size + 1 \in Node /\ 1 .. size \subseteq Node
      BY <1>4, <2>2, NodeAssumption DEF AInv, TInv
    <3>2. Nodes' = 1 .. size + 1
      BY <1>4 DEF Nodes
    <3>3. N = {n \in 1 .. size + 1 : [type EXCEPT ![size + 1] = x][n] = k}
      BY <1>4, <3>2 DEF Members
    <3>4. M = {n \in 1 .. size : type[n] = k}
      BY <2>2 DEF Members
    <3>. QED  BY <2>2, <3>1, <3>3, <3>4
  <2>4. new \in Nat /\ mod <= new
    BY <1>2, <2>1
  <2>6. Iterating(c, given, promised, N, w, new)
    <3>1. CASE f = NULL
      BY <1>2, <3>1 DEF Iterating
    <3>2. CASE f # NULL
      <4>1. /\ f \in M /\ l \in M /\ c.node \in M \cup {NULL} /\ Listed(promised, M, v, f, l)
            /\ Reached(given, promised, v, c.node, l) /\ c.base_mod \in 0 .. mod
            /\ c.base_mod = mod => ListsAll(promised, M, v, f, l)
        BY <1>2, <3>2 DEF Iterating
      <4>2. Listed(promised, N, w, f, l)
        BY <2>1, <2>2, <2>3, <4>1, ListedKept
      <4>3. Reached(given, promised, w, c.node, l)
        <5>1. c.node \in 1 .. size \cup {NULL} /\ l \in 1 .. size
          BY <2>3, <4>1
        <5>. QED  BY <2>1, <2>2, <4>1, <5>1, ReachedKept
      <4>4. c.base_mod \in 0 .. new
        BY <1>2, <2>4, <4>1
      <4>5. c.base_mod = new => ListsAll(promised, N, w, f, l)
        <5>. SUFFICES ASSUME c.base_mod = new  PROVE ListsAll(promised, N, w, f, l)
          OBVIOUS
        <5>1. r = size /\ c.base_mod = mod
          BY <1>2, <2>1, <4>1
        <5>2. \A y \in 1 .. size : v[y] < r
          BY <2>2, <5>1
        <5>. QED  BY <2>1, <2>2, <2>3, <4>1, <5>1, <5>2, AllKept
      <4>. QED  BY <2>3, <3>2, <4>1, <4>2, <4>3, <4>4, <4>5 DEF Iterating
    <3>. QED  BY <3>1, <3>2
  <2>. QED  BY <1>1, <1>2, <2>4, <2>6 DEF WInv
<1>. QED  BY <1>3, <1>4 DEF Enters

LEMMA ResultBegins == ResultInit => RInv
<1>. SUFFICES ASSUME ResultInit  PROVE RInv
  OBVIOUS
<1>1. AInv
  BY AuditInit DEF ResultInit
<1>2. idx.latest_mod \in Nat
  BY DEF ResultInit, Init, DfiInit, FreshIndex
<1>3. WInv
  BY <1>2 DEF ResultInit, WInv, NoResult, IsCursor, Iterating
<1>. QED  BY <1>1, <1>3, WalkSize DEF RInv

LEMMA ResultStep == Audit /\ RInv /\ [ResultNext]_allVars => RInv'
<1>. SUFFICES ASSUME Audit, RInv, [ResultNext]_allVars  PROVE RInv'
  OBVIOUS
<1>1. WInv /\ SizeExact /\ (fault # 789 => AInv)
  BY DEF RInv
<1>2. AInv' /\ WInv' => RInv'
  <2>1. AInv' /\ WInv' => SizeExact'
    BY WalkSize, PTL
  <2>. QED  BY <2>1 DEF RInv
<1>3. ASSUME NEW n \in Nodes, NEW k \in Types, Begin(n, k)
      PROVE  RInv'
  <2>1. AInv
    BY <1>1, <1>3 DEF Begin, Query
  <2>. QED  BY <1>1, <1>2, <1>3, <2>1, BeginKeeps
<1>4. CASE Advance
  <2>1. AInv
    BY <1>1, <1>4, SMTT(60) DEF Advance
  <2>2. CASE fault' = 789
             /\ UNCHANGED <<tree, size, idx, suc, tbl, type, ty, type_tables, resultVars>>
    BY <1>1, <2>2 DEF RInv, WInv, SizeExact, Members, Nodes, val, Generated, ResultSize, CalledType,
      Count, resultVars
  <2>. QED  BY <1>1, <1>2, <1>4, <2>1, <2>2, AdvanceKeeps
<1>5. ASSUME NEW p \in Nodes, NEW pos \in 0 .. MaxNodes, NEW k \in Types, Insert(p, pos, k),
             UNCHANGED resultVars
      PROVE  RInv'
  <2>1. AInv
    BY <1>1, <1>5 DEF Insert, CanInsert
  <2>2. [Next]_vars
    BY <1>5 DEF Next
  <2>3. AInv'
    BY <2>1, <2>2, AuditNext
  <2>4. Enters(k)
    BY <1>5, <2>1, InsertEnters
  <2>. QED  BY <1>1, <1>2, <1>5, <2>1, <2>3, <2>4, EnterKeeps
<1>6. CASE Read(Nodes) /\ UNCHANGED resultVars
  <2>1. AInv
    BY <1>1, <1>6 DEF Read, ReadDfi
  <2>2. /\ AInv' /\ UNCHANGED <<tree, size, type, type_tables>> /\ val' = val
        /\ idx'.latest_mod = idx.latest_mod
    BY <1>6, <2>1, ReadKeepsAudit
  <2>3. WInv'
    BY <1>1, <1>6, <2>2 DEF WInv, Members, Nodes, resultVars
  <2>. QED  BY <1>2, <2>2, <2>3
<1>7. CASE UNCHANGED allVars
  <2>1. UNCHANGED vars /\ UNCHANGED resultVars
    BY <1>7 DEF allVars
  <2>2. fault # 789 => AInv'
    BY <1>1, <2>1, AuditNext, SMTT(60)
  <2>3. WInv' /\ SizeExact' /\ fault' = fault
    BY <1>1, <2>1 DEF WInv, SizeExact, Members, Nodes, val, Generated, ResultSize, CalledType,
      Count, vars, dfiVars, resultVars
  <2>. QED  BY <2>2, <2>3 DEF RInv
<1>. QED  BY <1>3, <1>4, <1>5, <1>6, <1>7 DEF ResultNext

\* Under the audit next() returns what the query promised, in that order and nothing else, and
\* has_next() says no only after all of it, whatever is inserted between two calls
\* (DResult::has_next and next, over the links of a table that is rebalanced meanwhile).
THEOREM IterationStaysExact == ASSUME Audit PROVE ResultSpec => []IterationExact
<1>1. RInv => IterationExact
  BY WalkExact DEF RInv
<1>. QED  BY <1>1, ResultBegins, ResultStep, PTL DEF ResultSpec

\* On a tree indexed as it is, size() is the number of nodes that an iteration returns
\* (DResult::size, the difference of two numbers type_dfi() returns).
THEOREM SizeStaysExact == ASSUME Audit PROVE ResultSpec => []SizeExact
<1>1. RInv => SizeExact
  BY DEF RInv
<1>. QED  BY <1>1, ResultBegins, ResultStep, PTL DEF ResultSpec
=============================================================================
