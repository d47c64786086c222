------------------------ MODULE HierarchIndexProofs ------------------------
(***************************************************************************)
(* Proofs about HierarchIndex, for trees of any size.                      *)
(*                                                                         *)
(* However the indexes that add_leaf compares turn out, its three lists    *)
(* stay inverse to the successors.  The model checker finds the indexes    *)
(* wrong from seven nodes on; the lists do not break with them.  Nor does  *)
(* what index() relies on: nothing is pending at an up-to-date node or     *)
(* above it, whatever rotations do (`Good`), so that a read changes no     *)
(* index and index()'s own assertions hold.                                *)
(*                                                                         *)
(* The order of the AVL tree is nowhere used: it is wrong.  What is used   *)
(* is that it stays linked and in balance (`Sound`, of PavlProofs), that a *)
(* climb ends, and which nodes an insertion hangs below which.             *)
(***************************************************************************)
EXTENDS HierarchIndex, PavlProofs

-----------------------------------------------------------------------------
(* Values that nodes take from their parents in the AVL tree. *)

\* g counts the steps from a node to the root of its AVL tree.
Deep(up, g, G) ==
  /\ G \in Nat /\ up \in [Node -> Slot]
  /\ \A n \in Node : g[n] \in 1 .. G /\ (up[n] # NULL => g[up[n]] < g[n])

\* In a sound table every climb ends.
LEMMA SoundDeep ==
  ASSUME NEW t, NEW M, Sound(t, M)
  PROVE  \E g, G : Deep(t.up, g, G)
<1>1. PICK H, h : Balanceable(t, h, H)
  BY DEF Sound
<1>2. TableType(t) /\ Linked(t, M)
  BY DEF Sound
<1>3. H \in Nat /\ \A n \in Node : h[n] \in 1 .. H /\ \A s \in Sides : h[t.link[n][s]] < h[n]
  <2>1. H \in Nat /\ HeightType(h, H)
    BY <1>1 DEF Balanceable, HeightType
  <2>. QED  BY <1>1, <1>2, <2>1, ChildrenLower DEF Balanceable
<1>. DEFINE g == [n \in Node |-> (H + 1) - h[n]]
<1>4. \A n \in Node : t.up[n] # NULL => t.up[n] \in Node /\ h[n] < h[t.up[n]]
  <2>. SUFFICES ASSUME NEW n \in Node, t.up[n] # NULL
                PROVE  t.up[n] \in Node /\ h[n] < h[t.up[n]]
    OBVIOUS
  <2>1. n \in M /\ n # t.root
    BY <1>2 DEF Linked
  <2>2. t.up[n] \in M /\ \E s \in Sides : t.link[t.up[n]][s] = n
    BY <1>2, <2>1 DEF Linked
  <2>3. t.up[n] \in Node
    BY <1>2, <2>2 DEF Linked
  <2>. QED  BY <1>3, <2>2, <2>3
<1>5. \A n \in Node : g[n] \in 1 .. H + 1 /\ (t.up[n] # NULL => g[t.up[n]] < g[n])
  <2>. SUFFICES ASSUME NEW n \in Node
                PROVE  g[n] \in 1 .. H + 1 /\ (t.up[n] # NULL => g[t.up[n]] < g[n])
    OBVIOUS
  <2>1. g[n] = (H + 1) - h[n] /\ h[n] \in 1 .. H
    BY <1>3
  <2>2. g[n] \in 1 .. H + 1
    BY <1>3, <2>1
  <2>3. ASSUME t.up[n] # NULL  PROVE g[t.up[n]] < g[n]
    <3>1. t.up[n] \in Node /\ h[n] < h[t.up[n]] /\ h[t.up[n]] \in 1 .. H
      BY <1>3, <1>4, <2>3
    <3>2. g[t.up[n]] = (H + 1) - h[t.up[n]]
      BY <3>1
    <3>. QED  BY <1>3, <2>1, <3>1, <3>2
  <2>. QED  BY <2>2, <2>3
<1>6. Deep(t.up, g, H + 1)
  <2>1. t.up \in [Node -> Slot]
    BY <1>2 DEF TableType
  <2>. HIDE DEF g
  <2>. QED  BY <1>3, <1>5, <2>1 DEF Deep
<1>. QED  BY <1>6

\* A value that every node computes from that of its parent.
FromParent(f, up, base, step) ==
  /\ f[NULL] = base
  /\ \A n \in Node : f[n] = step[<<n, f[up[n]]>>]

\* Such values exist.
LEMMA FromParentExists ==
  ASSUME NEW up, NEW g, NEW G, Deep(up, g, G),
         NEW V, NEW base \in V, NEW step \in [Node \X V -> V]
  PROVE  \E f \in [Slot -> V] : FromParent(f, up, base, step)
<1>. DEFINE both == [x \in Node \X V \X V |-> step[<<x[1], x[2]>>]]
<1>1. both \in [Node \X V \X V -> V]
  OBVIOUS
<1>2. G \in Nat /\ \A n \in Node : /\ up[n] \in Slot /\ g[n] \in 1 .. G
                                   /\ up[n] # NULL => g[up[n]] < g[n]
  BY DEF Deep
<1>3. PICK f \in [Slot -> V] : Computed(f, base, both, up, up)
  <2>. HIDE DEF both
  <2>. QED  BY <1>1, <1>2, ComputedExists
<1>4. ASSUME NEW n \in Node  PROVE f[n] = step[<<n, f[up[n]]>>]
  <2>1. <<n, f[up[n]], f[up[n]]>> \in Node \X V \X V
    BY <1>2, <1>3
  <2>2. both[<<n, f[up[n]], f[up[n]]>>] = step[<<n, f[up[n]]>>]
    BY <2>1
  <2>. HIDE DEF both
  <2>. QED  BY <1>3, <2>2 DEF Computed
<1>5. f[NULL] = base
  BY <1>3 DEF Computed
<1>. QED  BY <1>4, <1>5 DEF FromParent

\* What holds of a node as soon as it holds of its parent holds of every node.
LEMMA ByClimbing ==
  ASSUME NEW up, NEW g, NEW G, Deep(up, g, G), NEW T,
         \A n \in Node : (up[n] # NULL => up[n] \in T) => n \in T
  PROVE  Node \subseteq T
<1>. SUFFICES ASSUME Node \ T # {}  PROVE FALSE
  OBVIOUS
<1>1. G \in Nat /\ \A n \in Node \ T : g[n] \in Nat
  BY DEF Deep
<1>2. PICK n \in Node \ T : \A m \in Node \ T : g[n] <= g[m]
  <2>. PICK U : U = Node \ T
    OBVIOUS
  <2>1. \E n \in U : \A m \in U : g[n] <= g[m]
    BY <1>1, Lowest
  <2>. QED  BY <2>1
<1>3. up[n] # NULL /\ up[n] \notin T /\ up[n] \in Node /\ g[up[n]] < g[n]
  BY DEF Deep, Slot
<1>4. g[n] <= g[up[n]] /\ g[n] \in Nat /\ g[up[n]] \in Nat
  BY <1>1, <1>2, <1>3
<1>. QED  BY <1>3, <1>4

-----------------------------------------------------------------------------
(* The paths that index() and displace() climb. *)

\* Z holds the parent of each of its nodes.
UpClosed(up, Z) == Z \subseteq Node /\ \A m \in Z : up[m] # NULL => up[m] \in Z

\* S are the out-of-date nodes from n up to the first up-to-date one, or the root.
IsClimb(S, c, n) ==
  /\ S \subseteq Node /\ (n \in S <=> ~Fresh(c, n)) /\ (Fresh(c, n) => S = {})
  /\ \A m \in S : /\ ~Fresh(c, m)
                  /\ c.avl.up[m] # NULL => c.avl.up[m] \in S \/ Fresh(c, c.avl.up[m])
  /\ \A Z : UpClosed(c.avl.up, Z) /\ n \in Z => S \subseteq Z

\* What index() climbs through (node.cpp:67-76).
LEMMA ClimbedIs ==
  ASSUME NEW c, NEW g, NEW G, Deep(c.avl.up, g, G), NEW n \in Node
  PROVE  IsClimb(Climbed(c, n), c, n)
<1>. DEFINE up == c.avl.up
            Down(f) == f = [m \in Slot |-> IF m = NULL THEN {}
                                           ELSE IF Fresh(c, m) THEN {} ELSE {m} \cup f[c.avl.up[m]]]
<1>1. NULL \notin Node /\ \A m \in Node : up[m] \in Slot /\ m # NULL /\ m \in Slot
  BY NullAssumption DEF Deep, Slot
<1>2. \E f : Down(f)
  <2>1. PICK step : step = [x \in Node \X SUBSET Node |->
                              IF Fresh(c, x[1]) THEN {} ELSE {x[1]} \cup x[2]]
    OBVIOUS
  <2>2. step \in [Node \X SUBSET Node -> SUBSET Node]
    BY <2>1
  <2>3. PICK f \in [Slot -> SUBSET Node] : FromParent(f, up, {}, step)
    <3>. HIDE DEF up
    <3>1. {} \in SUBSET Node
      OBVIOUS
    <3>2. Deep(up, g, G)
      BY DEF up
    <3>. QED  BY <2>2, <3>1, <3>2, FromParentExists
  <2>4. ASSUME NEW m \in Node
        PROVE  f[m] = IF Fresh(c, m) THEN {} ELSE {m} \cup f[up[m]]
    <3>1. <<m, f[up[m]]>> \in Node \X SUBSET Node
      BY <1>1, <2>3
    <3>. HIDE DEF up
    <3>. QED  BY <2>1, <2>3, <3>1 DEF FromParent
  <2>5. Down(f)
    <3>1. f = [m \in Slot |-> f[m]] /\ f[NULL] = {}
      BY <2>3 DEF FromParent
    <3>2. \A m \in Slot : f[m] = IF m = NULL THEN {} ELSE IF Fresh(c, m) THEN {}
                                 ELSE {m} \cup f[c.avl.up[m]]
      BY <2>4, <3>1 DEF Slot
    <3>. QED  BY <3>1, <3>2
  <2>. QED  BY <2>5
<1>3. PICK f : Down(f) /\ Climbed(c, n) = f[n]
  <2>1. Climbed(c, n) = (CHOOSE f : Down(f))[n]
    BY DEF Climbed, Slot
  <2>. QED  BY <1>2, <2>1, Zenon
<1>4. f[NULL] = {} /\ \A m \in Node : f[m] = IF Fresh(c, m) THEN {} ELSE {m} \cup f[up[m]]
  BY <1>1, <1>3 DEF Slot
<1>. HIDE DEF up, Down
<1>5. Node \subseteq {m \in Node : IsClimb(f[m], c, m)}
  <2>. PICK T : T = {m \in Node : IsClimb(f[m], c, m)}
    OBVIOUS
  <2>1. ASSUME NEW m \in Node, up[m] # NULL => up[m] \in T
        PROVE  IsClimb(f[m], c, m)
    <3>1. CASE Fresh(c, m)
      BY <1>4, <3>1 DEF IsClimb
    <3>2. CASE ~Fresh(c, m) /\ up[m] = NULL
      <4>1. f[m] = {m}
        BY <1>4, <3>2
      <4>2. c.avl.up[m] = NULL
        BY <3>2 DEF up
      <4>. QED  BY <3>2, <4>1, <4>2 DEF IsClimb
    <3>3. CASE ~Fresh(c, m) /\ up[m] # NULL
      <4>. PICK p, S, R : p = up[m] /\ S = f[p] /\ R = f[m]
        OBVIOUS
      <4>1. p \in Node /\ p = c.avl.up[m] /\ IsClimb(S, c, p) /\ R = {m} \cup S
        BY <1>4, <2>1, <3>3 DEF up
      <4>2. R \subseteq Node /\ m \in R
        BY <4>1 DEF IsClimb
      <4>3. ASSUME NEW k \in R
            PROVE  ~Fresh(c, k) /\ (c.avl.up[k] # NULL => c.avl.up[k] \in R \/ Fresh(c, c.avl.up[k]))
        BY <3>3, <4>1, <4>3 DEF IsClimb
      <4>4. ASSUME NEW Z, UpClosed(c.avl.up, Z), m \in Z
            PROVE  R \subseteq Z
        <5>1. p \in Z
          BY <3>3, <4>1, <4>4 DEF UpClosed
        <5>. QED  BY <4>1, <4>4, <5>1 DEF IsClimb
      <4>. QED  BY <3>3, <4>2, <4>3, <4>4 DEF IsClimb
    <3>. QED  BY <3>1, <3>2, <3>3
  <2>2. \A m \in Node : (up[m] # NULL => up[m] \in T) => m \in T
    BY <2>1
  <2>3. Deep(up, g, G)
    BY DEF up
  <2>. QED  BY <2>2, <2>3, ByClimbing
<1>. QED  BY <1>3, <1>5

\* P are n and its ancestors in the AVL tree, the root of which is among them.
IsPath(P, c, n) ==
  /\ n \in P /\ UpClosed(c.avl.up, P)
  /\ \E m \in P : c.avl.up[m] = NULL
  /\ \A Z : UpClosed(c.avl.up, Z) /\ n \in Z => P \subseteq Z

\* What displace_helper() climbs through (node.cpp:89-92).
LEMMA AvlPathIs ==
  ASSUME NEW c, NEW g, NEW G, Deep(c.avl.up, g, G), NEW n \in Node
  PROVE  IsPath(AvlPath(c, n), c, n)
<1>. DEFINE up == c.avl.up
            Down(f) == f = [m \in Slot |-> IF m = NULL THEN {} ELSE {m} \cup f[c.avl.up[m]]]
<1>1. NULL \notin Node /\ \A m \in Node : up[m] \in Slot /\ m # NULL /\ m \in Slot
  BY NullAssumption DEF Deep, Slot
<1>2. \E f : Down(f)
  <2>1. PICK step : step = [x \in Node \X SUBSET Node |-> {x[1]} \cup x[2]]
    OBVIOUS
  <2>2. step \in [Node \X SUBSET Node -> SUBSET Node]
    BY <2>1
  <2>3. PICK f \in [Slot -> SUBSET Node] : FromParent(f, up, {}, step)
    <3>. HIDE DEF up
    <3>1. {} \in SUBSET Node
      OBVIOUS
    <3>2. Deep(up, g, G)
      BY DEF up
    <3>. QED  BY <2>2, <3>1, <3>2, FromParentExists
  <2>4. ASSUME NEW m \in Node
        PROVE  f[m] = {m} \cup f[up[m]]
    <3>1. <<m, f[up[m]]>> \in Node \X SUBSET Node
      BY <1>1, <2>3
    <3>. HIDE DEF up
    <3>. QED  BY <2>1, <2>3, <3>1 DEF FromParent
  <2>5. Down(f)
    <3>1. f = [m \in Slot |-> f[m]] /\ f[NULL] = {}
      BY <2>3 DEF FromParent
    <3>2. \A m \in Slot : f[m] = IF m = NULL THEN {} ELSE {m} \cup f[c.avl.up[m]]
      BY <2>4, <3>1 DEF Slot
    <3>. QED  BY <3>1, <3>2
  <2>. QED  BY <2>5
<1>3. PICK f : Down(f) /\ AvlPath(c, n) = f[n]
  <2>1. AvlPath(c, n) = (CHOOSE f : Down(f))[n]
    BY DEF AvlPath, Slot
  <2>. QED  BY <1>2, <2>1, Zenon
<1>4. f[NULL] = {} /\ \A m \in Node : f[m] = {m} \cup f[up[m]]
  BY <1>1, <1>3 DEF Slot
<1>. HIDE DEF up, Down
<1>5. Node \subseteq {m \in Node : IsPath(f[m], c, m)}
  <2>. PICK T : T = {m \in Node : IsPath(f[m], c, m)}
    OBVIOUS
  <2>1. ASSUME NEW m \in Node, up[m] # NULL => up[m] \in T
        PROVE  IsPath(f[m], c, m)
    <3>1. CASE up[m] = NULL
      BY <1>1, <1>4, <3>1 DEF IsPath, UpClosed, up
    <3>2. CASE up[m] # NULL
      <4>. PICK p, S, R : p = up[m] /\ S = f[p] /\ R = f[m]
        OBVIOUS
      <4>1. p \in Node /\ p = c.avl.up[m] /\ IsPath(S, c, p) /\ R = {m} \cup S
        BY <1>4, <2>1, <3>2 DEF up
      <4>2. m \in R /\ \E k \in R : c.avl.up[k] = NULL
        BY <4>1 DEF IsPath
      <4>3. UpClosed(c.avl.up, R)
        BY <4>1 DEF IsPath, UpClosed
      <4>4. ASSUME NEW Z, UpClosed(c.avl.up, Z), m \in Z
            PROVE  R \subseteq Z
        <5>1. p \in Z
          BY <3>2, <4>1, <4>4 DEF UpClosed
        <5>. QED  BY <4>1, <4>4, <5>1 DEF IsPath
      <4>. QED  BY <4>2, <4>3, <4>4 DEF IsPath
    <3>. QED  BY <3>1, <3>2
  <2>2. \A m \in Node : (up[m] # NULL => up[m] \in T) => m \in T
    BY <2>1
  <2>3. Deep(up, g, G)
    BY DEF up
  <2>. QED  BY <2>2, <2>3, ByClimbing
<1>. QED  BY <1>3, <1>5

\* Where the climb ends (node.cpp:67-76).
LEMMA SummitIs ==
  ASSUME NEW c, NEW g, NEW G, Deep(c.avl.up, g, G), NEW n \in Node
  PROVE  Summit(c, n) \in Node /\ (Fresh(c, Summit(c, n)) \/ c.avl.up[Summit(c, n)] = NULL)
<1>. DEFINE up == c.avl.up
            Ends(m) == Fresh(c, m) \/ c.avl.up[m] = NULL
            Down(f) == f = [m \in Node |-> IF Ends(m) THEN m ELSE f[c.avl.up[m]]]
<1>1. NULL \notin Node /\ \A m \in Node : up[m] \in Slot /\ m # NULL /\ m \in Slot
  BY NullAssumption DEF Deep, Slot
<1>2. \E f : Down(f)
  <2>1. PICK step : step = [x \in Node \X Node |-> IF Ends(x[1]) THEN x[1] ELSE x[2]]
    OBVIOUS
  <2>2. step \in [Node \X Node -> Node]
    BY <2>1
  <2>3. PICK f \in [Slot -> Node] : FromParent(f, up, n, step)
    <3>. HIDE DEF up
    <3>1. Deep(up, g, G)
      BY DEF up
    <3>. QED  BY <2>2, <3>1, FromParentExists
  <2>4. ASSUME NEW m \in Node
        PROVE  f[m] = IF Ends(m) THEN m ELSE f[up[m]]
    <3>1. <<m, f[up[m]]>> \in Node \X Node
      BY <1>1, <2>3
    <3>. HIDE DEF up, Ends
    <3>. QED  BY <2>1, <2>3, <3>1 DEF FromParent
  <2>. DEFINE e == [m \in Node |-> f[m]]
  <2>5. Down(e)
    <3>1. \A m \in Node : e[m] = IF Ends(m) THEN m ELSE e[c.avl.up[m]]
      BY <1>1, <2>4 DEF Slot
    <3>2. e = [m \in Node |-> e[m]]
      OBVIOUS
    <3>. HIDE DEF e
    <3>. QED  BY <3>1, <3>2
  <2>. QED  BY <2>5
<1>3. PICK f : Down(f) /\ Summit(c, n) = f[n]
  <2>1. Summit(c, n) = (CHOOSE f : Down(f))[n]
    BY DEF Summit
  <2>. QED  BY <1>2, <2>1, Zenon
<1>4. \A m \in Node : f[m] = IF Ends(m) THEN m ELSE f[up[m]]
  BY <1>3
<1>. DEFINE T == {m \in Node : f[m] \in Node /\ Ends(f[m])}
<1>5. \A m \in Node : (up[m] # NULL => up[m] \in T) => m \in T
  BY <1>4
<1>6. Node \subseteq T
  <2>1. Deep(up, g, G)
    OBVIOUS
  <2>. HIDE DEF T, up
  <2>. QED  BY <1>5, <2>1, ByClimbing
<1>. QED  BY <1>3, <1>6

\* due is what is pending above every node (node.cpp:76-83).
IsPending(due, c) ==
  /\ due \in [Node -> Int]
  /\ \A m \in Node : due[m] = IF Fresh(c, m) \/ c.avl.up[m] = NULL THEN 0
                              ELSE c.offset[m] + due[c.avl.up[m]]

\* Pending is the recursion that it states.
LEMMA PendingIs ==
  ASSUME NEW c, NEW g, NEW G, Deep(c.avl.up, g, G), c.offset \in [Node -> Int]
  PROVE  IsPending(Pending(c), c)
<1>. DEFINE up == c.avl.up
            Ends(m) == Fresh(c, m) \/ c.avl.up[m] = NULL
            Down(f) == f = [m \in Node |-> IF Ends(m) THEN 0 ELSE c.offset[m] + f[c.avl.up[m]]]
<1>1. NULL \notin Node /\ \A m \in Node : up[m] \in Slot /\ m # NULL /\ m \in Slot
  BY NullAssumption DEF Deep, Slot
<1>2. \E f : Down(f) /\ f \in [Node -> Int]
  <2>1. PICK step : step = [x \in Node \X Int |-> IF Ends(x[1]) THEN 0 ELSE c.offset[x[1]] + x[2]]
    OBVIOUS
  <2>2. step \in [Node \X Int -> Int]
    BY <2>1
  <2>3. PICK f \in [Slot -> Int] : FromParent(f, up, 0, step)
    <3>. HIDE DEF up
    <3>1. Deep(up, g, G)
      BY DEF up
    <3>2. 0 \in Int
      OBVIOUS
    <3>. QED  BY <2>2, <3>1, <3>2, FromParentExists
  <2>4. ASSUME NEW m \in Node
        PROVE  f[m] = IF Ends(m) THEN 0 ELSE c.offset[m] + f[up[m]]
    <3>1. <<m, f[up[m]]>> \in Node \X Int
      BY <1>1, <2>3
    <3>. HIDE DEF up, Ends
    <3>. QED  BY <2>1, <2>3, <3>1 DEF FromParent
  <2>. DEFINE e == [m \in Node |-> f[m]]
  <2>5. Down(e)
    <3>1. \A m \in Node : e[m] = IF Ends(m) THEN 0 ELSE c.offset[m] + e[c.avl.up[m]]
      BY <1>1, <2>4 DEF Slot
    <3>2. e = [m \in Node |-> e[m]]
      OBVIOUS
    <3>. HIDE DEF e
    <3>. QED  BY <3>1, <3>2
  <2>6. e \in [Node -> Int]
    BY <2>3 DEF Slot
  <2>. QED  BY <2>5, <2>6
<1>3. Pending(c) = CHOOSE f : Down(f)
  BY DEF Pending
<1>4. Down(Pending(c))
  BY <1>2, <1>3, Zenon
<1>. PICK due : due = Pending(c)
  OBVIOUS
<1>5. \A m \in Node : due[m] = IF Ends(m) THEN 0 ELSE c.offset[m] + due[up[m]]
  BY <1>4
<1>6. due = [m \in Node |-> due[m]]
  BY <1>4
<1>. DEFINE T == {m \in Node : due[m] \in Int}
<1>7. \A m \in Node : (up[m] # NULL => up[m] \in T) => m \in T
  BY <1>5
<1>8. Node \subseteq T
  <2>1. Deep(up, g, G)
    OBVIOUS
  <2>. HIDE DEF T, up
  <2>. QED  BY <1>7, <2>1, ByClimbing
<1>9. due \in [Node -> Int]
  BY <1>6, <1>8
<1>10. IsPending(due, c)
  BY <1>5, <1>9 DEF IsPending
<1>. QED  BY <1>10

-----------------------------------------------------------------------------
(* What index() does to a context. *)

\* The records of a context.
Tables == [root : Slot, link : [Node -> [Sides -> Slot]], up : [Node -> Slot],
           bal : [Node -> Int], count : Nat]

CtxType(c) ==
  c \in [mod : Nat, max_index : Nat, avl : Tables, sound : BOOLEAN,
         base_index : [Node -> Int], offset : [Node -> Int], at : [Node -> Nat]]

\* A context of these fields.
Context(m, x, a, s, b, o, t) ==
  [mod |-> m, max_index |-> x, avl |-> a, sound |-> s, base_index |-> b, offset |-> o, at |-> t]

\* Every context is one of those.
LEMMA ContextFields ==
  ASSUME NEW c, CtxType(c)
  PROVE  c = Context(c.mod, c.max_index, c.avl, c.sound, c.base_index, c.offset, c.at)
BY DEF CtxType, Context

\* Setting one field of a context.
ModSet(c, v) == [c EXCEPT !.mod = v]
MaxSet(c, v) == [c EXCEPT !.max_index = v]
AvlSet(c, v) == [c EXCEPT !.avl = v]
SoundSet(c, v) == [c EXCEPT !.sound = v]
BaseSet(c, v) == [c EXCEPT !.base_index = v]
OffsetSet(c, v) == [c EXCEPT !.offset = v]
AtSet(c, v) == [c EXCEPT !.at = v]

\* Setting a field changes that one.
LEMMA FieldSet ==
  ASSUME NEW m, NEW x, NEW a, NEW s, NEW b, NEW o, NEW t, NEW v
  PROVE  /\ ModSet(Context(m, x, a, s, b, o, t), v) = Context(v, x, a, s, b, o, t)
         /\ MaxSet(Context(m, x, a, s, b, o, t), v) = Context(m, v, a, s, b, o, t)
         /\ AvlSet(Context(m, x, a, s, b, o, t), v) = Context(m, x, v, s, b, o, t)
         /\ SoundSet(Context(m, x, a, s, b, o, t), v) = Context(m, x, a, v, b, o, t)
         /\ BaseSet(Context(m, x, a, s, b, o, t), v) = Context(m, x, a, s, v, o, t)
         /\ OffsetSet(Context(m, x, a, s, b, o, t), v) = Context(m, x, a, s, b, v, t)
         /\ AtSet(Context(m, x, a, s, b, o, t), v) = Context(m, x, a, s, b, o, v)
BY DEF Context, ModSet, MaxSet, AvlSet, SoundSet, BaseSet, OffsetSet, AtSet

\* What Index makes of the nodes S it climbs through and of what is due to each.
IndexIs(d, c, n, S, due) ==
  d = Context(IF \E m \in S : c.avl.up[m] = NULL THEN c.mod + 1 ELSE c.mod,
              c.max_index, c.avl, c.sound /\ c.offset[Summit(c, n)] = 0,
              [m \in Node |-> IF m \in S THEN c.base_index[m] + due[m] ELSE c.base_index[m]],
              [m \in Node |-> IF m \in S THEN 0
                              ELSE IF c.avl.up[m] \in S
                                   THEN c.offset[m] + due[c.avl.up[m]] ELSE c.offset[m]],
              [m \in Node |-> IF m \in S
                              THEN IF \E k \in S : c.avl.up[k] = NULL THEN c.mod + 1 ELSE c.mod
                              ELSE c.at[m]])

\* Index, written out (node.cpp:63-86).
LEMMA IndexRecord ==
  ASSUME NEW c, CtxType(c), NEW n
  PROVE  IndexIs(Index(c, n), c, n, Climbed(c, n), Pending(c))
<1>. PICK S, due : S = Climbed(c, n) /\ due = Pending(c)
  OBVIOUS
<1>1. c = Context(c.mod, c.max_index, c.avl, c.sound, c.base_index, c.offset, c.at)
  BY ContextFields
<1>. PICK now : now = IF \E m \in S : c.avl.up[m] = NULL THEN c.mod + 1 ELSE c.mod
  OBVIOUS
<1>. PICK b : b = [m \in Node |-> IF m \in S THEN c.base_index[m] + due[m] ELSE c.base_index[m]]
  OBVIOUS
<1>. PICK o : o = [m \in Node |-> IF m \in S THEN 0
                                  ELSE IF c.avl.up[m] \in S
                                       THEN c.offset[m] + due[c.avl.up[m]] ELSE c.offset[m]]
  OBVIOUS
<1>. PICK t : t = [m \in Node |-> IF m \in S THEN now ELSE c.at[m]]
  OBVIOUS
<1>. PICK s : s = (c.sound /\ c.offset[Summit(c, n)] = 0)
  OBVIOUS
<1>2. Index(c, n) = SoundSet(AtSet(OffsetSet(BaseSet(ModSet(c, now), b), o), t), s)
  BY DEF Index, ModSet, BaseSet, OffsetSet, AtSet, SoundSet
<1>3. Index(c, n) = Context(now, c.max_index, c.avl, s, b, o, t)
  <2>. PICK x, a : x = c.max_index /\ a = c.avl
    OBVIOUS
  <2>1. ModSet(c, now) = Context(now, x, a, c.sound, c.base_index, c.offset, c.at)
    BY <1>1, FieldSet
  <2>. QED  BY <1>2, <2>1, FieldSet
<1>4. IndexIs(Context(now, c.max_index, c.avl, s, b, o, t), c, n, S, due)
  BY DEF IndexIs
<1>. QED  BY <1>3, <1>4

-----------------------------------------------------------------------------
(* The contexts the program gets into. *)

\* Nothing is pending at the nodes Z nor above them.
Quiet(c, Z) == UpClosed(c.avl.up, Z) /\ \A m \in Z : c.offset[m] = 0

\* And all up-to-date nodes are among them.
Covers(c, Z) == Quiet(c, Z) /\ \A m \in Node : Fresh(c, m) => m \in Z

\* A context whose AVL tree holds the nodes M: nothing is pending at an up-to-date node
\* or above it, nor at a root, and no assertion of index() has failed.
Good(c, M) ==
  /\ CtxType(c) /\ Sound(c.avl, M) /\ c.sound
  /\ \A m \in Node : c.at[m] <= c.mod /\ (c.avl.up[m] = NULL => c.offset[m] = 0)
  /\ \E Z : Covers(c, Z)

\* The root of the AVL tree is up to date.
Ready(c) == c.avl.root # NULL => Fresh(c, c.avl.root)

\* Everything that is up to date stays so.
Later(d, c) == d.mod = c.mod /\ Ready(d) /\ \A m \in Node : Fresh(c, m) => Fresh(d, m)

\* d is the context c after n.index().
IndexDone(d, c, M, n) ==
  /\ Good(d, M) /\ Fresh(d, n) /\ d.avl = c.avl /\ d.max_index = c.max_index
  /\ (n \in M \/ Fresh(c, n)) /\ Ready(c) => Later(d, c)
  /\ Fresh(c, n) => d.base_index[n] = c.base_index[n]
  /\ IndexValues(d) = IndexValues(c)

\* The parents in a sound table.
LEMMA SoundParents ==
  ASSUME NEW t, NEW M, Sound(t, M)
  PROVE  UpClosed(t.up, M) /\ \A m \in M : t.up[m] = NULL => m = t.root
<1>1. Linked(t, M) /\ NULL \notin M
  BY NullAssumption DEF Sound, Linked
<1>. QED  BY <1>1 DEF Linked, UpClosed

\* c has these fields, and is a context when they have the right types.
HasFields(c, m, x, a, s, b, o, t) ==
  /\ c.mod = m /\ c.max_index = x /\ c.avl = a /\ c.sound = s /\ c.base_index = b
  /\ c.offset = o /\ c.at = t
  /\ (m \in Nat /\ x \in Nat /\ a \in Tables /\ s \in BOOLEAN /\ b \in [Node -> Int]
      /\ o \in [Node -> Int] /\ t \in [Node -> Nat] => CtxType(c))

\* The fields of a context are those it is made of.
LEMMA ContextIs ==
  ASSUME NEW m, NEW x, NEW a, NEW s, NEW b, NEW o, NEW t
  PROVE  HasFields(Context(m, x, a, s, b, o, t), m, x, a, s, b, o, t)
BY DEF Context, CtxType, HasFields

\* The fields of a context after index().
IndexFields(d, c, S, due) ==
  /\ CtxType(d) /\ d.avl = c.avl /\ d.max_index = c.max_index
  /\ d.mod = IF \E m \in S : c.avl.up[m] = NULL THEN c.mod + 1 ELSE c.mod
  /\ \A m \in Node :
       /\ d.base_index[m] = IF m \in S THEN c.base_index[m] + due[m] ELSE c.base_index[m]
       /\ d.offset[m] = IF m \in S THEN 0
                        ELSE IF c.avl.up[m] \in S
                             THEN c.offset[m] + due[c.avl.up[m]] ELSE c.offset[m]
       /\ d.at[m] = IF m \in S THEN d.mod ELSE c.at[m]

\* Index, field by field.
LEMMA IndexChanges ==
  ASSUME NEW c, CtxType(c), NEW n, NEW due \in [Node -> Int], due = Pending(c),
         NEW S, S = Climbed(c, n), S \subseteq Node, NEW d, d = Index(c, n)
  PROVE  IndexFields(d, c, S, due) /\ d.sound = (c.sound /\ c.offset[Summit(c, n)] = 0)
<1>. PICK now : now = IF \E m \in S : c.avl.up[m] = NULL THEN c.mod + 1 ELSE c.mod
  OBVIOUS
<1>. PICK b : b = [m \in Node |-> IF m \in S THEN c.base_index[m] + due[m] ELSE c.base_index[m]]
  OBVIOUS
<1>. PICK o : o = [m \in Node |-> IF m \in S THEN 0
                                  ELSE IF c.avl.up[m] \in S
                                       THEN c.offset[m] + due[c.avl.up[m]] ELSE c.offset[m]]
  OBVIOUS
<1>. PICK t : t = [m \in Node |-> IF m \in S THEN now ELSE c.at[m]]
  OBVIOUS
<1>0. PICK s : s = (c.sound /\ c.offset[Summit(c, n)] = 0)
  OBVIOUS
<1>1. IndexIs(d, c, n, S, due)
  BY IndexRecord
<1>2. d = Context(now, c.max_index, c.avl, s, b, o, t)
  BY <1>0, <1>1 DEF IndexIs
<1>3. /\ c.mod \in Nat /\ c.max_index \in Nat /\ c.avl \in Tables
      /\ c.base_index \in [Node -> Int] /\ c.offset \in [Node -> Int] /\ c.at \in [Node -> Nat]
  BY DEF CtxType
<1>4. now \in Nat /\ s \in BOOLEAN
  BY <1>0, <1>3
<1>5. b \in [Node -> Int]
  BY <1>3
<1>6. o \in [Node -> Int]
  BY <1>3
<1>7. t \in [Node -> Nat]
  BY <1>3, <1>4
<1>8. /\ d.mod = now /\ d.max_index = c.max_index /\ d.avl = c.avl /\ d.sound = s
      /\ d.base_index = b /\ d.offset = o /\ d.at = t
      /\ CtxType(d)
  <2>1. HasFields(d, now, c.max_index, c.avl, s, b, o, t)
    BY <1>2, ContextIs, SMTT(30)
  <2>. QED  BY <1>3, <1>4, <1>5, <1>6, <1>7, <2>1 DEF HasFields
<1>. QED  BY <1>0, <1>8 DEF IndexFields

\* Nothing is pending at the nodes Z, nor at n.
Wider(d, n, Z) == \E Y : Covers(d, Y) /\ n \in Y /\ Z \subseteq Y

\* What index() leaves of a good context, and of the nodes where nothing is pending.
LEMMA IndexKeeps ==
  ASSUME NEW c, NEW M, Good(c, M), NEW n \in Node, NEW d, d = Index(c, n), NEW Z, Covers(c, Z)
  PROVE  IndexDone(d, c, M, n) /\ Wider(d, n, Z)
<1>. PICK up, S, due : up = c.avl.up /\ S = Climbed(c, n) /\ due = Pending(c)
  OBVIOUS
<1>1. CtxType(c) /\ Sound(c.avl, M) /\ c.sound
  BY DEF Good
<1>2. PICK g, G : Deep(up, g, G)
  BY <1>1, SoundDeep
<1>3. IsClimb(S, c, n)
  BY <1>2, ClimbedIs
<1>4. c.offset \in [Node -> Int] /\ c.base_index \in [Node -> Int] /\ c.mod \in Nat
      /\ c.at \in [Node -> Nat]
  BY <1>1 DEF CtxType
<1>5. IsPending(due, c)
  BY <1>2, <1>4, PendingIs
<1>6. S \subseteq Node /\ due \in [Node -> Int]
  BY <1>3, <1>5 DEF IsClimb, IsPending
<1>7. IndexFields(d, c, S, due) /\ d.sound = (c.sound /\ c.offset[Summit(c, n)] = 0)
  BY <1>1, <1>6, IndexChanges
<1>8. /\ CtxType(d) /\ d.avl = c.avl /\ d.avl.up = up /\ d.max_index = c.max_index
      /\ d.mod = IF \E m \in S : up[m] = NULL THEN c.mod + 1 ELSE c.mod
      /\ \A m \in Node :
           /\ d.base_index[m] = IF m \in S THEN c.base_index[m] + due[m] ELSE c.base_index[m]
           /\ d.offset[m] = IF m \in S THEN 0
                            ELSE IF up[m] \in S THEN c.offset[m] + due[up[m]] ELSE c.offset[m]
           /\ d.at[m] = IF m \in S THEN d.mod ELSE c.at[m]
  BY <1>7 DEF IndexFields
<1>9. \A m \in Node : c.at[m] <= c.mod /\ (up[m] = NULL => c.offset[m] = 0)
  BY DEF Good
<1>10. Quiet(c, Z) /\ \A m \in Node : Fresh(c, m) => m \in Z
  BY DEF Covers
<1>11. NULL \notin Node /\ \A m \in Node : up[m] \in Slot
  BY <1>2, NullAssumption DEF Deep
<1>12. \A m \in Node : Fresh(c, m) <=> m \notin S /\ c.at[m] >= c.mod
  BY <1>3 DEF IsClimb, Fresh
<1>13. d.mod \in Nat /\ (d.mod = c.mod \/ d.mod = c.mod + 1)
  BY <1>4, <1>8
<1>14. \A m \in S : Fresh(d, m)
  BY <1>6, <1>8, <1>13 DEF Fresh
<1>15. Fresh(d, n)
  <2>1. CASE n \in S
    BY <1>14, <2>1
  <2>2. CASE n \notin S
    <3>1. Fresh(c, n)
      BY <1>3, <2>2 DEF IsClimb
    <3>2. S = {}
      BY <1>3, <3>1 DEF IsClimb
    <3>. QED  BY <1>4, <1>8, <3>1, <3>2 DEF Fresh
  <2>. QED  BY <2>1, <2>2
<1>16. \A m \in Node : Fresh(d, m) => m \in S \/ Fresh(c, m)
  BY <1>4, <1>8, <1>9, <1>13 DEF Fresh
\* What is pending above the quiet nodes is nothing.
<1>17. \A m \in Z : due[m] = 0
  <2>. DEFINE T == {m \in Node : m \in Z => due[m] = 0}
  <2>1. ASSUME NEW m \in Node, up[m] # NULL => up[m] \in T  PROVE m \in T
    BY <1>5, <1>10, <2>1 DEF IsPending, Quiet, UpClosed
  <2>2. Node \subseteq T
    <3>. HIDE DEF T
    <3>. QED  BY <1>2, <2>1, ByClimbing
  <2>. QED  BY <1>10, <2>2 DEF Quiet, UpClosed
<1>18. Covers(d, Z \cup S)
  <2>1. UpClosed(up, Z \cup S)
    <3>1. ASSUME NEW m \in S, up[m] # NULL  PROVE up[m] \in Z \cup S
      <4>1. up[m] \in Node
        BY <1>6, <1>11, <3>1 DEF Slot
      <4>. QED  BY <1>3, <1>10, <3>1, <4>1 DEF IsClimb
    <3>. QED  BY <1>6, <1>10, <3>1 DEF Quiet, UpClosed
  <2>2. ASSUME NEW m \in Z \cup S  PROVE d.offset[m] = 0
    <3>1. m \in Node
      BY <2>1 DEF UpClosed
    <3>2. CASE m \in S
      BY <1>8, <3>1, <3>2
    <3>3. CASE m \notin S /\ up[m] \in S
      <4>1. up[m] \in Z /\ c.offset[m] = 0
        BY <1>6, <1>10, <1>11, <3>3 DEF Quiet, UpClosed
      <4>2. due[up[m]] = 0
        BY <1>17, <4>1
      <4>. QED  BY <1>8, <3>1, <3>3, <4>1, <4>2
    <3>4. CASE m \notin S /\ up[m] \notin S
      BY <1>8, <1>10, <3>1, <3>4 DEF Quiet
    <3>. QED  BY <3>2, <3>3, <3>4
  <2>. QED  BY <1>8, <1>10, <1>16, <2>1, <2>2 DEF Quiet, Covers
<1>19. \A m \in Node : d.at[m] <= d.mod /\ (up[m] = NULL => d.offset[m] = 0)
  <2>. SUFFICES ASSUME NEW m \in Node
                PROVE  d.at[m] <= d.mod /\ (up[m] = NULL => d.offset[m] = 0)
    OBVIOUS
  <2>1. d.at[m] <= d.mod
    BY <1>4, <1>8, <1>9, <1>13
  <2>2. NULL \notin S
    BY <1>6, <1>11
  <2>. QED  BY <1>8, <1>9, <2>1, <2>2
<1>20. c.offset[Summit(c, n)] = 0
  <2>1. Summit(c, n) \in Node /\ (Fresh(c, Summit(c, n)) \/ up[Summit(c, n)] = NULL)
    BY <1>2, SummitIs
  <2>. QED  BY <1>9, <1>10, <2>1 DEF Quiet
<1>21. Good(d, M)
  BY <1>1, <1>7, <1>8, <1>18, <1>19, <1>20 DEF Good
\* A member does not get past an up-to-date root.
<1>22. ASSUME n \in M \/ Fresh(c, n), Ready(c)  PROVE Later(d, c)
  <2>1. UpClosed(up, M) /\ \A m \in M : up[m] = NULL => m = c.avl.root
    BY <1>1, SoundParents
  <2>2. S \subseteq M
    BY <1>3, <1>22, <2>1 DEF IsClimb
  <2>3. \A m \in S : up[m] # NULL
    <3>. SUFFICES ASSUME NEW m \in S, up[m] = NULL  PROVE FALSE
      OBVIOUS
    <3>1. m = c.avl.root /\ m # NULL /\ ~Fresh(c, m)
      BY <1>3, <1>6, <1>11, <2>1, <2>2 DEF IsClimb
    <3>. QED  BY <1>22, <3>1 DEF Ready
  <2>4. d.mod = c.mod
    BY <1>8, <2>3
  <2>5. \A m \in Node : Fresh(c, m) => Fresh(d, m)
    BY <1>8, <1>12, <2>4 DEF Fresh
  <2>6. c.avl.root \in Slot
    BY <1>1 DEF Sound, TableType
  <2>. QED  BY <1>8, <1>22, <2>4, <2>5, <2>6 DEF Later, Ready, Slot
\* What a node has taken is no longer pending above the others.
<1>23. IndexValues(d) = IndexValues(c)
  <2>. PICK now : now = Pending(d)
    OBVIOUS
  <2>1. IsPending(now, d)
    <3>1. d.offset \in [Node -> Int]
      BY <1>8 DEF CtxType
    <3>. QED  BY <1>2, <1>8, <3>1, PendingIs
  <2>. DEFINE T == {m \in Node : now[m] = IF m \in S THEN 0 ELSE due[m]}
  <2>2. ASSUME NEW m \in Node, up[m] # NULL => up[m] \in T  PROVE m \in T
    <3>1. now[m] = IF Fresh(d, m) \/ up[m] = NULL THEN 0 ELSE d.offset[m] + now[up[m]]
      BY <1>8, <2>1 DEF IsPending
    <3>2. due[m] = IF Fresh(c, m) \/ up[m] = NULL THEN 0 ELSE c.offset[m] + due[up[m]]
      BY <1>5 DEF IsPending
    <3>3. CASE m \in S
      BY <1>14, <3>1, <3>3
    <3>4. CASE m \notin S /\ up[m] = NULL
      BY <3>1, <3>2, <3>4
    <3>5. CASE m \notin S /\ up[m] # NULL /\ Fresh(c, m)
      <4>1. m \in Z /\ up[m] \in Z /\ m \in Z \cup S /\ d.offset[m] = 0
        BY <1>10, <1>18, <3>5 DEF Quiet, Covers, UpClosed
      <4>2. now[up[m]] = 0
        BY <1>17, <2>2, <3>5, <4>1
      <4>. QED  BY <3>1, <3>2, <3>5, <4>1, <4>2
    <3>6. CASE m \notin S /\ up[m] # NULL /\ ~Fresh(c, m)
      <4>1. ~Fresh(d, m)
        BY <1>16, <3>6
      <4>2. now[m] = d.offset[m] + now[up[m]] /\ due[m] = c.offset[m] + due[up[m]]
        BY <3>1, <3>2, <3>6, <4>1
      <4>3. up[m] \in Node /\ c.offset[m] \in Int /\ due[up[m]] \in Int
        BY <1>4, <1>6, <1>11, <3>6 DEF Slot
      <4>4. CASE up[m] \in S
        BY <1>8, <2>2, <3>6, <4>2, <4>3, <4>4
      <4>5. CASE up[m] \notin S
        BY <1>8, <2>2, <3>6, <4>2, <4>3, <4>5
      <4>. QED  BY <4>4, <4>5
    <3>. QED  BY <3>3, <3>4, <3>5, <3>6
  <2>3. Node \subseteq T
    <3>. HIDE DEF T
    <3>. QED  BY <1>2, <2>2, ByClimbing
  <2>4. \A m \in Node : d.base_index[m] + now[m] = c.base_index[m] + due[m]
    <3>. SUFFICES ASSUME NEW m \in Node
                  PROVE  d.base_index[m] + now[m] = c.base_index[m] + due[m]
      OBVIOUS
    <3>1. c.base_index[m] \in Int /\ due[m] \in Int
      BY <1>4, <1>6
    <3>. QED  BY <1>8, <2>3, <3>1
  <2>. QED  BY <2>4 DEF IndexValues
<1>24. Fresh(c, n) => d.base_index[n] = c.base_index[n]
  BY <1>3, <1>8 DEF IsClimb
<1>25. IndexDone(d, c, M, n)
  BY <1>8, <1>15, <1>21, <1>22, <1>23, <1>24 DEF IndexDone
<1>26. n \in Z \cup S
  BY <1>15, <1>18 DEF Covers
<1>. QED  BY <1>18, <1>25, <1>26 DEF Wider

\* What index() leaves of a good context.
LEMMA IndexGood ==
  ASSUME NEW c, NEW M, Good(c, M), NEW n \in Node, NEW d, d = Index(c, n)
  PROVE  IndexDone(d, c, M, n)
<1>1. PICK Z : Covers(c, Z)
  BY DEF Good
<1>. QED  BY <1>1, IndexKeeps

\* due is what is pending above every node, up-to-date ones included; above the nodes Z
\* it is nothing.
IsDue(due, c, Z) ==
  /\ due \in [Node -> Int]
  /\ \A m \in Node :
       /\ due[m] = IF c.avl.up[m] = NULL THEN 0 ELSE c.offset[m] + due[c.avl.up[m]]
       /\ IndexValues(c)[m] = c.base_index[m] + due[m]
  /\ \A m \in Z : m \in Node /\ due[m] = 0 /\ IndexValues(c)[m] = c.base_index[m]

\* In a good context it does not matter where index() stops climbing.
LEMMA PendingDue ==
  ASSUME NEW c, NEW M, Good(c, M), NEW Z, Covers(c, Z)
  PROVE  IsDue(Pending(c), c, Z)
<1>. PICK up, due : up = c.avl.up /\ due = Pending(c)
  OBVIOUS
<1>1. PICK g, G : Deep(up, g, G)
  BY SoundDeep DEF Good
<1>2. c.offset \in [Node -> Int] /\ c.base_index \in [Node -> Int]
  BY DEF Good, CtxType
<1>3. IsPending(due, c)
  BY <1>1, <1>2, PendingIs
<1>4. due \in [Node -> Int]
      /\ \A m \in Node : due[m] = IF Fresh(c, m) \/ up[m] = NULL THEN 0 ELSE c.offset[m] + due[up[m]]
  BY <1>3 DEF IsPending
<1>5. UpClosed(up, Z) /\ Z \subseteq Node /\ (\A m \in Z : c.offset[m] = 0)
      /\ \A m \in Node : Fresh(c, m) => m \in Z
  BY DEF Covers, Quiet, UpClosed
<1>6. \A m \in Z : due[m] = 0
  <2>. DEFINE T == {m \in Node : m \in Z => due[m] = 0}
  <2>1. ASSUME NEW m \in Node, up[m] # NULL => up[m] \in T  PROVE m \in T
    BY <1>4, <1>5, <2>1 DEF UpClosed
  <2>2. Node \subseteq T
    <3>. HIDE DEF T
    <3>. QED  BY <1>1, <2>1, ByClimbing
  <2>. QED  BY <1>5, <2>2
<1>7. ASSUME NEW m \in Node
      PROVE  due[m] = IF up[m] = NULL THEN 0 ELSE c.offset[m] + due[up[m]]
  <2>1. CASE Fresh(c, m) /\ up[m] # NULL
    <3>1. c.offset[m] = 0 /\ due[up[m]] = 0
      BY <1>5, <1>6, <2>1 DEF UpClosed
    <3>. QED  BY <1>4, <2>1, <3>1
  <2>2. CASE ~(Fresh(c, m) /\ up[m] # NULL)
    BY <1>4, <2>2
  <2>. QED  BY <2>1, <2>2
<1>8. \A m \in Node : IndexValues(c)[m] = c.base_index[m] + due[m]
  BY DEF IndexValues
<1>9. \A m \in Z : m \in Node /\ due[m] = 0 /\ IndexValues(c)[m] = c.base_index[m]
  BY <1>2, <1>5, <1>6, <1>8
<1>. QED  BY <1>4, <1>7, <1>8, <1>9 DEF IsDue

\* The index of an up-to-date node is stored at it.
LEMMA FreshValue ==
  ASSUME NEW c, NEW M, Good(c, M), NEW m \in Node
  PROVE  IndexValues(c)[m] \in Int /\ (Fresh(c, m) => IndexValues(c)[m] = c.base_index[m])
<1>1. PICK Z : Covers(c, Z)
  BY DEF Good
<1>2. IsDue(Pending(c), c, Z)
  BY <1>1, PendingDue
<1>3. c.base_index[m] \in Int
  BY DEF Good, CtxType
<1>. QED  BY <1>1, <1>2, <1>3 DEF IsDue, Covers

\* Where nothing else differs, and nothing is stored, index() returns the same.
LEMMA SameDue ==
  ASSUME NEW c, NEW M, Good(c, M), NEW d, NEW L, Good(d, L), d.avl = c.avl,
         d.offset = c.offset, NEW m \in Node, d.base_index[m] = c.base_index[m]
  PROVE  IndexValues(d)[m] = IndexValues(c)[m]
<1>1. PICK Z, Y : Covers(c, Z) /\ Covers(d, Y)
  BY DEF Good
<1>. PICK up, due, now : up = c.avl.up /\ due = Pending(c) /\ now = Pending(d)
  OBVIOUS
<1>2. IsDue(due, c, Z) /\ IsDue(now, d, Y)
  BY <1>1, PendingDue
<1>3. PICK g, G : Deep(up, g, G)
  BY SoundDeep DEF Good
<1>. DEFINE T == {k \in Node : now[k] = due[k]}
<1>4. \A k \in Node : (up[k] # NULL => up[k] \in T) => k \in T
  BY <1>2 DEF IsDue
<1>5. Node \subseteq T
  <2>. HIDE DEF T
  <2>. QED  BY <1>3, <1>4, ByClimbing
<1>. QED  BY <1>2, <1>5 DEF IsDue

-----------------------------------------------------------------------------
(* What displace() does to a context. *)

\* The fields of a context after n and what is behind it have moved: seen is the context
\* after n.index(), path are n and its ancestors.
DisplaceFields(d, seen, path, n, delta) ==
  /\ CtxType(d) /\ d.avl = seen.avl /\ d.max_index = seen.max_index /\ d.sound = seen.sound
  /\ d.mod = seen.mod + 1
  /\ \A m \in Node :
       /\ d.at[m] = IF m \in path THEN seen.mod + 1 ELSE seen.at[m]
       /\ d.base_index[m] = IF m \in path /\ seen.base_index[m] >= seen.base_index[n]
                            THEN seen.base_index[m] + delta ELSE seen.base_index[m]
       /\ m \in path => d.offset[m] = 0
       /\ m \notin path => d.offset[m] \in {seen.offset[m], seen.offset[m] + delta}
       /\ m \notin path /\ seen.avl.up[m] \notin path => d.offset[m] = seen.offset[m]

\* Displace, field by field (node.cpp:88-111).
LEMMA DisplaceChanges ==
  ASSUME NEW c, NEW n, NEW delta \in Int, NEW seen, seen = Index(c, n), CtxType(seen),
         seen.avl = c.avl, NEW path, path = AvlPath(c, n), n \in Node
  PROVE  DisplaceFields(Displace(c, n, delta), seen, path, n, delta)
<1>. PICK from : from = seen.base_index[n]
  OBVIOUS
<1>. PICK now : now = seen.mod + 1
  OBVIOUS
<1>. PICK b : b = [m \in Node |-> IF m \in path /\ seen.base_index[m] >= from
                                  THEN seen.base_index[m] + delta ELSE seen.base_index[m]]
  OBVIOUS
<1>. PICK o : o = [m \in Node |->
                    IF m \in path THEN 0
                    ELSE IF /\ m \notin path /\ c.avl.up[m] \in path
                            /\ seen.base_index[m] + seen.offset[m] > from
                         THEN seen.offset[m] + delta ELSE seen.offset[m]]
  OBVIOUS
<1>. PICK t : t = [m \in Node |-> IF m \in path THEN now ELSE seen.at[m]]
  OBVIOUS
<1>1. Displace(c, n, delta) = AtSet(OffsetSet(BaseSet(ModSet(seen, now), b), o), t)
  BY DEF Displace, AtSet, OffsetSet, BaseSet, ModSet
<1>2. /\ seen.mod \in Nat /\ seen.max_index \in Nat /\ seen.avl \in Tables
      /\ seen.sound \in BOOLEAN
      /\ seen.base_index \in [Node -> Int] /\ seen.offset \in [Node -> Int]
      /\ seen.at \in [Node -> Nat]
  BY DEF CtxType
<1>3. now \in Nat
  BY <1>2
<1>4. b \in [Node -> Int]
  BY <1>2
<1>5. o \in [Node -> Int]
  BY <1>2
<1>6. t \in [Node -> Nat]
  BY <1>2, <1>3
<1>7. Displace(c, n, delta) = Context(now, seen.max_index, seen.avl, seen.sound, b, o, t)
  <2>1. seen = Context(seen.mod, seen.max_index, seen.avl, seen.sound, seen.base_index,
                       seen.offset, seen.at)
    BY ContextFields
  <2>. PICK x, a, s : x = seen.max_index /\ a = seen.avl /\ s = seen.sound
    OBVIOUS
  <2>2. ModSet(seen, now) = Context(now, x, a, s, seen.base_index, seen.offset, seen.at)
    BY <2>1, FieldSet
  <2>. QED  BY <1>1, <2>2, FieldSet
<1>. PICK d : d = Displace(c, n, delta)
  OBVIOUS
<1>8. HasFields(d, now, seen.max_index, seen.avl, seen.sound, b, o, t)
  BY <1>7, ContextIs
<1>9. /\ d.mod = now /\ d.max_index = seen.max_index /\ d.avl = seen.avl
      /\ d.sound = seen.sound /\ d.base_index = b /\ d.offset = o /\ d.at = t /\ CtxType(d)
  BY <1>2, <1>3, <1>4, <1>5, <1>6, <1>8 DEF HasFields
<1>. QED  BY <1>9 DEF DisplaceFields

\* d is the context c after n.displace(): indexes have moved by delta or not at all, and
\* so have the numbers stored at the nodes Z, where nothing was pending.
DisplaceDone(d, c, M, Z, n, delta) ==
  /\ Good(d, M) /\ d.avl = c.avl /\ d.max_index = c.max_index /\ Fresh(d, n)
  /\ Fresh(c, n) => d.base_index[n] = c.base_index[n] + delta
  /\ n \in M => Ready(d)
  /\ n \in M /\ Ready(c) => d.mod = c.mod + 1
  /\ \A m \in Node : IndexValues(d)[m] - IndexValues(c)[m] \in {0, delta}
  /\ IndexValues(d)[n] = IndexValues(c)[n] + delta
  /\ \A m \in Z : d.base_index[m] - IndexValues(c)[m] \in {0, delta}

\* What displace() leaves of a good context.
LEMMA DisplaceGood ==
  ASSUME NEW c, NEW M, Good(c, M), NEW n \in Node, NEW delta \in Int,
         NEW d, d = Displace(c, n, delta), NEW Z, Covers(c, Z)
  PROVE  DisplaceDone(d, c, M, Z, n, delta)
<1>. PICK seen : seen = Index(c, n)
  OBVIOUS
<1>. PICK up, P : up = c.avl.up /\ P = AvlPath(c, n)
  OBVIOUS
<1>1. IndexDone(seen, c, M, n) /\ Wider(seen, n, Z)
  BY IndexKeeps
<1>2. /\ Good(seen, M) /\ seen.avl = c.avl /\ seen.max_index = c.max_index
      /\ CtxType(seen) /\ Sound(c.avl, M) /\ seen.sound
      /\ \A m \in Node : seen.at[m] <= seen.mod /\ (up[m] = NULL => seen.offset[m] = 0)
  BY <1>1 DEF IndexDone, Good
<1>3. PICK g, G : Deep(up, g, G)
  BY <1>2, SoundDeep
<1>4. IsPath(P, c, n)
  BY <1>3, AvlPathIs
<1>5. UpClosed(up, P) /\ P \subseteq Node /\ NULL \notin P
  BY <1>4, NullAssumption DEF IsPath, UpClosed
<1>6. DisplaceFields(d, seen, P, n, delta)
  BY <1>2, DisplaceChanges
<1>7. /\ CtxType(d) /\ d.avl = c.avl /\ d.avl.up = up /\ d.max_index = c.max_index /\ d.sound
      /\ d.mod = seen.mod + 1
      /\ \A m \in Node :
           /\ d.at[m] = IF m \in P THEN d.mod ELSE seen.at[m]
           /\ d.base_index[m] = IF m \in P /\ seen.base_index[m] >= seen.base_index[n]
                                THEN seen.base_index[m] + delta ELSE seen.base_index[m]
           /\ m \in P => d.offset[m] = 0
           /\ m \notin P => d.offset[m] \in {seen.offset[m], seen.offset[m] + delta}
           /\ m \notin P /\ up[m] \notin P => d.offset[m] = seen.offset[m]
  BY <1>2, <1>6 DEF DisplaceFields
<1>8. seen.mod \in Nat /\ d.mod \in Nat /\ \A m \in Node : seen.at[m] \in Nat
  BY <1>2, <1>7 DEF CtxType
<1>9. \A m \in Node : Fresh(d, m) <=> m \in P
  BY <1>2, <1>7, <1>8 DEF Fresh
<1>10. Quiet(d, P)
  BY <1>5, <1>7 DEF Quiet
<1>11. \A m \in Node : d.at[m] <= d.mod /\ (up[m] = NULL => d.offset[m] = 0)
  BY <1>2, <1>5, <1>7, <1>8
<1>12. Good(d, M)
  BY <1>2, <1>7, <1>9, <1>10, <1>11 DEF Good, Covers
<1>13. ASSUME n \in M  PROVE Ready(d)
  <2>1. UpClosed(up, M) /\ \A m \in M : up[m] = NULL => m = c.avl.root
    BY <1>2, SoundParents
  <2>2. PICK m \in P : up[m] = NULL
    BY <1>4 DEF IsPath
  <2>3. m \in M
    BY <1>4, <1>13, <2>1 DEF IsPath
  <2>. QED  BY <1>5, <1>7, <1>9, <2>1, <2>2, <2>3 DEF Ready
<1>14. ASSUME n \in M, Ready(c)  PROVE d.mod = c.mod + 1
  BY <1>1, <1>7, <1>14 DEF IndexDone, Later
<1>15. Fresh(d, n) /\ (Fresh(c, n) => d.base_index[n] = c.base_index[n] + delta)
  <2>1. seen.base_index[n] \in Int /\ n \in P
    BY <1>2, <1>4 DEF CtxType, IsPath
  <2>. QED  BY <1>1, <1>7, <1>9, <2>1 DEF IndexDone
\* What index() returns before, and after.
<1>16. PICK Y : Covers(seen, Y) /\ n \in Y /\ Z \subseteq Y
  BY <1>1 DEF Wider
<1>17. P \subseteq Y
  BY <1>2, <1>4, <1>16 DEF IsPath, Covers, Quiet
<1>. PICK old, now : old = Pending(seen) /\ now = Pending(d)
  OBVIOUS
<1>18. IsDue(old, seen, Y) /\ IsDue(now, d, P)
  <2>1. Covers(d, P)
    BY <1>9, <1>10 DEF Covers
  <2>. QED  BY <1>2, <1>12, <1>16, <2>1, PendingDue
<1>19. IndexValues(seen) = IndexValues(c)
  BY <1>1 DEF IndexDone
<1>20. \A m \in Node : /\ seen.base_index[m] \in Int /\ seen.offset[m] \in Int
                       /\ old[m] \in Int /\ now[m] \in Int
                       /\ up[m] # NULL => up[m] \in Node
  BY <1>2, <1>3, <1>18 DEF CtxType, IsDue, Deep, Slot
<1>. DEFINE T == {m \in Node : now[m] - old[m] \in {0, delta}}
<1>21. ASSUME NEW m \in Node, up[m] # NULL => up[m] \in T  PROVE m \in T
  <2>1. CASE m \in P
    <3>1. now[m] = 0 /\ old[m] = 0
      BY <1>17, <1>18, <2>1 DEF IsDue
    <3>. QED  BY <3>1
  <2>2. CASE up[m] = NULL
    <3>1. now[m] = 0 /\ old[m] = 0
      BY <1>2, <1>7, <1>18, <2>2 DEF IsDue
    <3>. QED  BY <3>1
  <2>3. CASE m \notin P /\ up[m] # NULL /\ up[m] \in P
    <3>1. now[up[m]] = 0 /\ old[up[m]] = 0
      BY <1>17, <1>18, <2>3 DEF IsDue
    <3>2. now[m] = d.offset[m] + now[up[m]] /\ old[m] = seen.offset[m] + old[up[m]]
      BY <1>2, <1>7, <1>18, <2>3 DEF IsDue
    <3>. QED  BY <1>7, <1>20, <2>3, <3>1, <3>2
  <2>4. CASE m \notin P /\ up[m] # NULL /\ up[m] \notin P
    <3>1. now[m] = seen.offset[m] + now[up[m]] /\ old[m] = seen.offset[m] + old[up[m]]
      BY <1>2, <1>7, <1>18, <2>4 DEF IsDue
    <3>. QED  BY <1>20, <1>21, <2>4, <3>1
  <2>. QED  BY <2>1, <2>2, <2>3, <2>4
<1>22. \A m \in Node : now[m] - old[m] \in {0, delta}
  <2>1. Node \subseteq T
    <3>. HIDE DEF T
    <3>. QED  BY <1>3, <1>21, ByClimbing
  <2>. QED  BY <2>1
<1>23. ASSUME NEW m \in Node
       PROVE  IndexValues(d)[m] - IndexValues(c)[m] \in {0, delta}
  <2>1. IndexValues(d)[m] = d.base_index[m] + now[m]
        /\ IndexValues(c)[m] = seen.base_index[m] + old[m]
    BY <1>18, <1>19 DEF IsDue
  <2>2. CASE m \in P
    <3>1. now[m] = 0 /\ old[m] = 0
      BY <1>17, <1>18, <2>2 DEF IsDue
    <3>. QED  BY <1>7, <1>20, <2>1, <3>1
  <2>3. CASE m \notin P
    BY <1>7, <1>20, <1>22, <2>1, <2>3
  <2>. QED  BY <2>2, <2>3
<1>24. IndexValues(d)[n] = IndexValues(c)[n] + delta
  <2>1. n \in P
    BY <1>4 DEF IsPath
  <2>2. IndexValues(d)[n] = d.base_index[n] /\ IndexValues(c)[n] = seen.base_index[n]
    BY <1>16, <1>18, <1>19, <2>1 DEF IsDue
  <2>. QED  BY <1>7, <1>20, <2>1, <2>2
<1>25. ASSUME NEW m \in Z  PROVE d.base_index[m] - IndexValues(c)[m] \in {0, delta}
  <2>1. m \in Node /\ IndexValues(c)[m] = seen.base_index[m]
    BY <1>16, <1>18, <1>19 DEF IsDue
  <2>. QED  BY <1>7, <1>20, <2>1
<1>. QED  BY <1>7, <1>12, <1>13, <1>14, <1>15, <1>23, <1>24, <1>25 DEF DisplaceDone

-----------------------------------------------------------------------------
(* Who is hung below whom by an insertion into the AVL tree. *)

\* Only nodes of P and below P get another parent, and it is one of P, unless a node of P
\* becomes the root.
ParentsFrom(u, t, P) ==
  /\ u.root = t.root \/ u.root \in P
  /\ \A m \in Node : \/ u.up[m] = t.up[m]
                     \/ m \in P /\ u.up[m] \in P \cup {NULL}
                     \/ t.up[m] \in P /\ u.up[m] \in P

\* A rotation involves the lopsided node, its child and, when that leans the other way,
\* its grandchild.
LEMMA RotationParents ==
  ASSUME NEW t, NEW M, NEW h, NEW H, NEW y, NEW s, Lopsided(t, M, h, H, y, s),
         t.bal[y] = IF s = 0 THEN -2 ELSE 2,
         NEW P, y \in P, t.link[y][s] \in P, t.up[y] \in P \cup {NULL},
         t.bal[t.link[y][s]] = -Heavy(s) => t.link[t.link[y][s]][1 - s] \in P
  PROVE  ParentsFrom(Rebalance(t, y), t, P)
<1>. PICK x, w : x = t.link[y][s] /\ w = t.link[x][1 - s]
  OBVIOUS
<1>1. TableType(t) /\ s \in Sides /\ y \in M
  BY DEF Lopsided
<1>2. Family(t, M, y, s, x)
  BY LopsidedFamily
<1>3. x \in Node /\ y \in Node /\ x # y /\ t.up[y] # x /\ t.up[y] # y /\ t.bal[x] # 0
  BY <1>2 DEF Family, Lopsided
<1>4. Rebalance(t, y) = IF t.bal[x] = Heavy(s) THEN SingleRotation(t, y, s)
                        ELSE DoubleRotation(t, y, s)
  <2>1. CASE s = 0
    BY <2>1 DEF Rebalance, Heavy
  <2>2. CASE s = 1
    BY <2>2 DEF Rebalance, Heavy
  <2>. QED  BY <1>1, <2>1, <2>2 DEF Sides
<1>5. CASE t.bal[x] = Heavy(s)
  <2>. DEFINE u == SingleRotation(t, y, s)
  <2>1. IsSingle(u, t, s, y, x)
    BY <1>1, <1>3, SingleFields
  <2>. HIDE DEF u
  <2>2. ParentsFrom(u, t, P)
    <3>1. \A m \in Node : m = t.link[x][1 - s] => t.up[m] = x
      BY <1>2, NullAssumption DEF Family
    <3>. QED  BY <2>1, <3>1 DEF IsSingle, ParentsFrom
  <2>. QED  BY <1>4, <1>5, <2>2 DEF u
<1>6. CASE t.bal[x] # Heavy(s)
  <2>. DEFINE u == DoubleRotation(t, y, s)
  <2>1. t.bal[x] = -Heavy(s)
    <3>1. Differing(t, h, x, s)
      BY <1>3, LopsidedDiffer
    <3>. QED  BY <1>3, <1>6, <3>1, SMTT(30) DEF Differing, Heavy
  <2>2. InnerFamily(t, M, h, y, s, x, w)
    BY <2>1, LopsidedInner, SMTT(60)
  <2>3. w \in Node /\ w # x /\ w # y /\ t.up[y] # w /\ w \in P
    BY <2>1, <2>2 DEF InnerFamily
  <2>4. IsDouble(u, t, s, y, x, w)
    BY <1>1, <1>3, <2>3, DoubleFields
  <2>. HIDE DEF u
  <2>5. ParentsFrom(u, t, P)
    <3>1. \A m \in Node : m \in {t.link[w][s], t.link[w][1 - s]} => t.up[m] = w
      BY <2>2, NullAssumption DEF InnerFamily
    <3>. QED  BY <2>3, <2>4, <3>1, ZenonT(60) DEF IsDouble, ParentsFrom
  <2>. QED  BY <1>4, <1>6, <2>5 DEF u
<1>. QED  BY <1>5, <1>6

\* After the balances have moved, the rotation stays on the path of the search.
LEMMA GrownParents ==
  ASSUME NEW t, NEW M, NEW h, NEW H, NEW rank, NEW n, NEW p, NEW j, NEW v, NEW u,
         Growing(t, M, h, H, rank, n, p, j, v, u), NEW P, P = ToSet(p) \cup {n}
  PROVE  ParentsFrom(Rebalance(u, p[j]), t, P)
<1>. PICK k : k = rank[n]
  OBVIOUS
<1>1. /\ TableType(t) /\ Linked(t, M) /\ n \in Node \ M /\ j \in 1 .. Len(p)
      /\ Walked(t, M, h, rank, k, p)
      /\ \A i \in 1 .. Len(p) : i > j => t.bal[p[i]] = 0
      /\ IsLeafed(v, t, p[Len(p)], Turn(rank, k, p[Len(p)]), n)
      /\ IsTilted(u, v, rank, k, p, j)
  BY DEF Growing
<1>2. OnPath(t, M, rank, k, p, j)
  BY GrowingPath
<1>3. Len(p) \in Nat \ {0} /\ Len(p) \in 1 .. Len(p) /\ p \in Seq(M) /\ p[1] = t.root
      /\ j \in Nat /\ \A i \in 1 .. Len(p) : p[i] \in P /\ p[i] \in Node /\ p[i] # n /\ p[i] \in M
  BY <1>1, <1>2 DEF OnPath, Walked, ToSet
<1>4. /\ u.root = t.root /\ n \in P
      /\ \A m \in Node :
           /\ u.up[m] = IF m = n THEN p[Len(p)] ELSE t.up[m]
           /\ \A i \in Sides : u.link[m][i] = IF m = p[Len(p)] /\ i = Turn(rank, k, p[Len(p)])
                                              THEN n ELSE t.link[m][i]
  BY <1>1 DEF IsLeafed, IsTilted
\* The child of a node of the path towards the leaf is on the path, or the leaf.
<1>5. \A i \in 1 .. Len(p) :
        u.link[p[i]][Turn(rank, k, p[i])] = IF i = Len(p) THEN n ELSE p[i + 1]
  <2>. SUFFICES ASSUME NEW i \in 1 .. Len(p)
                PROVE  u.link[p[i]][Turn(rank, k, p[i])] = IF i = Len(p) THEN n ELSE p[i + 1]
    OBVIOUS
  <2>1. p[i] \in Node /\ Turn(rank, k, p[i]) \in Sides
    BY <1>2 DEF OnPath
  <2>2. CASE i = Len(p)
    BY <1>4, <2>1, <2>2
  <2>3. CASE i # Len(p)
    <3>1. i \in 1 .. Len(p) - 1 /\ p[i] # p[Len(p)]
      BY <1>2, <1>3, <2>3 DEF OnPath
    <3>2. p[i + 1] = t.link[p[i]][Turn(rank, k, p[i])]
      BY <1>2, <3>1 DEF OnPath
    <3>. QED  BY <1>4, <2>1, <2>3, <3>1, <3>2
  <2>. QED  BY <2>2, <2>3
<1>. PICK y, s : y = p[j] /\ s = Turn(rank, k, p[j])
  OBVIOUS
<1>. PICK g : g = Raised(h, Risen(t, p, j))
  OBVIOUS
<1>6. GrownTable(u, M \cup {n}, g, H + 1, y, s)
  BY GrownSound
<1>7. y \in P /\ y \in Node /\ y # n /\ u.up[y] \in P \cup {NULL}
  <2>1. y \in P /\ y \in Node /\ y # n /\ y \in M
    BY <1>1, <1>3
  <2>2. u.up[y] = t.up[y]
    BY <1>4, <2>1
  <2>3. CASE j = 1
    BY <1>1, <1>3, <2>1, <2>2, <2>3 DEF Linked
  <2>4. CASE j # 1
    <3>1. j - 1 \in 1 .. Len(p) - 1 /\ j - 1 \in 1 .. Len(p) /\ (j - 1) + 1 = j
      BY <1>1, <1>3, <2>4
    <3>2. t.up[p[j]] = p[j - 1]
      BY <1>2, <3>1 DEF OnPath
    <3>. QED  BY <1>3, <2>1, <2>2, <3>1, <3>2
  <2>. QED  BY <2>1, <2>3, <2>4
<1>8. CASE Balanceable(u, g, H + 1)
  <2>1. u.bal[y] \in -1 .. 1
    BY <1>7, <1>8 DEF Balanceable
  <2>2. Rebalance(u, p[j]) = u
    BY <2>1 DEF Rebalance
  <2>3. ParentsFrom(u, t, P)
    BY <1>3, <1>4 DEF ParentsFrom
  <2>. QED  BY <2>2, <2>3
<1>9. CASE ~Balanceable(u, g, H + 1)
  <2>1. Lopsided(u, M \cup {n}, g, H + 1, y, s) /\ u.bal[y] = IF s = 0 THEN -2 ELSE 2
    BY <1>6, <1>9 DEF GrownTable
  <2>. PICK x : x = u.link[y][s]
    OBVIOUS
  <2>2. x = IF j = Len(p) THEN n ELSE p[j + 1]
    BY <1>1, <1>5
  <2>3. x \in P /\ u.bal[x] # 0
    <3>1. j # Len(p) => j + 1 \in 1 .. Len(p)
      BY <1>1, <1>3
    <3>. QED  BY <1>3, <1>4, <2>1, <2>2, <3>1 DEF Lopsided
  <2>4. ASSUME u.bal[x] = -Heavy(s)  PROVE u.link[x][1 - s] \in P
    <3>1. j # Len(p)
      <4>. SUFFICES ASSUME j = Len(p)  PROVE FALSE
        OBVIOUS
      <4>1. x = n /\ v.bal[n] = 0 /\ \A i \in j .. Len(p) : p[i] # n
        BY <1>1, <1>3, <2>2 DEF IsLeafed
      <4>2. u.bal[n] = v.bal[n]
        BY <1>1, <4>1 DEF IsTilted
      <4>. QED  BY <2>3, <4>1, <4>2
    <3>. PICK i : i = j + 1
      OBVIOUS
    <3>2. i \in 1 .. Len(p) /\ i \in j .. Len(p) /\ i > j /\ x = p[i]
      BY <1>1, <1>3, <2>2, <3>1
    <3>3. t.bal[p[i]] = 0 /\ v.bal[p[i]] = t.bal[p[i]]
      BY <1>1, <1>3, <3>2 DEF IsLeafed
    <3>4. u.bal[p[i]] = v.bal[p[i]] + Heavy(Turn(rank, k, p[i]))
      BY <1>1, <3>2 DEF IsTilted
    <3>5. Turn(rank, k, p[i]) = 1 - s
      <4>1. Turn(rank, k, p[i]) \in Sides /\ s \in Sides
        BY <1>1, <1>2, <3>2 DEF OnPath
      <4>2. Heavy(Turn(rank, k, p[i])) = -Heavy(s)
        BY <2>4, <3>2, <3>3, <3>4, <4>1 DEF Heavy, Sides
      <4>. QED  BY <4>1, <4>2 DEF Heavy, Sides
    <3>6. u.link[x][1 - s] = IF i = Len(p) THEN n ELSE p[i + 1]
      BY <1>5, <3>2, <3>5
    <3>7. i # Len(p) => i + 1 \in 1 .. Len(p)
      BY <1>3, <3>2
    <3>. QED  BY <1>3, <1>4, <3>6, <3>7
  <2>5. ParentsFrom(Rebalance(u, y), u, P)
    BY <1>7, <2>1, <2>3, <2>4, RotationParents
  <2>. PICK r : r = Rebalance(u, y)
    OBVIOUS
  <2>6. ParentsFrom(r, t, P)
    <3>1. ASSUME NEW m \in Node
          PROVE  \/ r.up[m] = t.up[m]
                 \/ m \in P /\ r.up[m] \in P \cup {NULL}
                 \/ t.up[m] \in P /\ r.up[m] \in P
      BY <1>3, <1>4, <2>5 DEF ParentsFrom
    <3>2. r.root = t.root \/ r.root \in P
      BY <1>4, <2>5 DEF ParentsFrom
    <3>. QED  BY <3>1, <3>2 DEF ParentsFrom
  <2>. QED  BY <2>6
<1>. QED  BY <1>8, <1>9

\* An insertion hangs nodes below the new node and those the search has met.
LEMMA ProbeParents ==
  ASSUME NEW t, NEW M, NEW h, NEW H, NEW rank, NEW n, Probing(t, M, h, H, rank, n),
         NEW p, p = SearchPath(t, rank, rank[n]), NEW P, P = ToSet(p) \cup {n}
  PROVE  ParentsFrom(Probe(t, rank, n), t, P)
<1>1. TableType(t) /\ Linked(t, M) /\ Balanceable(t, h, H) /\ n \in Node \ M
  BY DEF Probing
<1>2. CASE t.root = NULL
  <2>1. Probe(t, rank, n) = FirstItem(t, n)
    BY <1>2 DEF Probe, FirstItem
  <2>. PICK u : u = FirstItem(t, n)
    OBVIOUS
  <2>2. IsFirst(u, t, M, h, H, n)
    BY <1>1, <1>2, FirstSound
  <2>3. u.root = n /\ M = {} /\ TableType(u) /\ Linked(u, M \cup {n})
    BY <2>2 DEF IsFirst
  <2>4. \A m \in Node : u.up[m] = NULL /\ t.up[m] = NULL
    BY <1>1, <2>3 DEF Linked
  <2>. QED  BY <2>1, <2>3, <2>4 DEF ParentsFrom
<1>3. CASE t.root # NULL /\ rank[p[Len(p)]] = rank[n]
  <2>1. Probe(t, rank, n) = t
    BY <1>3 DEF Probe
  <2>. QED  BY <2>1 DEF ParentsFrom
<1>4. CASE t.root # NULL /\ rank[p[Len(p)]] # rank[n]
  <2>1. PICK j, v, u : ProbeStages(t, M, h, H, rank, n, Probe(t, rank, n), p, j, v, u)
    BY <1>4, ProbeGrows
  <2>2. Growing(t, M, h, H, rank, n, p, j, v, u) /\ Probe(t, rank, n) = Rebalance(u, p[j])
    BY <2>1 DEF ProbeStages
  <2>. QED  BY <2>2, GrownParents
<1>. QED  BY <1>2, <1>3, <1>4

-----------------------------------------------------------------------------
(* Calls of index() on several nodes. *)

\* f[i] is the context after the first i calls.
Called(f, c, p, k) ==
  /\ f[0] = c
  /\ \A i \in 1 .. k : f[i] = Index(f[i - 1], p[i])

\* IndexAlong is the last of such contexts.
LEMMA AlongIs ==
  ASSUME NEW c, NEW X, NEW p \in Seq(X)
  PROVE  \E f : Called(f, c, p, Len(p)) /\ IndexAlong(c, p) = f[Len(p)]
<1>. PICK N : N = Len(p)
  OBVIOUS
<1>1. N \in Nat
  OBVIOUS
<1>. DEFINE Down(f) == f = [i \in 0 .. N |-> IF i = 0 THEN c ELSE Index(f[i - 1], p[i])]
            T == {k \in 0 .. N : \E f : f = [i \in 0 .. N |-> f[i]] /\ Called(f, c, p, k)}
<1>2. 0 \in T
  <2>. DEFINE f == [i \in 0 .. N |-> c]
  <2>1. f = [i \in 0 .. N |-> f[i]] /\ Called(f, c, p, 0)
    BY <1>1 DEF Called
  <2>. HIDE DEF f
  <2>. QED  BY <1>1, <2>1
<1>3. ASSUME NEW k \in 0 .. N - 1, k \in T
      PROVE  k + 1 \in T
  <2>1. PICK f : f = [i \in 0 .. N |-> f[i]] /\ Called(f, c, p, k)
    BY <1>3
  <2>. DEFINE g == [i \in 0 .. N |-> IF i = k + 1 THEN Index(f[k], p[k + 1]) ELSE f[i]]
  <2>2. g = [i \in 0 .. N |-> g[i]]
    OBVIOUS
  <2>3. \A i \in 0 .. N : g[i] = IF i = k + 1 THEN Index(f[k], p[k + 1]) ELSE f[i]
    OBVIOUS
  <2>. HIDE DEF g
  <2>4. ASSUME NEW i \in 1 .. k + 1  PROVE g[i] = Index(g[i - 1], p[i])
    <3>1. i \in 0 .. N /\ i - 1 \in 0 .. N /\ i - 1 # k + 1 /\ k \in Int
      BY <1>1
    <3>2. g[i - 1] = f[i - 1]
      BY <2>3, <3>1
    <3>3. CASE i = k + 1
      <4>1. i - 1 = k
        BY <3>1, <3>3
      <4>. QED  BY <2>3, <3>1, <3>2, <3>3, <4>1
    <3>4. CASE i # k + 1
      <4>1. i \in 1 .. k /\ g[i] = f[i]
        BY <2>3, <3>1, <3>4
      <4>. QED  BY <2>1, <3>2, <4>1 DEF Called
    <3>. QED  BY <3>3, <3>4
  <2>5. g[0] = c
    <3>1. 0 \in 0 .. N /\ 0 # k + 1
      BY <1>1
    <3>. QED  BY <2>1, <2>3, <3>1 DEF Called
  <2>6. Called(g, c, p, k + 1)
    BY <2>4, <2>5 DEF Called
  <2>7. k + 1 \in 0 .. N
    BY <1>1
  <2>. QED  BY <2>2, <2>6, <2>7
<1>4. N \in T
  <2>. HIDE DEF T
  <2>1. 0 .. N \subseteq T
    BY <1>1, <1>2, <1>3, Reaches
  <2>. QED  BY <1>1, <2>1
<1>5. \E f : Down(f)
  <2>1. PICK f : f = [i \in 0 .. N |-> f[i]] /\ Called(f, c, p, N)
    BY <1>4
  <2>2. ASSUME NEW i \in 0 .. N  PROVE f[i] = IF i = 0 THEN c ELSE Index(f[i - 1], p[i])
    <3>1. i # 0 => i \in 1 .. N
      BY <1>1
    <3>. QED  BY <2>1, <3>1 DEF Called
  <2>. QED  BY <2>1, <2>2
<1>6. IndexAlong(c, p) = (CHOOSE f : Down(f))[Len(p)]
  BY DEF IndexAlong
<1>7. PICK f : Down(f) /\ IndexAlong(c, p) = f[Len(p)]
  BY <1>5, <1>6, Zenon
<1>8. Called(f, c, p, N)
  <2>1. f[0] = c
    BY <1>1, <1>7
  <2>2. \A i \in 1 .. N : f[i] = Index(f[i - 1], p[i])
    BY <1>1, <1>7
  <2>. QED  BY <2>1, <2>2 DEF Called
<1>. QED  BY <1>7, <1>8

\* d is the context c after index() of the first k nodes of q; nothing is pending at them,
\* nor at the nodes Z.
AlongDone(d, c, M, Z, q, k) ==
  /\ Good(d, M) /\ d.avl = c.avl /\ d.max_index = c.max_index
  /\ \E Y : Covers(d, Y) /\ Z \subseteq Y /\ \A i \in 1 .. k : q[i] \in Y
  /\ Ready(c) /\ (\A i \in 1 .. k : q[i] \in M \/ Fresh(c, q[i])) =>
       Later(d, c) /\ \A i \in 1 .. k : Fresh(d, q[i])
  /\ IndexValues(d) = IndexValues(c)

\* While the root is up to date, no node read later makes the others out of date.
LEMMA AlongGood ==
  ASSUME NEW c, NEW M, Good(c, M), NEW Z, Covers(c, Z), NEW q \in Seq(Node)
  PROVE  AlongDone(IndexAlong(c, q), c, M, Z, q, Len(q))
<1>. PICK N : N = Len(q)
  OBVIOUS
<1>1. N \in Nat /\ \A i \in 1 .. N : q[i] \in Node
  OBVIOUS
<1>2. PICK f : Called(f, c, q, N) /\ IndexAlong(c, q) = f[N]
  BY AlongIs
<1>. DEFINE T == {k \in 0 .. N : AlongDone(f[k], c, M, Z, q, k)}
<1>3. 0 \in T
  <2>1. f[0] = c
    BY <1>2 DEF Called
  <2>2. Later(c, c) \/ ~Ready(c)
    BY DEF Later
  <2>. QED  BY <1>1, <2>1, <2>2 DEF AlongDone
<1>4. ASSUME NEW k \in 0 .. N - 1, k \in T
      PROVE  k + 1 \in T
  <2>. PICK a, b, n, l : a = f[k] /\ b = f[k + 1] /\ n = q[k + 1] /\ l = k + 1
    OBVIOUS
  <2>1. l \in 1 .. N /\ l - 1 = k /\ k \in Nat /\ l \in 0 .. N /\ n = q[l]
        /\ \A i \in 1 .. l : i \in 1 .. N /\ (i = l \/ i \in 1 .. k)
    BY <1>1
  <2>2. b = Index(a, n) /\ n \in Node
    BY <1>1, <1>2, <2>1 DEF Called
  <2>3. AlongDone(a, c, M, Z, q, k)
    BY <1>4
  <2>4. PICK Y : Covers(a, Y) /\ Z \subseteq Y /\ \A i \in 1 .. k : q[i] \in Y
    BY <2>3 DEF AlongDone
  <2>5. IndexDone(b, a, M, n) /\ Wider(b, n, Y)
    BY <2>2, <2>3, <2>4, IndexKeeps DEF AlongDone
  <2>6. /\ Good(b, M) /\ Fresh(b, n) /\ b.avl = a.avl /\ b.max_index = a.max_index
        /\ (n \in M \/ Fresh(a, n)) /\ Ready(a) => Later(b, a)
        /\ IndexValues(b) = IndexValues(a)
    BY <2>5 DEF IndexDone
  <2>7. PICK X : Covers(b, X) /\ n \in X /\ Y \subseteq X
    BY <2>5 DEF Wider
  <2>8. \A i \in 1 .. l : q[i] \in X
    BY <2>1, <2>4, <2>7
  <2>9. ASSUME Ready(c), \A i \in 1 .. l : q[i] \in M \/ Fresh(c, q[i])
        PROVE  Later(b, c) /\ \A i \in 1 .. l : Fresh(b, q[i])
    <3>1. 1 .. k \subseteq 1 .. l
      BY <2>1
    <3>2. Later(a, c) /\ \A i \in 1 .. k : Fresh(a, q[i])
      BY <2>3, <2>9, <3>1 DEF AlongDone
    <3>3. n \in M \/ Fresh(a, n)
      BY <2>1, <2>2, <2>9, <3>2 DEF Later
    <3>4. Later(b, a)
      BY <2>6, <3>2, <3>3 DEF Later
    <3>5. Later(b, c)
      BY <3>2, <3>4 DEF Later
    <3>6. ASSUME NEW i \in 1 .. l  PROVE Fresh(b, q[i])
      BY <1>1, <2>1, <2>6, <3>2, <3>4 DEF Later
    <3>. QED  BY <3>5, <3>6
  <2>10. AlongDone(b, c, M, Z, q, l)
    BY <2>3, <2>4, <2>6, <2>7, <2>8, <2>9 DEF AlongDone
  <2>. QED  BY <2>1, <2>10
<1>5. N \in T
  <2>. HIDE DEF T
  <2>1. 0 .. N \subseteq T
    BY <1>1, <1>3, <1>4, Reaches
  <2>. QED  BY <1>1, <2>1
<1>. QED  BY <1>2, <1>5

\* The contexts of the calls on a set of nodes, from the newest to the oldest.
CalledBack(f, c, nodes, k) ==
  /\ f[MaxNodes + 1] = c
  /\ \A y \in k .. MaxNodes : f[y] = IF y \in nodes THEN Index(f[y + 1], y) ELSE f[y + 1]

\* CallIndex gives all of them.
LEMMA CallsAre ==
  ASSUME NEW c, NEW nodes
  PROVE  CalledBack(CallIndex(c, nodes), c, nodes, 1)
<1>. PICK N : N = MaxNodes + 1
  OBVIOUS
<1>1. MaxNodes \in Nat /\ N \in Nat /\ N - 1 = MaxNodes
  BY NodeAssumption
<1>. DEFINE Value(f, y) == IF y > MaxNodes THEN c
                           ELSE IF y \in nodes THEN Index(f[y + 1], y) ELSE f[y + 1]
            Down(f) == f = [y \in 1 .. MaxNodes + 1 |->
                              IF y > MaxNodes THEN c
                              ELSE IF y \in nodes THEN Index(f[y + 1], y) ELSE f[y + 1]]
            T == {k \in 0 .. MaxNodes : \E f : /\ f = [y \in 1 .. N |-> f[y]]
                                               /\ CalledBack(f, c, nodes, N - k)}
<1>2. 0 \in T
  <2>. DEFINE f == [y \in 1 .. N |-> c]
  <2>1. f = [y \in 1 .. N |-> f[y]] /\ CalledBack(f, c, nodes, N - 0)
    BY <1>1 DEF CalledBack
  <2>. HIDE DEF f
  <2>. QED  BY <1>1, <2>1
<1>3. ASSUME NEW k \in 0 .. MaxNodes - 1, k \in T
      PROVE  k + 1 \in T
  <2>1. PICK f : f = [y \in 1 .. N |-> f[y]] /\ CalledBack(f, c, nodes, N - k)
    BY <1>3
  <2>. PICK l : l = N - (k + 1)
    OBVIOUS
  <2>2. l \in 1 .. MaxNodes /\ l + 1 = N - k /\ l + 1 \in 1 .. N /\ l \in 1 .. N /\ k + 1 \in 0 .. MaxNodes
        /\ l # N
    BY <1>1
  <2>. DEFINE g == [y \in 1 .. N |-> IF y = l THEN Value(f, l) ELSE f[y]]
  <2>3. g = [y \in 1 .. N |-> g[y]]
    OBVIOUS
  <2>4. \A y \in 1 .. N : g[y] = IF y = l THEN Value(f, l) ELSE f[y]
    OBVIOUS
  <2>. HIDE DEF g
  <2>5. Value(f, l) = IF l \in nodes THEN Index(f[l + 1], l) ELSE f[l + 1]
    BY <1>1, <2>2
  <2>. HIDE DEF Value
  <2>6. ASSUME NEW y \in l .. MaxNodes
        PROVE  g[y] = IF y \in nodes THEN Index(g[y + 1], y) ELSE g[y + 1]
    <3>1. y \in 1 .. N /\ y + 1 \in 1 .. N /\ y + 1 # l
      BY <1>1, <2>2
    <3>2. g[y + 1] = f[y + 1]
      BY <2>4, <3>1
    <3>3. CASE y = l
      BY <2>4, <2>5, <3>1, <3>2, <3>3
    <3>4. CASE y # l
      <4>1. y \in N - k .. MaxNodes /\ g[y] = f[y]
        BY <1>1, <2>2, <2>4, <3>1, <3>4
      <4>. QED  BY <2>1, <3>2, <4>1 DEF CalledBack
    <3>. QED  BY <3>3, <3>4
  <2>7. g[N] = c
    <3>1. N \in 1 .. N
      BY <1>1
    <3>. QED  BY <2>1, <2>2, <2>4, <3>1 DEF CalledBack
  <2>8. CalledBack(g, c, nodes, l)
    BY <2>6, <2>7 DEF CalledBack
  <2>. QED  BY <2>2, <2>3, <2>8
<1>4. MaxNodes \in T
  <2>. HIDE DEF T
  <2>1. 0 .. MaxNodes \subseteq T
    BY <1>1, <1>2, <1>3, Reaches
  <2>. QED  BY <1>1, <2>1
<1>5. \E f : Down(f)
  <2>1. PICK f : f = [y \in 1 .. N |-> f[y]] /\ CalledBack(f, c, nodes, N - MaxNodes)
    BY <1>4
  <2>2. N - MaxNodes = 1
    BY <1>1
  <2>3. ASSUME NEW y \in 1 .. N  PROVE f[y] = Value(f, y)
    <3>1. CASE y = N
      BY <1>1, <2>1, <3>1 DEF CalledBack
    <3>2. CASE y # N
      <4>1. y \in 1 .. MaxNodes /\ ~(y > MaxNodes)
        BY <1>1, <3>2
      <4>. QED  BY <2>1, <2>2, <4>1 DEF CalledBack
    <3>. QED  BY <3>1, <3>2
  <2>. QED  BY <2>1, <2>3
<1>6. CallIndex(c, nodes) = CHOOSE f : Down(f)
  BY DEF CallIndex
<1>7. PICK f : Down(f) /\ CallIndex(c, nodes) = f
  BY <1>5, <1>6, Zenon
<1>8. CalledBack(f, c, nodes, 1)
  <2>1. MaxNodes + 1 \in 1 .. MaxNodes + 1 /\ MaxNodes + 1 > MaxNodes
    BY <1>1
  <2>2. f[MaxNodes + 1] = c
    BY <1>7, <2>1
  <2>3. ASSUME NEW y \in 1 .. MaxNodes
        PROVE  f[y] = IF y \in nodes THEN Index(f[y + 1], y) ELSE f[y + 1]
    <3>1. y \in 1 .. MaxNodes + 1 /\ ~(y > MaxNodes)
      BY <1>1
    <3>. QED  BY <1>7, <3>1
  <2>. QED  BY <2>2, <2>3 DEF CalledBack
<1>. QED  BY <1>7, <1>8

\* d is the context c after index() of some nodes.
CallsDone(d, c, M, nodes) ==
  /\ Good(d, M) /\ d.avl = c.avl /\ d.max_index = c.max_index
  /\ nodes \subseteq M /\ Ready(c) => d.mod = c.mod /\ Ready(d)
  /\ IndexValues(d) = IndexValues(c)

\* What calls of index() leave of a good context.
LEMMA CallsGood ==
  ASSUME NEW c, NEW M, Good(c, M), NEW nodes \in SUBSET Node
  PROVE  CallsDone(CallIndex(c, nodes)[1], c, M, nodes)
<1>. PICK f : f = CallIndex(c, nodes)
  OBVIOUS
<1>1. CalledBack(f, c, nodes, 1)
  BY CallsAre
<1>2. MaxNodes \in Nat /\ Node = 1 .. MaxNodes
  BY NodeAssumption
<1>. DEFINE T == {k \in 0 .. MaxNodes : CallsDone(f[(MaxNodes + 1) - k], c, M, nodes)}
<1>3. 0 \in T
  <2>1. f[MaxNodes + 1] = c /\ (MaxNodes + 1) - 0 = MaxNodes + 1
    BY <1>1, <1>2 DEF CalledBack
  <2>. QED  BY <1>2, <2>1 DEF CallsDone
<1>4. ASSUME NEW k \in 0 .. MaxNodes - 1, k \in T
      PROVE  k + 1 \in T
  <2>. PICK y : y = (MaxNodes + 1) - (k + 1)
    OBVIOUS
  <2>1. y \in Node /\ y \in 1 .. MaxNodes /\ (MaxNodes + 1) - k = y + 1 /\ k + 1 \in 0 .. MaxNodes
    BY <1>2
  <2>. PICK a, b : a = f[y + 1] /\ b = f[y]
    OBVIOUS
  <2>2. CallsDone(a, c, M, nodes)
    BY <1>4, <2>1
  <2>3. b = IF y \in nodes THEN Index(a, y) ELSE a
    BY <1>1, <2>1 DEF CalledBack
  <2>4. CallsDone(b, c, M, nodes)
    <3>1. CASE y \in nodes
      <4>1. IndexDone(b, a, M, y)
        BY <2>1, <2>2, <2>3, <3>1, IndexGood DEF CallsDone
      <4>. QED  BY <2>2, <3>1, <4>1 DEF CallsDone, IndexDone, Later
    <3>2. CASE y \notin nodes
      BY <2>2, <2>3, <3>2
    <3>. QED  BY <3>1, <3>2
  <2>. QED  BY <2>1, <2>4
<1>5. MaxNodes \in T
  <2>. HIDE DEF T
  <2>1. 0 .. MaxNodes \subseteq T
    BY <1>2, <1>3, <1>4, Reaches
  <2>. QED  BY <1>2, <2>1
<1>6. (MaxNodes + 1) - MaxNodes = 1
  BY <1>2
<1>. QED  BY <1>5, <1>6

-----------------------------------------------------------------------------
(* What the insertion into the AVL tree does to a context. *)

\* c with the node n, of the index i and up to date.
Placed(c, n, i) == [c EXCEPT !.base_index[n] = i, !.offset[n] = 0, !.at[n] = c.mod]

\* Its fields.
PlacedFields(e, c, n, i) ==
  /\ CtxType(e) /\ e.avl = c.avl /\ e.max_index = c.max_index /\ e.sound = c.sound
  /\ e.mod = c.mod
  /\ e.offset = [c.offset EXCEPT ![n] = 0]
  /\ \A m \in Node : /\ e.base_index[m] = IF m = n THEN i ELSE c.base_index[m]
                     /\ e.at[m] = IF m = n THEN c.mod ELSE c.at[m]

\* Placed, field by field.
LEMMA PlacedChanges ==
  ASSUME NEW c, CtxType(c), NEW n \in Node, NEW i \in Int
  PROVE  PlacedFields(Placed(c, n, i), c, n, i)
<1>1. /\ c.mod \in Nat /\ c.max_index \in Nat /\ c.avl \in Tables /\ c.sound \in BOOLEAN
      /\ c.base_index \in [Node -> Int] /\ c.offset \in [Node -> Int] /\ c.at \in [Node -> Nat]
  BY DEF CtxType
<1>. PICK b, o, t : b = [c.base_index EXCEPT ![n] = i] /\ o = [c.offset EXCEPT ![n] = 0]
                    /\ t = [c.at EXCEPT ![n] = c.mod]
  OBVIOUS
<1>2. Placed(c, n, i) = AtSet(OffsetSet(BaseSet(c, b), o), t)
  BY DEF Placed, BaseSet, OffsetSet, AtSet, CtxType
<1>3. Placed(c, n, i) = Context(c.mod, c.max_index, c.avl, c.sound, b, o, t)
  <2>1. c = Context(c.mod, c.max_index, c.avl, c.sound, c.base_index, c.offset, c.at)
    BY ContextFields
  <2>. PICK k, x, a, s : k = c.mod /\ x = c.max_index /\ a = c.avl /\ s = c.sound
    OBVIOUS
  <2>2. BaseSet(c, b) = Context(k, x, a, s, b, c.offset, c.at)
    BY <2>1, FieldSet
  <2>. QED  BY <1>2, <2>2, FieldSet
<1>. PICK e : e = Placed(c, n, i)
  OBVIOUS
<1>4. HasFields(e, c.mod, c.max_index, c.avl, c.sound, b, o, t)
  BY <1>3, ContextIs
<1>5. b \in [Node -> Int] /\ o \in [Node -> Int] /\ t \in [Node -> Nat]
  BY <1>1
<1>6. /\ e.mod = c.mod /\ e.max_index = c.max_index /\ e.avl = c.avl
      /\ e.sound = c.sound /\ e.base_index = b /\ e.offset = o /\ e.at = t /\ CtxType(e)
  BY <1>1, <1>4, <1>5 DEF HasFields
<1>7. \A m \in Node : b[m] = (IF m = n THEN i ELSE c.base_index[m])
                      /\ t[m] = (IF m = n THEN c.mod ELSE c.at[m])
  BY <1>1
<1>. QED  BY <1>6, <1>7 DEF PlacedFields

\* e is the context c with the node n that is not in the AVL tree yet.
PlacedDone(e, c, M, n, i) ==
  /\ Good(e, M) /\ e.avl = c.avl /\ e.max_index = c.max_index /\ e.mod = c.mod
  /\ Fresh(e, n) /\ (Ready(c) => Ready(e))
  /\ \A m \in Node : IndexValues(e)[m] = IF m = n THEN i ELSE IndexValues(c)[m]

\* A node that is alone may be up to date with nothing pending.
LEMMA PlacedGood ==
  ASSUME NEW c, NEW M, Good(c, M), NEW n \in Node \ M, NEW i \in Int, NEW e, e = Placed(c, n, i)
  PROVE  PlacedDone(e, c, M, n, i)
<1>. PICK up : up = c.avl.up
  OBVIOUS
<1>1. CtxType(c) /\ Sound(c.avl, M) /\ c.sound
      /\ \A m \in Node : c.at[m] <= c.mod /\ (up[m] = NULL => c.offset[m] = 0)
  BY DEF Good
<1>2. PICK Z : Quiet(c, Z) /\ \A m \in Node : Fresh(c, m) => m \in Z
  BY DEF Good, Covers
<1>3. PlacedFields(e, c, n, i)
  BY <1>1, PlacedChanges
<1>4. /\ CtxType(e) /\ e.avl = c.avl /\ e.avl.up = up /\ e.max_index = c.max_index
      /\ e.sound = c.sound /\ e.mod = c.mod /\ e.offset = [c.offset EXCEPT ![n] = 0]
      /\ \A m \in Node : /\ e.base_index[m] = IF m = n THEN i ELSE c.base_index[m]
                         /\ e.at[m] = IF m = n THEN c.mod ELSE c.at[m]
  BY <1>3 DEF PlacedFields
<1>5. c.mod \in Nat
  BY <1>1 DEF CtxType
<1>6. up[n] = NULL /\ c.avl.root \in M \cup {NULL} /\ M \subseteq Node
  BY <1>1 DEF Sound, Linked
<1>7. Fresh(e, n) /\ \A m \in Node : m # n => (Fresh(e, m) <=> Fresh(c, m))
  BY <1>4, <1>5 DEF Fresh
<1>8. e.offset = c.offset
  BY <1>1, <1>4, <1>6 DEF CtxType
<1>9. Covers(e, Z \cup {n})
  <2>1. UpClosed(up, Z \cup {n})
    BY <1>2, <1>6 DEF Quiet, UpClosed
  <2>2. \A m \in Z : m \in Node
    BY <1>2 DEF Quiet, UpClosed
  <2>3. c.offset[n] = 0
    BY <1>1, <1>6
  <2>. QED  BY <1>2, <1>4, <1>7, <1>8, <2>1, <2>2, <2>3 DEF Covers, Quiet
<1>10. \A m \in Node : e.at[m] <= e.mod /\ (up[m] = NULL => e.offset[m] = 0)
  BY <1>1, <1>4, <1>5, <1>8
<1>11. Good(e, M)
  BY <1>1, <1>4, <1>9, <1>10 DEF Good
<1>12. Ready(c) => Ready(e)
  BY <1>4, <1>6, <1>7 DEF Ready
<1>13. ASSUME NEW m \in Node
       PROVE  IndexValues(e)[m] = IF m = n THEN i ELSE IndexValues(c)[m]
  <2>1. CASE m = n
    BY <1>4, <1>7, <1>11, <2>1, FreshValue
  <2>2. CASE m # n
    BY <1>4, <1>8, <1>11, <2>2, SameDue
  <2>. QED  BY <2>1, <2>2
<1>. QED  BY <1>4, <1>7, <1>11, <1>12, <1>13 DEF PlacedDone

-----------------------------------------------------------------------------\* The comparisons of a search read its path and the new node.
ComparedIs(q, path, n) ==
  /\ q \in Seq(Node)
  /\ \A i \in 1 .. Len(q) : q[i] = n \/ \E k \in 1 .. Len(path) : q[i] = path[k]
  /\ \A k \in 1 .. Len(path) : \E i \in 1 .. Len(q) : q[i] = path[k]

LEMMA ComparedNodes ==
  ASSUME NEW path \in Seq(Node), NEW n \in Node
  PROVE  ComparedIs(Compared(path, n), path, n)
<1>. PICK q, L : q = Compared(path, n) /\ L = Len(path)
  OBVIOUS
<1>1. L \in Nat /\ \A k \in 1 .. L : path[k] \in Node
  OBVIOUS
<1>2. q = [i \in 1 .. 2 * L |-> IF i % 2 = 1 THEN path[(i + 1) \div 2] ELSE n]
  BY DEF Compared
<1>3. ASSUME NEW i \in 1 .. 2 * L, i % 2 = 1  PROVE (i + 1) \div 2 \in 1 .. L
  BY <1>1, <1>3
<1>4. \A i \in 1 .. 2 * L : q[i] = n \/ \E k \in 1 .. L : q[i] = path[k]
  BY <1>2, <1>3
<1>5. 2 * L \in Nat /\ \A i \in 1 .. 2 * L : q[i] \in Node
  BY <1>1, <1>4
<1>6. q \in Seq(Node) /\ Len(q) = 2 * L
  BY <1>2, <1>5
<1>7. ASSUME NEW k \in 1 .. L  PROVE \E i \in 1 .. 2 * L : q[i] = path[k]
  <2>1. 2 * k - 1 \in 1 .. 2 * L /\ (2 * k - 1) % 2 = 1 /\ ((2 * k - 1) + 1) \div 2 = k
    BY <1>1
  <2>. QED  BY <1>2, <2>1
<1>. QED  BY <1>4, <1>6, <1>7 DEF ComparedIs

\* r is the context c after the new node n has been inserted; the AVL tree keeps it, or has
\* met a node of the same index.
EnterDone(r, c, M, n, i) ==
  /\ r.max_index = c.max_index
  /\ \/ Good(r, M) /\ r.avl.count = c.avl.count
     \/ Good(r, M \cup {n}) /\ r.avl.count = c.avl.count + 1
  /\ Ready(c) => r.mod = c.mod /\ Ready(r)
  /\ \A m \in Node : IndexValues(r)[m] = IF m = n THEN i ELSE IndexValues(c)[m]

\* What the insertion leaves of a good context.
LEMMA EnterGood ==
  ASSUME NEW c, NEW M, Good(c, M), NEW n \in Node \ M, NEW i \in Int, NEW r, r = Enter(c, n, i)
  PROVE  EnterDone(r, c, M, n, i)
<1>. PICK e : e = Placed(c, n, i)
  OBVIOUS
<1>1. PlacedDone(e, c, M, n, i)
  BY PlacedGood
<1>2. /\ Good(e, M) /\ e.avl = c.avl /\ e.max_index = c.max_index /\ e.mod = c.mod
      /\ Fresh(e, n) /\ (Ready(c) => Ready(e)) /\ Sound(c.avl, M)
  BY <1>1 DEF PlacedDone, Good
<1>. PICK key : key = [m \in Node |-> Compare(IndexValues(e)[m], IndexValues(e)[n])]
  OBVIOUS
<1>. PICK t : t = c.avl
  OBVIOUS
<1>. PICK p, u : p = SearchPath(t, key, 0) /\ u = Probe(t, key, n)
  OBVIOUS
<1>. PICK q : q = Compared(p, n)
  OBVIOUS
<1>. PICK d : d = IndexAlong(e, q)
  OBVIOUS
<1>3. r = AvlSet(d, u)
  <2>1. r = AvlInsert(e, n)
    BY DEF Enter, Placed
  <2>. QED  BY <1>2, <2>1 DEF AvlInsert, AvlSet
<1>4. key[n] = 0
  BY DEF Compare
<1>5. PICK H, h : Probing(t, M, h, H, key, n)
  BY <1>2 DEF Sound, Probing
<1>6. Searched(t, M, key, 0, t.root, p)
  BY <1>5, SearchFrom, SMTT(60) DEF Probing
<1>7. p \in Seq(M) /\ M \subseteq Node /\ NULL \notin Node
      /\ t.root \in M \cup {NULL} /\ t.up[n] = NULL
  <2>1. Linked(t, M)
    BY <1>5 DEF Probing
  <2>. QED  BY <1>2, <1>6, <2>1, NullAssumption DEF Searched, Linked
<1>8. ComparedIs(q, p, n)
  <2>1. p \in Seq(Node)
    BY <1>7
  <2>. QED  BY <2>1, ComparedNodes
<1>9. PICK W : Covers(e, W)
  BY <1>2 DEF Good
<1>10. AlongDone(d, e, M, W, q, Len(q))
  BY <1>2, <1>8, <1>9, AlongGood DEF ComparedIs
<1>11. PICK Z : Covers(d, Z) /\ W \subseteq Z /\ \A k \in 1 .. Len(q) : q[k] \in Z
  BY <1>10 DEF AlongDone
<1>12. Good(d, M) /\ d.avl = t /\ d.max_index = c.max_index
  BY <1>2, <1>10 DEF AlongDone
<1>13. CtxType(d) /\ d.sound
       /\ \A m \in Node : d.at[m] <= d.mod /\ (t.up[m] = NULL => d.offset[m] = 0)
  BY <1>12 DEF Good
<1>. PICK P : P = ToSet(p) \cup {n}
  OBVIOUS
<1>14. ParentsFrom(u, t, P)
  BY <1>4, <1>5, ProbeParents
<1>15. P \subseteq Z /\ \A m \in P : m = n \/ \E k \in 1 .. Len(q) : q[k] = m
  <2>1. \A m \in ToSet(p) : \E k \in 1 .. Len(p) : m = p[k]
    BY <1>7, SMTT(30) DEF ToSet
  <2>2. \A m \in ToSet(p) : \E k \in 1 .. Len(q) : q[k] = m
    BY <1>8, <2>1, SMTT(30) DEF ComparedIs
  <2>3. n \in Z
    BY <1>2, <1>9, <1>11 DEF Covers
  <2>. QED  BY <1>11, <2>2, <2>3
<1>16. \/ Sound(u, M) /\ u.count = c.avl.count
       \/ Sound(u, M \cup {n}) /\ u.count = c.avl.count + 1
  <2>1. Probed(u, t, M, key, n)
    BY <1>5, ProbeSound
  <2>. QED  BY <1>2, <2>1 DEF Probed, Sound
<1>17. u \in Tables
  BY <1>16 DEF Sound, TableType, Tables
<1>18. /\ CtxType(r) /\ r.avl = u /\ r.mod = d.mod /\ r.max_index = c.max_index /\ r.sound
       /\ r.offset = d.offset /\ r.at = d.at /\ r.base_index = d.base_index
  <2>1. d = Context(d.mod, d.max_index, d.avl, d.sound, d.base_index, d.offset, d.at)
    BY <1>13, ContextFields
  <2>. PICK k, x, a, s, b, o, at : k = d.mod /\ x = d.max_index /\ a = d.avl /\ s = d.sound
         /\ b = d.base_index /\ o = d.offset /\ at = d.at
    OBVIOUS
  <2>2. r = Context(k, x, u, s, b, o, at)
    BY <1>3, <2>1, FieldSet
  <2>3. HasFields(r, k, x, u, s, b, o, at)
    BY <2>2, ContextIs, SMTT(30)
  <2>4. /\ k \in Nat /\ x \in Nat /\ s \in BOOLEAN /\ b \in [Node -> Int]
        /\ o \in [Node -> Int] /\ at \in [Node -> Nat]
    BY <1>13 DEF CtxType
  <2>. QED  BY <1>12, <1>13, <1>17, <2>3, <2>4 DEF HasFields
<1>19. \A m \in Node : r.at[m] <= r.mod /\ (r.avl.up[m] = NULL => r.offset[m] = 0)
  <2>1. \A m \in P : d.offset[m] = 0
    BY <1>11, <1>15 DEF Covers, Quiet
  <2>2. ASSUME NEW m \in Node, u.up[m] = NULL  PROVE d.offset[m] = 0
    <3>1. NULL \notin P
      BY <1>7, <1>11, <1>15 DEF Covers, Quiet, UpClosed
    <3>2. t.up[m] = NULL \/ m \in P
      BY <1>14, <2>2, <3>1 DEF ParentsFrom
    <3>. QED  BY <1>13, <2>1, <3>2
  <2>. QED  BY <1>13, <1>18, <2>2
<1>20. Covers(r, Z)
  <2>1. UpClosed(u.up, Z)
    <3>1. Z \subseteq Node /\ UpClosed(t.up, Z)
      BY <1>11, <1>12 DEF Covers, Quiet, UpClosed
    <3>2. ASSUME NEW m \in Z, u.up[m] # NULL  PROVE u.up[m] \in Z
      <4>1. u.up[m] = t.up[m] \/ u.up[m] \in P
        BY <1>14, <3>1, <3>2 DEF ParentsFrom
      <4>. QED  BY <1>15, <3>1, <3>2, <4>1 DEF UpClosed
    <3>. QED  BY <3>1, <3>2 DEF UpClosed
  <2>2. \A m \in Z : r.offset[m] = 0
    BY <1>11, <1>18 DEF Covers, Quiet
  <2>3. \A m \in Node : Fresh(r, m) => m \in Z
    BY <1>11, <1>18 DEF Covers, Fresh
  <2>. QED  BY <1>18, <2>1, <2>2, <2>3 DEF Covers, Quiet
<1>21. \/ Good(r, M) /\ r.avl.count = c.avl.count
       \/ Good(r, M \cup {n}) /\ r.avl.count = c.avl.count + 1
  BY <1>16, <1>18, <1>19, <1>20 DEF Good
<1>22. ASSUME Ready(c)  PROVE r.mod = c.mod /\ Ready(r)
  <2>1. \A k \in 1 .. Len(q) : q[k] \in M \/ Fresh(e, q[k])
    <3>1. \A k \in 1 .. Len(p) : p[k] \in M
      BY <1>7
    <3>. QED  BY <1>2, <1>8, <3>1, SMTT(30) DEF ComparedIs
  <2>2. Later(d, e) /\ \A k \in 1 .. Len(q) : Fresh(d, q[k])
    BY <1>2, <1>10, <1>22, <2>1 DEF AlongDone
  <2>3. d.mod = c.mod /\ Ready(d) /\ Fresh(d, n)
    BY <1>2, <2>2 DEF Later
  <2>4. u.root = t.root \/ u.root \in P
    BY <1>14 DEF ParentsFrom
  <2>5. u.root # NULL => Fresh(d, u.root)
    BY <1>12, <1>15, <2>2, <2>3, <2>4 DEF Ready
  <2>. QED  BY <1>18, <2>3, <2>5 DEF Ready, Fresh
\* Nothing is pending above the nodes that are hung elsewhere, nor above their old parents.
<1>. PICK old, now : old = Pending(d) /\ now = Pending(r)
  OBVIOUS
<1>23. IsDue(old, d, Z) /\ IsDue(now, r, Z)
  BY <1>11, <1>12, <1>20, <1>21, PendingDue
<1>24. PICK f, F : Deep(t.up, f, F)
  BY <1>2, SoundDeep
<1>. DEFINE T == {m \in Node : now[m] = old[m]}
<1>25. ASSUME NEW m \in Node, t.up[m] # NULL => t.up[m] \in T  PROVE m \in T
  <2>1. NULL \notin P
    BY <1>7, <1>11, <1>15 DEF Covers, Quiet, UpClosed
  <2>2. CASE m \in Z
    BY <1>23, <2>2, SMTT(30) DEF IsDue
  <2>3. CASE u.up[m] = t.up[m]
    BY <1>12, <1>18, <1>23, <1>25, <2>3, SMTT(60) DEF IsDue
  <2>4. CASE t.up[m] \in P /\ u.up[m] \in P
    <3>1. old[t.up[m]] = 0 /\ now[u.up[m]] = 0
      BY <1>15, <1>23, <2>4 DEF IsDue
    <3>. QED  BY <1>12, <1>18, <1>23, <2>1, <2>4, <3>1 DEF IsDue
  <2>. QED  BY <1>14, <1>15, <2>2, <2>3, <2>4 DEF ParentsFrom
<1>26. \A m \in Node : IndexValues(r)[m] = IndexValues(d)[m]
  <2>1. Node \subseteq T
    <3>. HIDE DEF T
    <3>. QED  BY <1>24, <1>25, ByClimbing
  <2>. QED  BY <1>18, <1>23, <2>1 DEF IsDue
<1>27. \A m \in Node : IndexValues(r)[m] = IF m = n THEN i ELSE IndexValues(c)[m]
  BY <1>1, <1>10, <1>26 DEF AlongDone, PlacedDone
<1>. QED  BY <1>18, <1>21, <1>22, <1>27 DEF EnterDone

-----------
(* Assertions *)

\* f names the first assertion that has failed, or all hold.
Failed(asserts, f) ==
  \/ f = "none" /\ \A i \in DOMAIN asserts : asserts[i][2]
  \/ \E i \in DOMAIN asserts :
       /\ ~asserts[i][2] /\ f = asserts[i][1]
       /\ \A j \in DOMAIN asserts : j < i => asserts[j][2]

\* The first failed assertion is the first one that has failed.
LEMMA FirstIsFailed ==
  ASSUME NEW T, NEW asserts \in Seq(T)
  PROVE  Failed(asserts, FirstFailed(asserts))
<1>. DEFINE failed == {i \in DOMAIN asserts : ~asserts[i][2]}
<1>1. DOMAIN asserts \subseteq Nat
  OBVIOUS
<1>2. CASE failed = {}
  BY <1>2, Zenon DEF FirstFailed, Failed
<1>3. CASE failed # {}
  <2>1. \E i \in failed : \A j \in failed : i <= j
    <3>1. failed \subseteq Nat
      BY <1>1
    <3>. HIDE DEF failed
    <3>. QED  BY <1>3, <3>1, LeastMember
  <2>2. Min(failed) \in failed /\ \A j \in failed : Min(failed) <= j
    <3>. HIDE DEF failed
    <3>. QED  BY <2>1, Zenon DEF Min
  <2>3. FirstFailed(asserts) = asserts[Min(failed)][1]
    BY <1>3, Zenon DEF FirstFailed
  <2>4. \A j \in DOMAIN asserts : j < Min(failed) => j \notin failed
    <3>. HIDE DEF failed
    <3>1. Min(failed) \in Nat /\ \A j \in DOMAIN asserts : j \in Nat
      BY <1>1, <2>2 DEF failed
    <3>. QED  BY <2>2, <3>1
  <2>5. \A j \in DOMAIN asserts : j < Min(failed) => asserts[j][2]
    BY <2>4, Zenon
  <2>6. \E i \in DOMAIN asserts :
          /\ ~asserts[i][2] /\ FirstFailed(asserts) = asserts[i][1]
          /\ \A j \in DOMAIN asserts : j < i => asserts[j][2]
    BY <2>2, <2>3, <2>5, Zenon
  <2>. QED  BY <2>6, Zenon DEF Failed
<1>. QED  BY <1>2, <1>3

\* The assertions that can fail: that the parent's index is smaller than the one the new
\* node takes (hierarch.cpp:88), and that a node is selected (102).
MayFail == {"hierarch.cpp:88", "hierarch.cpp:102"}

\* Assertions that have names.
Named(asserts) == (\E T : asserts \in Seq(T)) /\ \A i \in DOMAIN asserts : asserts[i][1] # "none"

\* All other assertions among these hold.
Honest(asserts) ==
  Named(asserts) /\ \A i \in DOMAIN asserts : asserts[i][1] \notin MayFail => asserts[i][2]

AllHold(asserts) == \A i \in DOMAIN asserts : asserts[i][2]

\* When the later assertions hold if the earlier ones do, only an earlier one can be the
\* first to fail.
LEMMA HonestTogether ==
  ASSUME NEW a, NEW b, Honest(a), Named(b), AllHold(a) => AllHold(b)
  PROVE  /\ FirstFailed(a \o b) \in {"none"} \cup MayFail
         /\ FirstFailed(a \o b) = "none" => AllHold(a)
<1>1. PICK A, B : a \in Seq(A) /\ b \in Seq(B)
  BY DEF Honest, Named
<1>2. a \in Seq(A \cup B) /\ b \in Seq(A \cup B) /\ a \o b \in Seq(A \cup B)
  BY <1>1
<1>. PICK c : c = a \o b
  OBVIOUS
<1>3. /\ DOMAIN a = 1 .. Len(a) /\ DOMAIN b = 1 .. Len(b) /\ Len(a) \in Nat /\ Len(b) \in Nat
      /\ DOMAIN c = 1 .. Len(a) + Len(b)
      /\ \A i \in 1 .. Len(a) + Len(b) : c[i] = IF i <= Len(a) THEN a[i] ELSE b[i - Len(a)]
  BY <1>2
<1>4. \A i \in DOMAIN a : i \in DOMAIN c /\ c[i] = a[i]
  BY <1>3
<1>5. \A i \in DOMAIN c : i \in DOMAIN a \/ \E j \in DOMAIN b : c[i] = b[j]
  <2>. SUFFICES ASSUME NEW i \in DOMAIN c, i \notin DOMAIN a
                PROVE  \E j \in DOMAIN b : c[i] = b[j]
    OBVIOUS
  <2>1. i - Len(a) \in DOMAIN b /\ c[i] = b[i - Len(a)]
    BY <1>3
  <2>. QED  BY <2>1
<1>6. \A i \in DOMAIN c : i \notin DOMAIN a => \A j \in DOMAIN a : j < i
  BY <1>3
<1>7. Failed(c, FirstFailed(c))
  BY <1>2, FirstIsFailed
<1>8. \A i \in DOMAIN c : c[i][1] # "none"
  BY <1>4, <1>5, ZenonT(60) DEF Honest, Named
<1>9. FirstFailed(c) = "none" => AllHold(a)
  <2>1. FirstFailed(c) = "none" => \A i \in DOMAIN c : c[i][2]
    BY <1>7, <1>8, Zenon DEF Failed
  <2>. QED  BY <1>4, <2>1, Zenon DEF AllHold
<1>10. ASSUME NEW i \in DOMAIN c, ~c[i][2], \A j \in DOMAIN c : j < i => c[j][2]
       PROVE  c[i][1] \in MayFail
  <2>1. CASE i \in DOMAIN a
    BY <1>4, <1>10, <2>1, Zenon DEF Honest
  <2>2. CASE i \notin DOMAIN a
    <3>1. AllHold(a)
      BY <1>4, <1>6, <1>10, <2>2, Zenon DEF AllHold
    <3>2. AllHold(b)
      BY <3>1
    <3>. QED  BY <1>5, <1>10, <2>2, <3>2, Zenon DEF AllHold
  <2>. QED  BY <2>1, <2>2
<1>11. FirstFailed(c) \in {"none"} \cup MayFail
  BY <1>7, <1>10, Zenon DEF Failed
<1>. QED  BY <1>9, <1>11

\* What add_leaf asserts of the first node (hierarch.cpp:102).
LEMMA HonestFirst ==
  ASSUME NEW b1
  PROVE  Honest(<<<<"hierarch.cpp:102", b1>>>>)
<1>. PICK a : a = <<<<"hierarch.cpp:102", b1>>>>
  OBVIOUS
<1>1. a \in Seq({a[1]})
  OBVIOUS
<1>2. ASSUME NEW i \in DOMAIN a
      PROVE  a[i][1] # "none" /\ a[i][1] \in MayFail
  BY DEF MayFail
<1>. QED  BY <1>1, <1>2, Zenon DEF Honest, Named

\* The last node (hierarch.cpp:105-114).
LEMMA HonestAppending ==
  ASSUME NEW b1, b1, NEW b2, b2, NEW b3, b3
  PROVE  Honest(<<<<"index()", b1>>, <<"hierarch.cpp:109", b2>>, <<"hierarch.cpp:112", b3>>>>)
<1>. PICK a : a = <<<<"index()", b1>>, <<"hierarch.cpp:109", b2>>, <<"hierarch.cpp:112", b3>>>>
  OBVIOUS
<1>1. a \in Seq({a[1], a[2], a[3]})
  OBVIOUS
<1>2. /\ a[1] = <<"index()", b1>> /\ a[2] = <<"hierarch.cpp:109", b2>>
      /\ a[3] = <<"hierarch.cpp:112", b3>>
  OBVIOUS
<1>3. a[1][2] /\ a[2][2] /\ a[3][2]
  BY <1>2, Zenon
<1>4. /\ a[1][1] = "index()" /\ a[2][1] = "hierarch.cpp:109" /\ a[3][1] = "hierarch.cpp:112"
  BY <1>2
<1>5. \A i \in DOMAIN a : i = 1 \/ i = 2 \/ i = 3
  OBVIOUS
<1>6. \A i \in DOMAIN a : a[i][1] # "none"
  BY <1>4, <1>5
<1>. QED  BY <1>1, <1>3, <1>5, <1>6, Zenon DEF Honest, Named

\* What it asserts in the end of every node (hierarch.cpp:120-122), and index() with it.
Ended(b1, b2, b3, b4) ==
  <<<<"hierarch.cpp:120", b1>>, <<"hierarch.cpp:121", b2>>,
    <<"hierarch.cpp:122", b3>>, <<"index()", b4>>>>

LEMMA EndedNamed ==
  ASSUME NEW b1, NEW b2, NEW b3, NEW b4
  PROVE  /\ Named(Ended(b1, b2, b3, b4))
         /\ b1 /\ b2 /\ b3 /\ b4 => AllHold(Ended(b1, b2, b3, b4))
<1>. PICK a : a = Ended(b1, b2, b3, b4)
  OBVIOUS
<1>1. a \in Seq({a[1], a[2], a[3], a[4]})
  BY DEF Ended
<1>2. /\ a[1] = <<"hierarch.cpp:120", b1>> /\ a[2] = <<"hierarch.cpp:121", b2>>
      /\ a[3] = <<"hierarch.cpp:122", b3>> /\ a[4] = <<"index()", b4>>
  BY DEF Ended
<1>3. \A i \in DOMAIN a : i = 1 \/ i = 2 \/ i = 3 \/ i = 4
  BY DEF Ended
<1>4. \A i \in DOMAIN a : a[i][1] # "none"
  BY <1>2, <1>3
<1>5. ASSUME b1 /\ b2 /\ b3 /\ b4  PROVE \A i \in DOMAIN a : a[i][2]
  <2>1. a[1][2] /\ a[2][2] /\ a[3][2] /\ a[4][2]
    <3>1. <<"hierarch.cpp:120", b1>>[2] /\ <<"hierarch.cpp:121", b2>>[2]
      BY <1>5
    <3>2. <<"hierarch.cpp:122", b3>>[2] /\ <<"index()", b4>>[2]
      BY <1>5
    <3>. QED  BY <1>2, <3>1, <3>2, Zenon
  <2>. QED  BY <1>3, <2>1, Zenon
<1>. QED  BY <1>1, <1>4, <1>5, Zenon DEF Named, AllHold

\* A node that displaces its successor (hierarch.cpp:79-100).
LEMMA HonestDisplacing ==
  ASSUME NEW b1, b1, NEW b2, b2, NEW b3, b3, NEW b4, b4, NEW b5, b5, NEW b6,
         NEW b7, b7, NEW b8, b8, NEW b9, b9
  PROVE  Honest(<<<<"hierarch.cpp:82", b1>>, <<"index()", b2>>, <<"hierarch.cpp:84", b3>>,
                  <<"hierarch.cpp:85", b4>>, <<"hierarch.cpp:87", b5>>, <<"hierarch.cpp:88", b6>>,
                  <<"hierarch.cpp:89", b7>>, <<"hierarch.cpp:90", b8>>, <<"hierarch.cpp:99", b9>>>>)
<1>0. PICK a : a = <<<<"hierarch.cpp:82", b1>>, <<"index()", b2>>, <<"hierarch.cpp:84", b3>>,
                    <<"hierarch.cpp:85", b4>>, <<"hierarch.cpp:87", b5>>, <<"hierarch.cpp:88", b6>>,
                    <<"hierarch.cpp:89", b7>>, <<"hierarch.cpp:90", b8>>, <<"hierarch.cpp:99", b9>>>>
  OBVIOUS
<1>1. a \in Seq({a[1], a[2], a[3], a[4], a[5], a[6], a[7], a[8], a[9]})
  BY <1>0
<1>2. /\ a[1] = <<"hierarch.cpp:82", b1>> /\ a[2] = <<"index()", b2>>
      /\ a[3] = <<"hierarch.cpp:84", b3>> /\ a[4] = <<"hierarch.cpp:85", b4>>
      /\ a[5] = <<"hierarch.cpp:87", b5>> /\ a[6] = <<"hierarch.cpp:88", b6>>
      /\ a[7] = <<"hierarch.cpp:89", b7>> /\ a[8] = <<"hierarch.cpp:90", b8>>
      /\ a[9] = <<"hierarch.cpp:99", b9>>
  BY <1>0
<1>3. \A i \in DOMAIN a : i # 6 => a[i][2]
  <2>1. a[1][2] /\ a[2][2] /\ a[3][2] /\ a[4][2]
    BY <1>0, <1>2, Zenon
  <2>2. a[5][2] /\ a[7][2] /\ a[8][2] /\ a[9][2]
    BY <1>0, <1>2, Zenon
  <2>3. \A i \in DOMAIN a : \/ i = 1 \/ i = 2 \/ i = 3 \/ i = 4 \/ i = 5 \/ i = 6 \/ i = 7 \/ i = 8
                            \/ i = 9
    BY <1>0
  <2>. QED  BY <2>1, <2>2, <2>3, Zenon
<1>4. /\ a[1][1] = "hierarch.cpp:82" /\ a[2][1] = "index()" /\ a[3][1] = "hierarch.cpp:84"
      /\ a[4][1] = "hierarch.cpp:85" /\ a[5][1] = "hierarch.cpp:87" /\ a[6][1] = "hierarch.cpp:88"
      /\ a[7][1] = "hierarch.cpp:89" /\ a[8][1] = "hierarch.cpp:90" /\ a[9][1] = "hierarch.cpp:99"
  BY <1>2
<1>5. \A i \in DOMAIN a : \/ i = 1 \/ i = 2 \/ i = 3 \/ i = 4 \/ i = 5 \/ i = 6 \/ i = 7 \/ i = 8
                          \/ i = 9
  BY <1>0
<1>6. \A i \in DOMAIN a : a[i][1] # "none" /\ (a[i][1] \notin MayFail => i # 6)
  BY <1>4, <1>5 DEF MayFail
<1>7. \A i \in DOMAIN a : a[i][1] \notin MayFail => a[i][2]
  BY <1>3, <1>6, Zenon
<1>8. \A i \in DOMAIN a : a[i][1] # "none"
  BY <1>6
<1>9. \E T : a \in Seq(T)
  BY <1>1, Zenon
<1>10. Honest(a)
  BY <1>7, <1>8, <1>9, Zenon DEF Honest, Named
<1>. QED  BY <1>0, <1>10

-----------------------------------------------------------------------------
(* The steps of add_leaf before the insertion *)

\* d is the context c with the index v of the node p.
Alike(d, c, M, p, v) ==
  /\ Good(d, M) /\ d.avl = c.avl /\ d.max_index = c.max_index /\ d.mod = c.mod
  /\ d.at = c.at /\ (Ready(c) => Ready(d))
  /\ \A m \in Node : IndexValues(d)[m] = IF m = p THEN v ELSE IndexValues(c)[m]

\* What add_leaf asserts of an up-to-date node.
LEMMA FreshSettled ==
  ASSUME NEW c, NEW M, Good(c, M), NEW m \in Node, Fresh(c, m)
  PROVE  c.at[m] = c.mod /\ c.offset[m] = 0
<1>1. c.at[m] <= c.mod /\ c.at[m] \in Nat /\ c.mod \in Nat
  BY DEF Good, CtxType
<1>2. c.offset[m] = 0
  BY DEF Good, Covers, Quiet
<1>. QED  BY <1>1, <1>2 DEF Fresh

\* What hierarch.cpp:96-99 sets of the node p, that is up to date.
Settled(c, p, v) == [c EXCEPT !.offset[p] = 0, !.base_index[p] = v]

\* Its offset was zero already.
LEMMA SettledAlike ==
  ASSUME NEW c, NEW M, Good(c, M), NEW p \in Node, Fresh(c, p), NEW v \in Int
  PROVE  Alike(Settled(c, p, v), c, M, p, v)
<1>1. CtxType(c) /\ Sound(c.avl, M) /\ c.sound
      /\ \A m \in Node : c.at[m] <= c.mod /\ (c.avl.up[m] = NULL => c.offset[m] = 0)
  BY DEF Good
<1>2. PICK Z : Quiet(c, Z) /\ \A m \in Node : Fresh(c, m) => m \in Z
  BY DEF Good, Covers
<1>3. /\ c.mod \in Nat /\ c.max_index \in Nat /\ c.avl \in Tables /\ c.sound \in BOOLEAN
      /\ c.base_index \in [Node -> Int] /\ c.offset \in [Node -> Int] /\ c.at \in [Node -> Nat]
  BY <1>1 DEF CtxType
<1>. PICK b, o : b = [c.base_index EXCEPT ![p] = v] /\ o = [c.offset EXCEPT ![p] = 0]
  OBVIOUS
<1>. PICK e : e = Settled(c, p, v)
  OBVIOUS
<1>4. e = Context(c.mod, c.max_index, c.avl, c.sound, b, o, c.at)
  <2>1. Settled(c, p, v) = BaseSet(OffsetSet(c, o), b)
    BY <1>1 DEF Settled, BaseSet, OffsetSet, CtxType
  <2>2. c = Context(c.mod, c.max_index, c.avl, c.sound, c.base_index, c.offset, c.at)
    BY <1>1, ContextFields
  <2>. PICK k, x, a, s : k = c.mod /\ x = c.max_index /\ a = c.avl /\ s = c.sound
    OBVIOUS
  <2>3. OffsetSet(c, o) = Context(k, x, a, s, c.base_index, o, c.at)
    BY <2>2, FieldSet
  <2>. QED  BY <2>1, <2>3, FieldSet
<1>5. HasFields(e, c.mod, c.max_index, c.avl, c.sound, b, o, c.at)
  BY <1>4, ContextIs
<1>6. b \in [Node -> Int] /\ o \in [Node -> Int]
  BY <1>3
<1>7. o = c.offset
  BY <1>2, <1>3 DEF Quiet
<1>8. /\ e.mod = c.mod /\ e.max_index = c.max_index /\ e.avl = c.avl /\ e.base_index = b
      /\ e.sound = c.sound /\ e.offset = c.offset /\ e.at = c.at /\ CtxType(e)
  BY <1>3, <1>5, <1>6, <1>7 DEF HasFields
<1>9. Quiet(e, Z) /\ \A m \in Node : Fresh(e, m) => m \in Z
  BY <1>2, <1>8 DEF Quiet, Fresh
<1>10. Good(e, M)
  BY <1>1, <1>8, <1>9 DEF Good, Covers
<1>11. Ready(c) => Ready(e)
  BY <1>8 DEF Ready, Fresh
<1>12. ASSUME NEW m \in Node
       PROVE  IndexValues(e)[m] = IF m = p THEN v ELSE IndexValues(c)[m]
  <2>1. CASE m = p
    <3>1. Fresh(e, p) /\ e.base_index[p] = v
      BY <1>3, <1>8 DEF Fresh
    <3>2. IndexValues(e)[p] = e.base_index[p]
      BY <1>10, <3>1, FreshValue
    <3>. QED  BY <2>1, <3>1, <3>2
  <2>2. CASE m # p
    <3>1. e.base_index[m] = c.base_index[m]
      BY <1>3, <1>8, <2>2
    <3>2. e.avl = c.avl /\ e.offset = c.offset
      BY <1>8
    <3>3. IndexValues(e)[m] = IndexValues(c)[m]
      BY <1>10, <3>1, <3>2, SameDue
    <3>. QED  BY <2>2, <3>3
  <2>. QED  BY <2>1, <2>2
<1>. QED  BY <1>8, <1>10, <1>11, <1>12 DEF Alike

\* d is the context c with one more node to come.
Announced(d, c, M) ==
  /\ Good(d, M) /\ d.avl = c.avl /\ d.max_index = c.max_index + 1 /\ d.mod = c.mod
  /\ Ready(c) => Ready(d)
  /\ \A m \in Node : IndexValues(d)[m] = IndexValues(c)[m]

\* max_index matters to nothing else.
LEMMA AnnouncedGood ==
  ASSUME NEW c, NEW M, Good(c, M)
  PROVE  Announced([c EXCEPT !.max_index = @ + 1], c, M)
<1>1. CtxType(c) /\ Sound(c.avl, M) /\ c.sound
      /\ \A m \in Node : c.at[m] <= c.mod /\ (c.avl.up[m] = NULL => c.offset[m] = 0)
  BY DEF Good
<1>2. PICK Z : Quiet(c, Z) /\ \A m \in Node : Fresh(c, m) => m \in Z
  BY DEF Good, Covers
<1>. PICK e : e = [c EXCEPT !.max_index = @ + 1]
  OBVIOUS
<1>3. /\ e.mod = c.mod /\ e.max_index = c.max_index + 1 /\ e.avl = c.avl /\ e.base_index = c.base_index
      /\ e.sound = c.sound /\ e.offset = c.offset /\ e.at = c.at /\ CtxType(e)
  <2>. PICK k, x, a, s, b, o, t : /\ k = c.mod /\ x = c.max_index /\ a = c.avl /\ s = c.sound
                                  /\ b = c.base_index /\ o = c.offset /\ t = c.at
    OBVIOUS
  <2>1. /\ k \in Nat /\ x \in Nat /\ a \in Tables /\ s \in BOOLEAN
        /\ b \in [Node -> Int] /\ o \in [Node -> Int] /\ t \in [Node -> Nat]
        /\ x + 1 \in Nat /\ k + 1 \in Nat
    BY <1>1 DEF CtxType
  <2>2. e = MaxSet(c, c.max_index + 1)
    BY DEF MaxSet, ModSet
  <2>3. c = Context(k, x, a, s, b, o, t)
    BY <1>1, ContextFields
  <2>4. e = Context(k, x + 1, a, s, b, o, t)
    BY <2>2, <2>3, FieldSet
  <2>5. HasFields(e, k, x + 1, a, s, b, o, t)
    BY <2>4, ContextIs
  <2>. QED  BY <2>1, <2>5 DEF HasFields
<1>4. Quiet(e, Z) /\ \A m \in Node : Fresh(e, m) => m \in Z
  BY <1>2, <1>3 DEF Quiet, Fresh
<1>5. Good(e, M)
  BY <1>1, <1>3, <1>4 DEF Good, Covers
<1>6. Ready(c) => Ready(e)
  BY <1>3 DEF Ready, Fresh
<1>7. \A m \in Node : IndexValues(e)[m] = IndexValues(c)[m]
  BY <1>3, <1>5, SameDue
<1>. QED  BY <1>3, <1>5, <1>6, <1>7 DEF Announced

\* d is the context c at a new modification: no node is up to date.
Begun(d, c, M) ==
  /\ Good(d, M) /\ d.avl = c.avl /\ d.max_index = c.max_index + 1 /\ d.mod = c.mod + 1
  /\ \A m \in Node : IndexValues(d)[m] = IndexValues(c)[m]

\* A new modification makes no node up to date.
LEMMA BegunGood ==
  ASSUME NEW c, NEW M, Good(c, M)
  PROVE  Begun([c EXCEPT !.max_index = @ + 1, !.mod = @ + 1], c, M)
<1>1. CtxType(c) /\ Sound(c.avl, M) /\ c.sound
      /\ \A m \in Node : c.at[m] <= c.mod /\ (c.avl.up[m] = NULL => c.offset[m] = 0)
  BY DEF Good
<1>2. PICK Z : Quiet(c, Z) /\ \A m \in Node : Fresh(c, m) => m \in Z
  BY DEF Good, Covers
<1>. PICK e : e = [c EXCEPT !.max_index = @ + 1, !.mod = @ + 1]
  OBVIOUS
<1>3. /\ e.mod = c.mod + 1 /\ e.max_index = c.max_index + 1 /\ e.avl = c.avl
      /\ e.base_index = c.base_index
      /\ e.sound = c.sound /\ e.offset = c.offset /\ e.at = c.at /\ CtxType(e)
  <2>. PICK k, x, a, s, b, o, t : /\ k = c.mod /\ x = c.max_index /\ a = c.avl /\ s = c.sound
                                  /\ b = c.base_index /\ o = c.offset /\ t = c.at
    OBVIOUS
  <2>1. /\ k \in Nat /\ x \in Nat /\ a \in Tables /\ s \in BOOLEAN
        /\ b \in [Node -> Int] /\ o \in [Node -> Int] /\ t \in [Node -> Nat]
        /\ x + 1 \in Nat /\ k + 1 \in Nat
    BY <1>1 DEF CtxType
  <2>2. e = ModSet(MaxSet(c, c.max_index + 1), c.mod + 1)
    BY DEF MaxSet, ModSet
  <2>3. c = Context(k, x, a, s, b, o, t)
    BY <1>1, ContextFields
  <2>4. e = Context(k + 1, x + 1, a, s, b, o, t)
    BY <2>2, <2>3, FieldSet
  <2>5. HasFields(e, k + 1, x + 1, a, s, b, o, t)
    BY <2>4, ContextIs
  <2>. QED  BY <2>1, <2>5 DEF HasFields
<1>4. c.mod \in Nat /\ \A m \in Node : c.at[m] \in Nat
  BY <1>1 DEF CtxType
<1>5. Quiet(e, Z) /\ \A m \in Node : ~Fresh(e, m)
  BY <1>1, <1>2, <1>3, <1>4 DEF Quiet, Fresh
<1>6. \A m \in Node : e.at[m] <= e.mod
  BY <1>1, <1>3, <1>4
<1>7. Good(e, M)
  BY <1>1, <1>3, <1>5, <1>6 DEF Good, Covers
<1>8. \A m \in Node : IndexValues(e)[m] = IndexValues(c)[m]
  BY <1>3, <1>7, SameDue
<1>. QED  BY <1>3, <1>7, <1>8 DEF Begun

-----------------------------------------------------------------------------
(* The lists *)

\* The types of the lists; no node is its own successor.
ListTypes ==
  /\ size \in 0 .. MaxNodes
  /\ list = [successor |-> list.successor, predecessors |-> list.predecessors,
             imaginary |-> list.imaginary]
  /\ list.successor \in [Node -> Node \cup {NULL}]
  /\ list.predecessors \in [Node -> SUBSET Node]
  /\ \A n \in Nodes : list.successor[n] \in (Nodes \cup {NULL}) \ {n}
  /\ \A n \in Nodes : list.predecessors[n] \subseteq Nodes
  /\ list.imaginary \subseteq Nodes

\* The invariant of the lists.
IInv == ListTypes /\ SuccessorsMirror

\* The lists after an insertion of n in front of s, for any of the nodes waiting for s.
LEMMA RelinkMirrors ==
  ASSUME IInv, NULL \notin Node, size < MaxNodes, size' = size + 1,
         NEW s \in Nodes \cup {NULL}, NEW under \in SUBSET Waiting(s),
         list' = Relinked(size + 1, s, under)
  PROVE  IInv'
<1> DEFINE n == size + 1
<1>1. /\ size \in Nat /\ MaxNodes \in Nat /\ Node = 1 .. MaxNodes
      /\ n \in Node /\ n \notin Nodes /\ Nodes' = Nodes \cup {n} /\ Nodes \subseteq Node
  BY NodeAssumption DEF IInv, ListTypes, Nodes
<1>2. NULL \notin Nodes /\ NULL # n /\ s # n
  BY <1>1
<1>3. under \subseteq Nodes /\ \A m \in under : list.successor[m] = s
  BY <1>2 DEF IInv, ListTypes, SuccessorsMirror, Waiting
<1> HIDE DEF n
<1>4. /\ list' = [successor |-> list.successor', predecessors |-> list.predecessors',
                  imaginary |-> list.imaginary']
      /\ list.successor' = [m \in Node |-> IF m = n THEN s ELSE IF m \in under THEN n
                                           ELSE list.successor[m]]
      /\ list.predecessors' = [m \in Node |->
                                 IF m = n THEN under
                                 ELSE IF m = s THEN {n} \cup (list.predecessors[m] \ under)
                                 ELSE list.predecessors[m]]
      /\ list.imaginary' = IF s = NULL THEN {n} \cup (list.imaginary \ under)
                           ELSE list.imaginary
  BY DEF Relinked, n
<1>5. ListTypes'
  <2>1. size' \in 0 .. MaxNodes
    BY <1>1 DEF IInv, ListTypes
  <2>2. list'.successor \in [Node -> Node \cup {NULL}]
    <3>1. s \in Node \cup {NULL} /\ \A m \in Node : list.successor[m] \in Node \cup {NULL}
      BY <1>1 DEF IInv, ListTypes
    <3> QED BY <1>1, <1>4, <3>1
  <2>3. list'.predecessors \in [Node -> SUBSET Node]
    <3>1. \A m \in Node : list.predecessors[m] \subseteq Node
      BY DEF IInv, ListTypes
    <3>2. under \subseteq Node /\ {n} \subseteq Node
      BY <1>1, <1>3
    <3>3. \A m \in Node : list.predecessors'[m] \subseteq Node
      BY <1>4, <3>1, <3>2
    <3> QED BY <1>4, <3>3
  <2>4. \A m \in Nodes' : list'.successor[m] \in (Nodes' \cup {NULL}) \ {m}
    <3>1. \A m \in under : m # n
      BY <1>1, <1>3
    <3> QED BY <1>1, <1>2, <1>4, <3>1 DEF IInv, ListTypes
  <2>5. \A m \in Nodes' : list'.predecessors[m] \subseteq Nodes'
    BY <1>1, <1>3, <1>4 DEF IInv, ListTypes
  <2>6. list'.imaginary \subseteq Nodes'
    BY <1>1, <1>4 DEF IInv, ListTypes
  <2> QED BY <1>4, <2>1, <2>2, <2>3, <2>4, <2>5, <2>6 DEF ListTypes
<1>6. \A m, k \in Nodes' : list'.successor[m] = k <=> m \in list'.predecessors[k]
  BY <1>1, <1>2, <1>3, <1>4 DEF IInv, ListTypes, SuccessorsMirror
<1>7. \A k \in Nodes' : list'.successor[k] = NULL <=> k \in list'.imaginary
  BY <1>1, <1>2, <1>3, <1>4 DEF IInv, ListTypes, SuccessorsMirror
<1> QED BY <1>5, <1>6, <1>7 DEF IInv, SuccessorsMirror

\* add_leaf picks some of the nodes waiting for the displaced one, or aborts.
LEMMA AddLeafIInv == IInv /\ (\E p \in Nodes \cup {NULL} : AddLeaf(p)) => IInv'
<1> SUFFICES ASSUME IInv, NEW p \in Nodes \cup {NULL}, AddLeaf(p) PROVE IInv'
  OBVIOUS
<1> DEFINE n == size + 1
           s == IF p = NULL THEN NULL ELSE list.successor[p]
<1>1. \/ UNCHANGED <<size, list>>
      \/ /\ size' = n
         /\ \E under \in SUBSET Waiting(s) : list' = Relinked(n, s, under)
  BY DEF AddLeaf, Abort, Between
<1>2. s \in Nodes \cup {NULL} /\ size < MaxNodes
  BY DEF IInv, ListTypes, AddLeaf
<1>3. CASE UNCHANGED <<size, list>>
  BY <1>3 DEF IInv, ListTypes, SuccessorsMirror, Nodes
<1>4. CASE size' = n /\ \E under \in SUBSET Waiting(s) : list' = Relinked(n, s, under)
  <2>1. PICK under \in SUBSET Waiting(s) : list' = Relinked(n, s, under)
    BY <1>4
  <2> QED BY <1>2, <1>4, <2>1, RelinkMirrors, NullAssumption
<1> QED BY <1>1, <1>3, <1>4

\* A read leaves the lists alone.
LEMMA ReadIInv == IInv /\ (\E n \in Nodes : Read(n)) => IInv'
<1> SUFFICES ASSUME IInv, NEW n \in Nodes, Read(n) PROVE IInv'
  OBVIOUS
<1>1. UNCHANGED <<size, list>>
  BY DEF Read, Abort
<1> QED BY <1>1 DEF IInv, ListTypes, SuccessorsMirror, Nodes

\* There are no lists in the beginning.
LEMMA InitIInv == Init => IInv
BY NodeAssumption DEF Init, IInv, ListTypes, SuccessorsMirror, Nodes

\* The lists stay inverse to the successors by every step.
LEMMA NextIInv == IInv /\ [Next]_vars => IInv'
<1> SUFFICES ASSUME IInv, [Next]_vars PROVE IInv'
  OBVIOUS
<1>1. CASE Next
  BY <1>1, AddLeafIInv, ReadIInv DEF Next
<1>2. CASE UNCHANGED vars
  BY <1>2 DEF vars, IInv, ListTypes, SuccessorsMirror, Nodes
<1> QED BY <1>1, <1>2

\* The predecessors of every node are the nodes it is the successor of, and the
\* imaginary ones those at the end of the tree, after any insertions and reads
\* (hierarch.cpp:124-149).
THEOREM ListsMirror == Spec => []SuccessorsMirror
<1>1. IInv => SuccessorsMirror
  BY DEF IInv
<1> QED BY InitIInv, NextIInv, <1>1, PTL DEF Spec

-----------------------------------------------------------------------------
(* add_leaf *)

\* The context is good, its indexes are those of k nodes; while the AVL tree has all
\* nodes, every one was a modification.
Intact(c, N, k) ==
  /\ \A m \in N : IndexValues(c)[m] \in 0 .. k - 1
  /\ \E M \in SUBSET N :
       /\ Good(c, M) /\ c.avl.count = Cardinality(M) /\ c.max_index = k
       /\ M = N => c.mod = k /\ Ready(c)

\* What the entry of the new node n below p and in front of s does to the indexes.
Placing(x, n, p, s) ==
  /\ \A m \in Nodes : IndexValues(x.index)[m] - IndexValues(ctx)[m] \in {0, 1}
  /\ IndexValues(x.index)[n] \in 0 .. size
  /\ AllHold(x.asserts) /\ p # NULL => IndexValues(x.index)[n] > IndexValues(x.index)[p]
  /\ AllHold(x.asserts) /\ s # NULL => IndexValues(x.index)[n] < IndexValues(x.index)[s]

\* What it leaves of a context whose AVL tree holds M.
Entered(x, M, n) ==
  /\ x.index.max_index = size + 1
  /\ \/ Good(x.index, M) /\ x.index.avl.count = ctx.avl.count
     \/ Good(x.index, M \cup {n}) /\ x.index.avl.count = ctx.avl.count + 1
  /\ Honest(x.asserts)
  /\ M = Nodes /\ AllHold(x.asserts) => x.index.mod = size + 1 /\ Ready(x.index)

\* What add_leaf starts with.
Begins(M, n) ==
  /\ size \in Nat /\ M \subseteq Nodes /\ Nodes \subseteq Node /\ n \in Node \ Nodes
  /\ Good(ctx, M) /\ ctx.max_index = size
  /\ M = Nodes => ctx.mod = size /\ Ready(ctx)
  /\ \A m \in Nodes : IndexValues(ctx)[m] \in 0 .. size - 1

\* The first node (hierarch.cpp:101-104).
LEMMA FirstEntered ==
  ASSUME NEW M, NEW n, Begins(M, n), NEW x, x = First(n)
  PROVE  Entered(x, M, n) /\ Placing(x, n, NULL, NULL)
<1>. PICK c : c = [ctx EXCEPT !.max_index = @ + 1, !.mod = @ + 1]
  OBVIOUS
<1>1. Begun(c, ctx, M)
  BY BegunGood DEF Begins
<1>2. /\ Good(c, M) /\ c.avl = ctx.avl /\ c.max_index = size + 1 /\ c.mod = ctx.mod + 1
      /\ n \in Node \ M /\ size \in Nat
  BY <1>1 DEF Begun, Begins
<1>. PICK r : r = Enter(c, n, 0)
  OBVIOUS
<1>3. EnterDone(r, c, M, n, 0)
  BY <1>2, EnterGood
<1>4. x.index = r /\ x.asserts = <<<<"hierarch.cpp:102", c.max_index = 1>>>>
  BY DEF First
<1>5. Honest(x.asserts)
  <2>1. Honest(<<<<"hierarch.cpp:102", c.max_index = 1>>>>)
    BY HonestFirst
  <2>. QED  BY <1>4, <2>1, Zenon
<1>6. ASSUME M = Nodes, AllHold(x.asserts)
      PROVE  r.mod = size + 1 /\ Ready(r)
  <2>1. c.max_index = 1
    <3>1. 1 \in DOMAIN x.asserts
      BY <1>4
    <3>2. x.asserts[1][2]
      BY <1>6, <3>1 DEF AllHold
    <3>3. x.asserts[1] = <<"hierarch.cpp:102", c.max_index = 1>>
      BY <1>4
    <3>4. <<"hierarch.cpp:102", c.max_index = 1>>[2]
      BY <3>2, <3>3, Zenon
    <3>. QED  BY <3>4
  <2>2. size = 0 /\ M = {}
    BY <1>2, <1>6, <2>1 DEF Nodes
  <2>3. ctx.avl.root = NULL
    BY <2>2 DEF Begins, Good, Sound, Linked
  <2>4. Ready(c) /\ c.mod = size + 1
    BY <1>2, <1>6, <2>3 DEF Ready, Begins
  <2>. QED  BY <1>3, <2>4 DEF EnterDone
<1>7. r.max_index = size + 1
  BY <1>2, <1>3 DEF EnterDone
<1>8. \/ Good(r, M) /\ r.avl.count = ctx.avl.count
      \/ Good(r, M \cup {n}) /\ r.avl.count = ctx.avl.count + 1
  BY <1>2, <1>3 DEF EnterDone
<1>9. Placing(x, n, NULL, NULL)
  <2>1. \A m \in Nodes : /\ m \in Node /\ m # n /\ IndexValues(ctx)[m] \in Int
                         /\ IndexValues(c)[m] = IndexValues(ctx)[m]
    BY <1>1 DEF Begins, Begun
  <2>2. IndexValues(r)[n] = 0 /\ \A m \in Nodes : IndexValues(r)[m] = IndexValues(ctx)[m]
    BY <1>2, <1>3, <2>1 DEF EnterDone
  <2>. QED  BY <1>2, <1>4, <2>1, <2>2 DEF Placing
<1>. QED  BY <1>4, <1>5, <1>6, <1>7, <1>8, <1>9 DEF Entered

\* A node at the end of the tree (hierarch.cpp:105-114).
LEMMA AppendingEntered ==
  ASSUME NEW M, NEW n, Begins(M, n), NEW p \in Nodes, NEW x, x = Appending(n, p)
  PROVE  Entered(x, M, n) /\ Placing(x, n, p, NULL)
<1>. PICK c : c = [ctx EXCEPT !.max_index = @ + 1]
  OBVIOUS
<1>. PICK found : found = Index(c, p)
  OBVIOUS
<1>. PICK moved : moved = Displace(found, p, 0)
  OBVIOUS
<1>. PICK i : i = moved.max_index - 1
  OBVIOUS
<1>. PICK r : r = Enter(moved, n, i)
  OBVIOUS
<1>1. n \in Node \ M /\ size \in Nat /\ p \in Node /\ (M = Nodes => p \in M)
  BY DEF Begins
<1>2. /\ Good(c, M) /\ c.avl = ctx.avl /\ c.max_index = size + 1
      /\ M = Nodes => c.mod = size /\ Ready(c)
      /\ \A m \in Node : IndexValues(c)[m] = IndexValues(ctx)[m]
  <2>1. Announced(c, ctx, M)
    BY AnnouncedGood DEF Begins
  <2>. QED  BY <2>1 DEF Announced, Begins
<1>3. /\ Good(found, M) /\ found.avl = ctx.avl /\ found.max_index = size + 1
      /\ M = Nodes => found.mod = size /\ Ready(found)
      /\ IndexValues(found) = IndexValues(c)
  <2>1. IndexDone(found, c, M, p)
    BY <1>1, <1>2, IndexGood
  <2>. QED  BY <1>1, <1>2, <2>1 DEF IndexDone, Later
<1>4. /\ Good(moved, M) /\ moved.avl = ctx.avl /\ moved.max_index = size + 1
      /\ Fresh(moved, p)
      /\ M = Nodes => moved.mod = size + 1 /\ Ready(moved)
      /\ \A m \in Node : IndexValues(moved)[m] - IndexValues(found)[m] \in {0}
  <2>1. PICK Z : Covers(found, Z)
    BY <1>3 DEF Good
  <2>2. DisplaceDone(moved, found, M, Z, p, 0)
    BY <1>1, <1>3, <2>1, DisplaceGood
  <2>. QED  BY <1>1, <1>3, <2>2 DEF DisplaceDone
<1>10. \A m \in Nodes : /\ m \in Node /\ IndexValues(ctx)[m] \in 0 .. size - 1
                        /\ IndexValues(moved)[m] = IndexValues(ctx)[m]
  <2>1. \A m \in Node : IndexValues(moved)[m] \in Int /\ IndexValues(found)[m] \in Int
    BY <1>3, <1>4, FreshValue
  <2>. SUFFICES ASSUME NEW m \in Nodes
                PROVE  /\ m \in Node /\ IndexValues(ctx)[m] \in 0 .. size - 1
                       /\ IndexValues(moved)[m] = IndexValues(ctx)[m]
    OBVIOUS
  <2>2. m \in Node /\ IndexValues(ctx)[m] \in 0 .. size - 1
    BY DEF Begins
  <2>3. IndexValues(found)[m] = IndexValues(ctx)[m]
    BY <1>2, <1>3, <2>2
  <2>4. IndexValues(moved)[m] = IndexValues(found)[m]
    BY <1>4, <2>1, <2>2
  <2>. QED  BY <2>2, <2>3, <2>4
<1>11. i = size /\ moved.base_index[p] = IndexValues(ctx)[p] /\ i > moved.base_index[p]
  <2>1. moved.base_index[p] = IndexValues(moved)[p]
    BY <1>1, <1>4, FreshValue
  <2>. QED  BY <1>1, <1>4, <1>10, <2>1
<1>5. EnterDone(r, moved, M, n, i)
  <2>1. i \in Int
    BY <1>1, <1>4
  <2>. QED  BY <1>1, <1>4, <2>1, EnterGood
<1>6. /\ x.index = r
      /\ x.asserts = <<<<"index()", moved.sound>>,
                       <<"hierarch.cpp:109", i > moved.base_index[p]>>,
                       <<"hierarch.cpp:112", moved.at[p] = moved.mod>>>>
  BY DEF Appending
<1>7. Honest(x.asserts)
  <2>1. moved.sound /\ moved.at[p] = moved.mod /\ i > moved.base_index[p]
    BY <1>1, <1>4, <1>11, FreshSettled, ZenonT(60) DEF Good
  <2>2. Honest(<<<<"index()", moved.sound>>,
                 <<"hierarch.cpp:109", i > moved.base_index[p]>>,
                 <<"hierarch.cpp:112", moved.at[p] = moved.mod>>>>)
    BY <2>1, HonestAppending
  <2>. QED  BY <1>6, <2>2, Zenon
<1>8. r.max_index = size + 1 /\ (M = Nodes => r.mod = size + 1 /\ Ready(r))
  BY <1>4, <1>5 DEF EnterDone
<1>9. \/ Good(r, M) /\ r.avl.count = ctx.avl.count
      \/ Good(r, M \cup {n}) /\ r.avl.count = ctx.avl.count + 1
  BY <1>4, <1>5 DEF EnterDone
<1>12. Placing(x, n, p, NULL)
  <2>1. \A m \in Nodes : m # n
    BY DEF Begins
  <2>2. IndexValues(r)[n] = size /\ \A m \in Nodes : IndexValues(r)[m] = IndexValues(ctx)[m]
    BY <1>1, <1>5, <1>10, <1>11, <2>1, SMTT(60) DEF EnterDone
  <2>. QED  BY <1>1, <1>6, <1>10, <2>2 DEF Placing
<1>. QED  BY <1>6, <1>7, <1>8, <1>9, <1>12 DEF Entered

\* A node in front of the successor of its parent (hierarch.cpp:79-100).
LEMMA DisplacingEntered ==
  ASSUME NEW M, NEW n, Begins(M, n), NEW p \in Nodes, NEW s \in Nodes, s # p,
         NEW x, x = Displacing(n, p, s)
  PROVE  Entered(x, M, n) /\ Placing(x, n, p, s)
<1>. PICK c : c = [ctx EXCEPT !.max_index = @ + 1]
  OBVIOUS
<1>. PICK seen : seen = Index(c, p)
  OBVIOUS
<1>. PICK found : found = Index(seen, s)
  OBVIOUS
<1>. PICK i : i = found.base_index[s]
  OBVIOUS
<1>. PICK moved : moved = Displace(found, s, 1)
  OBVIOUS
<1>. PICK old : old = moved.base_index[p]
  OBVIOUS
<1>. PICK again : again = Index(moved, p)
  OBVIOUS
<1>. PICK settled : settled = Settled(again, p, old)
  OBVIOUS
<1>. PICK r : r = Enter(settled, n, i)
  OBVIOUS
<1>1. n \in Node \ M /\ size \in Nat /\ p \in Node /\ s \in Node /\ (M = Nodes => p \in M /\ s \in M)
  BY DEF Begins
<1>2. /\ Good(c, M) /\ c.avl = ctx.avl /\ c.max_index = size + 1
      /\ M = Nodes => c.mod = size /\ Ready(c)
      /\ \A m \in Node : IndexValues(c)[m] = IndexValues(ctx)[m]
  <2>1. Announced(c, ctx, M)
    BY AnnouncedGood DEF Begins
  <2>. QED  BY <2>1 DEF Announced, Begins
<1>14. PICK Z : Covers(c, Z)
  BY <1>2 DEF Good
<1>15. IndexDone(seen, c, M, p) /\ Wider(seen, p, Z)
  BY <1>1, <1>2, <1>14, IndexKeeps
<1>3. /\ Good(seen, M) /\ seen.avl = ctx.avl /\ seen.max_index = size + 1
      /\ M = Nodes => seen.mod = size /\ Ready(seen)
      /\ IndexValues(seen) = IndexValues(c)
  BY <1>1, <1>2, <1>15 DEF IndexDone, Later
<1>16. PICK Y : Covers(seen, Y) /\ p \in Y
  BY <1>15 DEF Wider
<1>17. IndexDone(found, seen, M, s) /\ Wider(found, s, Y)
  BY <1>1, <1>3, <1>16, IndexKeeps
<1>18. PICK W : Covers(found, W) /\ p \in W
  BY <1>16, <1>17 DEF Wider
<1>4. /\ Good(found, M) /\ found.avl = ctx.avl /\ found.max_index = size + 1
      /\ Fresh(found, s)
      /\ M = Nodes => found.mod = size /\ Ready(found)
      /\ IndexValues(found) = IndexValues(seen)
  BY <1>1, <1>3, <1>17 DEF IndexDone, Later
<1>5. /\ Good(moved, M) /\ moved.avl = ctx.avl /\ moved.max_index = size + 1
      /\ Fresh(moved, s) /\ moved.base_index[s] = i + 1
      /\ M = Nodes => moved.mod = size + 1 /\ Ready(moved)
      /\ \A m \in Node : IndexValues(moved)[m] - IndexValues(found)[m] \in {0, 1}
      /\ IndexValues(moved)[s] = IndexValues(found)[s] + 1
      /\ old - IndexValues(found)[p] \in {0, 1}
  <2>1. DisplaceDone(moved, found, M, W, s, 1)
    BY <1>1, <1>4, <1>18, DisplaceGood
  <2>. QED  BY <1>1, <1>4, <1>18, <2>1 DEF DisplaceDone
<1>6. /\ Good(again, M) /\ again.avl = ctx.avl /\ again.max_index = size + 1 /\ Fresh(again, p)
      /\ M = Nodes => again.mod = size + 1 /\ Ready(again)
      /\ IndexValues(again) = IndexValues(moved)
  <2>1. IndexDone(again, moved, M, p)
    BY <1>1, <1>5, IndexGood
  <2>. QED  BY <1>1, <1>5, <2>1 DEF IndexDone, Later
<1>7. i \in Int /\ old \in Int
  BY <1>1, <1>4, <1>5 DEF Good, CtxType
<1>8. /\ Good(settled, M) /\ settled.avl = ctx.avl /\ settled.max_index = size + 1
      /\ settled.at[p] = settled.mod
      /\ M = Nodes => settled.mod = size + 1 /\ Ready(settled)
      /\ \A m \in Node : IndexValues(settled)[m] = IF m = p THEN old ELSE IndexValues(again)[m]
  <2>1. Alike(settled, again, M, p, old)
    BY <1>1, <1>6, <1>7, SettledAlike
  <2>2. again.at[p] = again.mod
    BY <1>1, <1>6, FreshSettled
  <2>. QED  BY <1>6, <2>1, <2>2 DEF Alike
<1>9. EnterDone(r, settled, M, n, i)
  BY <1>1, <1>7, <1>8, EnterGood
<1>10. /\ x.index = r
       /\ x.asserts = <<<<"hierarch.cpp:82", s # p>>,
                        <<"index()", found.sound>>,
                        <<"hierarch.cpp:84", found.at[s] = found.mod>>,
                        <<"hierarch.cpp:85", found.offset[s] = 0>>,
                        <<"hierarch.cpp:87", moved.base_index[s] = i + 1>>,
                        <<"hierarch.cpp:88", old < i>>,
                        <<"hierarch.cpp:89", moved.offset[s] = 0>>,
                        <<"hierarch.cpp:90", moved.at[s] = moved.mod>>,
                        <<"hierarch.cpp:99", settled.at[p] = settled.mod>>>>
  BY ZenonT(60) DEF Displacing, Settled
<1>11. Honest(x.asserts)
  <2>1. found.sound /\ found.at[s] = found.mod /\ found.offset[s] = 0
    BY <1>1, <1>4, FreshSettled DEF Good
  <2>3. moved.at[s] = moved.mod /\ moved.offset[s] = 0
    BY <1>1, <1>5, FreshSettled
  <2>2. Honest(<<<<"hierarch.cpp:82", s # p>>,
                 <<"index()", found.sound>>,
                 <<"hierarch.cpp:84", found.at[s] = found.mod>>,
                 <<"hierarch.cpp:85", found.offset[s] = 0>>,
                 <<"hierarch.cpp:87", moved.base_index[s] = i + 1>>,
                 <<"hierarch.cpp:88", old < i>>,
                 <<"hierarch.cpp:89", moved.offset[s] = 0>>,
                 <<"hierarch.cpp:90", moved.at[s] = moved.mod>>,
                 <<"hierarch.cpp:99", settled.at[p] = settled.mod>>>>)
    BY <1>5, <1>8, <2>1, <2>3, HonestDisplacing, ZenonT(60)
  <2>. QED  BY <1>10, <2>2, Zenon
<1>12. r.max_index = size + 1 /\ (M = Nodes => r.mod = size + 1 /\ Ready(r))
  BY <1>8, <1>9 DEF EnterDone
<1>13. \/ Good(r, M) /\ r.avl.count = ctx.avl.count
       \/ Good(r, M \cup {n}) /\ r.avl.count = ctx.avl.count + 1
  BY <1>8, <1>9 DEF EnterDone
<1>19. /\ \A m \in Nodes : IndexValues(r)[m] - IndexValues(ctx)[m] \in {0, 1}
       /\ i \in 0 .. size - 1 /\ IndexValues(r)[n] = i /\ IndexValues(r)[p] = old
       /\ IndexValues(r)[s] = i + 1
  <2>1. \A m \in Nodes : m \in Node /\ m # n /\ IndexValues(ctx)[m] \in 0 .. size - 1
    BY DEF Begins
  <2>2. \A m \in Node : IndexValues(found)[m] = IndexValues(ctx)[m]
    BY <1>2, <1>3, <1>4
  <2>3. i = IndexValues(found)[s]
    BY <1>1, <1>4, FreshValue
  <2>4. /\ IndexValues(r)[n] = i
        /\ \A m \in Nodes : IndexValues(r)[m] = IF m = p THEN old ELSE IndexValues(moved)[m]
    <3>1. \A m \in Node : IndexValues(r)[m] = IF m = n THEN i ELSE IndexValues(settled)[m]
      BY <1>9 DEF EnterDone
    <3>2. \A m \in Node : IndexValues(settled)[m] = IF m = p THEN old ELSE IndexValues(moved)[m]
      BY <1>6, <1>8
    <3>3. n \in Node
      BY <1>1
    <3>4. IndexValues(r)[n] = i
      BY <3>1, <3>3
    <3>5. ASSUME NEW m \in Nodes
          PROVE  IndexValues(r)[m] = IF m = p THEN old ELSE IndexValues(moved)[m]
      <4>1. m \in Node /\ m # n
        BY <2>1
      <4>2. IndexValues(r)[m] = IndexValues(settled)[m]
        BY <3>1, <4>1
      <4>3. IndexValues(settled)[m] = IF m = p THEN old ELSE IndexValues(moved)[m]
        BY <3>2, <4>1
      <4>. QED  BY <4>2, <4>3
    <3>. QED  BY <3>4, <3>5
  <2>5. \A m \in Nodes : IndexValues(r)[m] - IndexValues(ctx)[m] \in {0, 1}
    BY <1>5, <2>1, <2>2, <2>4
  <2>6. IndexValues(r)[p] = old /\ IndexValues(r)[s] = i + 1
    BY <1>1, <1>5, <2>3, <2>4
  <2>. QED  BY <2>1, <2>2, <2>3, <2>4, <2>5, <2>6, ZenonT(60)
<1>20. AllHold(x.asserts) => old < i
  <2>1. 6 \in DOMAIN x.asserts /\ x.asserts[6] = <<"hierarch.cpp:88", old < i>>
    BY <1>10
  <2>2. AllHold(x.asserts) => x.asserts[6][2]
    BY <2>1, Zenon DEF AllHold
  <2>3. AllHold(x.asserts) => <<"hierarch.cpp:88", old < i>>[2]
    BY <2>1, <2>2, Zenon
  <2>. QED  BY <2>3
<1>21. Placing(x, n, p, s)
  <2>1. x.index = r
    BY <1>10, Zenon
  <2>. QED  BY <1>1, <1>7, <1>19, <1>20, <2>1 DEF Placing
<1>. QED  BY <1>10, <1>11, <1>12, <1>13, <1>21 DEF Entered

\* The context of the program.
CInv == Intact(ctx, Nodes, size) /\ fault \in {"none"} \cup MayFail

\* The entry of add_leaf, in each of its cases.
Entry(n, p, s) == IF p = NULL THEN First(n) ELSE IF s = NULL THEN Appending(n, p)
                  ELSE Displacing(n, p, s)

\* What add_leaf does with the node p, by its new context.
Added(p, n, s, x, d) ==
  \E f :
    /\ \E rest : /\ Named(rest) /\ (AllHold(x.asserts) => AllHold(rest))
                 /\ f = FirstFailed(x.asserts \o rest)
    /\ IF f # "none" THEN Abort(f) ELSE size' = n /\ ctx' = d /\ UNCHANGED fault

\* The rest of add_leaf: it aborts at the first assertion that fails, or is done.
LEMMA AddLeafSteps ==
  ASSUME NEW p, AddLeaf(p), NEW n, n = size + 1,
         NEW s, s = IF p = NULL THEN NULL ELSE list.successor[p],
         NEW x, x = Entry(n, p, s), NEW e, e = IndexAlong(x.index, Consulted(n, p, s)),
         NEW d, d = CallIndex(e, Waiting(s))[1],
         Index(x.index, n).offset[n] = 0, d.sound, Placing(x, n, p, s)
  PROVE  fault = "none" /\ size < MaxNodes /\ Added(p, n, s, x, d)
<1>. PICK index : index = IndexValues(x.index)
  OBVIOUS
<1>. PICK low : low = IF p = NULL THEN 0 ELSE index[p]
  OBVIOUS
<1>. DEFINE rest == <<<<"hierarch.cpp:120", Index(x.index, n).offset[n] = 0>>,
                      <<"hierarch.cpp:121", p # NULL => index[n] > low>>,
                      <<"hierarch.cpp:122", s # NULL => index[n] < index[s]>>,
                      <<"index()", d.sound>>>>
            f == FirstFailed(x.asserts \o rest)
<1>1. Named(rest) /\ (AllHold(x.asserts) => AllHold(rest))
  <2>1. /\ AllHold(x.asserts) => (p # NULL => index[n] > low)
        /\ AllHold(x.asserts) => (s # NULL => index[n] < index[s])
    BY DEF Placing
  <2>. PICK b1, b2, b3, b4 : /\ b1 = (Index(x.index, n).offset[n] = 0)
                             /\ b2 = (p # NULL => index[n] > low)
                             /\ b3 = (s # NULL => index[n] < index[s]) /\ b4 = d.sound
    OBVIOUS
  <2>2. rest = Ended(b1, b2, b3, b4)
    BY DEF Ended
  <2>3. AllHold(x.asserts) => b1 /\ b2 /\ b3 /\ b4
    BY <2>1
  <2>. HIDE DEF rest
  <2>. QED  BY <2>2, <2>3, EndedNamed
<1>2. /\ fault = "none" /\ size < MaxNodes
      /\ IF f # "none" THEN Abort(f) ELSE size' = n /\ ctx' = d /\ UNCHANGED fault
  BY DEF AddLeaf, Entry
<1>3. Added(p, n, s, x, d)
  <2>. HIDE DEF rest
  <2>. QED  BY <1>1, <1>2, Zenon DEF Added
<1>. QED  BY <1>2, <1>3

\* An insertion keeps the context good, and is one modification more; an aborted one
\* changes nothing.
LEMMA AddLeafIntact ==
  ASSUME IInv, CInv, NEW p \in Nodes \cup {NULL}, AddLeaf(p)
  PROVE  CInv' /\ Shifted
<1>. PICK n : n = size + 1
  OBVIOUS
<1>. PICK s : s = IF p = NULL THEN NULL ELSE list.successor[p]
  OBVIOUS
<1>. PICK x : x = Entry(n, p, s)
  OBVIOUS
<1>. PICK e : e = IndexAlong(x.index, Consulted(n, p, s))
  OBVIOUS
<1>. PICK d : d = CallIndex(e, Waiting(s))[1]
  OBVIOUS
<1>1. /\ size \in 0 .. MaxNodes /\ MaxNodes \in Nat /\ Node = 1 .. MaxNodes
      /\ size < MaxNodes /\ fault = "none"
      /\ \A m \in Nodes : list.successor[m] \in (Nodes \cup {NULL}) \ {m}
  BY NodeAssumption DEF IInv, ListTypes, AddLeaf
<1>2. /\ size \in Nat /\ Nodes \subseteq Node /\ n \in Node \ Nodes /\ NULL \notin Node
      /\ n # size /\ IsFiniteSet(Nodes) /\ Nodes = 1 .. size /\ 1 .. n = Nodes \cup {n}
  <2>1. IsFiniteSet(1 .. size)
    BY <1>1, FS_Interval
  <2>. QED  BY <1>1, <2>1, NullAssumption DEF Nodes
<1>3. PICK M \in SUBSET Nodes :
        /\ Good(ctx, M) /\ ctx.avl.count = Cardinality(M) /\ ctx.max_index = size
        /\ M = Nodes => ctx.mod = size /\ Ready(ctx)
  BY DEF CInv, Intact
<1>18. \A m \in Nodes : IndexValues(ctx)[m] \in 0 .. size - 1
  BY DEF CInv, Intact
<1>4. Begins(M, n)
  BY <1>2, <1>3, <1>18 DEF Begins
<1>5. s \in Nodes \cup {NULL} /\ (p = NULL => s = NULL) /\ (p # NULL => s # p)
  BY <1>1
<1>6. Entered(x, M, n) /\ Placing(x, n, p, s)
  <2>1. CASE p = NULL
    BY <1>4, <1>5, <2>1, FirstEntered DEF Entry
  <2>2. CASE p # NULL /\ s = NULL
    BY <1>4, <2>2, AppendingEntered DEF Entry
  <2>3. CASE p # NULL /\ s # NULL
    BY <1>4, <1>5, <2>3, DisplacingEntered DEF Entry
  <2>. QED  BY <2>1, <2>2, <2>3
<1>7. PICK L \in {M, M \cup {n}} :
        /\ Good(x.index, L) /\ x.index.max_index = n /\ x.index.avl.count = Cardinality(L)
        /\ L = Nodes \cup {n} => M = Nodes
  <2>1. IsFiniteSet(M)
    BY <1>2, FS_Subset
  <2>2. Cardinality(M \cup {n}) = Cardinality(M) + 1
    BY <1>2, <2>1, FS_AddElement, ZenonT(60)
  <2>. QED  BY <1>2, <1>3, <1>6, <2>2, ZenonT(60) DEF Entered
<1>8. Waiting(s) \subseteq Nodes /\ Waiting(s) \in SUBSET Node
  BY <1>2, <1>5 DEF Waiting, IInv, ListTypes
<1>16. /\ Good(e, L) /\ e.avl = x.index.avl /\ e.max_index = n
       /\ L = Nodes \cup {n} /\ Ready(x.index) => e.mod = x.index.mod /\ Ready(e)
       /\ IndexValues(e) = IndexValues(x.index)
  <2>. PICK q : q = Consulted(n, p, s)
    OBVIOUS
  <2>1. q \in Seq(Nodes \cup {n}) /\ q \in Seq(Node)
    <3>1. ASSUME NEW X, n \in X, p \in X \cup {NULL}, s \in X \cup {NULL}, p = NULL => s = NULL
          PROVE  q \in Seq(X)
      <4>1. CASE p = NULL
        BY <3>1, <4>1 DEF Consulted
      <4>2. CASE p # NULL /\ s = NULL
        BY <3>1, <4>2 DEF Consulted
      <4>3. CASE p # NULL /\ s # NULL
        BY <3>1, <4>3 DEF Consulted
      <4>. QED  BY <4>1, <4>2, <4>3
    <3>2. q \in Seq(Nodes \cup {n})
      BY <1>5, <3>1
    <3>3. q \in Seq(Node)
      BY <1>2, <1>5, <3>1
    <3>. QED  BY <3>2, <3>3
  <2>2. PICK Z : Covers(x.index, Z)
    BY <1>7 DEF Good
  <2>3. AlongDone(e, x.index, L, Z, q, Len(q))
    BY <1>7, <2>1, <2>2, AlongGood
  <2>4. \A i \in 1 .. Len(q) : q[i] \in Nodes \cup {n}
    BY <2>1
  <2>. QED  BY <1>7, <2>3, <2>4 DEF AlongDone, Later
<1>9. CallsDone(d, e, L, Waiting(s))
  BY <1>8, <1>16, CallsGood, SMTT(60)
<1>10. /\ Good(d, L) /\ d.avl = x.index.avl /\ d.max_index = n /\ d.sound
       /\ IndexValues(d) = IndexValues(x.index)
  BY <1>9, <1>16 DEF CallsDone, Good
<1>17. Index(x.index, n).offset[n] = 0
  <2>1. IndexDone(Index(x.index, n), x.index, L, n)
    BY <1>2, <1>7, IndexGood
  <2>. QED  BY <1>2, <2>1, FreshSettled DEF IndexDone
<1>11. Added(p, n, s, x, d)
  BY <1>6, <1>10, <1>17, AddLeafSteps
<1>12. PICK f : /\ \E rest : /\ Named(rest) /\ (AllHold(x.asserts) => AllHold(rest))
                             /\ f = FirstFailed(x.asserts \o rest)
                /\ IF f # "none" THEN Abort(f) ELSE size' = n /\ ctx' = d /\ UNCHANGED fault
  BY <1>11 DEF Added
<1>13. f \in {"none"} \cup MayFail /\ (f = "none" => AllHold(x.asserts))
  <2>1. PICK rest : /\ Named(rest) /\ (AllHold(x.asserts) => AllHold(rest))
                    /\ f = FirstFailed(x.asserts \o rest)
    BY <1>12
  <2>2. Honest(x.asserts)
    BY <1>6 DEF Entered
  <2>. QED  BY <2>1, <2>2, HonestTogether
<1>14. CASE f # "none"
  <2>1. fault' = f /\ UNCHANGED <<size, ctx>>
    BY <1>12, <1>14 DEF Abort
  <2>2. Nodes' = Nodes
    BY <2>1 DEF Nodes
  <2>3. CInv'
    BY <1>13, <2>1, <2>2 DEF CInv
  <2>4. IndexValues(ctx)' = IndexValues(ctx) /\ size' - size = 0
    BY <1>2, <2>1
  <2>. QED  BY <1>18, <2>3, <2>4 DEF Shifted
<1>15. CASE f = "none"
  <2>1. size' = n /\ ctx' = d /\ fault' = "none" /\ Nodes' = Nodes \cup {n}
    BY <1>1, <1>2, <1>12, <1>15 DEF Nodes
  <2>2. ASSUME L = Nodes \cup {n}  PROVE d.mod = n /\ Ready(d)
    <3>1. M = Nodes
      BY <1>7, <2>2
    <3>2. x.index.mod = n /\ Ready(x.index)
      BY <1>6, <1>13, <1>15, <3>1, SMTT(60) DEF Entered
    <3>. QED  BY <1>8, <1>9, <1>16, <2>2, <3>2 DEF CallsDone
  <2>3. Intact(d, Nodes \cup {n}, n)
    <3>1. L \in SUBSET (Nodes \cup {n})
      BY <1>7
    <3>2. ASSUME NEW m \in Nodes \cup {n}
          PROVE  IndexValues(d)[m] \in 0 .. n - 1
      <4>1. n - 1 = size /\ size \in Nat
        BY <1>2
      <4>2. CASE m = n
        BY <1>6, <1>10, <4>1, <4>2 DEF Placing
      <4>3. CASE m \in Nodes
        <5>1. IndexValues(d)[m] - IndexValues(ctx)[m] \in {0, 1}
          BY <1>6, <1>10, <4>3 DEF Placing
        <5>2. IndexValues(d)[m] \in Int
          BY <1>2, <1>10, <4>3, FreshValue
        <5>. QED  BY <1>18, <4>1, <4>3, <5>1, <5>2
      <4>. QED  BY <4>2, <4>3
    <3>. QED  BY <1>7, <1>10, <2>2, <3>1, <3>2 DEF Intact
  <2>4. CInv'
    BY <2>1, <2>3 DEF CInv
  <2>5. Shifted
    <3>1. IndexValues(ctx)' = IndexValues(x.index) /\ size' - size = 1
      BY <1>2, <1>10, <2>1
    <3>. QED  BY <1>6, <3>1 DEF Shifted, Placing
  <2>. QED  BY <2>4, <2>5
<1>. QED  BY <1>14, <1>15

\* A read keeps the context good, and all indexes.
LEMMA ReadIntact ==
  ASSUME IInv, CInv, NEW n \in Nodes, Read(n)
  PROVE  CInv' /\ Shifted
<1>. PICK d : d = Index(ctx, n)
  OBVIOUS
<1>1. PICK M \in SUBSET Nodes :
        /\ Good(ctx, M) /\ ctx.avl.count = Cardinality(M) /\ ctx.max_index = size
        /\ M = Nodes => ctx.mod = size /\ Ready(ctx)
  BY DEF CInv, Intact
<1>2. n \in Node
  BY NodeAssumption DEF IInv, ListTypes, Nodes
<1>3. IndexDone(d, ctx, M, n)
  BY <1>1, <1>2, IndexGood
<1>4. Good(d, M) /\ d.avl = ctx.avl /\ d.max_index = size /\ d.sound
      /\ (M = Nodes => d.mod = size /\ Ready(d)) /\ IndexValues(d) = IndexValues(ctx)
  BY <1>1, <1>3 DEF IndexDone, Later, Good
<1>5. ctx' = d /\ UNCHANGED <<size, fault>>
  BY <1>4 DEF Read
<1>6. Intact(d, Nodes, size)
  <2>1. \A m \in Nodes : IndexValues(d)[m] \in 0 .. size - 1
    BY <1>4 DEF CInv, Intact
  <2>. QED  BY <1>1, <1>4, <2>1 DEF Intact
<1>7. Nodes' = Nodes
  BY <1>5 DEF Nodes
<1>8. CInv'
  BY <1>5, <1>6, <1>7 DEF CInv
<1>9. Shifted
  <2>1. IndexValues(ctx)' = IndexValues(ctx)
    BY <1>4, <1>5
  <2>2. \A m \in Nodes : IndexValues(ctx)[m] \in Int
    BY DEF CInv, Intact
  <2>3. size' - size = 0
    BY <1>5 DEF IInv, ListTypes
  <2>. QED  BY <2>1, <2>2, <2>3 DEF Shifted
<1>. QED  BY <1>8, <1>9

\* A new context has no nodes.
LEMMA InitIntact == Init => CInv
<1>. SUFFICES ASSUME Init  PROVE CInv
  OBVIOUS
<1>1. /\ size = 0 /\ fault = "none" /\ Nodes = {} /\ NULL \notin Node
  BY NullAssumption DEF Init, Nodes
<1>. PICK z : z = [n \in Node |-> 0]
  OBVIOUS
<1>2. ctx = Context(0, 0, EmptyTable, TRUE, z, z, z)
  BY DEF Init, Context
<1>3. HasFields(ctx, 0, 0, EmptyTable, TRUE, z, z, z)
  BY <1>2, ContextIs
<1>4. z \in [Node -> Int] /\ z \in [Node -> Nat] /\ \A n \in Node : z[n] = 0
  OBVIOUS
<1>5. Sound(EmptyTable, {}) /\ EmptyTable.root = NULL /\ EmptyTable.count = 0
      /\ \A n \in Node : EmptyTable.up[n] = NULL
  BY EmptySound
<1>6. EmptyTable \in Tables
  BY <1>5 DEF Sound, TableType, Tables
<1>7. /\ ctx.mod = 0 /\ ctx.max_index = 0 /\ ctx.avl = EmptyTable /\ ctx.sound = TRUE
      /\ ctx.offset = z /\ ctx.at = z /\ CtxType(ctx)
  BY <1>3, <1>4, <1>6 DEF HasFields
<1>8. Quiet(ctx, Node)
  BY <1>4, <1>5, <1>7 DEF Quiet, UpClosed
<1>9. Good(ctx, {})
  BY <1>4, <1>5, <1>7, <1>8 DEF Good, Covers
<1>10. Ready(ctx)
  BY <1>5, <1>7 DEF Ready
<1>11. Cardinality({}) = 0
  BY FS_EmptySet
<1>. QED  BY <1>1, <1>5, <1>7, <1>9, <1>10, <1>11 DEF CInv, Intact

\* The invariant is inductive.
LEMMA IntactSteps == IInv /\ CInv /\ [Next]_vars => CInv' /\ Shifted
<1>. SUFFICES ASSUME IInv, CInv, [Next]_vars  PROVE CInv' /\ Shifted
  OBVIOUS
<1>1. ASSUME NEW p \in Nodes \cup {NULL}, AddLeaf(p)  PROVE CInv' /\ Shifted
  BY <1>1, AddLeafIntact
<1>2. ASSUME NEW n \in Nodes, Read(n)  PROVE CInv' /\ Shifted
  BY <1>2, ReadIntact
<1>3. CASE UNCHANGED vars
  <2>1. Nodes' = Nodes /\ UNCHANGED <<size, ctx, fault>>
    BY <1>3 DEF vars, Nodes
  <2>2. CInv'
    BY <2>1 DEF CInv
  <2>3. IndexValues(ctx)' = IndexValues(ctx)
    BY <2>1
  <2>4. \A m \in Nodes : IndexValues(ctx)[m] \in Int
    BY DEF CInv, Intact
  <2>5. size' - size = 0
    BY <2>1 DEF IInv, ListTypes
  <2>6. Shifted
    BY <2>3, <2>4, <2>5 DEF Shifted
  <2>. QED  BY <2>2, <2>6
<1>. QED  BY <1>1, <1>2, <1>3 DEF Next

\* The invariant of the lists and the context.
LEMMA IndexInvariant == Spec => [](IInv /\ CInv)
<1>1. IInv /\ CInv /\ [Next]_vars => CInv'
  BY IntactSteps
<1>. QED  BY InitIInv, NextIInv, InitIntact, <1>1, PTL DEF Spec

\* No up-to-date node has an offset pending at it or above it, after any insertions,
\* rotations and reads (node.h:29): what index() relies on when it answers with base_index
\* at once (node.cpp:67).
THEOREM UpToDateStaysClean == Spec => []UpToDateClean
<1>1. IInv /\ CInv => UpToDateClean
  <2>. SUFFICES ASSUME IInv, CInv, NEW n \in Nodes, Fresh(ctx, n),
                       NEW m \in AvlPath(ctx, n)
                PROVE  ctx.offset[m] = 0
    BY DEF UpToDateClean
  <2>1. PICK M \in SUBSET Nodes : Good(ctx, M)
    BY DEF CInv, Intact
  <2>2. n \in Node
    BY NodeAssumption DEF IInv, ListTypes, Nodes
  <2>3. PICK Z : Quiet(ctx, Z) /\ n \in Z /\ Sound(ctx.avl, M)
    BY <2>1, <2>2 DEF Good, Covers
  <2>4. PICK g, G : Deep(ctx.avl.up, g, G)
    BY <2>3, SoundDeep
  <2>5. IsPath(AvlPath(ctx, n), ctx, n)
    BY <2>2, <2>4, AvlPathIs
  <2>6. AvlPath(ctx, n) \subseteq Z
    BY <2>3, <2>5 DEF IsPath, Quiet
  <2>. QED  BY <2>3, <2>6 DEF Quiet
<1>. QED  BY IndexInvariant, <1>1, PTL

\* While no node was left out of the AVL tree, every insertion was one modification and
\* every read none (hierarch.cpp:103, node.cpp:69-75,94): the root of the AVL tree is up to
\* date whenever add_leaf is done.
THEOREM LeavesAreMods == Spec => []OneModPerLeaf
<1>1. IInv /\ CInv => OneModPerLeaf
  <2>. SUFFICES ASSUME IInv, CInv, ctx.avl.count = size  PROVE ctx.mod = size
    BY DEF OneModPerLeaf
  <2>1. PICK M \in SUBSET Nodes :
          ctx.avl.count = Cardinality(M) /\ (M = Nodes => ctx.mod = size)
    BY DEF CInv, Intact
  <2>2. size \in Nat
    BY DEF IInv, ListTypes
  <2>3. IsFiniteSet(Nodes) /\ Cardinality(Nodes) = size
    BY <2>2, FS_Interval DEF Nodes
  <2>4. M = Nodes
    BY <2>1, <2>3, FS_Subset
  <2>. QED  BY <2>1, <2>4
<1>. QED  BY IndexInvariant, <1>1, PTL

\* An insertion moves every index by one or not at all, even when indexes are in the wrong
\* order or equal: displace's offsets reach every node once, however often index() hands
\* them down in the meantime and whatever the AVL tree rotates (node.cpp:63-111).
\* What index() itself changes is the index of no node.
THEOREM IndexesShiftByOne == Spec => IndexesShift
<1>1. IInv /\ CInv /\ [Next]_vars => [Shifted]_vars
  BY IntactSteps
<1>. QED  BY IndexInvariant, <1>1, PTL DEF Spec, IndexesShift

\* Every index is one of the places in the tree, 0 up to its last: unsigned indexes never
\* wrap, though offsets are added on many paths.
THEOREM IndexesStayInRange == Spec => [](\A n \in Nodes : IndexValues(ctx)[n] \in 0 .. size - 1)
<1>1. CInv => \A n \in Nodes : IndexValues(ctx)[n] \in 0 .. size - 1
  BY DEF CInv, Intact
<1>. QED  BY IndexInvariant, <1>1, PTL

\* Of all its assertions, add_leaf's only doubtful ones are that the parent's index is
\* smaller than the one the new node takes from the parent's successor (hierarch.cpp:88) and
\* that a node is selected (hierarch.cpp:102).  The nodes it has just read or moved are up
\* to date with nothing pending (84-90,99,112,120); no node is its own successor (82); a
\* node at the end comes behind its parent (109); and the last comparisons can only fail
\* when an earlier one has (121,122).
THEOREM OthersNeverFail == Spec => [](fault \in {"none"} \cup MayFail)
<1>1. CInv => fault \in {"none"} \cup MayFail
  BY DEF CInv
<1>. QED  BY IndexInvariant, <1>1, PTL

\* What the AVL tree is for all its wrong order: linked, in balance, and with as many nodes
\* as it counts; and the context's max_index is the number of nodes of the tree.
THEOREM TreeStaysSound ==
  Spec => [](/\ \E M \in SUBSET Nodes : Sound(ctx.avl, M) /\ ctx.avl.count = Cardinality(M)
             /\ ctx.max_index = size)
<1>1. CInv => /\ \E M \in SUBSET Nodes : Sound(ctx.avl, M) /\ ctx.avl.count = Cardinality(M)
              /\ ctx.max_index = size
  BY DEF CInv, Intact, Good
<1>. QED  BY IndexInvariant, <1>1, PTL
=============================================================================
