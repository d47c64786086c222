--------------------------- MODULE DfiIndexProofs ---------------------------
(***************************************************************************)
(* Theorems about DfiIndex, for every bound on the nodes and every set of  *)
(* initial trees: insertions keep the tree a tree, and no sequence of      *)
(* insertions and reads ever leaves a node more up to date than its parent.*)
(*                                                                         *)
(* If the numbers are document order and all nodes are up to date, then    *)
(* insert() leaves numbers that are document order of the larger tree, and *)
(* tables in their order (Exact, InsertNodeExact); DFilterProofs uses it,  *)
(* and the last sections: what the search of a table passes by, where the  *)
(* way along its links leads, and lists of its members by their numbers.   *)
(***************************************************************************)
EXTENDS DfiIndex, PavlProofs, SequenceTheorems

-----------------------------------------------------------------------------
(* The nodes of S take their value from that of a smaller node, up[n]; the others *)
(* have one of their own.                                                          *)

Climbs(f, D, S, up, base, cache) ==
  f = [n \in D |-> IF n \in S THEN base[n] + f[up[n]] - cache[n] ELSE base[n]]

\* Such values exist.
LEMMA ClimbDefined ==
  ASSUME NEW N \in Nat, NEW S, NEW up, NEW base, NEW cache,
         \A n \in 1 .. N : n \in S => up[n] \in 1 .. n - 1
  PROVE  \E f : Climbs(f, 1 .. N, S, up, base, cache)
<1>. DEFINE T == {k \in 0 .. N : \E f : Climbs(f, 1 .. k, S, up, base, cache)}
<1>1. 0 \in T
  <2>1. Climbs([n \in 1 .. 0 |-> 0], 1 .. 0, S, up, base, cache)
    BY DEF Climbs
  <2>. QED  BY <2>1
<1>2. ASSUME NEW k \in 0 .. N - 1, k \in T
      PROVE  k + 1 \in T
  <2>1. PICK f : Climbs(f, 1 .. k, S, up, base, cache)
    BY <1>2
  <2>. DEFINE last == IF k + 1 \in S THEN base[k + 1] + f[up[k + 1]] - cache[k + 1]
                      ELSE base[k + 1]
              g == [n \in 1 .. k + 1 |-> IF n = k + 1 THEN last ELSE f[n]]
  <2>2. k + 1 \in 1 .. N /\ \A n \in 1 .. k : n \in 1 .. k + 1 /\ n # k + 1 /\ n \in 1 .. N
    OBVIOUS
  <2>3. \A n \in 1 .. k : g[n] = f[n]
    BY <2>2
  <2>4. ASSUME NEW n \in 1 .. k + 1
        PROVE  g[n] = IF n \in S THEN base[n] + g[up[n]] - cache[n] ELSE base[n]
    <3>1. n \in S => up[n] \in 1 .. k
      BY <2>2
    <3>2. CASE n = k + 1
      BY <2>3, <3>1, <3>2
    <3>3. CASE n \in 1 .. k
      <4>1. f[n] = IF n \in S THEN base[n] + f[up[n]] - cache[n] ELSE base[n]
        BY <2>1, <3>3 DEF Climbs
      <4>. QED  BY <2>3, <3>1, <3>3, <4>1
    <3>. QED  BY <3>2, <3>3
  <2>5. Climbs(g, 1 .. k + 1, S, up, base, cache)
    BY <2>4 DEF Climbs
  <2>. QED  BY <2>2, <2>5
<1>3. 0 .. N \subseteq T
  BY <1>1, <1>2, Reaches
<1>. QED  BY <1>3

\* Two values are the same, if at every node they are, or are the same as soon as they
\* agree at a smaller node.
Agree(f, g, N) == \A n \in 1 .. N : f[n] = g[n]

AgreeFromBelow(f, g, up, N) ==
  \A n \in 1 .. N : \/ f[n] = g[n]
                    \/ up[n] \in 1 .. n - 1 /\ (f[up[n]] = g[up[n]] => f[n] = g[n])

LEMMA ClimbUnique ==
  ASSUME NEW N \in Nat, NEW f, NEW g, NEW up, AgreeFromBelow(f, g, up, N)
  PROVE  Agree(f, g, N)
<1>. DEFINE T == {n \in 1 .. N : f[n] # g[n]}
<1>. SUFFICES ASSUME T # {}  PROVE FALSE
  BY DEF Agree
<1>1. PICK n \in T : \A m \in T : n <= m
  <2>1. T \subseteq Nat
    OBVIOUS
  <2>. HIDE DEF T
  <2>. QED  BY <2>1, LeastMember
<1>2. up[n] \in 1 .. n - 1 /\ f[up[n]] # g[up[n]]
  BY <1>1 DEF AgreeFromBelow
<1>. QED  BY <1>1, <1>2

-----------------------------------------------------------------------------
\* The tree of the first `size` nodes is sound: parents, ancestors and child lists
\* agree (TNode::parent and TNode::children, insert and add_child).
TreeSound ==
  /\ size \in 1 .. MaxNodes
  /\ TreeShape(tree)
  /\ Ancestry(tree, size)
  /\ ChildLists(tree, size)

ModsTyped(b) == b.base_mod \in [Node -> Int] /\ b.latest_mod \in Int

\* ModsFresh for the first k nodes of a tree t and an index b.
Fresh(t, b, k) ==
  \A n \in 1 .. k :
    /\ b.base_mod[n] <= b.latest_mod
    /\ t.parent[n] # NULL => b.base_mod[n] <= b.base_mod[t.parent[n]]

IInv == TreeSound /\ ModsTyped(idx) /\ ModsFresh

\* What dfi() does to base_mod.
LEMMA RefreshMods ==
  ASSUME NEW t, NEW b, NEW S
  PROVE  /\ Refresh(t, b, S).latest_mod = b.latest_mod
         /\ \A y \in Node : Refresh(t, b, S).base_mod[y] =
              IF y \in Touched(t, b, S) THEN b.latest_mod ELSE b.base_mod[y]
         /\ ModsTyped(b) => ModsTyped(Refresh(t, b, S))
BY DEF Refresh, ModsTyped

\* dfi() reaches the parent of every node it brings up to date, unless the parent is
\* up to date already.
LEMMA TouchedParents ==
  ASSUME NEW t, NEW b, NEW S, NEW k \in 1 .. MaxNodes,
         TreeShape(t), Ancestry(t, k), ModsTyped(b), Fresh(t, b, k),
         NEW n \in 1 .. k, n \in Touched(t, b, S), t.parent[n] # NULL,
         b.base_mod[t.parent[n]] < b.latest_mod
  PROVE  t.parent[n] \in Touched(t, b, S)
<1>. DEFINE p == t.parent[n]
<1>0. Node = 1 .. MaxNodes /\ NULL \notin Node
  BY NodeAssumption, NullAssumption
<1>1. PICK m \in S \cap Node :
        /\ n = m \/ n \in t.above[m]
        /\ \A z \in t.above[m] \cup {m} : n \in t.above[z] => b.base_mod[z] < b.latest_mod
  BY DEF Touched
<1>2. p \in 1 .. k /\ p \in Node /\ n \in Node
  BY <1>0, NodeAssumption DEF Ancestry
<1>3. t.above[n] = t.above[p] \cup {p} /\ n \notin t.above[n] /\ p \notin t.above[p]
  BY <1>2 DEF Ancestry
<1>4. m \in 1 .. k
  BY <1>1, <1>0 DEF Ancestry
<1>5. p \in t.above[m]
  BY <1>1, <1>3, <1>4 DEF Ancestry
<1>6. b.base_mod[n] < b.latest_mod
  <2>1. b.base_mod[n] <= b.base_mod[t.parent[n]]
    BY DEF Fresh
  <2>2. b.base_mod[n] \in Int /\ b.base_mod[t.parent[n]] \in Int /\ b.latest_mod \in Int
    BY <1>2 DEF ModsTyped
  <2>. QED  BY <2>1, <2>2
<1>7. ASSUME NEW z \in t.above[m] \cup {m}, p \in t.above[z]
      PROVE  b.base_mod[z] < b.latest_mod
  <2>1. z \in 1 .. k
    BY <1>4 DEF Ancestry
  <2>2. CASE z = n
    BY <1>6, <2>2
  <2>3. CASE n \in t.above[z]
    BY <1>1, <2>3
  <2>4. CASE z \in t.above[n]
    <3>1. z = p \/ z \in t.above[p]
      BY <1>3, <2>4
    <3>2. p \in t.above[p]
      BY <3>1, <1>7, <1>2 DEF Ancestry
    <3>. QED  BY <3>2, <1>3
  <2>5. z = n \/ n \in t.above[z] \/ z \in t.above[n]
    BY <1>1, <1>4, <1>7 DEF Ancestry
  <2>. QED  BY <2>2, <2>3, <2>4, <2>5
<1>. QED  BY <1>1, <1>2, <1>5, <1>7 DEF Touched

\* Calling dfi() on any nodes keeps the index fresh.
LEMMA RefreshFresh ==
  ASSUME NEW t, NEW b, NEW S, NEW k \in 1 .. MaxNodes,
         TreeShape(t), Ancestry(t, k), ModsTyped(b), Fresh(t, b, k)
  PROVE  Fresh(t, Refresh(t, b, S), k)
<1>. DEFINE r == Refresh(t, b, S)
<1>0. Node = 1 .. MaxNodes
  BY NodeAssumption
<1>1. \A y \in Node : r.base_mod[y] = IF y \in Touched(t, b, S) THEN b.latest_mod
                                       ELSE b.base_mod[y]
  BY RefreshMods
<1>2. r.latest_mod = b.latest_mod
  BY RefreshMods
<1>. SUFFICES ASSUME NEW n \in 1 .. k
              PROVE  /\ r.base_mod[n] <= r.latest_mod
                     /\ t.parent[n] # NULL => r.base_mod[n] <= r.base_mod[t.parent[n]]
  BY DEF Fresh
<1>3. n \in Node /\ b.base_mod[n] \in Int /\ b.latest_mod \in Int
      /\ b.base_mod[n] <= b.latest_mod
  BY <1>0, NodeAssumption DEF ModsTyped, Fresh
<1>4. r.base_mod[n] <= r.latest_mod
  BY <1>1, <1>2, <1>3
<1>5. ASSUME t.parent[n] # NULL
      PROVE  r.base_mod[n] <= r.base_mod[t.parent[n]]
  <2>1. t.parent[n] \in Node /\ t.parent[n] \in 1 .. k
    BY <1>0, <1>5, NodeAssumption DEF Ancestry
  <2>2. b.base_mod[t.parent[n]] \in Int /\ b.base_mod[t.parent[n]] <= b.latest_mod
        /\ b.base_mod[n] <= b.base_mod[t.parent[n]]
    BY <2>1, <1>5 DEF ModsTyped, Fresh
  <2>3. CASE n \in Touched(t, b, S) /\ b.base_mod[t.parent[n]] < b.latest_mod
    <3>1. t.parent[n] \in Touched(t, b, S)
      BY <2>3, <1>5, TouchedParents
    <3>. QED  BY <3>1, <2>1, <2>3, <1>1, <1>3
  <2>4. CASE ~(n \in Touched(t, b, S) /\ b.base_mod[t.parent[n]] < b.latest_mod)
    BY <2>4, <2>1, <2>2, <1>1, <1>3
  <2>. QED  BY <2>3, <2>4
<1>. QED  BY <1>4, <1>5

-----------------------------------------------------------------------------
(* Insertion into a child list, and into the tree. *)

\* A sequence with one more element between its two parts.
LEMMA BetweenParts ==
  ASSUME NEW T, NEW l \in Seq(T), NEW e \in T, NEW r \in Seq(T)
  PROVE  /\ (l \o <<e>>) \o r \in Seq(T)
         /\ Len((l \o <<e>>) \o r) = Len(l) + 1 + Len(r)
         /\ \A j \in 1 .. Len(l) + 1 + Len(r) : ((l \o <<e>>) \o r)[j] =
              IF j <= Len(l) THEN l[j] ELSE IF j = Len(l) + 1 THEN e
              ELSE r[j - (Len(l) + 1)]
<1>1. <<e>> \in Seq(T) /\ Len(<<e>>) = 1 /\ <<e>>[1] = e
  OBVIOUS
<1>2. PICK m \in Seq(T) : m = l \o <<e>>
  BY <1>1, ConcatProperties
<1>3. /\ Len(m) = Len(l) + 1
      /\ \A j \in 1 .. Len(l) + 1 : m[j] = IF j <= Len(l) THEN l[j] ELSE e
  BY <1>1, <1>2, ConcatProperties
<1>4. /\ m \o r \in Seq(T) /\ Len(m \o r) = Len(m) + Len(r)
      /\ \A j \in 1 .. Len(m) + Len(r) :
           (m \o r)[j] = IF j <= Len(m) THEN m[j] ELSE r[j - Len(m)]
  BY ConcatProperties
<1>5. Len(l) \in Nat /\ Len(r) \in Nat
  OBVIOUS
<1>6. ASSUME NEW j \in 1 .. Len(l) + 1 + Len(r)
      PROVE  (m \o r)[j] = IF j <= Len(l) THEN l[j] ELSE IF j = Len(l) + 1 THEN e
                           ELSE r[j - (Len(l) + 1)]
  <2>1. (m \o r)[j] = IF j <= Len(l) + 1 THEN m[j] ELSE r[j - (Len(l) + 1)]
    BY <1>3, <1>4, <1>5
  <2>2. j \in Int /\ 1 <= j
    OBVIOUS
  <2>3. j <= Len(l) => (m \o r)[j] = l[j]
    BY <2>1, <2>2, <1>3, <1>5
  <2>4. j = Len(l) + 1 => (m \o r)[j] = e
    BY <2>1, <2>2, <1>3, <1>5
  <2>5. ~(j <= Len(l)) /\ j # Len(l) + 1 => (m \o r)[j] = r[j - (Len(l) + 1)]
    <3>1. ~(j <= Len(l)) /\ j # Len(l) + 1 => ~(j <= Len(l) + 1)
      BY <2>2, <1>5
    <3>. QED  BY <3>1, <2>1
  <2>. QED  BY <2>3, <2>4, <2>5
<1>. QED  BY <1>2, <1>3, <1>4, <1>5, <1>6

\* The list d that a list c becomes when n is inserted at place i.
IsGrown(c, d, n, i, T) ==
  /\ d \in Seq(T) /\ Len(d) = Len(c) + 1
  /\ \A j \in 1 .. Len(c) + 1 : /\ j < i => d[j] = c[j]
                                /\ j = i => d[j] = n
                                /\ j > i => d[j] = c[j - 1]

\* What vector::insert does to a list of children.
LEMMA InsertAtFacts ==
  ASSUME NEW T, NEW s \in Seq(T), NEW e \in T, NEW i \in 1 .. Len(s) + 1
  PROVE  IsGrown(s, InsertAt(s, i, e), e, i, T)
<1>0. Len(s) \in Nat /\ i \in Int /\ i - 1 \in Int
  OBVIOUS
<1>1. PICK l \in Seq(T) : /\ l = SubSeq(s, 1, i - 1) /\ Len(l) = i - 1
                          /\ \A j \in 1 .. i - 1 : l[j] = s[j]
  <2>1. \A j \in 1 .. i - 1 : s[j] \in T
    BY <1>0, ElementOfSeq
  <2>2. /\ SubSeq(s, 1, i - 1) \in Seq(T) /\ Len(SubSeq(s, 1, i - 1)) = i - 1
        /\ \A j \in 1 .. i - 1 : SubSeq(s, 1, i - 1)[j] = s[j]
    BY <1>0, <2>1, SubSeqProperties
  <2>. QED  BY <2>2
<1>2. PICK r \in Seq(T) : /\ r = SubSeq(s, i, Len(s)) /\ Len(r) = Len(s) - i + 1
                          /\ \A j \in 1 .. Len(s) - i + 1 : r[j] = s[i + j - 1]
  <2>1. \A j \in i .. Len(s) : s[j] \in T
    BY <1>0, ElementOfSeq
  <2>2. /\ SubSeq(s, i, Len(s)) \in Seq(T) /\ Len(SubSeq(s, i, Len(s))) = Len(s) - i + 1
        /\ \A j \in 1 .. Len(s) - i + 1 : SubSeq(s, i, Len(s))[j] = s[i + j - 1]
    BY <1>0, <2>1, SubSeqProperties
  <2>. QED  BY <2>2
<1>3. InsertAt(s, i, e) = (l \o <<e>>) \o r
  BY <1>1, <1>2 DEF InsertAt
<1>4. Len(l) + 1 = i /\ Len(l) + 1 + Len(r) = Len(s) + 1
  <2>1. Len(l) = i - 1 /\ Len(r) = Len(s) - i + 1
    BY <1>1, <1>2, Zenon
  <2>. QED  BY <2>1, <1>0
<1>5. /\ (l \o <<e>>) \o r \in Seq(T)
      /\ Len((l \o <<e>>) \o r) = Len(s) + 1
      /\ \A j \in 1 .. Len(s) + 1 : ((l \o <<e>>) \o r)[j] =
           IF j <= Len(l) THEN l[j] ELSE IF j = i THEN e ELSE r[j - i]
  BY <1>4, BetweenParts
<1>6. ASSUME NEW j \in 1 .. Len(s) + 1
      PROVE  /\ j < i => InsertAt(s, i, e)[j] = s[j]
             /\ j = i => InsertAt(s, i, e)[j] = e
             /\ j > i => InsertAt(s, i, e)[j] = s[j - 1]
  <2>1. CASE j < i
    BY <2>1, <1>0, <1>1, <1>3, <1>5
  <2>2. CASE j = i
    BY <2>2, <1>0, <1>1, <1>3, <1>5
  <2>3. CASE j > i
    <3>1. j - i \in 1 .. Len(s) - i + 1 /\ i + (j - i) - 1 = j - 1
      BY <2>3, <1>0
    <3>2. r[j - i] = s[j - 1]
      BY <3>1, <1>2
    <3>3. ~(j <= Len(l)) /\ j # i /\ ~(j < i)
      BY <2>3, <1>0, <1>4
    <3>4. ((l \o <<e>>) \o r)[j] = r[j - i]
      BY <3>3, <1>5
    <3>. QED  BY <3>2, <3>3, <3>4, <1>3, Zenon
  <2>. QED  BY <2>1, <2>2, <2>3, <1>0
<1>. QED  BY <1>3, <1>5, <1>6 DEF IsGrown

\* The tree with a new node n below p that is not in a child list yet.
Hung(t, n, p) == [t EXCEPT !.parent[n] = p, !.above[n] = t.above[p] \cup {p}]

LEMMA HungSound ==
  ASSUME NEW t, NEW k \in 1 .. MaxNodes, k < MaxNodes, NEW p \in 1 .. k,
         TreeShape(t), Ancestry(t, k)
  PROVE  TreeShape(Hung(t, k + 1, p)) /\ Ancestry(Hung(t, k + 1, p), k + 1)
<1>. DEFINE h == Hung(t, k + 1, p)
            n == k + 1
<1>0. Node = 1 .. MaxNodes /\ NULL \notin Node /\ MaxNodes \in Nat
  BY NodeAssumption, NullAssumption
<1>1. /\ n \in Node /\ p \in Node /\ n \notin 1 .. k /\ 1 .. n = (1 .. k) \cup {n}
      /\ 1 .. k \subseteq Node
  BY <1>0
<1>2. /\ h.parent = [t.parent EXCEPT ![n] = p]
      /\ h.above = [t.above EXCEPT ![n] = t.above[p] \cup {p}]
      /\ h.children = t.children
  BY DEF Hung, TreeShape
<1>3. /\ h.parent[n] = p /\ h.above[n] = t.above[p] \cup {p}
      /\ \A m \in 1 .. k : h.parent[m] = t.parent[m] /\ h.above[m] = t.above[m]
      /\ \A m \in Node \ 1 .. n : h.parent[m] = t.parent[m] /\ h.above[m] = t.above[m]
  BY <1>1, <1>2 DEF TreeShape
<1>4. TreeShape(h)
  <2>1. t.above[p] \cup {p} \in SUBSET Node
    BY <1>1 DEF TreeShape
  <2>. QED  BY <1>1, <1>2, <2>1, ZenonT(60) DEF TreeShape
<1>5. /\ t.above[p] \subseteq 1 .. k /\ p \notin t.above[p]
      /\ \A m \in 1 .. k : n \notin t.above[m]
      /\ p # NULL
  BY <1>0, <1>1 DEF Ancestry
<1>6. \A m \in 1 .. n :
        /\ h.above[m] \subseteq 1 .. m - 1
        /\ h.parent[m] = NULL => h.above[m] = {}
        /\ h.parent[m] # NULL => /\ h.parent[m] \in 1 .. n
                                 /\ h.above[m] = h.above[h.parent[m]] \cup {h.parent[m]}
  <2>. TAKE m \in 1 .. n
  <2>1. CASE m = n
    BY <2>1, <1>1, <1>3, <1>5
  <2>2. CASE m \in 1 .. k
    <3>1. /\ t.above[m] \subseteq 1 .. m - 1
          /\ t.parent[m] = NULL => t.above[m] = {}
          /\ t.parent[m] # NULL => /\ t.parent[m] \in 1 .. k
                                   /\ t.above[m] = t.above[t.parent[m]] \cup {t.parent[m]}
      BY <2>2 DEF Ancestry
    <3>. QED  BY <3>1, <2>2, <1>1, <1>3
  <2>. QED  BY <2>1, <2>2, <1>1
<1>7. \A m \in 1 .. n : \A y \in h.above[m] : h.above[y] \subseteq h.above[m]
  <2>. SUFFICES ASSUME NEW m \in 1 .. n, NEW y \in h.above[m]
                PROVE  h.above[y] \subseteq h.above[m]
    OBVIOUS
  <2>1. CASE m = n
    <3>1. y \in 1 .. k /\ (y = p \/ y \in t.above[p])
      BY <2>1, <1>3, <1>5
    <3>2. t.above[y] \subseteq t.above[p]
      BY <3>1 DEF Ancestry
    <3>. QED  BY <3>1, <3>2, <2>1, <1>3
  <2>2. CASE m \in 1 .. k
    <3>1. y \in t.above[m] /\ y \in 1 .. k
      BY <2>2, <1>3 DEF Ancestry
    <3>. QED  BY <3>1, <2>2, <1>3 DEF Ancestry
  <2>. QED  BY <2>1, <2>2, <1>1
<1>8. \A m \in 1 .. n : \A y, z \in h.above[m] :
        y = z \/ y \in h.above[z] \/ z \in h.above[y]
  <2>. SUFFICES ASSUME NEW m \in 1 .. n, NEW y \in h.above[m], NEW z \in h.above[m]
                PROVE  y = z \/ y \in h.above[z] \/ z \in h.above[y]
    OBVIOUS
  <2>1. CASE m = n
    <3>1. /\ y \in 1 .. k /\ (y = p \/ y \in t.above[p])
          /\ z \in 1 .. k /\ (z = p \/ z \in t.above[p])
      BY <2>1, <1>3, <1>5
    <3>2. y = z \/ y \in t.above[z] \/ z \in t.above[y]
      BY <3>1 DEF Ancestry
    <3>. QED  BY <3>1, <3>2, <1>3
  <2>2. CASE m \in 1 .. k
    <3>1. /\ y \in t.above[m] /\ y \in 1 .. k
          /\ z \in t.above[m] /\ z \in 1 .. k
      BY <2>2, <1>3 DEF Ancestry
    <3>2. y = z \/ y \in t.above[z] \/ z \in t.above[y]
      BY <3>1, <2>2 DEF Ancestry
    <3>. QED  BY <3>1, <3>2, <1>3
  <2>. QED  BY <2>1, <2>2, <1>1
<1>9. \A m \in Node \ 1 .. n : h.parent[m] = NULL /\ h.above[m] = {}
  BY <1>1, <1>3 DEF Ancestry
<1>. QED  BY <1>4, <1>6, <1>7, <1>8, <1>9 DEF Ancestry

\* The tree when the new node is in its parent's child list too.
Grown(t, n, p, pos) ==
  [Hung(t, n, p) EXCEPT !.children[p] = InsertAt(@, pos + 1, n)]

LEMMA ExceptTyped ==
  ASSUME NEW S, NEW T, NEW f \in [S -> T], NEW x \in S, NEW y \in T
  PROVE  [f EXCEPT ![x] = y] \in [S -> T]
OBVIOUS

\* The child lists, when p's list c of a tree t becomes the list d of a tree g.
LEMMA GrownLists ==
  ASSUME NEW t, NEW g, NEW k \in 1 .. MaxNodes, NEW n \in 1 .. MaxNodes, n = k + 1,
         NEW p \in 1 .. k, NEW c, NEW d, NEW pos \in 0 .. Len(c),
         TreeShape(t), Ancestry(t, k), ChildLists(t, k),
         c = t.children[p], IsGrown(c, d, n, pos + 1, 1 .. n),
         g.parent = [t.parent EXCEPT ![n] = p],
         g.children = [t.children EXCEPT ![p] = d]
  PROVE  d \in Seq(1 .. n) /\ ChildLists(g, n)
<1>0. Node = 1 .. MaxNodes /\ NULL \notin Node /\ MaxNodes \in Nat
  BY NodeAssumption, NullAssumption
<1>1. /\ n \in Node /\ p \in Node /\ n \notin 1 .. k /\ 1 .. n = (1 .. k) \cup {n}
      /\ 1 .. k \subseteq Node /\ n \in 1 .. n /\ p \in 1 .. n /\ p # n /\ p # NULL
      /\ 1 .. n \subseteq Node
  BY <1>0
<1>2. /\ t.parent \in [Node -> Node \cup {NULL}] /\ t.children \in [Node -> Seq(Node)]
  BY DEF TreeShape
<1>3. g.parent[n] = p /\ \A m \in 1 .. k : g.parent[m] = t.parent[m]
  BY <1>1, <1>2
<1>30. g.children[p] = d /\ \A q \in Node : q # p => g.children[q] = t.children[q]
  BY <1>1, <1>2
<1>4. /\ c \in Seq(1 .. k) /\ c \in Seq(1 .. n)
      /\ pos + 1 \in 1 .. Len(c) + 1
      /\ Len(c) \in Nat
  <2>1. c \in Seq(1 .. k)
    BY DEF ChildLists
  <2>2. \A i \in 1 .. Len(c) : c[i] \in 1 .. n
    BY <2>1, <1>1, ElementOfSeq
  <2>3. c \in Seq(1 .. n)
    BY <2>1, <2>2
  <2>. QED  BY <2>1, <2>3
<1>40. Len(c) \in Nat /\ pos \in Nat /\ pos <= Len(c)
  BY <1>4
<1>5. PICK e \in Seq(1 .. n) :
        /\ e = d /\ Len(e) = Len(c) + 1
        /\ \A j \in 1 .. Len(c) + 1 :
             /\ j < pos + 1 => e[j] = c[j]
             /\ j = pos + 1 => e[j] = n
             /\ j > pos + 1 => e[j] = c[j - 1]
  BY DEF IsGrown
<1>6. \A i \in 1 .. Len(c) : c[i] \in 1 .. k /\ c[i] # n /\ t.parent[c[i]] = p
  <2>1. \A i \in 1 .. Len(c) : c[i] \in 1 .. k
    BY <1>4, ElementOfSeq
  <2>2. \A i \in 1 .. Len(c) : t.parent[c[i]] = p
    BY DEF ChildLists
  <2>. QED  BY <2>1, <2>2, <1>1
<1>7. ASSUME NEW i \in 1 .. Len(c), NEW j \in 1 .. Len(c), j < i
      PROVE  c[j] # c[i]
  <2>1. j \in 1 .. i - 1
    BY <1>7, <1>4
  <2>. QED  BY <2>1 DEF ChildLists
<1>8. ASSUME NEW j \in 1 .. Len(c) + 1
      PROVE  \/ j < pos + 1 /\ j \in 1 .. Len(c) /\ e[j] = c[j]
             \/ j = pos + 1 /\ e[j] = n
             \/ j > pos + 1 /\ j - 1 \in 1 .. Len(c) /\ e[j] = c[j - 1]
  <2>1. CASE j < pos + 1
    <3>1. j \in 1 .. Len(c)
      BY <2>1, <1>4
    <3>. QED  BY <3>1, <2>1, <1>5
  <2>2. CASE j = pos + 1
    BY <2>2, <1>4, <1>5
  <2>3. CASE j > pos + 1
    <3>1. j - 1 \in 1 .. Len(c) /\ ~(j < pos + 1) /\ j # pos + 1
      BY <2>3, <1>4, SMTT(30)
    <3>. QED  BY <3>1, <2>3, <1>5
  <2>. QED  BY <2>1, <2>2, <2>3, <1>4
<1>9. \A q \in 1 .. k : q # p => g.children[q] = t.children[q]
  BY <1>1, <1>30
<1>10. g.children[n] = <<>> /\ \A q \in Node \ 1 .. n : g.children[q] = <<>>
  BY <1>1, <1>30 DEF ChildLists
<1>11. ASSUME NEW q \in 1 .. n
       PROVE  g.children[q] \in Seq(1 .. n)
  <2>1. CASE q = p
    BY <2>1, <1>30, <1>5
  <2>2. CASE q # p /\ q \in 1 .. k
    <3>1. g.children[q] = t.children[q] /\ t.children[q] \in Seq(1 .. k)
      BY <2>2, <1>9 DEF ChildLists
    <3>2. \A i \in 1 .. Len(t.children[q]) : t.children[q][i] \in 1 .. n
      BY <3>1, <1>1, ElementOfSeq
    <3>. QED  BY <3>1, <3>2
  <2>3. CASE q = n
    BY <2>3, <1>10, EmptySeq
  <2>. QED  BY <2>1, <2>2, <2>3, <1>1
<1>12. ASSUME NEW q \in 1 .. n, NEW i \in 1 .. Len(g.children[q])
       PROVE  /\ g.parent[g.children[q][i]] = q
              /\ \A j \in 1 .. i - 1 : g.children[q][j] # g.children[q][i]
  <2>1. CASE q = p
    <3>1. i \in 1 .. Len(c) + 1 /\ g.children[q] = e
      BY <2>1, <1>30, <1>5
    <3>2. g.parent[e[i]] = p
      <4>1. e[i] = n \/ \E j \in 1 .. Len(c) : e[i] = c[j]
        BY <3>1, <1>8
      <4>. QED  BY <4>1, <1>3, <1>6, SMTT(30)
    <3>3. ASSUME NEW j \in 1 .. i - 1
          PROVE  e[j] # e[i]
      <4>1. j \in 1 .. Len(c) + 1 /\ j < i
        BY <3>1, <1>40, SMTT(30)
      <4>2. \/ j < pos + 1 /\ j \in 1 .. Len(c) /\ e[j] = c[j]
            \/ j = pos + 1 /\ e[j] = n
            \/ j > pos + 1 /\ j - 1 \in 1 .. Len(c) /\ e[j] = c[j - 1]
        BY <4>1, <1>8
      <4>3. \/ i < pos + 1 /\ i \in 1 .. Len(c) /\ e[i] = c[i]
            \/ i = pos + 1 /\ e[i] = n
            \/ i > pos + 1 /\ i - 1 \in 1 .. Len(c) /\ e[i] = c[i - 1]
        BY <3>1, <1>8
      <4>4. CASE i < pos + 1
        <5>1. j \in 1 .. Len(c) /\ e[j] = c[j] /\ i \in 1 .. Len(c) /\ e[i] = c[i]
          BY <4>1, <4>2, <4>3, <4>4, <1>4
        <5>. QED  BY <5>1, <4>1, <1>7
      <4>5. CASE i = pos + 1
        <5>1. j \in 1 .. Len(c) /\ e[j] = c[j] /\ e[i] = n
          BY <4>1, <4>2, <4>3, <4>5, <1>4
        <5>. QED  BY <5>1, <1>6
      <4>6. CASE i > pos + 1 /\ j = pos + 1
        <5>1. e[j] = n /\ i - 1 \in 1 .. Len(c) /\ e[i] = c[i - 1]
          BY <4>1, <4>2, <4>3, <4>6, <1>4
        <5>. QED  BY <5>1, <1>6
      <4>7. CASE i > pos + 1 /\ j # pos + 1
        <5>1. PICK l \in 1 .. Len(c) : e[j] = c[l] /\ l < i - 1
          <6>1. j < pos + 1 => j \in 1 .. Len(c) /\ e[j] = c[j] /\ j < i - 1
            BY <4>1, <4>2, <4>7, <1>40, <3>1
          <6>2. j > pos + 1 => j - 1 \in 1 .. Len(c) /\ e[j] = c[j - 1] /\ j - 1 < i - 1
            BY <4>1, <4>2, <4>7, <1>40, <3>1
          <6>. QED  BY <6>1, <6>2, <4>2, <4>7, Zenon
        <5>2. PICK l2 \in 1 .. Len(c) : l2 = i - 1 /\ e[i] = c[l2]
          BY <4>3, <4>7, <1>40
        <5>3. c[l] # c[l2]
          BY <5>1, <5>2, <1>7
        <5>. QED  BY <5>1, <5>2, <5>3
      <4>. QED  BY <4>4, <4>5, <4>6, <4>7, <3>1, <1>4
    <3>. QED  BY <3>1, <3>2, <3>3, <2>1
  <2>2. CASE q # p /\ q \in 1 .. k
    <3>1. g.children[q] = t.children[q] /\ t.children[q] \in Seq(1 .. k)
      BY <2>2, <1>9 DEF ChildLists
    <3>2. t.children[q][i] \in 1 .. k
      BY <3>1, ElementOfSeq
    <3>3. /\ t.parent[t.children[q][i]] = q
          /\ \A j \in 1 .. i - 1 : t.children[q][j] # t.children[q][i]
      BY <3>1, <2>2 DEF ChildLists
    <3>. QED  BY <3>1, <3>2, <3>3, <1>3
  <2>3. CASE q = n
    <3>1. Len(g.children[q]) = 0
      BY <2>3, <1>10
    <3>. QED  BY <3>1
  <2>. QED  BY <2>1, <2>2, <2>3, <1>1
<1>13. ASSUME NEW m \in 1 .. n, g.parent[m] # NULL
       PROVE  \E i \in 1 .. Len(g.children[g.parent[m]]) : g.children[g.parent[m]][i] = m
  <2>1. CASE m = n
    <3>1. pos + 1 \in 1 .. Len(e) /\ e[pos + 1] = n
      BY <1>4, <1>5
    <3>. QED  BY <2>1, <3>1, <1>3, <1>30, <1>5
  <2>2. CASE m \in 1 .. k
    <3>1. g.parent[m] = t.parent[m] /\ t.parent[m] \in 1 .. k
      BY <2>2, <1>3, <1>13 DEF Ancestry
    <3>2. PICK i \in 1 .. Len(t.children[t.parent[m]]) : t.children[t.parent[m]][i] = m
      BY <2>2, <3>1, <1>13 DEF ChildLists
    <3>3. CASE t.parent[m] = p
      <4>1. i \in 1 .. Len(c) /\ c[i] = m
        BY <3>2, <3>3
      <4>2. CASE i < pos + 1
        <5>1. i \in 1 .. Len(e) /\ i \in 1 .. Len(c) + 1
          BY <4>1, <1>40, <1>5
        <5>2. e[i] = m
          BY <4>1, <4>2, <5>1, <1>5
        <5>. QED  BY <5>1, <5>2, <3>1, <3>3, <1>30, <1>5, SMTT(30)
      <4>3. CASE ~(i < pos + 1)
        <5>1. /\ i + 1 \in 1 .. Len(e) /\ i + 1 \in 1 .. Len(c) + 1
              /\ ~(i + 1 < pos + 1) /\ i + 1 # pos + 1 /\ (i + 1) - 1 = i
          BY <4>1, <4>3, <1>40, <1>5
        <5>2. i + 1 > pos + 1 /\ e[i + 1] = c[(i + 1) - 1]
          BY <4>1, <4>3, <5>1, <1>40, <1>5
        <5>3. e[i + 1] = m
          BY <4>1, <5>1, <5>2
        <5>. QED  BY <5>1, <5>3, <3>1, <3>3, <1>30, <1>5, SMTT(30)
      <4>. QED  BY <4>2, <4>3
    <3>4. CASE t.parent[m] # p
      BY <3>1, <3>2, <3>4, <1>9
    <3>. QED  BY <3>3, <3>4
  <2>. QED  BY <2>1, <2>2, <1>1
<1>. QED  BY <1>5, <1>10, <1>11, <1>12, <1>13 DEF ChildLists

LEMMA TreeGrownSound ==
  ASSUME NEW t, NEW k \in 1 .. MaxNodes, k < MaxNodes, NEW p \in 1 .. k,
         NEW pos \in 0 .. Len(t.children[p]),
         TreeShape(t), Ancestry(t, k), ChildLists(t, k)
  PROVE  /\ TreeShape(Grown(t, k + 1, p, pos))
         /\ Ancestry(Grown(t, k + 1, p, pos), k + 1)
         /\ ChildLists(Grown(t, k + 1, p, pos), k + 1)
<1>n. PICK n \in 1 .. MaxNodes : n = k + 1
  BY NodeAssumption
<1>h. PICK h : h = Hung(t, n, p)
  OBVIOUS
<1>g. PICK g : g = Grown(t, n, p, pos)
  OBVIOUS
<1>d. PICK d : d = InsertAt(t.children[p], pos + 1, n)
  OBVIOUS
<1>0. Node = 1 .. MaxNodes /\ 1 .. n \subseteq Node /\ p \in Node
  BY NodeAssumption, <1>n
<1>1. TreeShape(h) /\ Ancestry(h, n)
  BY HungSound, <1>n, <1>h
<1>2. /\ g.parent = [t.parent EXCEPT ![n] = p]
      /\ g.parent = h.parent /\ g.above = h.above
      /\ g.children = [t.children EXCEPT ![p] = d]
  BY <1>h, <1>g, <1>d DEF Grown, Hung, TreeShape
<1>3. d \in Seq(1 .. n) /\ ChildLists(g, n)
  <2>1. IsGrown(t.children[p], InsertAt(t.children[p], pos + 1, n), n, pos + 1, 1 .. n)
    <3>1. t.children[p] \in Seq(1 .. k)
      BY DEF ChildLists
    <3>2. t.children[p] \in Seq(1 .. n) /\ n \in 1 .. n
      BY <3>1, <1>n
    <3>3. pos \in Int /\ pos + 1 \in 1 .. Len(t.children[p]) + 1
      BY <3>1
    <3>. QED  BY <3>2, <3>3, InsertAtFacts
  <2>2. IsGrown(t.children[p], d, n, pos + 1, 1 .. n)
    BY <2>1, <1>d
  <2>3. ASSUME NEW c, c = t.children[p]
        PROVE  d \in Seq(1 .. n) /\ ChildLists(g, n)
    <3>1. IsGrown(c, d, n, pos + 1, 1 .. n) /\ pos \in 0 .. Len(c)
      BY <2>2, <2>3
    <3>. QED  BY <3>1, <2>3, <1>n, <1>2, GrownLists
  <2>. QED  BY <2>3
<1>4. d \in Seq(Node)
  <2>. PICK T : T = 1 .. n
    OBVIOUS
  <2>1. PICK q \in Seq(T) : q = d
    BY <1>3
  <2>2. \A i \in 1 .. Len(q) : q[i] \in Node
    BY <1>0, <2>1, ElementOfSeq
  <2>. QED  BY <2>1, <2>2
<1>5. TreeShape(g)
  <2>1. /\ h.parent \in [Node -> Node \cup {NULL}]
        /\ h.above \in [Node -> SUBSET Node]
        /\ t.children \in [Node -> Seq(Node)]
    BY <1>1 DEF TreeShape
  <2>2. g.children \in [Node -> Seq(Node)]
    <3>1. [t.children EXCEPT ![p] = d] \in [Node -> Seq(Node)]
      BY <2>1, <1>0, <1>4, ExceptTyped, Zenon
    <3>. QED  BY <3>1, <1>2, Zenon
  <2>. QED  BY <2>1, <2>2, <1>2 DEF TreeShape
<1>6. Ancestry(g, n)
  BY <1>1, <1>2, ZenonT(60) DEF Ancestry
<1>. QED  BY <1>n, <1>g, <1>3, <1>5, <1>6

-----------------------------------------------------------------------------
(* The modifications after an insertion. *)

\* The nodes that propagate_dfi_change visits are on the path, or children of it.
LEMMA VisitedParents ==
  ASSUME TreeSound, NEW d \in Nodes, NEW y \in Nodes,
         y \in Path(tree, d) \cup Side(tree, d), tree.parent[y] # NULL
  PROVE  tree.parent[y] \in Path(tree, d)
<1>1. /\ tree.parent[y] \in 1 .. size
      /\ tree.above[y] = tree.above[tree.parent[y]] \cup {tree.parent[y]}
  BY DEF TreeSound, Ancestry, Nodes
<1>2. CASE y \in Path(tree, d)
  <2>1. y = d \/ y \in tree.above[d]
    BY <1>2 DEF Path
  <2>2. tree.above[y] \subseteq tree.above[d]
    BY <2>1 DEF TreeSound, Ancestry, Nodes
  <2>. QED  BY <1>1, <2>2 DEF Path
<1>3. CASE y \in Side(tree, d)
  <2>1. PICK q \in Path(tree, d) : y \in ToSet(tree.children[q])
    BY <1>3 DEF Side
  <2>2. q \in 1 .. size
    BY <2>1 DEF Path, TreeSound, Ancestry, Nodes
  <2>3. tree.children[q] \in Seq(1 .. size)
    BY <2>2 DEF TreeSound, ChildLists
  <2>4. PICK i \in 1 .. Len(tree.children[q]) : y = tree.children[q][i]
    BY <2>1, <2>3 DEF ToSet
  <2>5. tree.parent[y] = q
    BY <2>2, <2>4 DEF TreeSound, ChildLists
  <2>. QED  BY <2>1, <2>5
<1>. QED  BY <1>2, <1>3

\* So are their ancestors.
LEMMA VisitedAncestors ==
  ASSUME TreeSound, NEW d \in Nodes, NEW y \in Nodes,
         y \in Path(tree, d) \cup Side(tree, d)
  PROVE  tree.above[y] \subseteq Path(tree, d)
<1>1. CASE tree.parent[y] = NULL
  BY <1>1 DEF TreeSound, Ancestry, Nodes
<1>2. CASE tree.parent[y] # NULL
  <2>1. tree.parent[y] \in Path(tree, d)
    BY <1>2, VisitedParents
  <2>2. tree.above[y] = tree.above[tree.parent[y]] \cup {tree.parent[y]}
    BY <1>2 DEF TreeSound, Ancestry, Nodes
  <2>3. tree.above[tree.parent[y]] \subseteq Path(tree, d)
    BY <2>1 DEF Path, TreeSound, Ancestry, Nodes
  <2>. QED  BY <2>1, <2>2, <2>3
<1>. QED  BY <1>1, <1>2

LEMMA PropagateFresh ==
  ASSUME TreeSound, NEW d \in Nodes, NEW b, ModsTyped(b), Fresh(tree, b, size)
  PROVE  /\ ModsTyped(Propagate(tree, b, d))
         /\ Propagate(tree, b, d).latest_mod = b.latest_mod + 1
         /\ \A y \in Nodes : b.base_mod[y] <= Propagate(tree, b, d).base_mod[y]
         /\ Fresh(tree, Propagate(tree, b, d), size)
<1>1. PICK M : M = Marked(Path(tree, d), NotBefore(b.base_index,
                     Path(tree, d) \cup Side(tree, d), b.base_index[d]))
  OBVIOUS
<1>2. PICK r : r = Propagate(tree, b, d)
  OBVIOUS
<1>3. /\ r.base_mod = [y \in Node |-> IF y \in M THEN b.latest_mod + 1 ELSE b.base_mod[y]]
      /\ r.latest_mod = b.latest_mod + 1
  BY <1>1, <1>2 DEF Propagate
<1>4. Nodes \subseteq Node /\ Nodes = 1 .. size
  BY NodeAssumption DEF TreeSound, Nodes
<1>5. b.base_mod \in [Node -> Int] /\ b.latest_mod \in Int
  BY DEF ModsTyped
<1>6. ModsTyped(r)
  BY <1>3, <1>5 DEF ModsTyped
<1>7. \A y \in Nodes : b.base_mod[y] \in Int /\ b.base_mod[y] <= b.latest_mod
  BY <1>4, <1>5 DEF Fresh
<1>8. \A y \in Nodes : /\ r.base_mod[y] \in Int
                       /\ b.base_mod[y] <= r.base_mod[y]
                       /\ r.base_mod[y] <= r.latest_mod
                       /\ y \in M => r.base_mod[y] = r.latest_mod
                       /\ y \notin M => r.base_mod[y] = b.base_mod[y]
  BY <1>3, <1>4, <1>5, <1>7
<1>9. ASSUME NEW y \in Nodes, tree.parent[y] # NULL
      PROVE  r.base_mod[y] <= r.base_mod[tree.parent[y]]
  <2>1. tree.parent[y] \in Nodes
    BY <1>4, <1>9 DEF TreeSound, Ancestry
  <2>2. CASE y \in M
    <3>1. tree.parent[y] \in M
      BY <1>1, <1>9, <2>2, VisitedParents DEF Marked, NotBefore
    <3>. QED  BY <3>1, <2>1, <2>2, <1>8
  <2>3. CASE y \notin M
    <3>1. b.base_mod[y] <= b.base_mod[tree.parent[y]]
      BY <1>4, <1>9 DEF Fresh
    <3>2. /\ r.base_mod[y] = b.base_mod[y] /\ b.base_mod[y] \in Int
          /\ b.base_mod[tree.parent[y]] <= r.base_mod[tree.parent[y]]
          /\ b.base_mod[tree.parent[y]] \in Int /\ r.base_mod[tree.parent[y]] \in Int
      BY <2>1, <2>3, <1>7, <1>8
    <3>. QED  BY <3>1, <3>2
  <2>. QED  BY <2>2, <2>3
<1>10. Fresh(tree, r, size)
  BY <1>4, <1>8, <1>9 DEF Fresh
<1>. QED  BY <1>2, <1>3, <1>6, <1>8, <1>10

\* A node on which dfi() is called is up to date.
LEMMA CalledTouched ==
  ASSUME TreeSound, NEW b, NEW S, NEW p \in Nodes, p \in S
  PROVE  p \in Touched(tree, b, S)
<1>1. p \in Node /\ p \in 1 .. size
  BY NodeAssumption DEF TreeSound, Nodes
<1>2. \A z \in tree.above[p] \cup {p} : p \notin tree.above[z]
  BY <1>1 DEF TreeSound, Ancestry
<1>. QED  BY <1>1, <1>2 DEF Touched

\* What Plan promises about the new node, whatever it displaces.
LEMMA PlanFacts ==
  ASSUME TreeSound, NEW p \in Nodes, NEW pos \in 0 .. Len(tree.children[p])
  PROVE  /\ Plan(p, pos).node = size + 1
         /\ Plan(p, pos).tree = Hung(tree, size + 1, p)
         /\ Plan(p, pos).displaced \in Nodes \cup {NULL}
         /\ p \in Plan(p, pos).reads
<1>1. /\ Plan(p, pos).node = size + 1
      /\ Plan(p, pos).tree = Hung(tree, size + 1, p)
      /\ p \in Plan(p, pos).reads
  BY DEF Plan, PlanAt, Hung
<1>2. \A k, value : NodeAt(tbl, value, k) \in Nodes \cup {NULL}
  BY DEF NodeAt
<1>3. tree.children[p] \in Seq(1 .. size)
  BY DEF TreeSound, ChildLists, Nodes
<1>4. ASSUME pos < Len(tree.children[p])
      PROVE  tree.children[p][pos + 1] \in Nodes
  <2>1. pos + 1 \in 1 .. Len(tree.children[p])
    BY <1>3, <1>4
  <2>. QED  BY <2>1, <1>3, ElementOfSeq DEF Nodes
<1>5. Plan(p, pos).displaced \in Nodes \cup {NULL}
  BY <1>2, <1>4, Zenon DEF Plan, PlanAt
<1>. QED  BY <1>1, <1>5

\* The new node is as up to date as its parent was when insert() began.
LEMMA CreatedFresh ==
  ASSUME IInv, size < MaxNodes, NEW p \in Nodes, NEW early, NEW plan,
         plan.node = size + 1, plan.displaced \in Nodes \cup {NULL}, p \in plan.reads
  PROVE  /\ ModsTyped(Created(p, plan, early))
         /\ Fresh(Hung(tree, size + 1, p), Created(p, plan, early), size + 1)
<1>1. PICK reads : reads = plan.reads \cup early
            \cup (IF plan.displaced # NULL
                  THEN {plan.displaced} \cup Side(tree, plan.displaced) ELSE {})
  OBVIOUS
<1>2. PICK seen : seen = Refresh(tree, idx, reads)
  OBVIOUS
<1>3. PICK b : b = IF plan.displaced # NULL THEN Propagate(tree, seen, plan.displaced)
                   ELSE seen
  OBVIOUS
<1>4. PICK c : c = Created(p, plan, early)
  OBVIOUS
<1>5. PICK n \in Node : n = size + 1
  BY NodeAssumption DEF IInv, TreeSound
<1>6. /\ Nodes = 1 .. size /\ Nodes \subseteq Node /\ n \notin Nodes
      /\ 1 .. n = Nodes \cup {n} /\ p \in Node /\ p # n /\ p # NULL
      /\ size \in 1 .. MaxNodes
  BY <1>5, NodeAssumption, NullAssumption DEF IInv, TreeSound, Nodes
<1>7. /\ ModsTyped(seen) /\ Fresh(tree, seen, size)
      /\ seen.latest_mod = idx.latest_mod /\ seen.base_mod[p] = idx.latest_mod
      /\ idx.latest_mod \in Int
  <2>1. Fresh(tree, idx, size)
    BY <1>6 DEF IInv, ModsFresh, Fresh
  <2>2. p \in Touched(tree, idx, reads)
    BY <1>1, CalledTouched DEF IInv
  <2>. QED
    BY <2>1, <2>2, <1>2, <1>6, RefreshMods, RefreshFresh DEF IInv, TreeSound, ModsTyped
<1>8. /\ ModsTyped(b) /\ Fresh(tree, b, size)
      /\ idx.latest_mod <= b.latest_mod /\ idx.latest_mod <= b.base_mod[p]
  <2>1. CASE plan.displaced = NULL
    BY <2>1, <1>3, <1>7
  <2>2. CASE plan.displaced # NULL
    <3>1. plan.displaced \in Nodes /\ b = Propagate(tree, seen, plan.displaced)
      BY <2>2, <1>3
    <3>2. /\ ModsTyped(b) /\ Fresh(tree, b, size)
          /\ b.latest_mod = seen.latest_mod + 1
          /\ seen.base_mod[p] <= b.base_mod[p]
      BY <3>1, <1>7, PropagateFresh DEF IInv
    <3>. QED  BY <3>2, <1>7
  <2>. QED  BY <2>1, <2>2
<1>9. /\ c.base_mod = [b.base_mod EXCEPT ![n] = idx.latest_mod]
      /\ c.latest_mod = b.latest_mod
  BY <1>1, <1>2, <1>3, <1>4, <1>5 DEF Created
<1>10. ModsTyped(c)
  BY <1>5, <1>7, <1>8, <1>9 DEF ModsTyped
<1>11. /\ c.base_mod[n] = idx.latest_mod
       /\ \A m \in Nodes : c.base_mod[m] = b.base_mod[m]
  BY <1>5, <1>6, <1>8, <1>9 DEF ModsTyped
<1>12. PICK h : h = Hung(tree, size + 1, p)
  OBVIOUS
<1>13. /\ h.parent[n] = p
       /\ \A m \in Nodes : h.parent[m] = tree.parent[m]
  BY <1>5, <1>6, <1>12 DEF Hung, IInv, TreeSound, TreeShape
<1>14. Fresh(h, c, n)
  <2>. SUFFICES ASSUME NEW m \in 1 .. n
                PROVE  /\ c.base_mod[m] <= c.latest_mod
                       /\ h.parent[m] # NULL => c.base_mod[m] <= c.base_mod[h.parent[m]]
    BY DEF Fresh
  <2>1. CASE m = n
    BY <2>1, <1>6, <1>8, <1>9, <1>11, <1>13
  <2>2. CASE m \in Nodes
    <3>1. tree.parent[m] # NULL => tree.parent[m] \in Nodes
      BY <2>2, <1>6 DEF IInv, TreeSound, Ancestry
    <3>2. /\ b.base_mod[m] <= b.latest_mod
          /\ tree.parent[m] # NULL => b.base_mod[m] <= b.base_mod[tree.parent[m]]
      BY <2>2, <1>6, <1>8 DEF Fresh
    <3>. QED  BY <3>1, <3>2, <2>2, <1>9, <1>11, <1>13
  <2>. QED  BY <2>1, <2>2, <1>6
<1>. QED  BY <1>4, <1>5, <1>10, <1>12, <1>14

-----------------------------------------------------------------------------
(* The inductive invariant. *)

LEMMA InitSound == DfiInit => IInv
<1>. SUFFICES ASSUME DfiInit  PROVE IInv
  OBVIOUS
<1>1. PICK init \in InitTrees :
        tree = init.tree /\ size = init.size /\ idx = FreshIndex(init.tree, init.size)
  BY DEF DfiInit
<1>2. size \in 1 .. MaxNodes /\ WellFormed(tree, size)
  BY <1>1, InitTreesAssumption
<1>3. TreeSound
  BY <1>2 DEF TreeSound, WellFormed
<1>4. idx.base_mod = [n \in Node |-> 0] /\ idx.latest_mod = 0
  BY <1>1 DEF FreshIndex
<1>5. ModsTyped(idx)
  BY <1>4 DEF ModsTyped
<1>6. ModsFresh
  <2>1. \A n \in Nodes : n \in Node /\ (tree.parent[n] # NULL => tree.parent[n] \in Node)
    BY <1>3, NodeAssumption DEF TreeSound, Ancestry, Nodes
  <2>. QED  BY <2>1, <1>4 DEF ModsFresh
<1>. QED  BY <1>3, <1>5, <1>6 DEF IInv

\* insert() below a node.
LEMMA InsertNodeSound ==
  ASSUME IInv, NEW p \in Nodes, NEW pos, NEW early, NEW late, NEW failed,
         CanInsert(p, pos), InsertNode(p, pos, early, late, failed)
  PROVE  IInv'
<1>1. size < MaxNodes /\ pos \in 0 .. Len(tree.children[p])
  BY DEF CanInsert
<1>2. PICK plan, created :
        /\ plan = Plan(p, pos) /\ created = Created(p, plan, early)
        /\ \/ UNCHANGED <<tree, size, idx>>
           \/ /\ tree' = [plan.tree EXCEPT !.children[p] = InsertAt(@, pos + 1, plan.node)]
              /\ size' = size + 1
              /\ \E reads : idx' = Refresh(plan.tree, created, reads)
  BY DEF InsertNode
<1>3. /\ plan.node = size + 1 /\ plan.tree = Hung(tree, size + 1, p)
      /\ plan.displaced \in Nodes \cup {NULL} /\ p \in plan.reads
  BY <1>1, <1>2, PlanFacts DEF IInv
<1>6. CASE UNCHANGED <<tree, size, idx>>
  BY <1>6 DEF IInv, TreeSound, ModsFresh, Nodes
<1>7. CASE /\ tree' = [plan.tree EXCEPT !.children[p] = InsertAt(@, pos + 1, plan.node)]
           /\ size' = size + 1
           /\ \E reads : idx' = Refresh(plan.tree, created, reads)
  <2>1. PICK h : h = Hung(tree, size + 1, p)
    OBVIOUS
  <2>2. PICK reads : idx' = Refresh(h, created, reads)
    BY <1>3, <1>7, <2>1
  <2>3. size' = size + 1 /\ size' \in 1 .. MaxNodes /\ size \in 1 .. MaxNodes /\ p \in 1 .. size
    BY <1>1, <1>7, NodeAssumption DEF IInv, TreeSound, Nodes
  <2>4. tree' = Grown(tree, size + 1, p, pos)
    BY <1>3, <1>7 DEF Grown
  <2>5. TreeShape(tree') /\ Ancestry(tree', size') /\ ChildLists(tree', size')
    BY <1>1, <2>3, <2>4, TreeGrownSound DEF IInv, TreeSound
  <2>6. TreeSound'
    BY <2>3, <2>5 DEF TreeSound
  <2>7. ModsTyped(created) /\ Fresh(h, created, size')
    BY <1>1, <1>3, <1>2, <2>1, <2>3, CreatedFresh
  <2>8. TreeShape(h) /\ Ancestry(h, size')
    BY <1>1, <2>1, <2>3, HungSound DEF IInv, TreeSound
  <2>9. ModsTyped(idx)' /\ Fresh(h, idx', size')
    BY <2>2, <2>3, <2>7, <2>8, RefreshMods, RefreshFresh DEF ModsTyped
  <2>10. h.parent = tree'.parent
    BY <2>1, <2>4 DEF Grown, Hung
  <2>11. ModsFresh'
    BY <2>9, <2>10 DEF ModsFresh, Fresh, Nodes
  <2>. QED  BY <2>6, <2>9, <2>11 DEF IInv
<1>. QED  BY <1>2, <1>6, <1>7

\* Calls of dfi() alone.
LEMMA RefreshSound ==
  ASSUME IInv, NEW S, UNCHANGED <<tree, size>>, idx' = Refresh(tree, idx, S)
  PROVE  IInv'
<1>1. Fresh(tree, idx, size) /\ size \in 1 .. MaxNodes
  BY DEF IInv, TreeSound, ModsFresh, Fresh, Nodes
<1>2. ModsTyped(idx') /\ Fresh(tree, idx', size)
  BY <1>1, RefreshMods, RefreshFresh DEF IInv, TreeSound
<1>. QED  BY <1>2 DEF IInv, TreeSound, ModsTyped, ModsFresh, Fresh, Nodes

LEMMA NextSound == IInv /\ [DfiNext]_dfiVars => IInv'
<1>. SUFFICES ASSUME IInv, [DfiNext]_dfiVars  PROVE IInv'
  OBVIOUS
<1>1. CASE \E p \in Nodes, pos \in 0 .. MaxNodes, early, late \in SUBSET Node,
             failed \in SUBSET {150} :
             CanInsert(p, pos) /\ InsertNode(p, pos, early, late, failed)
  BY <1>1, InsertNodeSound
<1>2. CASE InsertRoot
  BY <1>2 DEF InsertRoot, IInv, TreeSound, ModsTyped, ModsFresh, Nodes
<1>3. CASE \E S \in SUBSET Nodes : ReadDfi(S)
  BY <1>3, RefreshSound DEF ReadDfi
<1>4. CASE \E n \in Nodes : ReadSuccessor(n)
  BY <1>4, RefreshSound DEF ReadSuccessor
<1>5. CASE UNCHANGED dfiVars
  BY <1>5 DEF dfiVars, IInv, TreeSound, ModsTyped, ModsFresh, Nodes
<1>. QED  BY <1>1, <1>2, <1>3, <1>4, <1>5 DEF DfiNext

\* Parents, ancestors and child lists agree whatever is inserted and read.
THEOREM TreeStaysSound == DfiSpec => []TreeSound
<1>1. IInv => TreeSound
  BY DEF IInv
<1>. QED  BY <1>1, InitSound, NextSound, PTL DEF DfiSpec

\* No node is ever more up to date than its parent or than the index: the climb of
\* dfi() may stop at the first up-to-date node (dfilter.cpp:274-292).
THEOREM ModsStayFresh == DfiSpec => []ModsFresh
<1>1. IInv => ModsFresh
  BY DEF IInv
<1>. QED  BY <1>1, InitSound, NextSound, PTL DEF DfiSpec

-----------------------------------------------------------------------------
(* What dfi() returns *)

\* A node's parent is created before it.
LEMMA ParentBefore ==
  ASSUME NEW t, NEW k \in 1 .. MaxNodes, TreeShape(t), Ancestry(t, k),
         NEW n \in Node, t.parent[n] # NULL
  PROVE  n \in 1 .. k /\ t.parent[n] \in 1 .. n - 1
<1>1. n \in 1 .. k
  BY DEF Ancestry
<1>2. t.parent[n] \in t.above[n] /\ t.above[n] \subseteq 1 .. n - 1
  BY <1>1 DEF Ancestry
<1>. QED  BY <1>1, <1>2

\* A node's ancestors are created before it, and it is not one of theirs.
LEMMA AboveBefore ==
  ASSUME NEW t, NEW k \in 1 .. MaxNodes, Ancestry(t, k), NEW n \in 1 .. k
  PROVE  /\ n \notin t.above[n]
         /\ \A y \in t.above[n] : y \in 1 .. k /\ y < n /\ n \notin t.above[y]
<1>1. \A m \in 1 .. k : \A y \in t.above[m] : y \in 1 .. m - 1
  BY DEF Ancestry
<1>2. \A m \in 1 .. k : m \notin t.above[m]
  BY <1>1
<1>3. \A y \in t.above[n] : y \in 1 .. k /\ y < n
  BY <1>1
<1>4. \A y \in t.above[n] : n \notin t.above[y]
  BY <1>2, <1>3 DEF Ancestry
<1>. QED  BY <1>2, <1>3, <1>4

\* The values of dfi() are the ones the recursion computes.
LEMMA DfiValuesDef ==
  ASSUME NEW t, NEW b, NEW k \in 1 .. MaxNodes, TreeShape(t), Ancestry(t, k)
  PROVE  DfiValues(t, b) =
           [n \in Node |->
              IF t.parent[n] = NULL \/ b.base_mod[n] >= b.latest_mod
              THEN b.base_index[n]
              ELSE b.base_index[n] + DfiValues(t, b)[t.parent[n]] - b.cached_parent_dfi[n]]
<1>. DEFINE S == {n \in Node : ~(t.parent[n] = NULL \/ b.base_mod[n] >= b.latest_mod)}
<1>1. Node = 1 .. MaxNodes /\ MaxNodes \in Nat
  BY NodeAssumption
<1>2. \A n \in 1 .. MaxNodes : n \in S => t.parent[n] \in 1 .. n - 1
  BY <1>1, ParentBefore
<1>3. \E f : Climbs(f, 1 .. MaxNodes, S, t.parent, b.base_index, b.cached_parent_dfi)
  <2>. HIDE DEF S
  <2>. QED  BY <1>1, <1>2, ClimbDefined
<1>4. \E f : f = [n \in Node |->
              IF t.parent[n] = NULL \/ b.base_mod[n] >= b.latest_mod
              THEN b.base_index[n]
              ELSE b.base_index[n] + f[t.parent[n]] - b.cached_parent_dfi[n]]
  BY <1>1, <1>3, Zenon DEF Climbs
<1>. QED  BY <1>4 DEF DfiValues

\* Whatever is read, dfi() returns what it would have returned before.
LEMMA RefreshValues ==
  ASSUME NEW t, NEW b, NEW S, NEW k \in 1 .. MaxNodes, TreeShape(t), Ancestry(t, k),
         ModsTyped(b)
  PROVE  DfiValues(t, Refresh(t, b, S)) = DfiValues(t, b)
<1>. DEFINE r == Refresh(t, b, S)
            T == Touched(t, b, S)
            f == DfiValues(t, r)
            g == DfiValues(t, b)
<1>1. /\ r.latest_mod = b.latest_mod
      /\ \A n \in Node : /\ n \in T => r.base_index[n] = g[n] /\ r.base_mod[n] = b.latest_mod
                         /\ n \notin T => /\ r.base_index[n] = b.base_index[n]
                                          /\ r.base_mod[n] = b.base_mod[n]
                                          /\ r.cached_parent_dfi[n] = b.cached_parent_dfi[n]
  BY DEF Refresh
<1>2. \A n \in Node :
        f[n] = IF t.parent[n] = NULL \/ r.base_mod[n] >= r.latest_mod THEN r.base_index[n]
               ELSE r.base_index[n] + f[t.parent[n]] - r.cached_parent_dfi[n]
  BY DfiValuesDef
<1>3. \A n \in Node :
        g[n] = IF t.parent[n] = NULL \/ b.base_mod[n] >= b.latest_mod THEN b.base_index[n]
               ELSE b.base_index[n] + g[t.parent[n]] - b.cached_parent_dfi[n]
  BY DfiValuesDef
<1>4. b.latest_mod \in Int /\ b.latest_mod >= b.latest_mod
  BY DEF ModsTyped
<1>5. ASSUME NEW n \in Node
      PROVE  \/ f[n] = g[n]
             \/ t.parent[n] \in 1 .. n - 1 /\ (f[t.parent[n]] = g[t.parent[n]] => f[n] = g[n])
  <2>. HIDE DEF r, T, f, g
  <2>1. CASE n \in T
    BY <1>1, <1>2, <1>4, <2>1
  <2>2. CASE n \notin T /\ (t.parent[n] = NULL \/ b.base_mod[n] >= b.latest_mod)
    BY <1>1, <1>2, <1>3, <2>2
  <2>3. CASE n \notin T /\ ~(t.parent[n] = NULL \/ b.base_mod[n] >= b.latest_mod)
    <3>1. t.parent[n] \in 1 .. n - 1
      BY <2>3, ParentBefore
    <3>. QED  BY <1>1, <1>2, <1>3, <2>3, <3>1
  <2>. QED  BY <2>1, <2>2, <2>3
<1>6. Node = 1 .. MaxNodes /\ MaxNodes \in Nat
  BY NodeAssumption
<1>7. \A n \in 1 .. MaxNodes : f[n] = g[n]
  <2>. HIDE DEF f, g
  <2>1. AgreeFromBelow(f, g, t.parent, MaxNodes)
    BY <1>5, <1>6 DEF AgreeFromBelow
  <2>. QED  BY <1>6, <2>1, ClimbUnique DEF Agree
<1>8. f = [n \in Node |-> f[n]] /\ g = [n \in Node |-> g[n]]
  BY DfiValuesDef
<1>. QED  BY <1>6, <1>7, <1>8, Zenon

\* The order in which dfi() is called on several nodes does not matter, nor whether it is
\* called on one of them twice: one Refresh of their set stands for all the calls
\* (dfilter.cpp:274-292).
THEOREM ReadsCommute ==
  ASSUME NEW t, NEW b, NEW S, NEW U, NEW k \in 1 .. MaxNodes, TreeShape(t), Ancestry(t, k),
         ModsTyped(b)
  PROVE  Refresh(t, Refresh(t, b, S), U) = Refresh(t, b, S \cup U)
<1>. DEFINE r == Refresh(t, b, S)
            V == Touched(t, b, S)
            W == Touched(t, b, U)
            X == Touched(t, r, U)
<1>1. /\ r.latest_mod = b.latest_mod
      /\ \A n \in Node : r.base_mod[n] = IF n \in V THEN b.latest_mod ELSE b.base_mod[n]
  BY RefreshMods
<1>2. b.latest_mod \in Int /\ \A n \in Node : b.base_mod[n] \in Int
  BY DEF ModsTyped
<1>3. \A n \in Node : t.above[n] \subseteq Node
  BY DEF TreeShape
<1>4. Touched(t, b, S \cup U) = V \cup W
  BY DEF Touched
<1>5. ASSUME NEW y \in X
      PROVE  y \in W
  <2>1. PICK n \in U \cap Node :
          /\ y \in Node /\ (y = n \/ y \in t.above[n])
          /\ \A z \in t.above[n] \cup {n} : y \in t.above[z] => r.base_mod[z] < b.latest_mod
    BY <1>1 DEF Touched
  <2>2. \A z \in t.above[n] \cup {n} : y \in t.above[z] => b.base_mod[z] < b.latest_mod
    BY <1>1, <1>2, <1>3, <2>1
  <2>. QED  BY <2>1, <2>2 DEF Touched
<1>6. ASSUME NEW y \in W, y \notin X
      PROVE  y \in V
  <2>1. PICK n \in U \cap Node :
          /\ y \in Node /\ (y = n \/ y \in t.above[n])
          /\ \A z \in t.above[n] \cup {n} : y \in t.above[z] => b.base_mod[z] < b.latest_mod
    BY DEF Touched
  <2>2. PICK z \in t.above[n] \cup {n} : y \in t.above[z] /\ ~(r.base_mod[z] < b.latest_mod)
    BY <1>1, <1>6, <2>1 DEF Touched
  <2>3. z \in V /\ z \in Node
    BY <1>1, <1>3, <2>1, <2>2
  <2>4. PICK m \in S \cap Node :
          /\ z = m \/ z \in t.above[m]
          /\ \A w \in t.above[m] \cup {m} : z \in t.above[w] => b.base_mod[w] < b.latest_mod
    BY <2>3 DEF Touched
  <2>5. z \in 1 .. k /\ m \in 1 .. k /\ n \in 1 .. k
    BY <2>1, <2>2, <2>3, <2>4 DEF Ancestry
  <2>6. y \in t.above[m]
    BY <2>2, <2>4, <2>5 DEF Ancestry
  <2>7. ASSUME NEW w \in t.above[m] \cup {m}, y \in t.above[w]
        PROVE  b.base_mod[w] < b.latest_mod
    <3>1. CASE z \in t.above[w]
      BY <2>4, <3>1
    <3>2. CASE w = z
      BY <2>1, <2>2, <3>2
    <3>3. CASE w \in t.above[z]
      <4>1. w \in t.above[n]
        BY <2>2, <2>5, <3>3 DEF Ancestry
      <4>. QED  BY <2>1, <2>7, <4>1
    <3>4. w = z \/ z \in t.above[w] \/ w \in t.above[z]
      BY <2>4, <2>5 DEF Ancestry
    <3>. QED  BY <3>1, <3>2, <3>3, <3>4
  <2>. QED  BY <2>1, <2>4, <2>6, <2>7 DEF Touched
<1>7. \A y \in Node : y \in V \cup W <=> y \in V \/ y \in X
  BY <1>5, <1>6
<1>8. DfiValues(t, r) = DfiValues(t, b)
  BY RefreshValues
<1>. QED
  <2>1. \A y \in Node : /\ y \in V => r.base_index[y] = DfiValues(t, b)[y]
                        /\ y \notin V => r.base_index[y] = b.base_index[y]
                        /\ r.cached_parent_dfi[y] =
                             IF y \in V /\ t.parent[y] # NULL THEN DfiValues(t, b)[t.parent[y]]
                             ELSE b.cached_parent_dfi[y]
    BY DEF Refresh
  <2>. HIDE DEF r, V, W, X
  <2>. DEFINE val == DfiValues(t, b)
              Z == Touched(t, b, S \cup U)
  <2>2. [y \in Node |-> IF y \in X THEN val[y] ELSE r.base_index[y]]
          = [y \in Node |-> IF y \in Z THEN val[y] ELSE b.base_index[y]]
    BY <1>4, <1>7, <2>1
  <2>3. [y \in Node |-> IF y \in X THEN r.latest_mod ELSE r.base_mod[y]]
          = [y \in Node |-> IF y \in Z THEN b.latest_mod ELSE b.base_mod[y]]
    BY <1>1, <1>4, <1>7
  <2>4. [y \in Node |-> IF y \in X /\ t.parent[y] # NULL THEN val[t.parent[y]]
                        ELSE r.cached_parent_dfi[y]]
          = [y \in Node |-> IF y \in Z /\ t.parent[y] # NULL THEN val[t.parent[y]]
                            ELSE b.cached_parent_dfi[y]]
    BY <1>4, <1>7, <2>1
  <2>5. Refresh(t, r, U) =
          [base_index |-> [y \in Node |-> IF y \in X THEN val[y] ELSE r.base_index[y]],
           base_mod |-> [y \in Node |-> IF y \in X THEN r.latest_mod ELSE r.base_mod[y]],
           cached_parent_dfi |->
             [y \in Node |-> IF y \in X /\ t.parent[y] # NULL THEN val[t.parent[y]]
                             ELSE r.cached_parent_dfi[y]],
           latest_mod |-> r.latest_mod]
    BY <1>8 DEF Refresh, X
  <2>. HIDE DEF val, Z
  <2>6. Refresh(t, b, S \cup U) =
          [base_index |-> [y \in Node |-> IF y \in Z THEN val[y] ELSE b.base_index[y]],
           base_mod |-> [y \in Node |-> IF y \in Z THEN b.latest_mod ELSE b.base_mod[y]],
           cached_parent_dfi |->
             [y \in Node |-> IF y \in Z /\ t.parent[y] # NULL THEN val[t.parent[y]]
                             ELSE b.cached_parent_dfi[y]],
           latest_mod |-> b.latest_mod]
    BY DEF Refresh, Z, val
  <2>7. Refresh(t, r, U) = Refresh(t, b, S \cup U)
    BY <1>1, <2>2, <2>3, <2>4, <2>5, <2>6
  <2>. QED  BY <2>7 DEF r

\* dfi() of n as the code has it, over what its call of the parent's dfi() leaves.
DfiBody(t, b, n) ==
  LET p     == t.parent[n]
      stale == b.base_mod[n] < b.latest_mod
      c     == IF stale /\ p # NULL THEN Refresh(t, b, {p}) ELSE b
  IN  [base_index |->
         [y \in Node |-> IF y = n /\ stale /\ p # NULL
                         THEN c.base_index[n] + c.base_index[p] - c.cached_parent_dfi[n]
                         ELSE c.base_index[y]],
       base_mod |->
         [y \in Node |-> IF y = n /\ stale
                         THEN IF p # NULL THEN c.base_mod[p] ELSE b.latest_mod
                         ELSE c.base_mod[y]],
       cached_parent_dfi |->
         [y \in Node |-> IF y = n /\ p # NULL THEN c.base_index[p]
                         ELSE c.cached_parent_dfi[y]],
       latest_mod |-> b.latest_mod]

\* Refresh is what the recursive dfi() does: on an index that is fresh it obeys the
\* statements of dfi(), its recursive call included (dfilter.cpp:274-292).
THEOREM RefreshIsDfi ==
  ASSUME NEW t, NEW b, NEW k \in 1 .. MaxNodes, TreeShape(t), Ancestry(t, k),
         ModsTyped(b), Fresh(t, b, k), NEW n \in 1 .. k
  PROVE  Refresh(t, b, {n}) = DfiBody(t, b, n)
<1>. DEFINE p == t.parent[n]
            val == DfiValues(t, b)
            T == Touched(t, b, {n})
            r == Refresh(t, b, {n})
<1>0. n \in Node /\ Node = 1 .. MaxNodes /\ NULL \notin Node
  BY NodeAssumption, NullAssumption
<1>1. p # NULL => /\ p \in 1 .. n - 1 /\ p \in 1 .. k /\ p \in Node
                  /\ t.above[n] = t.above[p] \cup {p} /\ p \notin t.above[p]
  <2>. SUFFICES ASSUME p # NULL
                PROVE  /\ p \in 1 .. n - 1 /\ p \in 1 .. k /\ p \in Node
                       /\ t.above[n] = t.above[p] \cup {p} /\ p \notin t.above[p]
    OBVIOUS
  <2>1. p \in 1 .. n - 1
    BY <1>0, ParentBefore
  <2>2. p \in 1 .. k /\ t.above[n] = t.above[p] \cup {p}
    BY DEF Ancestry
  <2>3. \A m \in 1 .. k : m \notin t.above[m]
    BY AboveBefore
  <2>4. p \in Node
    BY <2>2, NodeAssumption
  <2>. QED  BY <2>1, <2>2, <2>3, <2>4
<1>2. p = NULL => t.above[n] = {}
  BY DEF Ancestry
<1>3. n \notin t.above[n] /\ t.above[n] \subseteq Node /\ t.above[n] \subseteq 1 .. n - 1
  <2>1. n \notin t.above[n] /\ t.above[n] \subseteq 1 .. n - 1
    BY AboveBefore DEF Ancestry
  <2>2. t.above[n] \subseteq Node
    BY <1>0 DEF TreeShape
  <2>. QED  BY <2>1, <2>2
<1>4. \A y \in Node : b.base_mod[y] \in Int
  BY DEF ModsTyped
<1>5. b.latest_mod \in Int
  BY DEF ModsTyped
<1>6. \A y \in t.above[n] : n \notin t.above[y]
  BY AboveBefore
<1>7. n \in T
  BY <1>0, <1>3, <1>6 DEF Touched
<1>8. \A y \in Node :
        val[y] = IF t.parent[y] = NULL \/ b.base_mod[y] >= b.latest_mod THEN b.base_index[y]
                 ELSE b.base_index[y] + val[t.parent[y]] - b.cached_parent_dfi[y]
  BY DfiValuesDef
<1>9. r = [base_index |-> [y \in Node |-> IF y \in T THEN val[y] ELSE b.base_index[y]],
           base_mod |-> [y \in Node |-> IF y \in T THEN b.latest_mod ELSE b.base_mod[y]],
           cached_parent_dfi |->
             [y \in Node |-> IF y \in T /\ t.parent[y] # NULL THEN val[t.parent[y]]
                             ELSE b.cached_parent_dfi[y]],
           latest_mod |-> b.latest_mod]
  BY DEF Refresh
<1>a. CASE ~(b.base_mod[n] < b.latest_mod)
  <2>1. T = {n}
    BY <1>0, <1>3, <1>7, <1>a DEF Touched
  <2>2. b.base_mod[n] = b.latest_mod
    BY <1>0, <1>4, <1>5, <1>a DEF Fresh
  <2>3. p # NULL => b.base_mod[p] >= b.latest_mod
    BY <1>0, <1>1, <1>4, <1>5, <2>2 DEF Fresh
  <2>4. val[n] = b.base_index[n] /\ (p # NULL => val[p] = b.base_index[p])
    BY <1>0, <1>1, <1>5, <1>8, <2>2, <2>3
  <2>. HIDE DEF T, val, r
  <2>5. r = [base_index |-> [y \in Node |-> b.base_index[y]],
             base_mod |-> [y \in Node |-> b.base_mod[y]],
             cached_parent_dfi |->
               [y \in Node |-> IF y = n /\ p # NULL THEN b.base_index[p]
                               ELSE b.cached_parent_dfi[y]],
             latest_mod |-> b.latest_mod]
    BY <1>9, <2>1, <2>2, <2>4
  <2>6. r = DfiBody(t, b, n)
    BY <1>a, <2>5 DEF DfiBody
  <2>. QED  BY <2>6 DEF r
<1>b. CASE b.base_mod[n] < b.latest_mod /\ p = NULL
  <2>1. T = {n}
    BY <1>0, <1>2, <1>7, <1>b DEF Touched
  <2>2. val[n] = b.base_index[n]
    BY <1>0, <1>8, <1>b
  <2>. HIDE DEF T, val, r
  <2>5. r = [base_index |-> [y \in Node |-> b.base_index[y]],
             base_mod |-> [y \in Node |-> IF y = n THEN b.latest_mod ELSE b.base_mod[y]],
             cached_parent_dfi |-> [y \in Node |-> b.cached_parent_dfi[y]],
             latest_mod |-> b.latest_mod]
    BY <1>9, <1>b, <2>1, <2>2
  <2>6. r = DfiBody(t, b, n)
    BY <1>b, <2>5 DEF DfiBody
  <2>. QED  BY <2>6 DEF r
<1>c. CASE b.base_mod[n] < b.latest_mod /\ p # NULL
  <2>. DEFINE c == Refresh(t, b, {p})
              U == Touched(t, b, {p})
  <2>1. p \in U /\ n \notin U
    <3>1. \A z \in t.above[p] \cup {p} : p \notin t.above[z]
      BY <1>1, <1>c DEF Ancestry
    <3>. QED  BY <1>1, <1>3, <1>c, <3>1 DEF Touched
  <2>2. \A y \in Node : y \in T <=> y = n \/ y \in U
    <3>1. \A z \in t.above[n] \cup {n} : z = n \/ z \in t.above[p] \cup {p}
      BY <1>1, <1>c
    <3>2. \A z \in t.above[p] \cup {p} : z \in t.above[n] \cup {n}
      BY <1>1, <1>c
    <3>. QED  BY <1>0, <1>1, <1>7, <1>c, <3>1, <3>2 DEF Touched
  <2>3. /\ \A y \in Node : c.base_index[y] = IF y \in U THEN val[y] ELSE b.base_index[y]
        /\ \A y \in Node : c.base_mod[y] = IF y \in U THEN b.latest_mod ELSE b.base_mod[y]
        /\ \A y \in Node : c.cached_parent_dfi[y] =
             IF y \in U /\ t.parent[y] # NULL THEN val[t.parent[y]] ELSE b.cached_parent_dfi[y]
    BY DEF Refresh
  <2>4. val[n] = b.base_index[n] + val[p] - b.cached_parent_dfi[n]
    BY <1>0, <1>4, <1>5, <1>8, <1>c
  <2>. HIDE DEF T, U, val, c, r
  <2>5. \A y \in Node :
          (IF y \in T THEN val[y] ELSE b.base_index[y]) =
            IF y = n THEN c.base_index[n] + c.base_index[p] - c.cached_parent_dfi[n]
            ELSE c.base_index[y]
    BY <1>0, <1>1, <1>c, <2>1, <2>2, <2>3, <2>4
  <2>6. \A y \in Node :
          (IF y \in T THEN b.latest_mod ELSE b.base_mod[y]) =
            IF y = n THEN c.base_mod[p] ELSE c.base_mod[y]
    BY <1>1, <1>c, <2>1, <2>2, <2>3
  <2>7. \A y \in Node :
          (IF y \in T /\ t.parent[y] # NULL THEN val[t.parent[y]]
           ELSE b.cached_parent_dfi[y]) =
            IF y = n THEN c.base_index[p] ELSE c.cached_parent_dfi[y]
    BY <1>0, <1>1, <1>c, <2>1, <2>2, <2>3
  <2>8. r = [base_index |->
               [y \in Node |->
                  IF y = n THEN c.base_index[n] + c.base_index[p] - c.cached_parent_dfi[n]
                  ELSE c.base_index[y]],
             base_mod |-> [y \in Node |-> IF y = n THEN c.base_mod[p] ELSE c.base_mod[y]],
             cached_parent_dfi |->
               [y \in Node |-> IF y = n THEN c.base_index[p] ELSE c.cached_parent_dfi[y]],
             latest_mod |-> b.latest_mod]
    BY <1>9, <2>5, <2>6, <2>7
  <2>9. r = DfiBody(t, b, n)
    BY <1>c, <2>8 DEF DfiBody, c
  <2>. QED  BY <2>9 DEF r
<1>. QED  BY <1>a, <1>b, <1>c

-----------------------------------------------------------------------------
(* Document order *)

\* The first k nodes of t are one tree, below node 1.
OneTree(t, k) ==
  /\ TreeShape(t) /\ Ancestry(t, k) /\ ChildLists(t, k)
  /\ t.parent[1] = NULL /\ \A n \in 2 .. k : 1 \in t.above[n]

\* Ancestry is an order, and the ancestors of a node are on one path.
Paths(t, k) ==
  /\ \A n \in 1 .. k : n \notin t.above[n] /\ t.above[n] \subseteq 1 .. k
  /\ \A n \in 1 .. k : \A y \in t.above[n] : y < n /\ t.above[y] \subseteq t.above[n]
  /\ \A n \in 1 .. k : \A y, z \in t.above[n] : y = z \/ y \in t.above[z] \/ z \in t.above[y]

LEMMA TreePaths ==
  ASSUME NEW t, NEW k \in 1 .. MaxNodes, Ancestry(t, k)
  PROVE  Paths(t, k)
<1>1. \A n \in 1 .. k : /\ n \notin t.above[n]
                        /\ \A y \in t.above[n] : y \in 1 .. k /\ y < n
  BY AboveBefore
<1>. QED  BY <1>1 DEF Ancestry, Paths

\* A child list: its members are the nodes that have p for their parent.
Children(t, k, p) ==
  /\ Len(t.children[p]) \in Nat
  /\ \A i \in 1 .. Len(t.children[p]) :
       /\ t.children[p][i] \in 1 .. k /\ t.parent[t.children[p][i]] = p
       /\ t.above[t.children[p][i]] = t.above[p] \cup {p}
  /\ \A i, j \in 1 .. Len(t.children[p]) : t.children[p][i] = t.children[p][j] => i = j
  /\ \A n \in 1 .. k : t.parent[n] = p =>
       \E i \in 1 .. Len(t.children[p]) : t.children[p][i] = n

LEMMA TreeChildren ==
  ASSUME NEW t, NEW k \in 1 .. MaxNodes, OneTree(t, k), NEW p \in 1 .. k
  PROVE  Children(t, k, p)
<1>. PICK c : c = t.children[p]
  OBVIOUS
<1>0. p # NULL /\ p \in Node
  BY NodeAssumption, NullAssumption
<1>1. c \in Seq(1 .. k)
  BY DEF OneTree, ChildLists
<1>2. Len(c) \in Nat /\ \A i \in 1 .. Len(c) : c[i] \in 1 .. k
  BY <1>1, ElementOfSeq
<1>3. ASSUME NEW i \in 1 .. Len(c)
      PROVE  t.parent[c[i]] = p /\ \A j \in 1 .. i - 1 : c[j] # c[i]
  <2>1. i \in 1 .. Len(t.children[p])
    OBVIOUS
  <2>. QED  BY <2>1, ZenonT(60) DEF OneTree, ChildLists
<1>4. ASSUME NEW i \in 1 .. Len(c)
      PROVE  t.above[c[i]] = t.above[p] \cup {p}
  <2>1. c[i] \in 1 .. k /\ t.parent[c[i]] = p
    BY <1>2, <1>3
  <2>. QED  BY <1>0, <2>1, SMTT(60) DEF OneTree, Ancestry
<1>5. ASSUME NEW i \in 1 .. Len(c), NEW j \in 1 .. Len(c), c[i] = c[j]
      PROVE  i = j
  <2>1. ~(i < j)
    BY <1>2, <1>3, <1>5
  <2>2. ~(j < i)
    BY <1>2, <1>3, <1>5
  <2>. QED  BY <1>2, <2>1, <2>2
<1>6. \A n \in 1 .. k : t.parent[n] = p => \E i \in 1 .. Len(c) : c[i] = n
  BY <1>0 DEF OneTree, ChildLists
<1>. QED  BY <1>2, <1>3, <1>4, <1>5, <1>6 DEF Children

\* A node is in the branch of one of the children of each of its ancestors.
LEMMA BranchOf ==
  ASSUME NEW t, NEW k \in 1 .. MaxNodes, OneTree(t, k), NEW m \in 1 .. k, NEW a \in t.above[m]
  PROVE  \E i \in 1 .. Len(t.children[a]) : Under(t, t.children[a][i], m)
<1>. DEFINE D == {y \in t.above[m] \cup {m} : a \in t.above[y]}
<1>1. Paths(t, k)
  BY TreePaths DEF OneTree
<1>2. D \subseteq 1 .. k /\ D \subseteq Nat /\ m \in D
  BY <1>1 DEF Paths
<1>3. PICK y \in D : \A z \in D : y <= z
  <2>. HIDE DEF D
  <2>. QED  BY <1>2, LeastMember
<1>4. y \in 1 .. k /\ a \in t.above[y] /\ (y = m \/ y \in t.above[m])
  BY <1>2
<1>5. /\ t.parent[y] # NULL /\ t.parent[y] \in 1 .. k
      /\ t.above[y] = t.above[t.parent[y]] \cup {t.parent[y]}
  BY <1>4 DEF OneTree, Ancestry
<1>6. a = t.parent[y]
  <2>1. ASSUME a \in t.above[t.parent[y]]
        PROVE  FALSE
    <3>1. t.parent[y] \in t.above[y] /\ t.parent[y] \in t.above[m] /\ t.parent[y] < y
      BY <1>1, <1>4, <1>5 DEF Paths
    <3>2. t.parent[y] \in D
      BY <2>1, <3>1
    <3>. QED  BY <1>3, <1>4, <1>5, <3>1, <3>2
  <2>. QED  BY <1>4, <1>5, <2>1
<1>7. Children(t, k, a)
  BY <1>5, <1>6, TreeChildren
<1>8. PICK i \in 1 .. Len(t.children[a]) : t.children[a][i] = y
  BY <1>4, <1>6, <1>7 DEF Children
<1>. QED  BY <1>4, <1>8 DEF Under

\* Siblings' branches have no node in common.
LEMMA BranchesApart ==
  ASSUME NEW t, NEW k \in 1 .. MaxNodes, OneTree(t, k), NEW m \in 1 .. k, NEW p \in 1 .. k,
         NEW i \in 1 .. Len(t.children[p]), NEW j \in 1 .. Len(t.children[p]),
         Under(t, t.children[p][i], m), Under(t, t.children[p][j], m)
  PROVE  i = j
<1>. PICK c, d : c = t.children[p][i] /\ d = t.children[p][j]
  OBVIOUS
<1>1. Paths(t, k) /\ Children(t, k, p)
  BY TreePaths, TreeChildren DEF OneTree
<1>2. /\ c \in 1 .. k /\ d \in 1 .. k /\ t.above[c] = t.above[p] \cup {p}
      /\ t.above[d] = t.above[p] \cup {p} /\ (c = d => i = j)
  BY <1>1 DEF Children
<1>3. c \notin t.above[d] /\ d \notin t.above[c]
  BY <1>1, <1>2 DEF Paths
<1>4. (c = m \/ c \in t.above[m]) /\ (d = m \/ d \in t.above[m])
  BY DEF Under
<1>5. c = d
  <2>1. c \in t.above[m] /\ d \in t.above[m] => c = d \/ c \in t.above[d] \/ d \in t.above[c]
    BY <1>1 DEF Paths
  <2>. QED  BY <1>3, <1>4, <2>1
<1>. QED  BY <1>2, <1>5

\* Of two nodes one comes before the other.
LEMMA Comparable ==
  ASSUME NEW t, NEW k \in 1 .. MaxNodes, OneTree(t, k), NEW m \in 1 .. k, NEW n \in 1 .. k, m # n
  PROVE  Precedes(t, m, n) \/ Precedes(t, n, m)
<1>1. Paths(t, k)
  BY TreePaths DEF OneTree
<1>2. SUFFICES ASSUME m \notin t.above[n], n \notin t.above[m]
               PROVE  LeftOf(t, m, n) \/ LeftOf(t, n, m)
  BY DEF Precedes
<1>. DEFINE D == t.above[m] \cap t.above[n]
<1>3. m # 1 /\ n # 1
  BY <1>2 DEF OneTree
<1>4. 1 \in D /\ D \subseteq 0 .. k
  BY <1>1, <1>3 DEF OneTree, Paths
<1>5. PICK a \in D : \A z \in D : z <= a
  <2>. HIDE DEF D
  <2>1. k \in Nat
    BY NodeAssumption
  <2>. QED  BY <1>4, <2>1, GreatestMember
<1>6. a \in t.above[m] /\ a \in t.above[n] /\ a \in 1 .. k /\ a \in Node
  BY <1>1, NodeAssumption DEF Paths
<1>7. PICK i \in 1 .. Len(t.children[a]) : Under(t, t.children[a][i], m)
  BY <1>6, BranchOf
<1>8. PICK j \in 1 .. Len(t.children[a]) : Under(t, t.children[a][j], n)
  BY <1>6, BranchOf
<1>9. i # j
  <2>. SUFFICES ASSUME i = j  PROVE FALSE
    OBVIOUS
  <2>. PICK c : c = t.children[a][i]
    OBVIOUS
  <2>1. c \in 1 .. k /\ a \in t.above[c]
    <3>1. Children(t, k, a)
      BY <1>6, TreeChildren
    <3>2. c \in 1 .. k /\ t.above[c] = t.above[a] \cup {a}
      BY <3>1 DEF Children
    <3>. QED  BY <3>2
  <2>2. a < c
    BY <1>1, <2>1 DEF Paths
  <2>3. c \in D
    BY <1>2, <1>7, <1>8 DEF Under
  <2>. QED  BY <1>5, <1>6, <2>1, <2>2, <2>3
<1>10. Len(t.children[a]) \in Nat
  <2>1. Children(t, k, a)
    BY <1>6, TreeChildren
  <2>. QED  BY <2>1 DEF Children
<1>11. i < j \/ j < i
  BY <1>9, <1>10
<1>. QED  BY <1>6, <1>7, <1>8, <1>11 DEF LeftOf

\* v numbers the nodes in document order.
Numbers(v, t, k) ==
  /\ \A n \in 1 .. k : v[n] \in 0 .. k - 1
  /\ \A i \in 0 .. k - 1 : \E n \in 1 .. k : v[n] = i
  /\ \A m, n \in 1 .. k : Precedes(t, m, n) => v[m] < v[n]

\* Two nodes never have the same number, and the numbers tell the order.
LEMMA NumbersTell ==
  ASSUME NEW t, NEW k \in 1 .. MaxNodes, OneTree(t, k), NEW v, Numbers(v, t, k)
  PROVE  \A m, n \in 1 .. k : /\ v[m] = v[n] => m = n
                              /\ Precedes(t, m, n) <=> v[m] < v[n]
<1>. SUFFICES ASSUME NEW m \in 1 .. k, NEW n \in 1 .. k
              PROVE  /\ v[m] = v[n] => m = n
                     /\ Precedes(t, m, n) <=> v[m] < v[n]
  OBVIOUS
<1>1. v[m] \in Int /\ v[n] \in Int
  <2>1. k \in Int
    BY NodeAssumption
  <2>. QED  BY <2>1 DEF Numbers
<1>2. m # n => Precedes(t, m, n) \/ Precedes(t, n, m)
  BY Comparable
<1>3. (Precedes(t, m, n) => v[m] < v[n]) /\ (Precedes(t, n, m) => v[n] < v[m])
  BY DEF Numbers
<1>. QED  BY <1>1, <1>2, <1>3

-----------------------------------------------------------------------------
(* A new child n of p, behind p's first pos children *)

\* g is t with n among the children of p.
Grows(g, t, k, p, pos, n) ==
  /\ \A m \in 1 .. k : g.above[m] = t.above[m]
  /\ g.above[n] = t.above[p] \cup {p}
  /\ \A q \in Node : q # p => g.children[q] = t.children[q]
  /\ IsGrown(t.children[p], g.children[p], n, pos + 1, 1 .. n)

\* Where the new node comes among the old ones.
GrownLeft(g, t, k, p, pos, n, m, y) ==
  /\ m \in 1 .. k /\ y \in 1 .. k => LeftOf(t, m, y)
  /\ m \in 1 .. k /\ y = n => \/ LeftOf(t, m, p)
                              \/ \E i \in 1 .. pos : Under(t, t.children[p][i], m)
  /\ m = n /\ y \in 1 .. k => \/ LeftOf(t, p, y)
                              \/ \E i \in pos + 1 .. Len(t.children[p]) :
                                   Under(t, t.children[p][i], y)

LEMMA GrowthLeft ==
  ASSUME NEW t, NEW k \in 1 .. MaxNodes, k < MaxNodes, OneTree(t, k), NEW p \in 1 .. k,
         NEW pos \in 0 .. Len(t.children[p]), NEW n, n = k + 1,
         NEW g, Grows(g, t, k, p, pos, n), NEW m \in 1 .. n, NEW y \in 1 .. n, LeftOf(g, m, y)
  PROVE  GrownLeft(g, t, k, p, pos, n, m, y)
<1>. PICK c, d : c = t.children[p] /\ d = g.children[p]
  OBVIOUS
<1>0. Paths(t, k) /\ Children(t, k, p) /\ k \in Int /\ n \in Int /\ p \in Node /\ 1 .. k \subseteq Node
  BY TreePaths, TreeChildren, NodeAssumption DEF OneTree
<1>1. PICK q \in Node : \E i, j \in 1 .. Len(g.children[q]) :
        i < j /\ Under(g, g.children[q][i], m) /\ Under(g, g.children[q][j], y)
  BY DEF LeftOf
<1>2. PICK i \in 1 .. Len(g.children[q]), j \in 1 .. Len(g.children[q]) :
        i < j /\ Under(g, g.children[q][i], m) /\ Under(g, g.children[q][j], y)
  BY <1>1
<1>. PICK a, b : a = g.children[q][i] /\ b = g.children[q][j]
  OBVIOUS
\* What the branch of an old or the new child holds.
<1>3. ASSUME NEW e \in 1 .. n, NEW z \in 1 .. n, Under(g, e, z)
      PROVE  /\ z \in 1 .. k => e # n /\ e \in 1 .. k /\ Under(t, e, z)
             /\ z = n /\ e # n => e \in 1 .. k /\ Under(t, e, p)
  <2>1. CASE z \in 1 .. k
    <3>1. g.above[z] = t.above[z] /\ t.above[z] \subseteq 1 .. k /\ z # n
      BY <1>0, <2>1 DEF Grows, Paths
    <3>. QED  BY <1>0, <1>3, <2>1, <3>1 DEF Under
  <2>2. CASE z = n
    <3>1. g.above[z] = t.above[p] \cup {p}
      BY <2>2 DEF Grows
    <3>. QED  BY <1>0, <1>3, <2>2, <3>1 DEF Under
  <2>. QED  BY <1>0, <2>1, <2>2
<1>4. CASE q # p
  <2>1. g.children[q] = t.children[q]
    BY <1>4 DEF Grows
  <2>2. t.children[q] \in Seq(1 .. k)
    <3>1. CASE q \in 1 .. k
      BY <3>1 DEF OneTree, ChildLists
    <3>2. CASE q \in Node \ 1 .. k
      <4>1. t.children[q] = <<>>
        BY <3>2 DEF OneTree, ChildLists
      <4>. QED  BY <4>1
    <3>. QED  BY <3>1, <3>2
  <2>3. a \in 1 .. k /\ b \in 1 .. k /\ a # n /\ b # n /\ a \in 1 .. n /\ b \in 1 .. n
    <3>. PICK l : l = t.children[q]
      OBVIOUS
    <3>1. l \in Seq(1 .. k) /\ i \in 1 .. Len(l) /\ j \in 1 .. Len(l) /\ a = l[i] /\ b = l[j]
      BY <2>1, <2>2
    <3>2. a \in 1 .. k /\ b \in 1 .. k
      BY <3>1, ElementOfSeq
    <3>. QED  BY <1>0, <3>2, SMTT(60)
  <2>4. Under(g, a, m) /\ Under(g, b, y)
    BY <1>2
  <2>5. /\ m \in 1 .. k => Under(t, a, m)
        /\ m = n => Under(t, a, p)
        /\ y \in 1 .. k => Under(t, b, y)
        /\ y = n => Under(t, b, p)
    BY <1>3, <2>3, <2>4, SMTT(60)
  <2>6. \A u, w : Under(t, a, u) /\ Under(t, b, w) => LeftOf(t, u, w)
    BY <1>2, <2>1 DEF LeftOf
  <2>. QED  BY <2>5, <2>6 DEF GrownLeft
<1>5. CASE q = p
  <2>1. /\ Len(c) \in Nat /\ Len(d) = Len(c) + 1 /\ pos \in Nat /\ pos <= Len(c)
        /\ \A x \in 1 .. Len(c) + 1 : /\ x < pos + 1 => d[x] = c[x]
                                      /\ x = pos + 1 => d[x] = n
                                      /\ x > pos + 1 => d[x] = c[x - 1]
    BY <1>0 DEF Grows, IsGrown, Children
  <2>2. i \in 1 .. Len(c) + 1 /\ j \in 1 .. Len(c) + 1 /\ i < j /\ a = d[i] /\ b = d[j]
    BY <1>2, <1>5, <2>1
  <2>3. \A l \in 1 .. Len(c) : /\ c[l] \in 1 .. k /\ c[l] # n /\ c[l] \in 1 .. n
                               /\ p \in t.above[c[l]]
    <3>. SUFFICES ASSUME NEW l \in 1 .. Len(c)
                  PROVE  c[l] \in 1 .. k /\ p \in t.above[c[l]]
      BY <1>0, SMTT(60)
    <3>1. l \in 1 .. Len(t.children[p]) /\ c[l] = t.children[p][l]
      OBVIOUS
    <3>2. t.children[p][l] \in 1 .. k /\ t.above[t.children[p][l]] = t.above[p] \cup {p}
      BY <1>0, <3>1, Zenon DEF Children
    <3>. QED  BY <3>1, <3>2
  <2>. PICK x, z : x = (IF i <= pos THEN i ELSE i - 1) /\ z = (IF j <= pos THEN j ELSE j - 1)
    OBVIOUS
  <2>4. /\ i # pos + 1 => x \in 1 .. Len(c) /\ a = c[x]
        /\ i = pos + 1 => a = n
        /\ j # pos + 1 => z \in 1 .. Len(c) /\ b = c[z]
        /\ j = pos + 1 => b = n
    <3>0. i \in Int /\ j \in Int /\ pos \in Int
      BY <2>1, <2>2
    <3>1. /\ i < pos + 1 => x = i /\ d[i] = c[i]
          /\ i > pos + 1 => x = i - 1 /\ d[i] = c[i - 1]
          /\ j < pos + 1 => z = j /\ d[j] = c[j]
          /\ j > pos + 1 => z = j - 1 /\ d[j] = c[j - 1]
      <4>1. /\ i < pos + 1 => d[i] = c[i]
            /\ i > pos + 1 => d[i] = c[i - 1]
            /\ j < pos + 1 => d[j] = c[j]
            /\ j > pos + 1 => d[j] = c[j - 1]
        BY <2>1, <2>2
      <4>. QED  BY <3>0, <4>1
    <3>2. /\ i < pos + 1 => i \in 1 .. Len(c)
          /\ i > pos + 1 => i - 1 \in 1 .. Len(c)
          /\ j < pos + 1 => j \in 1 .. Len(c)
          /\ j > pos + 1 => j - 1 \in 1 .. Len(c)
      <4>1. PICK L \in Nat : L = Len(c)
        BY <2>1
      <4>2. i \in 1 .. L + 1 /\ j \in 1 .. L + 1 /\ pos \in 0 .. L
        BY <2>1, <2>2, <4>1
      <4>3. /\ i < pos + 1 => i \in 1 .. L
            /\ i > pos + 1 => i - 1 \in 1 .. L
            /\ j < pos + 1 => j \in 1 .. L
            /\ j > pos + 1 => j - 1 \in 1 .. L
        BY <4>2
      <4>. QED  BY <4>1, <4>3
    <3>3. (i = pos + 1 => d[i] = n) /\ (j = pos + 1 => d[j] = n)
      BY <2>1, <2>2
    <3>4. (i # pos + 1 => i < pos + 1 \/ i > pos + 1) /\ (j # pos + 1 => j < pos + 1 \/ j > pos + 1)
      BY <2>1, <2>2
    <3>. QED  BY <2>2, <3>1, <3>2, <3>3, <3>4
  <2>4a. /\ i # pos + 1 /\ j # pos + 1 => x < z
         /\ j = pos + 1 => x \in 1 .. pos
         /\ i = pos + 1 => z \in pos + 1 .. Len(c)
    BY <2>1, <2>2, SMTT(60)
  <2>5. a \in 1 .. n /\ b \in 1 .. n /\ Under(g, a, m) /\ Under(g, b, y)
    <3>1. n \in 1 .. n
      BY <1>0
    <3>2. Under(g, a, m) /\ Under(g, b, y)
      BY <1>2
    <3>. QED  BY <2>3, <2>4, <3>1, <3>2
  \* No child of p has p in its branch.
  <2>6. \A l \in 1 .. Len(c) : ~Under(t, c[l], p)
    <3>. SUFFICES ASSUME NEW l \in 1 .. Len(c), Under(t, c[l], p)  PROVE FALSE
      OBVIOUS
    <3>1. c[l] \in 1 .. k /\ p \in t.above[c[l]]
      BY <2>3
    <3>2. c[l] = p \/ c[l] \in t.above[p]
      BY DEF Under
    <3>3. p \notin t.above[p] /\ \A e \in t.above[p] : t.above[e] \subseteq t.above[p]
      BY <1>0 DEF Paths
    <3>. QED  BY <3>1, <3>2, <3>3
  <2>7. x \in 1 .. Len(c) /\ z \in 1 .. Len(c) /\ x < z /\ Under(t, c[x], m) /\ Under(t, c[z], y)
          => LeftOf(t, m, y)
    BY <1>0 DEF LeftOf
  <2>8. CASE m \in 1 .. k /\ y \in 1 .. k
    <3>1. a # n /\ b # n /\ Under(t, a, m) /\ Under(t, b, y)
      BY <1>3, <2>5, <2>8
    <3>2. i # pos + 1 /\ j # pos + 1
      BY <2>4, <3>1
    <3>3. LeftOf(t, m, y)
      BY <2>4, <2>4a, <2>7, <3>1, <3>2
    <3>. QED  BY <1>0, <2>8, <3>3 DEF GrownLeft
  <2>9. CASE m \in 1 .. k /\ y = n
    <3>1. a # n /\ Under(t, a, m)
      BY <1>3, <2>5, <2>9
    <3>2. b # n => Under(t, b, p)
      BY <1>3, <2>5, <2>9
    <3>3. j = pos + 1
      BY <2>3, <2>4, <2>6, <3>2
    <3>4. i # pos + 1
      BY <2>2, <3>3
    <3>5. x \in 1 .. pos /\ Under(t, c[x], m)
      BY <2>4, <2>4a, <3>1, <3>3, <3>4
    <3>. QED  BY <1>0, <2>9, <3>5 DEF GrownLeft
  <2>10. CASE m = n /\ y \in 1 .. k
    <3>1. b # n /\ Under(t, b, y)
      BY <1>3, <2>5, <2>10
    <3>2. a # n => Under(t, a, p)
      BY <1>3, <2>5, <2>10
    <3>3. i = pos + 1
      BY <2>3, <2>4, <2>6, <3>2
    <3>4. j # pos + 1
      BY <2>2, <3>3
    <3>5. z \in pos + 1 .. Len(c) /\ Under(t, c[z], y)
      BY <2>4, <2>4a, <3>1, <3>3, <3>4
    <3>. QED  BY <1>0, <2>10, <3>5, SMTT(60) DEF GrownLeft
  <2>11. CASE m = n /\ y = n
    BY <1>0, <2>11 DEF GrownLeft
  <2>. QED  BY <1>0, <2>8, <2>9, <2>10, <2>11
<1>. QED  BY <1>4, <1>5

\* r is the number that a new child of p behind its first pos children must take.
FitsAt(v, t, k, p, pos, r) ==
  /\ r \in 0 .. k /\ v[p] < r
  /\ \A i \in 1 .. Len(t.children[p]), y \in 1 .. k :
       Under(t, t.children[p][i], y) => IF i <= pos THEN v[y] < r ELSE r <= v[y]
  /\ \A y \in 1 .. k : LeftOf(t, p, y) => r <= v[y]

\* The nodes from r on move up by one, and the new node is r.
MovedUp(w, v, k, n, r) ==
  /\ \A y \in 1 .. k : w[y] = v[y] + IF r <= v[y] THEN 1 ELSE 0
  /\ w[n] = r

LEMMA GrowthNumbers ==
  ASSUME NEW t, NEW k \in 1 .. MaxNodes, k < MaxNodes, OneTree(t, k), NEW p \in 1 .. k,
         NEW pos \in 0 .. Len(t.children[p]), NEW n, n = k + 1,
         NEW g, Grows(g, t, k, p, pos, n), OneTree(g, n),
         NEW v, Numbers(v, t, k), NEW r, FitsAt(v, t, k, p, pos, r),
         NEW w, MovedUp(w, v, k, n, r)
  PROVE  Numbers(w, g, n)
<1>0. /\ Paths(t, k) /\ Children(t, k, p) /\ k \in Int /\ n \in 1 .. MaxNodes
      /\ 1 .. n = 1 .. k \cup {n} /\ n \notin 1 .. k
  BY TreePaths, TreeChildren, NodeAssumption DEF OneTree
<1>1. /\ r \in 0 .. k /\ v[p] < r /\ \A y \in 1 .. k : v[y] \in 0 .. k - 1
      /\ w[n] = r
      /\ \A y \in 1 .. k : /\ r <= v[y] => w[y] = v[y] + 1
                           /\ ~(r <= v[y]) => w[y] = v[y]
  BY <1>0, SMTT(60) DEF FitsAt, Numbers, MovedUp
<1>2. \A y \in 1 .. n : w[y] \in 0 .. n - 1
  BY <1>0, <1>1, SMTT(60)
<1>3. ASSUME NEW i \in 0 .. n - 1
      PROVE  \E y \in 1 .. n : w[y] = i
  <2>1. CASE i = r
    BY <1>0, <1>1, <2>1
  <2>2. CASE i < r
    <3>1. PICK y \in 1 .. k : v[y] = i
      BY <1>0, <1>1, <2>2, SMTT(60) DEF Numbers
    <3>. QED  BY <1>0, <1>1, <2>2, <3>1, SMTT(60)
  <2>3. CASE r < i
    <3>0. i - 1 \in 0 .. k - 1
      BY <1>0, <1>1, <2>3
    <3>1. PICK y \in 1 .. k : v[y] = i - 1
      BY <3>0 DEF Numbers
    <3>. QED  BY <1>0, <1>1, <2>3, <3>1, SMTT(60)
  <2>. QED  BY <1>0, <1>1, <2>1, <2>2, <2>3
<1>4. ASSUME NEW m \in 1 .. n, NEW y \in 1 .. n, Precedes(g, m, y)
      PROVE  w[m] < w[y]
  <2>1. LeftOf(g, m, y) => GrownLeft(g, t, k, p, pos, n, m, y)
    BY GrowthLeft
  <2>2. CASE m \in 1 .. k /\ y \in 1 .. k
    <3>1. m \in t.above[y] \/ LeftOf(t, m, y)
      BY <1>4, <2>1, <2>2 DEF Precedes, GrownLeft, Grows
    <3>2. v[m] < v[y]
      BY <2>2, <3>1 DEF Precedes, Numbers
    <3>. QED  BY <1>0, <1>1, <2>2, <3>2, SMTT(60)
  <2>3. CASE m \in 1 .. k /\ y = n
    <3>1. \/ m = p \/ m \in t.above[p] \/ LeftOf(t, m, p)
          \/ \E i \in 1 .. pos : Under(t, t.children[p][i], m)
      <4>1. g.above[n] = t.above[p] \cup {p}
        BY DEF Grows
      <4>2. m \in g.above[n] \/ LeftOf(g, m, y)
        BY <1>4, <2>3 DEF Precedes
      <4>. QED  BY <2>1, <2>3, <4>1, <4>2 DEF GrownLeft
    <3>2. v[m] < r
      <4>1. CASE m = p \/ m \in t.above[p] \/ LeftOf(t, m, p)
        <5>1. m = p \/ v[m] < v[p]
          BY <2>3, <4>1 DEF Precedes, Numbers
        <5>. QED  BY <1>0, <1>1, <2>3, <5>1
      <4>2. CASE \E i \in 1 .. pos : Under(t, t.children[p][i], m)
        <5>1. PICK i \in 1 .. pos : Under(t, t.children[p][i], m)
          BY <4>2
        <5>2. i \in 1 .. Len(t.children[p]) /\ i <= pos
          BY <1>0 DEF Children
        <5>. QED  BY <2>3, <5>1, <5>2 DEF FitsAt
      <4>. QED  BY <3>1, <4>1, <4>2
    <3>. QED  BY <1>0, <1>1, <2>3, <3>2
  <2>4. CASE m = n /\ y \in 1 .. k
    <3>1. n \notin g.above[y]
      BY <1>0, <2>4 DEF Grows, Paths
    <3>2. \/ LeftOf(t, p, y)
          \/ \E i \in pos + 1 .. Len(t.children[p]) : Under(t, t.children[p][i], y)
      BY <1>4, <2>1, <2>4, <3>1 DEF Precedes, GrownLeft
    <3>3. r <= v[y]
      <4>1. CASE LeftOf(t, p, y)
        BY <2>4, <4>1 DEF FitsAt
      <4>2. CASE \E i \in pos + 1 .. Len(t.children[p]) : Under(t, t.children[p][i], y)
        <5>1. PICK i \in pos + 1 .. Len(t.children[p]) : Under(t, t.children[p][i], y)
          BY <4>2
        <5>2. i \in 1 .. Len(t.children[p]) /\ ~(i <= pos)
          BY <1>0 DEF Children
        <5>. QED  BY <2>4, <5>1, <5>2 DEF FitsAt
      <4>. QED  BY <3>2, <4>1, <4>2
    <3>. QED  BY <1>0, <1>1, <2>4, <3>3
  <2>5. CASE m = n /\ y = n
    <3>1. n \notin g.above[n]
      <4>1. Paths(g, n)
        BY <1>0, TreePaths DEF OneTree
      <4>. QED  BY <1>0, <4>1 DEF Paths
    <3>2. LeftOf(g, n, n)
      BY <1>4, <2>5, <3>1 DEF Precedes
    <3>3. PICK q \in Node : \E i, j \in 1 .. Len(g.children[q]) :
            i < j /\ Under(g, g.children[q][i], n) /\ Under(g, g.children[q][j], n)
      BY <3>2 DEF LeftOf
    <3>4. PICK i \in 1 .. Len(g.children[q]), j \in 1 .. Len(g.children[q]) :
            i < j /\ Under(g, g.children[q][i], n) /\ Under(g, g.children[q][j], n)
      BY <3>3
    <3>5. q \in 1 .. n
      <4>. SUFFICES ASSUME q \notin 1 .. n  PROVE FALSE
        OBVIOUS
      <4>1. g.children[q] = <<>>
        BY DEF OneTree, ChildLists
      <4>. QED  BY <3>4, <4>1
    <3>6. n \in 1 .. n
      BY <1>0
    <3>7. i = j
      BY <1>0, <3>4, <3>5, <3>6, BranchesApart
    <3>. QED  BY <3>4, <3>7
  <2>. QED  BY <1>0, <2>2, <2>3, <2>4, <2>5
<1>. QED  BY <1>2, <1>3, <1>4 DEF Numbers

\* The numbers of related nodes.
LEMMA NumbersOrder ==
  ASSUME NEW t, NEW k \in 1 .. MaxNodes, OneTree(t, k), NEW v, Numbers(v, t, k)
  PROVE  /\ \A n \in 1 .. k : v[n] \in Int /\ v[n] \in 0 .. k - 1
         /\ \A m, n \in 1 .. k : LeftOf(t, m, n) => v[m] < v[n]
         /\ \A m, n \in 1 .. k : m \in t.above[n] => v[m] < v[n]
         /\ \A m, n \in 1 .. k : Under(t, m, n) => v[m] <= v[n]
<1>1. \A n \in 1 .. k : v[n] \in Int /\ v[n] \in 0 .. k - 1
  <2>1. k \in Int
    BY NodeAssumption
  <2>. QED  BY <2>1 DEF Numbers
<1>2. \A m, n \in 1 .. k : LeftOf(t, m, n) => v[m] < v[n]
  BY DEF Numbers, Precedes
<1>3. \A m, n \in 1 .. k : m \in t.above[n] => v[m] < v[n]
  BY DEF Numbers, Precedes
<1>4. \A m, n \in 1 .. k : Under(t, m, n) => v[m] <= v[n]
  BY <1>1, <1>3 DEF Under
<1>. QED  BY <1>1, <1>2, <1>3, <1>4

\* What the branches of a list of children hold is in their order.
LEMMA ChildBranches ==
  ASSUME NEW t, NEW k \in 1 .. MaxNodes, OneTree(t, k), NEW v, Numbers(v, t, k), NEW p \in 1 .. k,
         NEW i \in 1 .. Len(t.children[p]), NEW y \in 1 .. k, Under(t, t.children[p][i], y)
  PROVE  /\ p \in t.above[y] /\ v[p] < v[y]
         /\ t.children[p][i] \in 1 .. k /\ v[t.children[p][i]] <= v[y]
         /\ \A j \in 1 .. Len(t.children[p]) : i < j => v[y] < v[t.children[p][j]]
<1>. PICK c : c = t.children[p][i]
  OBVIOUS
<1>1. Paths(t, k) /\ Children(t, k, p) /\ p \in Node
  BY TreePaths, TreeChildren, NodeAssumption DEF OneTree
<1>2. c \in 1 .. k /\ p \in t.above[c]
  <2>1. t.children[p][i] \in 1 .. k /\ t.above[t.children[p][i]] = t.above[p] \cup {p}
    BY <1>1, Zenon DEF Children
  <2>. QED  BY <2>1
<1>3. p \in t.above[y]
  <2>1. y = c \/ c \in t.above[y]
    BY DEF Under
  <2>. QED  BY <1>1, <1>2, <2>1 DEF Paths
<1>4. v[p] < v[y] /\ v[c] <= v[y]
  BY <1>2, <1>3, NumbersOrder
<1>5. ASSUME NEW j \in 1 .. Len(t.children[p]), i < j
      PROVE  v[y] < v[t.children[p][j]]
  <2>1. t.children[p][j] \in 1 .. k
    BY <1>1, Zenon DEF Children
  <2>2. Under(t, t.children[p][j], t.children[p][j])
    BY DEF Under
  <2>3. LeftOf(t, y, t.children[p][j])
    BY <1>1, <1>5, <2>2 DEF LeftOf
  <2>. QED  BY <2>1, <2>3, NumbersOrder
<1>. QED  BY <1>2, <1>3, <1>4, <1>5

\* What is left of a node is left of every node in its branch, and the other way round.
LEMMA LeftOfBranch ==
  ASSUME NEW t, NEW k \in 1 .. MaxNodes, OneTree(t, k), NEW a \in 1 .. k, NEW m \in 1 .. k,
         NEW y, Under(t, a, m)
  PROVE  /\ LeftOf(t, a, y) => LeftOf(t, m, y)
         /\ LeftOf(t, y, a) => LeftOf(t, y, m)
<1>1. Paths(t, k)
  BY TreePaths DEF OneTree
<1>2. \A e : Under(t, e, a) => Under(t, e, m)
  BY <1>1 DEF Under, Paths
<1>. QED  BY <1>2 DEF LeftOf

\* A first child comes right after its parent.
LEMMA FirstFits ==
  ASSUME NEW t, NEW k \in 1 .. MaxNodes, OneTree(t, k), NEW v, Numbers(v, t, k), NEW p \in 1 .. k
  PROVE  /\ FitsAt(v, t, k, p, 0, v[p] + 1)
         /\ Len(t.children[p]) > 0 => v[t.children[p][1]] = v[p] + 1
<1>0. Paths(t, k) /\ Children(t, k, p) /\ k \in Int /\ Len(t.children[p]) \in Nat
  <2>1. Paths(t, k) /\ Children(t, k, p) /\ k \in Int
    BY TreePaths, TreeChildren, NodeAssumption DEF OneTree
  <2>. QED  BY <2>1 DEF Children
<1>1. \A n \in 1 .. k : v[n] \in Int /\ v[n] \in 0 .. k - 1
  BY NumbersOrder
<1>2. ASSUME NEW i \in 1 .. Len(t.children[p]), NEW y \in 1 .. k, Under(t, t.children[p][i], y)
      PROVE  ~(i <= 0) /\ v[p] + 1 <= v[y]
  <2>1. v[p] < v[y]
    BY <1>2, ChildBranches
  <2>. QED  BY <1>1, <2>1
<1>3. \A y \in 1 .. k : LeftOf(t, p, y) => v[p] + 1 <= v[y]
  BY <1>1, NumbersOrder
<1>4. FitsAt(v, t, k, p, 0, v[p] + 1)
  <2>1. v[p] + 1 \in 0 .. k /\ v[p] < v[p] + 1
    BY <1>0, <1>1
  <2>. QED  BY <1>2, <1>3, <2>1 DEF FitsAt
<1>5. ASSUME Len(t.children[p]) > 0
      PROVE  v[t.children[p][1]] = v[p] + 1
  <2>. PICK c : c = t.children[p][1]
    OBVIOUS
  <2>1. 1 \in 1 .. Len(t.children[p])
    BY <1>0, <1>5
  <2>2. c \in 1 .. k
    BY <1>0, <2>1, Zenon DEF Children
  <2>3. Under(t, c, c)
    BY DEF Under
  <2>4. v[p] + 1 <= v[c]
    BY <1>2, <2>1, <2>2, <2>3
  <2>5. v[p] + 1 \in 0 .. k - 1
    BY <1>0, <1>1, <2>2, <2>4, SMTT(60)
  <2>6. PICK z \in 1 .. k : v[z] = v[p] + 1
    BY <2>5 DEF Numbers
  \* The node after p is below p, or right of p; both are impossible before its first child.
  <2>7. Precedes(t, p, z)
    BY <1>1, <2>6, NumbersTell
  <2>8. CASE p \in t.above[z]
    <3>1. PICK i \in 1 .. Len(t.children[p]) : Under(t, t.children[p][i], z)
      BY <2>8, BranchOf
    <3>2. CASE i = 1
      <4>1. v[c] <= v[z]
        BY <3>1, <3>2, <2>1, ChildBranches
      <4>. QED  BY <1>1, <2>2, <2>4, <2>6, <4>1, SMTT(60)
    <3>3. CASE 1 < i
      <4>1. v[c] < v[t.children[p][i]]
        BY <2>1, <2>2, <2>3, <3>3, ChildBranches
      <4>2. t.children[p][i] \in 1 .. k /\ v[t.children[p][i]] <= v[z]
        BY <3>1, ChildBranches
      <4>. QED  BY <1>1, <2>2, <2>4, <2>6, <4>1, <4>2, SMTT(60)
    <3>. QED  BY <1>0, <3>2, <3>3
  <2>9. CASE LeftOf(t, p, z)
    <3>1. Under(t, p, c)
      <4>1. t.above[c] = t.above[p] \cup {p}
        BY <1>0, <2>1, Zenon DEF Children
      <4>. QED  BY <4>1 DEF Under
    <3>2. LeftOf(t, c, z)
      BY <2>2, <2>9, <3>1, LeftOfBranch
    <3>3. v[c] < v[z]
      BY <2>2, <3>2, NumbersOrder
    <3>. QED  BY <1>1, <2>2, <2>4, <2>6, <3>3
  <2>. QED  BY <2>7, <2>8, <2>9 DEF Precedes
<1>. QED  BY <1>4, <1>5

\* A child is numbered before the branch of a later one.
LEMMA BranchAfter ==
  ASSUME NEW t, NEW k \in 1 .. MaxNodes, OneTree(t, k), NEW v, Numbers(v, t, k), NEW p \in 1 .. k,
         NEW i \in 1 .. Len(t.children[p]), NEW y \in 1 .. k, Under(t, t.children[p][i], y),
         NEW j \in 1 .. Len(t.children[p]), j < i
  PROVE  v[t.children[p][j]] <= v[y]
<1>1. t.children[p][i] \in 1 .. k /\ v[t.children[p][i]] <= v[y]
  BY ChildBranches
<1>2. Children(t, k, p)
  BY TreeChildren, NodeAssumption DEF OneTree
<1>3. t.children[p][j] \in 1 .. k /\ t.above[t.children[p][j]] = t.above[p] \cup {p}
  BY <1>2, Zenon DEF Children
<1>4. Under(t, t.children[p][j], t.children[p][j])
  BY DEF Under
<1>5. v[t.children[p][j]] < v[t.children[p][i]]
  <2>1. \A m \in 1 .. Len(t.children[p]) : j < m => v[t.children[p][j]] < v[t.children[p][m]]
    BY <1>3, <1>4, ChildBranches, ZenonT(60)
  <2>. QED  BY <2>1
<1>. PICK a : a = t.children[p][j]
  OBVIOUS
<1>. PICK b : b = t.children[p][i]
  OBVIOUS
<1>6. v[a] \in Int /\ v[b] \in Int /\ v[y] \in Int
  BY <1>1, <1>3, NumbersOrder
<1>7. v[a] < v[b] /\ v[b] <= v[y]
  BY <1>1, <1>5
<1>. QED  BY <1>6, <1>7

\* A child before another takes that one's place.
LEMMA SiblingFits ==
  ASSUME NEW t, NEW k \in 1 .. MaxNodes, OneTree(t, k), NEW v, Numbers(v, t, k), NEW p \in 1 .. k,
         NEW pos \in 0 .. Len(t.children[p]), pos < Len(t.children[p])
  PROVE  /\ t.children[p][pos + 1] \in 1 .. k
         /\ FitsAt(v, t, k, p, pos, v[t.children[p][pos + 1]])
<1>. PICK s : s = t.children[p][pos + 1]
  OBVIOUS
<1>0. Paths(t, k) /\ Children(t, k, p) /\ k \in Int /\ Len(t.children[p]) \in Nat
  <2>1. Paths(t, k) /\ Children(t, k, p) /\ k \in Int
    BY TreePaths, TreeChildren, NodeAssumption DEF OneTree
  <2>. QED  BY <2>1 DEF Children
<1>1. \A n \in 1 .. k : v[n] \in Int /\ v[n] \in 0 .. k - 1
  BY NumbersOrder
<1>2. pos + 1 \in 1 .. Len(t.children[p])
  BY <1>0
<1>3. s \in 1 .. k /\ t.above[s] = t.above[p] \cup {p}
  BY <1>0, <1>2, Zenon DEF Children
<1>4. Under(t, s, s) /\ Under(t, p, s)
  BY <1>3 DEF Under
<1>5. v[p] < v[s]
  BY <1>2, <1>3, <1>4, ChildBranches
<1>6. ASSUME NEW i \in 1 .. Len(t.children[p]), NEW y \in 1 .. k, Under(t, t.children[p][i], y)
      PROVE  IF i <= pos THEN v[y] < v[s] ELSE v[s] <= v[y]
  <2>1. CASE i < pos + 1
    <3>1. v[y] < v[s]
      BY <1>2, <1>6, <2>1, ChildBranches
    <3>. QED  BY <2>1, <3>1
  <2>2. CASE i = pos + 1
    <3>1. v[s] <= v[y]
      BY <1>6, <2>2, ChildBranches
    <3>. QED  BY <2>2, <3>1
  <2>3. CASE pos + 1 < i
    <3>1. v[s] <= v[y]
      BY <1>2, <1>6, <2>3, BranchAfter
    <3>2. ~(i <= pos)
      BY <1>0, <2>3
    <3>. QED  BY <3>1, <3>2
  <2>. QED  BY <1>0, <2>1, <2>2, <2>3
<1>7. ASSUME NEW y \in 1 .. k, LeftOf(t, p, y)
      PROVE  v[s] <= v[y]
  <2>1. LeftOf(t, s, y)
    BY <1>3, <1>4, <1>7, LeftOfBranch
  <2>2. v[s] < v[y]
    BY <1>3, <2>1, NumbersOrder
  <2>3. v[s] \in Int /\ v[y] \in Int
    BY <1>1, <1>3
  <2>. QED  BY <2>2, <2>3
<1>8. v[s] \in 0 .. k
  BY <1>0, <1>1, <1>3, SMTT(60)
<1>. QED  BY <1>3, <1>5, <1>6, <1>7, <1>8 DEF FitsAt

\* The next child of y's parent.
IsNext(t, y, s) ==
  \E i \in 1 .. Len(t.children[t.parent[y]]) :
    /\ i + 1 \in 1 .. Len(t.children[t.parent[y]])
    /\ t.children[t.parent[y]][i] = y
    /\ t.children[t.parent[y]][i + 1] = s

LEMMA RightSiblingIs ==
  ASSUME NEW t, NEW k \in 1 .. MaxNodes, OneTree(t, k), NEW y \in 1 .. k
  PROVE  IF HasRightSibling(t, y)
         THEN /\ t.parent[y] \in 1 .. k /\ IsNext(t, y, RightSibling(t, y))
              /\ RightSibling(t, y) \in 1 .. k
         ELSE \A i, j \in 1 .. Len(t.children[t.parent[y]]) :
                t.parent[y] # NULL /\ t.children[t.parent[y]][i] = y => ~(i < j)
<1>1. CASE t.parent[y] = NULL
  BY <1>1 DEF HasRightSibling
<1>2. CASE t.parent[y] # NULL
  <2>. PICK p, c : p = t.parent[y] /\ c = t.children[p]
    OBVIOUS
  <2>1. p \in 1 .. k
    BY <1>2 DEF OneTree, Ancestry
  <2>2. Children(t, k, p) /\ c \in Seq(1 .. k)
    BY <2>1, TreeChildren DEF OneTree, ChildLists
  <2>3. DOMAIN c = 1 .. Len(c) /\ Len(c) \in Nat
    BY <2>2
  <2>4. \E i \in 1 .. Len(c) : c[i] = y
    BY <2>2 DEF Children
  <2>5. \A i, j \in 1 .. Len(c) : c[i] = c[j] => i = j
    BY <2>2 DEF Children
  <2>. PICK a : a = Position(t, y)
    OBVIOUS
  <2>6. a \in 1 .. Len(c) /\ c[a] = y
    BY <2>3, <2>4, Zenon DEF Position
  <2>7. CASE a < Len(c)
    <3>1. HasRightSibling(t, y) /\ RightSibling(t, y) = c[a + 1]
      BY <1>2, <2>7 DEF HasRightSibling, RightSibling
    <3>2. a + 1 \in 1 .. Len(c)
      BY <2>3, <2>6, <2>7
    <3>3. c[a + 1] \in 1 .. k
      BY <2>2, <3>2, ElementOfSeq
    <3>4. IsNext(t, y, c[a + 1])
      BY <2>6, <3>2 DEF IsNext
    <3>. QED  BY <2>1, <3>1, <3>3, <3>4
  <2>8. CASE ~(a < Len(c))
    <3>1. ~HasRightSibling(t, y)
      BY <2>8 DEF HasRightSibling
    <3>2. \A i, j \in 1 .. Len(c) : c[i] = y => ~(i < j)
      BY <2>3, <2>5, <2>6, <2>8
    <3>. QED  BY <3>1, <3>2
  <2>. QED  BY <2>7, <2>8
<1>. QED  BY <1>1, <1>2

\* The right sibling of a node is right of its branch, and what is right of a branch is in
\* the branch of the right sibling or right of it.
LEMMA NextSplits ==
  ASSUME NEW t, NEW k \in 1 .. MaxNodes, OneTree(t, k), NEW y \in 1 .. k, HasRightSibling(t, y),
         NEW s, s = RightSibling(t, y)
  PROVE  /\ LeftOf(t, y, s) /\ t.above[s] = t.above[y]
         /\ \A j \in 1 .. Len(t.children[t.parent[y]]), z \in 1 .. k :
              /\ Under(t, t.children[t.parent[y]][j], z)
              /\ \E i \in 1 .. Len(t.children[t.parent[y]]) :
                   i < j /\ t.children[t.parent[y]][i] = y
              => Under(t, s, z) \/ LeftOf(t, s, z)
<1>. PICK p, c : p = t.parent[y] /\ c = t.children[p]
  OBVIOUS
<1>1. p \in 1 .. k /\ IsNext(t, y, s) /\ p \in Node
  BY RightSiblingIs, NodeAssumption
<1>2. Children(t, k, p)
  BY <1>1, TreeChildren
<1>3. PICK i \in 1 .. Len(c) : i + 1 \in 1 .. Len(c) /\ c[i] = y /\ c[i + 1] = s
  BY <1>1 DEF IsNext
<1>4. Under(t, y, y) /\ Under(t, s, s)
  BY DEF Under
<1>5. LeftOf(t, y, s)
  <2>1. i < i + 1
    OBVIOUS
  <2>. QED  BY <1>1, <1>3, <1>4, <2>1 DEF LeftOf
<1>6. t.above[s] = t.above[y]
  <2>1. t.above[c[i]] = t.above[p] \cup {p} /\ t.above[c[i + 1]] = t.above[p] \cup {p}
    BY <1>2, <1>3 DEF Children
  <2>. QED  BY <1>3, <2>1
<1>7. ASSUME NEW j \in 1 .. Len(c), NEW z \in 1 .. k, Under(t, c[j], z),
             NEW l \in 1 .. Len(c), l < j, c[l] = y
      PROVE  Under(t, s, z) \/ LeftOf(t, s, z)
  <2>1. l = i
    BY <1>2, <1>3, <1>7, SMTT(60) DEF Children
  <2>2. CASE j = i + 1
    BY <1>3, <1>7, <2>2
  <2>3. CASE i + 1 < j
    BY <1>1, <1>3, <1>4, <1>7, <2>3 DEF LeftOf
  <2>. QED  BY <1>7, <2>1, <2>2, <2>3
<1>. QED  BY <1>5, <1>6, <1>7

\* Of a non-empty set of nodes on one path, Deepest is the one below all others.
LEMMA DeepestOf ==
  ASSUME NEW t, NEW k \in 1 .. MaxNodes, Ancestry(t, k), NEW n \in 1 .. k,
         NEW S, S \subseteq t.above[n] \cup {n}, S # {}
  PROVE  /\ Deepest(t, S) \in S
         /\ \A z \in S : z = Deepest(t, S) \/ z \in t.above[Deepest(t, S)]
<1>1. Paths(t, k)
  BY TreePaths
<1>2. S \subseteq 1 .. k /\ S \subseteq 0 .. k /\ k \in Nat
  BY <1>1, NodeAssumption DEF Paths
<1>3. PICK d \in S : \A z \in S : z <= d
  BY <1>2, GreatestMember
<1>4. \A z \in S : z = d \/ z \in t.above[d]
  <2>. SUFFICES ASSUME NEW z \in S, z # d  PROVE z \in t.above[d]
    OBVIOUS
  <2>1. z = d \/ z \in t.above[d] \/ d \in t.above[z]
    <3>1. z = n \/ z \in t.above[n]
      OBVIOUS
    <3>2. d = n \/ d \in t.above[n]
      OBVIOUS
    <3>. QED  BY <1>1, <3>1, <3>2 DEF Paths
  <2>2. d \in t.above[z] => d < z
    BY <1>1, <1>2 DEF Paths
  <2>. QED  BY <1>2, <1>3, <2>1, <2>2
<1>. QED  BY <1>3, <1>4, Zenon DEF Deepest

\* No node of k nodes is right of n.
AtEnd(t, k, n) == \A y \in t.above[n] \cup {n} : ~HasRightSibling(t, y)

LEMMA EndIsLast ==
  ASSUME NEW t, NEW k \in 1 .. MaxNodes, OneTree(t, k), NEW n \in 1 .. k
  PROVE  AtEnd(t, k, n) <=> \A z \in 1 .. k : ~LeftOf(t, n, z)
<1>0. Paths(t, k)
  BY TreePaths DEF OneTree
<1>1. ASSUME AtEnd(t, k, n), NEW z \in 1 .. k, LeftOf(t, n, z)
      PROVE  FALSE
  <2>1. PICK q \in Node : \E i, j \in 1 .. Len(t.children[q]) :
          i < j /\ Under(t, t.children[q][i], n) /\ Under(t, t.children[q][j], z)
    BY <1>1 DEF LeftOf
  <2>2. PICK i \in 1 .. Len(t.children[q]), j \in 1 .. Len(t.children[q]) :
          i < j /\ Under(t, t.children[q][i], n) /\ Under(t, t.children[q][j], z)
    BY <2>1
  <2>. PICK a : a = t.children[q][i]
    OBVIOUS
  <2>3. q \in 1 .. k
    <3>. SUFFICES ASSUME q \notin 1 .. k  PROVE FALSE
      OBVIOUS
    <3>1. t.children[q] = <<>>
      BY DEF OneTree, ChildLists
    <3>. QED  BY <2>2, <3>1
  <2>4. Children(t, k, q) /\ q # NULL
    BY <2>3, TreeChildren, NullAssumption, NodeAssumption
  <2>5. a \in 1 .. k /\ t.parent[a] = q
    BY <2>4 DEF Children
  <2>6. a \in t.above[n] \cup {n}
    BY <2>2 DEF Under
  <2>7. ~HasRightSibling(t, a)
    BY <1>1, <2>6 DEF AtEnd
  <2>8. ~(i < j)
    BY <2>4, <2>5, <2>7, RightSiblingIs
  <2>. QED  BY <2>2, <2>8
<1>2. ASSUME NEW y \in t.above[n] \cup {n}, HasRightSibling(t, y)
      PROVE  \E z \in 1 .. k : LeftOf(t, n, z)
  <2>1. y \in 1 .. k /\ Under(t, y, n)
    BY <1>0 DEF Paths, Under
  <2>2. RightSibling(t, y) \in 1 .. k /\ LeftOf(t, y, RightSibling(t, y))
    BY <1>2, <2>1, RightSiblingIs, NextSplits
  <2>. QED  BY <2>1, <2>2, LeftOfBranch
<1>. QED  BY <1>1, <1>2 DEF AtEnd

\* What comes after the branch of n has the number r: the end, or the next sibling's.
Follows(v, t, k, n, r) ==
  /\ r \in 0 .. k
  /\ \A y \in 1 .. k : /\ Under(t, n, y) => v[y] < r
                       /\ LeftOf(t, n, y) => r <= v[y]

\* get_successor_manual finds the first node after a node's descendants, or nothing at
\* the end of the tree.
LEMMA SearchExact ==
  ASSUME NEW t, NEW k \in 1 .. MaxNodes, OneTree(t, k), NEW v, Numbers(v, t, k), NEW n \in 1 .. k,
         NEW s, s = SuccessorSearch(t, v, n).node
  PROVE  IF s = NULL THEN AtEnd(t, k, n) ELSE s \in 1 .. k /\ Follows(v, t, k, n, v[s])
<1>. DEFINE level == {y \in t.above[n] \cup {n} : HasRightSibling(t, y)}
            good  == {y \in level : v[RightSibling(t, y)] > v[n]}
            stop  == Deepest(t, good)
<1>0. Paths(t, k)
  BY TreePaths DEF OneTree
<1>1. \A m \in 1 .. k : v[m] \in Int /\ v[m] \in 0 .. k - 1
  BY NumbersOrder
<1>2. ASSUME NEW y \in level
      PROVE  /\ y \in 1 .. k /\ Under(t, y, n) /\ RightSibling(t, y) \in 1 .. k
             /\ LeftOf(t, n, RightSibling(t, y)) /\ y \in good
  <2>1. y \in 1 .. k /\ Under(t, y, n)
    BY <1>0 DEF Paths, Under
  <2>2. RightSibling(t, y) \in 1 .. k /\ LeftOf(t, y, RightSibling(t, y))
    BY <2>1, RightSiblingIs, NextSplits
  <2>3. LeftOf(t, n, RightSibling(t, y))
    BY <2>1, <2>2, LeftOfBranch
  <2>4. v[n] < v[RightSibling(t, y)]
    BY <2>2, <2>3, NumbersOrder
  <2>. QED  BY <1>1, <2>1, <2>2, <2>3, <2>4
<1>3. good = level
  BY <1>2
<1>4. s = IF good = {} THEN NULL ELSE RightSibling(t, stop)
  BY DEF SuccessorSearch
<1>5. CASE good = {}
  <2>1. AtEnd(t, k, n)
    BY <1>3, <1>5 DEF AtEnd
  <2>. QED  BY <1>4, <1>5, <2>1
<1>6. CASE good # {}
  <2>1. stop \in level /\ \A z \in level : z = stop \/ z \in t.above[stop]
    <3>1. level \subseteq t.above[n] \cup {n}
      OBVIOUS
    <3>. HIDE DEF level, good
    <3>2. /\ Deepest(t, level) \in level
          /\ \A z \in level : z = Deepest(t, level) \/ z \in t.above[Deepest(t, level)]
      BY <1>3, <1>6, <3>1, DeepestOf DEF OneTree
    <3>. QED  BY <1>3, <3>2
  <2>2. s = RightSibling(t, stop)
    BY <1>4, <1>6
  <2>. PICK x : x = stop
    OBVIOUS
  <2>3. /\ x \in 1 .. k /\ Under(t, x, n) /\ s \in 1 .. k /\ LeftOf(t, n, s)
        /\ HasRightSibling(t, x) /\ s = RightSibling(t, x)
    BY <1>2, <2>1, <2>2
  <2>4. s # NULL /\ v[s] \in 0 .. k
    <3>1. NULL \notin 1 .. k /\ k \in Int
      BY NodeAssumption, NullAssumption
    <3>. QED  BY <1>1, <2>3, <3>1
  <2>. HIDE DEF stop, good, level
  <2>5. ASSUME NEW y \in 1 .. k, Under(t, n, y)
        PROVE  v[y] < v[s]
    <3>1. Under(t, x, y)
      BY <1>0, <2>3, <2>5 DEF Under, Paths
    <3>2. LeftOf(t, x, s)
      BY <2>3, NextSplits
    <3>3. LeftOf(t, y, s)
      BY <2>3, <3>1, <3>2, LeftOfBranch
    <3>. QED  BY <2>3, <3>3, NumbersOrder
  <2>6. ASSUME NEW y \in 1 .. k, LeftOf(t, n, y)
        PROVE  v[s] <= v[y]
    <3>1. PICK q \in Node : \E i, j \in 1 .. Len(t.children[q]) :
            i < j /\ Under(t, t.children[q][i], n) /\ Under(t, t.children[q][j], y)
      BY <2>6 DEF LeftOf
    <3>2. PICK i \in 1 .. Len(t.children[q]), j \in 1 .. Len(t.children[q]) :
            i < j /\ Under(t, t.children[q][i], n) /\ Under(t, t.children[q][j], y)
      BY <3>1
    <3>. PICK a : a = t.children[q][i]
      OBVIOUS
    <3>3. q \in 1 .. k
      <4>. SUFFICES ASSUME q \notin 1 .. k  PROVE FALSE
        OBVIOUS
      <4>1. t.children[q] = <<>>
        BY DEF OneTree, ChildLists
      <4>. QED  BY <3>2, <4>1
    <3>4. Children(t, k, q) /\ q # NULL
      BY <3>3, TreeChildren, NullAssumption, NodeAssumption
    <3>5. a \in 1 .. k /\ t.parent[a] = q
      BY <3>4 DEF Children
    <3>6. a \in t.above[n] \cup {n}
      BY <3>2 DEF Under
    <3>7. HasRightSibling(t, a)
      <4>. SUFFICES ASSUME ~HasRightSibling(t, a)  PROVE FALSE
        OBVIOUS
      <4>1. ~(i < j)
        BY <3>4, <3>5, RightSiblingIs
      <4>. QED  BY <3>2, <4>1
    <3>8. a \in level
      BY <3>6, <3>7 DEF level
    <3>. PICK b : b = RightSibling(t, a)
      OBVIOUS
    <3>9. b \in 1 .. k /\ t.above[b] = t.above[a] /\ LeftOf(t, a, b)
      BY <3>5, <3>7, RightSiblingIs, NextSplits
    <3>10. Under(t, b, y) \/ LeftOf(t, b, y)
      BY <3>2, <3>5, <3>7, NextSplits
    <3>11. v[b] <= v[y]
      BY <1>1, <3>9, <3>10, NumbersOrder
    <3>12. CASE a = x
      BY <2>3, <3>11, <3>12
    <3>13. CASE a \in t.above[x]
      <4>1. t.above[s] = t.above[x]
        BY <2>3, NextSplits
      <4>2. Under(t, a, s)
        BY <3>13, <4>1 DEF Under
      <4>3. LeftOf(t, s, b)
        BY <2>3, <3>5, <3>9, <4>2, LeftOfBranch
      <4>4. v[s] < v[b]
        BY <2>3, <3>9, <4>3, NumbersOrder
      <4>. QED  BY <1>1, <2>3, <3>9, <3>11, <4>4, SMTT(60)
    <3>. QED  BY <2>1, <3>8, <3>12, <3>13
  <2>. QED  BY <2>3, <2>4, <2>5, <2>6 DEF Follows
<1>. QED  BY <1>5, <1>6

\* A last child takes the number that comes after its parent's branch.
LEMMA LastFits ==
  ASSUME NEW t, NEW k \in 1 .. MaxNodes, OneTree(t, k), NEW v, Numbers(v, t, k), NEW p \in 1 .. k,
         NEW r, Follows(v, t, k, p, r)
  PROVE  FitsAt(v, t, k, p, Len(t.children[p]), r)
<1>0. Children(t, k, p)
  BY TreeChildren
<1>1. Len(t.children[p]) \in Nat
  BY <1>0 DEF Children
<1>2. v[p] < r /\ r \in 0 .. k /\ \A y \in 1 .. k : LeftOf(t, p, y) => r <= v[y]
  <2>1. Under(t, p, p)
    BY DEF Under
  <2>. QED  BY <2>1 DEF Follows
<1>3. ASSUME NEW i \in 1 .. Len(t.children[p]), NEW y \in 1 .. k, Under(t, t.children[p][i], y)
      PROVE  i <= Len(t.children[p]) /\ v[y] < r
  <2>1. p \in t.above[y]
    BY <1>3, ChildBranches
  <2>2. Under(t, p, y)
    BY <2>1 DEF Under
  <2>. QED  BY <1>1, <2>2 DEF Follows
<1>. QED  BY <1>2, <1>3 DEF FitsAt

\* At the end of the tree that is the number of nodes.
LEMMA EndAfter ==
  ASSUME NEW t, NEW k \in 1 .. MaxNodes, OneTree(t, k), NEW v, Numbers(v, t, k), NEW p \in 1 .. k,
         AtEnd(t, k, p)
  PROVE  Follows(v, t, k, p, k)
<1>1. \A z \in 1 .. k : ~LeftOf(t, p, z)
  BY EndIsLast
<1>2. \A n \in 1 .. k : v[n] \in Int /\ v[n] \in 0 .. k - 1
  BY NumbersOrder
<1>3. k \in Nat
  BY NodeAssumption
<1>. QED  BY <1>1, <1>2, <1>3 DEF Follows

-----------------------------------------------------------------------------
(* Numbers are places *)

\* A node's number is how many nodes come before it.
LEMMA NumberIsPlace ==
  ASSUME NEW t, NEW k \in 1 .. MaxNodes, OneTree(t, k), NEW v, Numbers(v, t, k), NEW n \in 1 .. k
  PROVE  v[n] = Cardinality({m \in 1 .. k : Precedes(t, m, n)})
<1>. DEFINE S == {m \in 1 .. k : Precedes(t, m, n)}
            f == [i \in 1 .. v[n] |-> CHOOSE m \in 1 .. k : v[m] = i - 1]
<1>0. k \in Nat
  BY NodeAssumption
<1>1. \A m \in 1 .. k : v[m] \in Int /\ v[m] \in 0 .. k - 1
  BY NumbersOrder
<1>2. v[n] \in Nat
  BY <1>1
<1>3. S = {m \in 1 .. k : v[m] < v[n]}
  BY NumbersTell
<1>4. ASSUME NEW i \in 1 .. v[n]
      PROVE  f[i] \in 1 .. k /\ v[f[i]] = i - 1
  <2>1. i - 1 \in 0 .. k - 1
    BY <1>0, <1>1, <1>2
  <2>2. \E m \in 1 .. k : v[m] = i - 1
    BY <2>1 DEF Numbers
  <2>. QED  BY <2>2, Zenon
<1>. HIDE DEF f
<1>5. f \in [1 .. v[n] -> S]
  <2>1. f = [i \in 1 .. v[n] |-> f[i]]
    BY DEF f
  <2>2. \A i \in 1 .. v[n] : f[i] \in S
    BY <1>1, <1>2, <1>3, <1>4
  <2>. QED  BY <2>1, <2>2, Zenon
<1>6. \A i, j \in 1 .. v[n] : f[i] = f[j] => i = j
  BY <1>2, <1>4
<1>7. \A m \in S : \E i \in 1 .. v[n] : f[i] = m
  <2>. SUFFICES ASSUME NEW m \in S  PROVE \E i \in 1 .. v[n] : f[i] = m
    OBVIOUS
  <2>1. m \in 1 .. k /\ v[m] < v[n] /\ v[m] \in Nat
    BY <1>1, <1>3
  <2>2. v[m] + 1 \in 1 .. v[n] /\ (v[m] + 1) - 1 = v[m]
    BY <1>2, <2>1
  <2>3. f[v[m] + 1] \in 1 .. k /\ v[f[v[m] + 1]] = v[m]
    BY <1>4, <2>2
  <2>4. f[v[m] + 1] = m
    BY <2>1, <2>3, NumbersTell
  <2>. QED  BY <2>2, <2>4
<1>8. ExistsBijection(1 .. v[n], S)
  <2>1. f \in Bijection(1 .. v[n], S)
    BY <1>5, <1>6, <1>7 DEF Bijection, Injection, Surjection, IsInjective
  <2>. QED  BY <2>1 DEF ExistsBijection
<1>. HIDE DEF S
<1>9. Cardinality(S) = v[n]
  BY <1>2, <1>8, FS_CountingElements
<1>. QED  BY <1>9 DEF S

-----------------------------------------------------------------------------
(* Tables whose keys move *)

\* A span has no gaps.
Convex(S) == \A x, z \in S : \A y \in Int : x < y /\ y < z => y \in S

LEMMA SpanConvex ==
  ASSUME NEW t, NEW M, NEW rank, NEW span, Sound(t, M), Ordered(t, M, rank, span)
  PROVE  \A m \in M : Convex(span[m])
<1>. DEFINE T == {m \in Node : Convex(span[m])}
<1>1. M \subseteq Node /\ t.root \in M \cup {NULL}
  BY DEF Sound, Linked
<1>2. \A m \in Node : span[m] \subseteq Int
  BY DEF Ordered
<1>3. t.root # NULL => t.root \in T
  <2>1. t.root # NULL => span[t.root] = Int
    BY DEF Ordered
  <2>. QED  BY <1>1, <2>1 DEF Convex
<1>4. ASSUME NEW q \in M \cap T, NEW s \in Sides, t.link[q][s] # NULL
      PROVE  t.link[q][s] \in T
  <2>. PICK c : c = t.link[q][s]
    OBVIOUS
  <2>1. c \in Node /\ c \in M
    BY <1>1, <1>4 DEF Sound, Linked
  <2>2. span[c] = Part(span[q], rank[q], s)
    BY <1>4 DEF Ordered
  <2>3. Convex(span[q]) /\ span[q] \subseteq Int /\ rank[q] \in Int
    BY <1>1, <1>2 DEF Ordered
  <2>4. ASSUME NEW x \in span[c], NEW z \in span[c], NEW y \in Int, x < y, y < z
        PROVE  y \in span[c]
    <3>1. x \in span[q] /\ z \in span[q] /\ x \in Int /\ z \in Int
      BY <2>2, <2>3 DEF Part
    <3>2. y \in span[q]
      BY <2>3, <2>4, <3>1 DEF Convex
    <3>3. IF s = 0 THEN x < rank[q] /\ z < rank[q] ELSE x > rank[q] /\ z > rank[q]
      BY <2>2 DEF Part
    <3>4. IF s = 0 THEN y < rank[q] ELSE y > rank[q]
      BY <2>3, <2>4, <3>1, <3>3
    <3>. QED  BY <2>2, <3>2, <3>4 DEF Part
  <2>5. Convex(span[c])
    BY <2>4 DEF Convex
  <2>. QED  BY <2>1, <2>5
<1>. HIDE DEF T
<1>5. M \subseteq T
  BY <1>3, <1>4, HandedDown
<1>. QED  BY <1>5 DEF T

\* A search finds the member that has the key, if there is one (pavl_find).
LEMMA SearchFinds ==
  ASSUME NEW t, NEW M, NEW rank, Sound(t, M), Sorted(t, M, rank), NEW n \in M,
         \A m \in M : rank[m] = rank[n] => m = n,
         NEW p, p = SearchPath(t, rank, rank[n])
  PROVE  p # <<>> /\ p \in Seq(M) /\ p[Len(p)] = n
<1>1. HitsKey(p, M, rank, n)
  BY SearchReaches
<1>. QED  BY <1>1 DEF HitsKey

\* Where no member has the key, the search ends at another one.
LEMMA SearchMisses ==
  ASSUME NEW t, NEW M, NEW rank, NEW k, Sound(t, M), NEW p, p = SearchPath(t, rank, k)
  PROVE  p \in Seq(M)
<1>1. TableType(t) /\ Linked(t, M)
  BY DEF Sound
<1>2. PICK H, h : Balanceable(t, h, H)
  BY DEF Sound
<1>3. Searched(t, M, rank, k, t.root, p)
  BY <1>1, <1>2, SearchFrom
<1>. QED  BY <1>3 DEF Searched

\* Two numberings of the nodes of M that order them alike.
Alike(v, w, M) == \A a, b \in M : v[a] < v[b] <=> w[a] < w[b]

\* The span of a node under the keys w that had the span S under the keys v: beyond the
\* keys on either side of S.
Between(v, w, M, S, m, x) ==
  \A a \in M : v[a] \notin S => /\ v[a] < v[m] => w[a] < x
                                /\ v[m] < v[a] => x < w[a]

Moved(v, w, M, S, m) == {x \in Int : Between(v, w, M, S, m, x)}

LEMMA MovedPart ==
  ASSUME NEW M, NEW v, NEW w, Alike(v, w, M), \A m \in M : v[m] \in Int /\ w[m] \in Int,
         NEW S, S \subseteq Int, Convex(S), NEW q \in M, NEW c \in M, NEW s \in Sides,
         v[q] \in S, v[c] \in Part(S, v[q], s)
  PROVE  Moved(v, w, M, Part(S, v[q], s), c) = Part(Moved(v, w, M, S, q), w[q], s)
<1>. DEFINE P == Part(S, v[q], s)
<1>1. v[c] \in S /\ v[q] \in Int /\ v[c] \in Int /\ IF s = 0 THEN v[c] < v[q] ELSE v[q] < v[c]
  BY DEF Part
<1>2. \A a \in M : v[a] \in P <=> v[a] \in S /\ IF s = 0 THEN v[a] < v[q] ELSE v[q] < v[a]
  BY DEF Part
<1>3. \A a \in M : v[a] \notin S => (v[a] < v[c] <=> v[a] < v[q]) /\ (v[c] < v[a] <=> v[q] < v[a])
  <2>. SUFFICES ASSUME NEW a \in M, v[a] \notin S
                PROVE  (v[a] < v[c] <=> v[a] < v[q]) /\ (v[c] < v[a] <=> v[q] < v[a])
    OBVIOUS
  <2>1. v[a] # v[c] /\ v[a] # v[q]
    BY <1>1
  <2>2. ~(v[c] < v[a] /\ v[a] < v[q]) /\ ~(v[q] < v[a] /\ v[a] < v[c])
    BY <1>1 DEF Convex
  <2>. QED  BY <1>1, <2>1, <2>2
<1>. HIDE DEF P
<1>4. ASSUME NEW x \in Moved(v, w, M, P, c)
      PROVE  x \in Part(Moved(v, w, M, S, q), w[q], s)
  <2>1. /\ x \in Int
        /\ \A a \in M : v[a] \notin P => /\ v[a] < v[c] => w[a] < x
                                         /\ v[c] < v[a] => x < w[a]
    <3>1. x \in Int /\ Between(v, w, M, P, c, x)
      BY DEF Moved
    <3>. QED  BY <3>1 DEF Between
  <2>2. v[q] \notin P
    BY <1>1, <1>2
  <2>3. IF s = 0 THEN x < w[q] ELSE x > w[q]
    BY <1>1, <2>1, <2>2
  <2>4. x \in Moved(v, w, M, S, q)
    <3>. SUFFICES ASSUME NEW a \in M, v[a] \notin S
                  PROVE  (v[a] < v[q] => w[a] < x) /\ (v[q] < v[a] => x < w[a])
      BY <2>1 DEF Moved, Between
    <3>1. v[a] \notin P
      BY <1>2
    <3>. QED  BY <1>3, <2>1, <3>1
  <2>. QED  BY <2>3, <2>4 DEF Part
<1>5. ASSUME NEW x \in Part(Moved(v, w, M, S, q), w[q], s)
      PROVE  x \in Moved(v, w, M, P, c)
  <2>1. /\ x \in Int /\ IF s = 0 THEN x < w[q] ELSE x > w[q]
        /\ \A a \in M : v[a] \notin S => /\ v[a] < v[q] => w[a] < x
                                         /\ v[q] < v[a] => x < w[a]
    <3>1. x \in Moved(v, w, M, S, q) /\ IF s = 0 THEN x < w[q] ELSE x > w[q]
      BY DEF Part
    <3>2. x \in Int /\ Between(v, w, M, S, q, x)
      BY <3>1 DEF Moved
    <3>. QED  BY <3>1, <3>2 DEF Between
  <2>. SUFFICES ASSUME NEW a \in M, v[a] \notin P
                PROVE  (v[a] < v[c] => w[a] < x) /\ (v[c] < v[a] => x < w[a])
    BY <2>1 DEF Moved, Between
  <2>2. CASE v[a] \notin S
    BY <1>3, <2>1, <2>2
  <2>3. CASE v[a] \in S /\ s = 0
    <3>1. ~(v[a] < v[q]) /\ v[c] < v[q]
      BY <1>1, <1>2, <2>3
    <3>2. ~(w[a] < w[q])
      BY <3>1 DEF Alike
    <3>3. x < w[q]
      BY <2>1, <2>3
    <3>4. w[a] \in Int /\ w[q] \in Int /\ v[a] \in Int
      OBVIOUS
    <3>5. x < w[a]
      BY <2>1, <3>2, <3>3, <3>4
    <3>6. ~(v[a] < v[c])
      BY <1>1, <3>1, <3>4
    <3>. QED  BY <3>5, <3>6
  <2>4. CASE v[a] \in S /\ s = 1
    <3>1. ~(v[q] < v[a]) /\ v[q] < v[c]
      BY <1>1, <1>2, <2>4
    <3>2. ~(w[q] < w[a])
      BY <3>1 DEF Alike
    <3>3. x > w[q]
      BY <2>1, <2>4
    <3>4. w[a] \in Int /\ w[q] \in Int /\ v[a] \in Int
      OBVIOUS
    <3>5. w[a] < x
      BY <2>1, <3>2, <3>3, <3>4
    <3>6. ~(v[c] < v[a])
      BY <1>1, <3>1, <3>4
    <3>. QED  BY <3>5, <3>6
  <2>. QED  BY <2>2, <2>3, <2>4 DEF Sides
<1>. QED  BY <1>4, <1>5 DEF P

\* A table stays in order when its keys change without changing places.
LEMMA SortedRekeyed ==
  ASSUME NEW t, NEW M, Sound(t, M), NEW v, Sorted(t, M, v), NEW w \in [Node -> Int],
         Alike(v, w, M)
  PROVE  Sorted(t, M, w)
<1>1. PICK span : Ordered(t, M, v, span)
  BY DEF Sorted
<1>. DEFINE other == [m \in Node |-> Moved(v, w, M, span[m], m)]
<1>2. M \subseteq Node /\ t.root \in M \cup {NULL}
  BY DEF Sound, Linked
<1>3. \A m \in M : v[m] \in Int /\ w[m] \in Int /\ span[m] \subseteq Int
  BY <1>1, <1>2 DEF Ordered
<1>4. other \in [Node -> SUBSET Int]
  BY DEF Moved
<1>5. t.root # NULL => other[t.root] = Int
  <2>. SUFFICES ASSUME t.root # NULL  PROVE other[t.root] = Int
    OBVIOUS
  <2>1. span[t.root] = Int /\ t.root \in Node
    BY <1>1, <1>2 DEF Ordered
  <2>2. \A a \in M : v[a] \in span[t.root]
    BY <1>3, <2>1
  <2>. QED  BY <2>1, <2>2 DEF Moved, Between
<1>6. ASSUME NEW m \in M
      PROVE  w[m] \in other[m]
  <2>1. \A a \in M : (v[a] < v[m] => w[a] < w[m]) /\ (v[m] < v[a] => w[m] < w[a])
    BY DEF Alike
  <2>. QED  BY <1>2, <1>3, <2>1 DEF Moved, Between
<1>7. ASSUME NEW m \in M, NEW i \in Sides, t.link[m][i] # NULL
      PROVE  other[t.link[m][i]] = Part(other[m], w[m], i)
  <2>. PICK c : c = t.link[m][i]
    OBVIOUS
  <2>1. c \in M
    BY <1>7 DEF Sound, Linked
  <2>2. span[c] = Part(span[m], v[m], i) /\ v[c] \in span[c] /\ v[m] \in span[m]
    BY <1>1, <1>7, <2>1 DEF Ordered
  <2>3. Convex(span[m])
    BY <1>1, SpanConvex
  <2>4. Moved(v, w, M, Part(span[m], v[m], i), c) = Part(Moved(v, w, M, span[m], m), w[m], i)
    BY <1>3, <2>1, <2>2, <2>3, MovedPart
  <2>. QED  BY <1>2, <2>1, <2>2, <2>4
<1>. HIDE DEF other
<1>8. Ordered(t, M, w, other)
  BY <1>4, <1>5, <1>6, <1>7 DEF Ordered
<1>. QED  BY <1>8 DEF Sorted

\* pavl_probe_node adds an item of a new key to a table in order.
LEMMA ProbeAdds ==
  ASSUME NEW t, NEW M, Sound(t, M), NEW rank, Sorted(t, M, rank), NEW n \in Node \ M,
         \A m \in M : rank[m] # rank[n]
  PROVE  Sound(Probe(t, rank, n), M \cup {n}) /\ Sorted(Probe(t, rank, n), M \cup {n}, rank)
<1>. PICK r : r = Probe(t, rank, n)
  OBVIOUS
<1>1. PICK H, h : Balanceable(t, h, H)
  BY DEF Sound
<1>2. Probing(t, M, h, H, rank, n)
  BY <1>1 DEF Sound, Probing
<1>3. Probed(r, t, M, rank, n)
  BY <1>2, ProbeSound
<1>4. /\ TableType(r) /\ Linked(r, M \cup {n}) /\ \E I, g : Balanceable(r, g, I)
      /\ Sorted(r, M \cup {n}, rank)
  BY <1>3 DEF Probed
<1>. QED  BY <1>4 DEF Sound

-----------------------------------------------------------------------------
(* The tables of generate_index *)

Number == [n \in Node |-> n - 1]

\* The insertions that fill a table with the first k nodes that are in S.
Builds(f, S, k) ==
  f = [i \in 0 .. k |->
         IF i = 0 THEN EmptyTable
         ELSE IF i \in S THEN Probe(f[i - 1], Number, i) ELSE f[i - 1]]

LEMMA BuildsExist ==
  ASSUME NEW S, NEW k \in Nat
  PROVE  \E f : Builds(f, S, k)
<1>. DEFINE T == {i \in 0 .. k : \E f : Builds(f, S, i)}
<1>1. 0 \in T
  <2>1. Builds([i \in {0} |-> EmptyTable], S, 0)
    <3>1. 0 .. 0 = {0}
      OBVIOUS
    <3>. QED  BY <3>1 DEF Builds
  <2>. QED  BY <2>1
<1>2. ASSUME NEW n \in 0 .. k - 1, n \in T
      PROVE  n + 1 \in T
  <2>1. PICK f : Builds(f, S, n)
    BY <1>2
  <2>. DEFINE g == [i \in 0 .. n + 1 |->
                      IF i = n + 1
                      THEN IF n + 1 \in S THEN Probe(f[n], Number, n + 1) ELSE f[n]
                      ELSE f[i]]
  <2>2. \A i \in 0 .. n : f[i] = IF i = 0 THEN EmptyTable
                                 ELSE IF i \in S THEN Probe(f[i - 1], Number, i) ELSE f[i - 1]
    BY <2>1, Zenon DEF Builds
  <2>3. \A i \in 0 .. n : g[i] = f[i]
    OBVIOUS
  <2>4. g[n + 1] = IF n + 1 \in S THEN Probe(f[n], Number, n + 1) ELSE f[n]
    <3>1. n + 1 \in 0 .. n + 1
      OBVIOUS
    <3>. QED  BY <3>1, Zenon
  <2>5. ASSUME NEW i \in 0 .. n + 1
        PROVE  g[i] = IF i = 0 THEN EmptyTable
                      ELSE IF i \in S THEN Probe(g[i - 1], Number, i) ELSE g[i - 1]
    <3>. HIDE DEF g
    <3>1. CASE i = n + 1
      <4>1. i - 1 = n /\ i # 0 /\ g[n] = f[n]
        BY <2>3, <3>1
      <4>. QED  BY <2>4, <3>1, <4>1
    <3>2. CASE i \in 0 .. n
      <4>1. i # 0 => g[i - 1] = f[i - 1]
        BY <2>3, <3>2
      <4>. QED  BY <2>2, <2>3, <3>2, <4>1
    <3>. QED  BY <3>1, <3>2
  <2>6. Builds(g, S, n + 1)
    <3>1. g = [i \in 0 .. n + 1 |-> g[i]]
      OBVIOUS
    <3>. HIDE DEF g
    <3>. QED  BY <2>5, <3>1 DEF Builds
  <2>. QED  BY <2>6
<1>. HIDE DEF T
<1>3. 0 .. k \subseteq T
  BY <1>1, <1>2, Reaches
<1>. QED  BY <1>3 DEF T

LEMMA FreshTableSorted ==
  ASSUME NEW S, S \subseteq Node
  PROVE  Sound(FreshTable(S), S) /\ Sorted(FreshTable(S), S, Number)
<1>0. MaxNodes \in Nat /\ Node = 1 .. MaxNodes
  BY NodeAssumption
<1>. DEFINE f == CHOOSE f : Builds(f, S, MaxNodes)
            T == {i \in 0 .. MaxNodes : Sound(f[i], S \cap 1 .. i) /\ Sorted(f[i], S \cap 1 .. i, Number)}
<1>1. Builds(f, S, MaxNodes)
  <2>1. \E g : Builds(g, S, MaxNodes)
    BY <1>0, BuildsExist
  <2>. QED  BY <2>1, Zenon
<1>2. FreshTable(S) = f[MaxNodes]
  BY DEF FreshTable, Builds, Number
<1>. HIDE DEF f
<1>3. \A i \in 0 .. MaxNodes : f[i] = IF i = 0 THEN EmptyTable
                                      ELSE IF i \in S THEN Probe(f[i - 1], Number, i) ELSE f[i - 1]
  BY <1>1, Zenon DEF Builds
<1>4. 0 \in T
  <2>1. f[0] = EmptyTable /\ S \cap 1 .. 0 = {}
    BY <1>0, <1>3
  <2>2. Sound(EmptyTable, {}) /\ EmptyTable.root = NULL
    BY EmptySound
  <2>3. Number \in [Node -> Int] /\ [n \in Node |-> Int] \in [Node -> SUBSET Int]
    BY <1>0 DEF Number
  <2>4. Ordered(EmptyTable, {}, Number, [n \in Node |-> Int])
    BY <2>2, <2>3 DEF Ordered
  <2>5. Sorted(EmptyTable, {}, Number)
    BY <2>4 DEF Sorted
  <2>. QED  BY <1>0, <2>1, <2>2, <2>5
<1>5. ASSUME NEW i \in 0 .. MaxNodes - 1, i \in T
      PROVE  i + 1 \in T
  <2>. PICK n, M : n = i + 1 /\ M = S \cap 1 .. i
    OBVIOUS
  <2>1. n \in 0 .. MaxNodes /\ n # 0 /\ n - 1 = i /\ n \in Node
    BY <1>0
  <2>2. Sound(f[i], M) /\ Sorted(f[i], M, Number)
    BY <1>5
  <2>3. f[n] = IF n \in S THEN Probe(f[i], Number, n) ELSE f[i]
    BY <1>3, <2>1
  <2>4. CASE n \in S
    <3>1. S \cap 1 .. n = M \cup {n} /\ n \notin M
      BY <2>1, <2>4
    <3>2. \A m \in M : Number[m] # Number[n]
      BY <1>0, <2>1 DEF Number
    <3>3. n \in Node \ M
      BY <2>1, <3>1
    <3>4. Sound(f[n], M \cup {n}) /\ Sorted(f[n], M \cup {n}, Number)
      BY <2>2, <2>3, <2>4, <3>2, <3>3, ProbeAdds
    <3>. QED  BY <2>1, <3>1, <3>4
  <2>5. CASE n \notin S
    <3>1. S \cap 1 .. n = M
      BY <2>1, <2>5
    <3>. QED  BY <2>1, <2>2, <2>3, <2>5, <3>1
  <2>. QED  BY <2>4, <2>5
<1>6. MaxNodes \in T
  <2>. HIDE DEF T
  <2>1. 0 .. MaxNodes \subseteq T
    BY <1>0, <1>4, <1>5, Reaches
  <2>. QED  BY <1>0, <2>1
<1>7. S \cap 1 .. MaxNodes = S
  BY <1>0
<1>. QED  BY <1>2, <1>6, <1>7

-----------------------------------------------------------------------------
(* The numbers generate_index gives *)

LEMMA StartNumbers ==
  ASSUME NEW t, NEW k \in 1 .. MaxNodes, WellFormed(t, k), NEW v,
         \A n \in 1 .. k : v[n] = n - 1
  PROVE  OneTree(t, k) /\ Numbers(v, t, k)
<1>1. OneTree(t, k)
  BY DEF WellFormed, Numbered, OneTree
<1>2. Paths(t, k) /\ k \in Nat
  BY <1>1, TreePaths, NodeAssumption DEF OneTree
<1>3. \A n \in 1 .. k : \A y \in t.above[n] : \A m \in y + 1 .. n : y \in t.above[m]
  BY DEF WellFormed, Numbered
<1>4. ASSUME NEW m \in 1 .. k, NEW n \in 1 .. k, Precedes(t, m, n)
      PROVE  m < n
  <2>1. CASE m \in t.above[n]
    BY <1>2, <2>1 DEF Paths
  <2>2. CASE LeftOf(t, m, n)
    <3>1. PICK p \in Node : \E i, j \in 1 .. Len(t.children[p]) :
            i < j /\ Under(t, t.children[p][i], m) /\ Under(t, t.children[p][j], n)
      BY <2>2 DEF LeftOf
    <3>2. PICK i \in 1 .. Len(t.children[p]), j \in 1 .. Len(t.children[p]) :
            i < j /\ Under(t, t.children[p][i], m) /\ Under(t, t.children[p][j], n)
      BY <3>1
    <3>. PICK a, b : a = t.children[p][i] /\ b = t.children[p][j]
      OBVIOUS
    <3>3. p \in 1 .. k
      <4>. SUFFICES ASSUME p \notin 1 .. k  PROVE FALSE
        OBVIOUS
      <4>1. t.children[p] = <<>>
        BY <1>1 DEF OneTree, ChildLists
      <4>. QED  BY <3>2, <4>1
    <3>4. Children(t, k, p)
      BY <1>1, <3>3, TreeChildren
    <3>5. /\ a \in 1 .. k /\ t.above[a] = t.above[p] \cup {p}
          /\ b \in 1 .. k /\ t.above[b] = t.above[p] \cup {p}
      BY <3>4 DEF Children
    <3>6. a < b
      BY <3>2, <3>3 DEF WellFormed, Numbered
    <3>7. b <= n
      <4>1. b = n \/ b \in t.above[n]
        BY <3>2 DEF Under
      <4>2. b \in t.above[n] => b < n
        BY <1>2 DEF Paths
      <4>3. b \in Int /\ n \in Int
        BY <1>2, <3>5
      <4>. QED  BY <4>1, <4>2, <4>3
    <3>8. ASSUME n <= m
          PROVE  FALSE
      <4>1. a = m \/ a \in t.above[m]
        BY <3>2 DEF Under
      <4>2. a # m /\ b \in a + 1 .. m
        <5>1. a \in Int /\ b \in Int /\ n \in Int /\ m \in Int
          BY <1>2, <3>5
        <5>2. a < b /\ b <= n /\ n <= m
          BY <3>6, <3>7, <3>8
        <5>3. \A w, x, y, z \in Int : w < x /\ x <= y /\ y <= z => w # z /\ x \in w + 1 .. z
          OBVIOUS
        <5>. QED  BY <5>1, <5>2, <5>3, Zenon
      <4>3. a \in t.above[b]
        BY <1>3, <4>1, <4>2
      <4>. QED  BY <1>2, <3>5, <4>3 DEF Paths
    <3>. QED  BY <3>8
  <2>. QED  BY <1>4, <2>1, <2>2 DEF Precedes
<1>5. \A i \in 0 .. k - 1 : \E n \in 1 .. k : v[n] = i
  <2>. SUFFICES ASSUME NEW i \in 0 .. k - 1  PROVE \E n \in 1 .. k : v[n] = i
    OBVIOUS
  <2>1. i + 1 \in 1 .. k /\ (i + 1) - 1 = i
    BY <1>2
  <2>. QED  BY <2>1
<1>. QED  BY <1>1, <1>2, <1>4, <1>5 DEF Numbers

-----------------------------------------------------------------------------
(* What dfi() returns after an insertion *)

IndexTyped(b) ==
  /\ b.base_index \in [Node -> Int] /\ b.cached_parent_dfi \in [Node -> Int]
  /\ ModsTyped(b)

LEMMA ValuesTyped ==
  ASSUME NEW t, NEW k \in 1 .. MaxNodes, TreeShape(t), Ancestry(t, k), NEW b, IndexTyped(b)
  PROVE  DfiValues(t, b) \in [Node -> Int]
<1>. PICK f : f = DfiValues(t, b)
  OBVIOUS
<1>. DEFINE T == {n \in 0 .. MaxNodes : \A m \in 1 .. n : f[m] \in Int}
<1>1. Node = 1 .. MaxNodes /\ MaxNodes \in Nat
  BY NodeAssumption
<1>2. f = [n \in Node |->
             IF t.parent[n] = NULL \/ b.base_mod[n] >= b.latest_mod
             THEN b.base_index[n]
             ELSE b.base_index[n] + f[t.parent[n]] - b.cached_parent_dfi[n]]
  BY DfiValuesDef
<1>3. 0 \in T
  BY <1>1
<1>4. ASSUME NEW n \in 0 .. MaxNodes - 1, n \in T
      PROVE  n + 1 \in T
  <2>1. n + 1 \in Node /\ n + 1 \in 0 .. MaxNodes
    BY <1>1
  <2>2. t.parent[n + 1] # NULL => t.parent[n + 1] \in 1 .. n
    BY <2>1, ParentBefore
  <2>3. t.parent[n + 1] # NULL => f[t.parent[n + 1]] \in Int
    BY <1>4, <2>2
  <2>4. b.base_index[n + 1] \in Int /\ b.cached_parent_dfi[n + 1] \in Int
    BY <2>1 DEF IndexTyped
  <2>5. f[n + 1] \in Int
    BY <1>2, <2>1, <2>3, <2>4
  <2>6. \A m \in 1 .. n + 1 : m \in 1 .. n \/ m = n + 1
    OBVIOUS
  <2>. QED  BY <1>4, <2>1, <2>5, <2>6
<1>5. MaxNodes \in T
  <2>. HIDE DEF T
  <2>1. 0 .. MaxNodes \subseteq T
    BY <1>1, <1>3, <1>4, Reaches
  <2>. QED  BY <1>1, <2>1
<1>. QED  BY <1>1, <1>2, <1>5

\* The types of an index stay what they are when dfi() is called.
LEMMA RefreshTyped ==
  ASSUME NEW t, NEW k \in 1 .. MaxNodes, TreeShape(t), Ancestry(t, k), NEW b, IndexTyped(b),
         NEW S
  PROVE  IndexTyped(Refresh(t, b, S))
<1>. PICK r, val, T : r = Refresh(t, b, S) /\ val = DfiValues(t, b) /\ T = Touched(t, b, S)
  OBVIOUS
<1>1. val \in [Node -> Int]
  BY ValuesTyped
<1>2. ModsTyped(r)
  BY RefreshMods DEF IndexTyped
<1>3. /\ r.base_index = [y \in Node |-> IF y \in T THEN val[y] ELSE b.base_index[y]]
      /\ r.cached_parent_dfi =
           [y \in Node |-> IF y \in T /\ t.parent[y] # NULL THEN val[t.parent[y]]
                           ELSE b.cached_parent_dfi[y]]
  BY DEF Refresh
<1>4. \A y \in Node : t.parent[y] # NULL => t.parent[y] \in Node
  BY DEF TreeShape
<1>5. r.base_index \in [Node -> Int]
  BY <1>1, <1>3 DEF IndexTyped
<1>6. r.cached_parent_dfi \in [Node -> Int]
  <2>1. \A y \in Node : (IF y \in T /\ t.parent[y] # NULL THEN val[t.parent[y]]
                         ELSE b.cached_parent_dfi[y]) \in Int
    BY <1>1, <1>4 DEF IndexTyped
  <2>. QED  BY <1>3, <2>1
<1>. QED  BY <1>2, <1>5, <1>6 DEF IndexTyped

\* Every one of the first k nodes is up to date, and v is what dfi() returns for it.
UpToDate(t, k, b, v) ==
  /\ ModsTyped(b)
  /\ \A y \in 1 .. k : /\ b.base_index[y] = v[y] /\ b.base_mod[y] = b.latest_mod
                       /\ t.parent[y] # NULL => b.cached_parent_dfi[y] = v[t.parent[y]]

\* Then calling dfi() changes nothing.
LEMMA RefreshUpToDate ==
  ASSUME NEW t, NEW k \in 1 .. MaxNodes, TreeShape(t), Ancestry(t, k), NEW b, IndexTyped(b),
         NEW v, v = DfiValues(t, b), UpToDate(t, k, b, v), NEW S
  PROVE  UpToDate(t, k, Refresh(t, b, S), v) /\ Refresh(t, b, S).latest_mod = b.latest_mod
<1>. PICK r, T : r = Refresh(t, b, S) /\ T = Touched(t, b, S)
  OBVIOUS
<1>1. ModsTyped(r)
  BY RefreshMods DEF IndexTyped
<1>2. /\ r.base_index = [y \in Node |-> IF y \in T THEN v[y] ELSE b.base_index[y]]
      /\ r.base_mod = [y \in Node |-> IF y \in T THEN b.latest_mod ELSE b.base_mod[y]]
      /\ r.cached_parent_dfi =
           [y \in Node |-> IF y \in T /\ t.parent[y] # NULL THEN v[t.parent[y]]
                           ELSE b.cached_parent_dfi[y]]
      /\ r.latest_mod = b.latest_mod
  BY DEF Refresh
<1>3. 1 .. k \subseteq Node
  BY NodeAssumption
<1>4. ASSUME NEW y \in 1 .. k
      PROVE  /\ r.base_index[y] = v[y] /\ r.base_mod[y] = r.latest_mod
             /\ t.parent[y] # NULL => r.cached_parent_dfi[y] = v[t.parent[y]]
  BY <1>2, <1>3 DEF UpToDate
<1>. QED  BY <1>1, <1>2, <1>4 DEF UpToDate

\* What comes after d and not in the branches of d's path comes after d with its parent.
LEMMA ParentFollows ==
  ASSUME NEW t, NEW k \in 1 .. MaxNodes, OneTree(t, k), NEW d \in 1 .. k, NEW y \in 1 .. k,
         t.parent[y] # NULL, t.parent[y] \notin t.above[d] \cup {d}, Precedes(t, d, y)
  PROVE  Precedes(t, d, t.parent[y])
<1>. PICK q : q = t.parent[y]
  OBVIOUS
<1>1. q \in 1 .. k /\ t.above[y] = t.above[q] \cup {q}
  BY DEF OneTree, Ancestry
<1>2. CASE d \in t.above[y]
  BY <1>1, <1>2 DEF Precedes
<1>3. CASE LeftOf(t, d, y)
  <2>1. PICK p \in Node : \E i, j \in 1 .. Len(t.children[p]) :
          i < j /\ Under(t, t.children[p][i], d) /\ Under(t, t.children[p][j], y)
    BY <1>3 DEF LeftOf
  <2>2. PICK i \in 1 .. Len(t.children[p]), j \in 1 .. Len(t.children[p]) :
          i < j /\ Under(t, t.children[p][i], d) /\ Under(t, t.children[p][j], y)
    BY <2>1
  <2>. PICK a, b : a = t.children[p][i] /\ b = t.children[p][j]
    OBVIOUS
  <2>3. p \in 1 .. k
    <3>. SUFFICES ASSUME p \notin 1 .. k  PROVE FALSE
      OBVIOUS
    <3>1. t.children[p] = <<>>
      BY DEF OneTree, ChildLists
    <3>. QED  BY <2>2, <3>1
  <2>4. Children(t, k, p)
    BY <2>3, TreeChildren
  <2>5. a \in 1 .. k /\ t.above[a] = t.above[p] \cup {p} /\ t.parent[b] = p
    BY <2>4 DEF Children
  <2>6. p \in t.above[d]
    <3>1. a = d \/ a \in t.above[d]
      BY <2>2 DEF Under
    <3>2. a \in t.above[d] => t.above[a] \subseteq t.above[d]
      BY SMTT(60) DEF OneTree, Ancestry
    <3>. QED  BY <2>5, <3>1, <3>2
  <2>7. b # y
    BY <2>5, <2>6
  <2>8. Under(t, b, q)
    <3>1. b \in t.above[y]
      BY <2>2, <2>7 DEF Under
    <3>. QED  BY <1>1, <3>1 DEF Under
  <2>9. LeftOf(t, d, q)
    BY <2>2, <2>8 DEF LeftOf
  <2>. QED  BY <2>9 DEF Precedes
<1>. QED  BY <1>2, <1>3 DEF Precedes

\* propagate_dfi_change moves the displaced node and all that come after it up by one,
\* whether it visits them or leaves them to be caught up.
LEMMA Renumbered ==
  ASSUME TreeSound, OneTree(tree, size), NEW v, Numbers(v, tree, size),
         NEW b, UpToDate(tree, size, b, v), NEW d \in Nodes,
         NEW f, f = DfiValues(tree, Propagate(tree, b, d))
  PROVE  \A y \in Nodes : f[y] = v[y] + IF v[d] <= v[y] THEN 1 ELSE 0
<1>. PICK c, path, side, shift :
       /\ c = Propagate(tree, b, d) /\ path = Path(tree, d) /\ side = Side(tree, d)
       /\ shift = NotBefore(b.base_index, path \cup side, b.base_index[d])
  OBVIOUS
<1>0. /\ Nodes = 1 .. size /\ Nodes \subseteq Node /\ size \in 1 .. MaxNodes /\ size \in Nat
      /\ TreeShape(tree) /\ Ancestry(tree, size) /\ Paths(tree, size)
  BY TreePaths, NodeAssumption DEF TreeSound, Nodes, OneTree
<1>1. \A y \in Nodes : v[y] \in Int
  BY <1>0, NumbersOrder
<1>2. \A y \in Nodes : /\ b.base_index[y] = v[y] /\ b.base_mod[y] = b.latest_mod
                       /\ tree.parent[y] # NULL => b.cached_parent_dfi[y] = v[tree.parent[y]]
  BY <1>0 DEF UpToDate
<1>3. b.latest_mod \in Int
  BY DEF UpToDate, ModsTyped
<1>4. path = tree.above[d] \cup {d} /\ path \subseteq Nodes
  BY <1>0 DEF Path, Paths
<1>5. side = {y \in Nodes : \E x \in path : y \in ToSet(tree.children[x])} \ path
  BY DEF Side
<1>6. shift \subseteq Nodes /\ \A y \in Nodes : y \in shift <=> y \in path \cup side /\ v[d] <= v[y]
  BY <1>1, <1>2, <1>4, <1>5 DEF NotBefore
<1>7. /\ c.latest_mod = b.latest_mod + 1
      /\ \A y \in Nodes :
           /\ c.base_index[y] = v[y] + IF y \in shift THEN 1 ELSE 0
           /\ c.base_mod[y] = IF y \in path \cup shift THEN b.latest_mod + 1 ELSE b.latest_mod
           /\ y \notin path /\ tree.parent[y] # NULL => c.cached_parent_dfi[y] = v[tree.parent[y]]
  <2>1. /\ c.latest_mod = b.latest_mod + 1
        /\ c.base_index = [y \in Node |-> b.base_index[y] + IF y \in shift THEN 1 ELSE 0]
        /\ c.base_mod = [y \in Node |-> IF y \in path \cup shift THEN b.latest_mod + 1
                                        ELSE b.base_mod[y]]
        /\ c.cached_parent_dfi =
             [y \in Node |-> IF y \in path /\ tree.parent[y] \in shift
                             THEN b.base_index[tree.parent[y]] + 1
                             ELSE b.cached_parent_dfi[y]]
    BY DEF Propagate, Marked
  <2>. QED  BY <1>0, <1>2, <2>1
<1>8. \A y \in Nodes :
        f[y] = IF tree.parent[y] = NULL \/ c.base_mod[y] >= c.latest_mod THEN c.base_index[y]
               ELSE c.base_index[y] + f[tree.parent[y]] - c.cached_parent_dfi[y]
  <2>1. f = [y \in Node |->
               IF tree.parent[y] = NULL \/ c.base_mod[y] >= c.latest_mod THEN c.base_index[y]
               ELSE c.base_index[y] + f[tree.parent[y]] - c.cached_parent_dfi[y]]
    BY <1>0, DfiValuesDef
  <2>. QED  BY <1>0, <2>1
<1>. DEFINE g == [y \in Nodes |-> v[y] + IF v[d] <= v[y] THEN 1 ELSE 0]
<1>9. ASSUME NEW y \in Nodes
      PROVE  \/ f[y] = g[y]
             \/ tree.parent[y] \in 1 .. y - 1 /\ (f[tree.parent[y]] = g[tree.parent[y]] => f[y] = g[y])
  <2>1. CASE y \in path \cup shift
    <3>0. c.base_mod[y] = b.latest_mod + 1 /\ c.latest_mod = b.latest_mod + 1
      BY <1>7, <2>1, Zenon
    <3>1. c.base_mod[y] >= c.latest_mod
      BY <1>3, <3>0
    <3>2. f[y] = v[y] + IF y \in shift THEN 1 ELSE 0
      BY <1>7, <1>8, <3>1, Zenon
    <3>3. y \in shift <=> v[d] <= v[y]
      BY <1>6, <2>1
    <3>. QED  BY <3>2, <3>3
  <2>2. CASE y \notin path \cup shift
    <3>. PICK q : q = tree.parent[y]
      OBVIOUS
    <3>1. y # d /\ y # 1 /\ q # NULL
      <4>1. y # 1
        <5>1. d = 1 \/ 1 \in tree.above[d]
          BY <1>0 DEF OneTree
        <5>. QED  BY <1>4, <2>2, <5>1
      <4>2. 1 \in tree.above[y]
        BY <1>0, <4>1 DEF OneTree
      <4>3. q # NULL
        BY <1>0, <4>2 DEF Ancestry
      <4>. QED  BY <1>4, <2>2, <4>1, <4>3
    <3>2. q \in Nodes /\ q \in 1 .. y - 1 /\ q \in tree.above[y]
      <4>1. q \in 1 .. y - 1
        BY <1>0, <3>1, ParentBefore
      <4>. QED  BY <1>0, <3>1, <4>1 DEF Ancestry
    <3>3. v[q] < v[y]
      BY <1>0, <3>2, NumbersOrder
    <3>4. f[y] = v[y] + f[q] - v[q]
      <4>0. c.base_mod[y] = b.latest_mod /\ c.latest_mod = b.latest_mod + 1
        BY <1>7, <2>2, Zenon
      <4>1. ~(c.base_mod[y] >= c.latest_mod)
        BY <1>3, <4>0
      <4>2. c.base_index[y] = v[y] /\ c.cached_parent_dfi[y] = v[q]
        BY <1>1, <1>7, <2>2, <3>1, SMTT(60)
      <4>. QED  BY <1>8, <3>1, <4>1, <4>2
    <3>5. v[d] <= v[y] <=> v[d] <= v[q]
      <4>1. CASE y \in side
        <5>1. ~(v[d] <= v[y])
          BY <1>6, <2>2, <4>1
        <5>. QED  BY <1>1, <3>2, <3>3, <5>1
      <4>2. CASE y \notin side
        <5>1. q \notin path
          <6>. SUFFICES ASSUME q \in path  PROVE FALSE
            OBVIOUS
          <6>1. Children(tree, size, q)
            BY <1>0, <3>2, TreeChildren
          <6>2. \E i \in 1 .. Len(tree.children[q]) : tree.children[q][i] = y
            BY <1>0, <6>1 DEF Children
          <6>3. tree.children[q] \in Seq(1 .. size)
            BY <1>0, <3>2 DEF OneTree, ChildLists
          <6>4. y \in ToSet(tree.children[q])
            BY <6>2, <6>3 DEF ToSet
          <6>. QED  BY <1>5, <2>2, <4>2, <6>4
        <5>2. v[d] < v[y] => v[d] < v[q]
          <6>. SUFFICES ASSUME v[d] < v[y]  PROVE v[d] < v[q]
            OBVIOUS
          <6>1. Precedes(tree, d, y)
            BY <1>0, NumbersTell
          <6>2. Precedes(tree, d, q)
            BY <1>0, <1>4, <3>1, <5>1, <6>1, ParentFollows
          <6>. QED  BY <1>0, <3>2, <6>2 DEF Numbers
        <5>3. v[d] # v[y]
          BY <1>0, <3>1, NumbersTell
        <5>. QED  BY <1>1, <3>2, <3>3, <5>2, <5>3
      <4>. QED  BY <4>1, <4>2
    <3>6. f[q] = g[q] => f[y] = g[y]
      BY <1>1, <3>2, <3>4, <3>5
    <3>. QED  BY <3>2, <3>6
  <2>. QED  BY <2>1, <2>2
<1>10. \A y \in Nodes : f[y] = g[y]
  <2>. HIDE DEF g
  <2>1. AgreeFromBelow(f, g, tree.parent, size)
    BY <1>0, <1>9 DEF AgreeFromBelow
  <2>. QED  BY <1>0, <2>1, ClimbUnique DEF Agree
<1>. QED  BY <1>10

\* The value dfi() returns for a node.
LEMMA ValuesAt ==
  ASSUME NEW t, NEW b, NEW k \in 1 .. MaxNodes, TreeShape(t), Ancestry(t, k), NEW f,
         f = DfiValues(t, b)
  PROVE  \A y \in Node : f[y] =
           IF t.parent[y] = NULL \/ b.base_mod[y] >= b.latest_mod THEN b.base_index[y]
           ELSE b.base_index[y] + f[t.parent[y]] - b.cached_parent_dfi[y]
<1>1. f = [y \in Node |->
           IF t.parent[y] = NULL \/ b.base_mod[y] >= b.latest_mod THEN b.base_index[y]
           ELSE b.base_index[y] + f[t.parent[y]] - b.cached_parent_dfi[y]]
  BY DfiValuesDef
<1>. QED  BY <1>1

\* dfi() does not look at the child lists.
LEMMA ValuesByParent ==
  ASSUME NEW t, NEW g, NEW k \in 1 .. MaxNodes, TreeShape(t), Ancestry(t, k), TreeShape(g),
         Ancestry(g, k), t.parent = g.parent, NEW b
  PROVE  DfiValues(t, b) = DfiValues(g, b)
<1>. PICK f, h : f = DfiValues(t, b) /\ h = DfiValues(g, b)
  OBVIOUS
<1>1. f = [n \in Node |->
             IF t.parent[n] = NULL \/ b.base_mod[n] >= b.latest_mod THEN b.base_index[n]
             ELSE b.base_index[n] + f[t.parent[n]] - b.cached_parent_dfi[n]]
  BY DfiValuesDef
<1>2. h = [n \in Node |->
             IF t.parent[n] = NULL \/ b.base_mod[n] >= b.latest_mod THEN b.base_index[n]
             ELSE b.base_index[n] + h[t.parent[n]] - b.cached_parent_dfi[n]]
  <2>. PICK up : up = g.parent
    OBVIOUS
  <2>1. h = [n \in Node |->
             IF up[n] = NULL \/ b.base_mod[n] >= b.latest_mod THEN b.base_index[n]
             ELSE b.base_index[n] + h[up[n]] - b.cached_parent_dfi[n]]
    BY DfiValuesDef
  <2>. QED  BY <2>1
<1>3. MaxNodes \in Nat /\ Node = 1 .. MaxNodes
  BY NodeAssumption
<1>4. ASSUME NEW n \in Node
      PROVE  \/ f[n] = h[n]
             \/ t.parent[n] \in 1 .. n - 1 /\ (f[t.parent[n]] = h[t.parent[n]] => f[n] = h[n])
  <2>1. t.parent[n] # NULL => t.parent[n] \in 1 .. n - 1
    BY ParentBefore
  <2>2. f[n] = IF t.parent[n] = NULL \/ b.base_mod[n] >= b.latest_mod THEN b.base_index[n]
               ELSE b.base_index[n] + f[t.parent[n]] - b.cached_parent_dfi[n]
    BY <1>1
  <2>3. h[n] = IF t.parent[n] = NULL \/ b.base_mod[n] >= b.latest_mod THEN b.base_index[n]
               ELSE b.base_index[n] + h[t.parent[n]] - b.cached_parent_dfi[n]
    BY <1>2
  <2>. QED  BY <2>1, <2>2, <2>3
<1>5. AgreeFromBelow(f, h, t.parent, MaxNodes)
  BY <1>3, <1>4 DEF AgreeFromBelow
<1>6. \A n \in Node : f[n] = h[n]
  BY <1>3, <1>5, ClimbUnique DEF Agree
<1>7. f = [n \in Node |-> f[n]] /\ h = [n \in Node |-> h[n]]
  BY <1>1, <1>2
<1>. QED  BY <1>6, <1>7

\* The index b is the index c, but for what the new node n has.
But(b, c, k) ==
  /\ b.latest_mod = c.latest_mod
  /\ \A y \in 1 .. k : /\ b.base_index[y] = c.base_index[y]
                       /\ b.base_mod[y] = c.base_mod[y]
                       /\ b.cached_parent_dfi[y] = c.cached_parent_dfi[y]

\* A new node changes no other node's value, and has its own from its parent's.
LEMMA HungValues ==
  ASSUME NEW t, NEW k \in 1 .. MaxNodes, k < MaxNodes, NEW p \in 1 .. k, TreeShape(t),
         Ancestry(t, k), NEW n, n = k + 1, NEW b, NEW c, But(b, c, k),
         NEW w, w = DfiValues(Hung(t, n, p), b), NEW v, v = DfiValues(t, c)
  PROVE  /\ \A y \in 1 .. k : w[y] = v[y]
         /\ w[n] = IF b.base_mod[n] >= b.latest_mod THEN b.base_index[n]
                   ELSE b.base_index[n] + v[p] - b.cached_parent_dfi[n]
<1>. PICK g : g = Hung(t, n, p)
  OBVIOUS
<1>0. n \in Node /\ 1 .. k \subseteq Node /\ n \notin 1 .. k /\ k \in Nat /\ n \in 1 .. MaxNodes
  BY NodeAssumption
<1>1. TreeShape(g) /\ Ancestry(g, n)
  BY HungSound
<1>2. g.parent = [t.parent EXCEPT ![n] = p]
  BY DEF Hung
<1>3. g.parent[n] = p /\ \A y \in 1 .. k : g.parent[y] = t.parent[y]
  BY <1>0, <1>2 DEF TreeShape
<1>4. \A y \in Node : w[y] =
        IF g.parent[y] = NULL \/ b.base_mod[y] >= b.latest_mod THEN b.base_index[y]
        ELSE b.base_index[y] + w[g.parent[y]] - b.cached_parent_dfi[y]
  <2>1. w = DfiValues(g, b)
    OBVIOUS
  <2>. QED  BY <1>0, <1>1, <2>1, ValuesAt
<1>5. \A y \in Node : v[y] =
        IF t.parent[y] = NULL \/ c.base_mod[y] >= c.latest_mod THEN c.base_index[y]
        ELSE c.base_index[y] + v[t.parent[y]] - c.cached_parent_dfi[y]
  <2>1. v = [y \in Node |->
          IF t.parent[y] = NULL \/ c.base_mod[y] >= c.latest_mod THEN c.base_index[y]
          ELSE c.base_index[y] + v[t.parent[y]] - c.cached_parent_dfi[y]]
    BY DfiValuesDef
  <2>. QED  BY <2>1
<1>6. ASSUME NEW y \in 1 .. k
      PROVE  \/ w[y] = v[y]
             \/ t.parent[y] \in 1 .. y - 1 /\ (w[t.parent[y]] = v[t.parent[y]] => w[y] = v[y])
  <2>1. t.parent[y] # NULL => t.parent[y] \in 1 .. y - 1
    BY <1>0, ParentBefore
  <2>2. w[y] = IF t.parent[y] = NULL \/ c.base_mod[y] >= c.latest_mod THEN c.base_index[y]
               ELSE c.base_index[y] + w[t.parent[y]] - c.cached_parent_dfi[y]
    BY <1>0, <1>3, <1>4 DEF But
  <2>3. v[y] = IF t.parent[y] = NULL \/ c.base_mod[y] >= c.latest_mod THEN c.base_index[y]
               ELSE c.base_index[y] + v[t.parent[y]] - c.cached_parent_dfi[y]
    BY <1>0, <1>5
  <2>. QED  BY <2>1, <2>2, <2>3
<1>7. AgreeFromBelow(w, v, t.parent, k)
  BY <1>6 DEF AgreeFromBelow
<1>8. \A y \in 1 .. k : w[y] = v[y]
  BY <1>0, <1>7, ClimbUnique DEF Agree
<1>9. p # NULL
  BY <1>0, NullAssumption
<1>. QED  BY <1>0, <1>3, <1>4, <1>8, <1>9

\* The types of an index stay what they are in propagate_dfi_change.
LEMMA PropagateTyped ==
  ASSUME TreeSound, NEW b, IndexTyped(b), NEW d \in Nodes
  PROVE  IndexTyped(Propagate(tree, b, d))
<1>. PICK c, path, side, shift :
       /\ c = Propagate(tree, b, d) /\ path = Path(tree, d) /\ side = Side(tree, d)
       /\ shift = NotBefore(b.base_index, path \cup side, b.base_index[d])
  OBVIOUS
<1>0. /\ Nodes \subseteq Node /\ TreeShape(tree) /\ Ancestry(tree, size)
      /\ b.base_index \in [Node -> Int] /\ b.cached_parent_dfi \in [Node -> Int]
      /\ b.base_mod \in [Node -> Int] /\ b.latest_mod \in Int
  BY NodeAssumption, SMTT(60) DEF TreeSound, Nodes, IndexTyped, ModsTyped
<1>1. path \subseteq Node /\ side \subseteq Node
  BY <1>0 DEF Path, Side, TreeShape, Nodes
<1>2. shift \subseteq Node
  BY <1>1 DEF NotBefore
<1>3. /\ c.latest_mod = b.latest_mod + 1
      /\ c.base_index = [y \in Node |-> b.base_index[y] + IF y \in shift THEN 1 ELSE 0]
      /\ c.base_mod = [y \in Node |-> IF y \in path \cup shift THEN b.latest_mod + 1
                                      ELSE b.base_mod[y]]
      /\ c.cached_parent_dfi =
           [y \in Node |-> IF y \in path /\ tree.parent[y] \in shift
                           THEN b.base_index[tree.parent[y]] + 1
                           ELSE b.cached_parent_dfi[y]]
  BY DEF Propagate, Marked
<1>4. c.latest_mod \in Int /\ c.base_index \in [Node -> Int] /\ c.base_mod \in [Node -> Int]
  BY <1>0, <1>3
<1>5. c.cached_parent_dfi \in [Node -> Int]
  <2>1. \A x \in shift : b.base_index[x] + 1 \in Int
    BY <1>0, <1>2
  <2>2. \A y \in Node : b.cached_parent_dfi[y] \in Int
    BY <1>0
  <2>3. ASSUME NEW y \in Node
        PROVE  IF y \in path /\ tree.parent[y] \in shift
               THEN b.base_index[tree.parent[y]] + 1 \in Int ELSE b.cached_parent_dfi[y] \in Int
    BY <2>1, <2>2
  <2>. QED  BY <1>3, <2>3
<1>. QED  BY <1>4, <1>5 DEF IndexTyped, ModsTyped

\* What insert() knows of a new node: the number r it takes, and the node that has it.
Planned(plan, v, n, r) ==
  /\ plan.node = n /\ plan.index = r /\ r \in 0 .. size
  /\ plan.displaced \in Nodes \cup {NULL}
  /\ plan.displaced # NULL => v[plan.displaced] = r
  /\ plan.displaced = NULL => r = size

IsIndex(c) ==
  c = [base_index |-> c.base_index, base_mod |-> c.base_mod,
       cached_parent_dfi |-> c.cached_parent_dfi, latest_mod |-> c.latest_mod]

\* An index with the new node's own entries.
WithNew(c, n, r, latest, cached) ==
  [c EXCEPT !.base_index[n] = r, !.base_mod[n] = latest, !.cached_parent_dfi[n] = cached]

Added(b, c, k, n, r, latest, cached) ==
  /\ But(b, c, k) /\ IndexTyped(b)
  /\ b.base_index[n] = r /\ b.base_mod[n] = latest /\ b.cached_parent_dfi[n] = cached

LEMMA WithNewFacts ==
  ASSUME NEW c, IndexTyped(c), IsIndex(c),
         NEW k \in 1 .. MaxNodes, k < MaxNodes, NEW n, n = k + 1, NEW r \in Int, NEW latest \in Int,
         NEW cached \in Int, NEW b, b = WithNew(c, n, r, latest, cached)
  PROVE  Added(b, c, k, n, r, latest, cached)
<1>0. n \in Node /\ 1 .. k \subseteq Node /\ n \notin 1 .. k
  BY NodeAssumption
<1>1. /\ c.base_index \in [Node -> Int] /\ c.cached_parent_dfi \in [Node -> Int]
      /\ c.base_mod \in [Node -> Int] /\ c.latest_mod \in Int
  BY DEF IndexTyped, ModsTyped
<1>2. /\ b.base_index = [c.base_index EXCEPT ![n] = r]
      /\ b.base_mod = [c.base_mod EXCEPT ![n] = latest]
      /\ b.cached_parent_dfi = [c.cached_parent_dfi EXCEPT ![n] = cached]
      /\ b.latest_mod = c.latest_mod
  BY DEF WithNew, IsIndex
<1>3. /\ b.base_index \in [Node -> Int] /\ b.base_mod \in [Node -> Int]
      /\ b.cached_parent_dfi \in [Node -> Int]
  BY <1>0, <1>1, <1>2, ExceptTyped
<1>4. IndexTyped(b)
  BY <1>1, <1>2, <1>3 DEF IndexTyped, ModsTyped
<1>5. But(b, c, k)
  BY <1>0, <1>1, <1>2 DEF But
<1>. QED  BY <1>0, <1>1, <1>2, <1>4, <1>5 DEF Added

\* The index that the new node is added to.
Renewed(plan, early) ==
  LET moved == plan.displaced # NULL
      reads == plan.reads \cup early
                 \cup (IF moved THEN {plan.displaced} \cup Side(tree, plan.displaced)
                       ELSE {})
      seen  == Refresh(tree, idx, reads)
  IN  IF moved THEN Propagate(tree, seen, plan.displaced) ELSE seen

LEMMA RenewedFacts ==
  ASSUME TreeSound, OneTree(tree, size), IndexTyped(idx), NEW v, v = DfiValues(tree, idx),
         Numbers(v, tree, size), UpToDate(tree, size, idx, v), NEW plan, NEW r, NEW n,
         Planned(plan, v, n, r), NEW early, NEW c, c = Renewed(plan, early)
  PROVE  /\ IndexTyped(c) /\ IsIndex(c)
         /\ \A y \in Nodes : DfiValues(tree, c)[y] = v[y] + IF r <= v[y] THEN 1 ELSE 0
         /\ idx.latest_mod >= c.latest_mod => plan.displaced = NULL
         /\ plan.displaced = NULL => c.latest_mod = idx.latest_mod
<1>. PICK d, reads, seen :
       /\ d = plan.displaced /\ seen = Refresh(tree, idx, reads)
       /\ c = IF d # NULL THEN Propagate(tree, seen, d) ELSE seen
  BY DEF Renewed
<1>0. /\ Nodes = 1 .. size /\ size \in 1 .. MaxNodes /\ size \in Nat
      /\ TreeShape(tree) /\ Ancestry(tree, size)
      /\ ModsTyped(idx) /\ idx.latest_mod \in Int
  BY DEF TreeSound, Nodes, IndexTyped, ModsTyped
<1>1. IndexTyped(seen)
  BY <1>0, RefreshTyped
<1>2. UpToDate(tree, size, seen, v) /\ seen.latest_mod = idx.latest_mod
  BY <1>0, RefreshUpToDate
<1>3. DfiValues(tree, seen) = v
  BY <1>0, RefreshValues
<1>4. \A y \in Nodes : v[y] \in 0 .. size - 1
  BY <1>0 DEF Numbers
<1>5. IsIndex(seen)
  BY DEF IsIndex, Refresh
<1>6. CASE d = NULL
  <2>1. c = seen
    BY <1>6
  <2>2. r = size
    BY <1>6 DEF Planned
  <2>3. \A y \in Nodes : v[y] = v[y] + IF r <= v[y] THEN 1 ELSE 0
    BY <1>0, <1>4, <2>2
  <2>. QED  BY <1>1, <1>2, <1>3, <1>5, <1>6, <2>1, <2>3
<1>7. CASE d # NULL
  <2>1. c = Propagate(tree, seen, d)
    BY <1>7
  <2>2. d \in Nodes /\ v[d] = r
    BY <1>7 DEF Planned
  <2>3. IndexTyped(c)
    BY <1>1, <2>1, <2>2, PropagateTyped
  <2>4. IsIndex(c) /\ c.latest_mod = seen.latest_mod + 1
    <3>1. \E e1, e2, e3 :
            c = [base_index |-> e1, base_mod |-> e2, cached_parent_dfi |-> e3,
                 latest_mod |-> seen.latest_mod + 1]
      BY <2>1, Zenon DEF Propagate
    <3>. QED  BY <3>1 DEF IsIndex
  <2>5. \A y \in Nodes : DfiValues(tree, c)[y] = v[y] + IF v[d] <= v[y] THEN 1 ELSE 0
    <3>. PICK f : f = DfiValues(tree, Propagate(tree, seen, d))
      OBVIOUS
    <3>1. \A y \in Nodes : f[y] = v[y] + IF v[d] <= v[y] THEN 1 ELSE 0
      BY <1>2, <2>2, Renumbered
    <3>. QED  BY <2>1, <3>1
  <2>6. ~(idx.latest_mod >= c.latest_mod)
    BY <1>0, <1>2, <2>4
  <2>. QED  BY <1>7, <2>2, <2>3, <2>4, <2>5, <2>6
<1>. QED  BY <1>6, <1>7

\* When insert() has created the new node, dfi() would return r for it, one more than before
\* for the nodes that had numbers from r on, and what it did for the others.
LEMMA CreatedNumbers ==
  ASSUME TreeSound, OneTree(tree, size), size < MaxNodes, IndexTyped(idx), NEW v,
         v = DfiValues(tree, idx), Numbers(v, tree, size), UpToDate(tree, size, idx, v),
         NEW p \in Nodes, NEW plan, NEW r, NEW n, n = size + 1, Planned(plan, v, n, r),
         NEW early, NEW b, b = Created(p, plan, early),
         NEW w, w = DfiValues(Hung(tree, n, p), b)
  PROVE  MovedUp(w, v, size, n, r) /\ IndexTyped(b) /\ w \in [Node -> Int]
<1>. PICK c, f : c = Renewed(plan, early) /\ f = DfiValues(tree, c)
  OBVIOUS
<1>0. /\ Nodes = 1 .. size /\ size \in 1 .. MaxNodes /\ size \in Nat /\ Nodes \subseteq Node
      /\ TreeShape(tree) /\ Ancestry(tree, size)
      /\ idx.latest_mod \in Int /\ r \in Int /\ plan.node = n /\ plan.index = r
  BY NodeAssumption DEF TreeSound, Nodes, IndexTyped, ModsTyped, Planned
<1>1. /\ IndexTyped(c) /\ IsIndex(c)
      /\ \A y \in Nodes : f[y] = v[y] + IF r <= v[y] THEN 1 ELSE 0
      /\ idx.latest_mod >= c.latest_mod => plan.displaced = NULL
      /\ plan.displaced = NULL => c.latest_mod = idx.latest_mod
  BY RenewedFacts
<1>2. f \in [Node -> Int]
  BY <1>0, <1>1, ValuesTyped
<1>3. f[p] \in Int
  BY <1>0, <1>2
<1>4. b = WithNew(c, n, r, idx.latest_mod, f[p])
  BY <1>0 DEF Created, Renewed, WithNew
<1>5. /\ But(b, c, size) /\ IndexTyped(b)
      /\ b.base_index[n] = r /\ b.base_mod[n] = idx.latest_mod /\ b.cached_parent_dfi[n] = f[p]
  <2>1. IndexTyped(c) /\ IsIndex(c)
    BY <1>1
  <2>2. n = size + 1 /\ size < MaxNodes
    OBVIOUS
  <2>3. Added(b, c, size, n, r, idx.latest_mod, f[p])
    BY <1>0, <1>3, <1>4, <2>1, <2>2, WithNewFacts
  <2>. QED  BY <2>3 DEF Added
<1>6. /\ \A y \in 1 .. size : w[y] = f[y]
      /\ w[n] = IF b.base_mod[n] >= b.latest_mod THEN b.base_index[n]
                ELSE b.base_index[n] + f[p] - b.cached_parent_dfi[n]
  BY <1>0, <1>5, HungValues
<1>7. w[n] = r
  BY <1>0, <1>3, <1>5, <1>6
<1>8. MovedUp(w, v, size, n, r)
  BY <1>0, <1>1, <1>6, <1>7 DEF MovedUp
<1>9. w \in [Node -> Int]
  <2>1. TreeShape(Hung(tree, n, p)) /\ Ancestry(Hung(tree, n, p), n) /\ n \in 1 .. MaxNodes
    <3>1. TreeShape(Hung(tree, size + 1, p)) /\ Ancestry(Hung(tree, size + 1, p), size + 1)
      BY <1>0, HungSound
    <3>2. n = size + 1 /\ n \in 1 .. MaxNodes
      BY <1>0, NodeAssumption
    <3>. QED  BY <3>1, <3>2
  <2>2. DfiValues(Hung(tree, n, p), b) \in [Node -> Int]
    BY <1>5, <2>1, ValuesTyped
  <2>. QED  BY <2>2
<1>. QED  BY <1>5, <1>8, <1>9

-----------------------------------------------------------------------------
(* The successor caches *)

\* A cached successor index is at most the number of nodes, and only a last node has
\* that one: postorder_successor_dfi() may answer it without a look at the tree.
IsCache(s) == s = [node |-> s.node, dfi |-> s.dfi]

SuccessorsSound(s, t, k) ==
  /\ IsCache(s)
  /\ s.node \in [Node -> Node \cup {NULL}] /\ s.dfi \in [Node -> Int]
  /\ \A n \in 1 .. k : /\ s.node[n] \in 1 .. k \cup {NULL}
                       /\ s.dfi[n] <= k
                       /\ s.dfi[n] = k => AtEnd(t, k, n)

LEMMA CachedSound ==
  ASSUME NEW t, NEW k \in 1 .. MaxNodes, NEW s, SuccessorsSound(s, t, k), NEW n \in 1 .. k,
         NEW m \in 1 .. k \cup {NULL}, NEW d \in Int, d <= k, d = k => AtEnd(t, k, n),
         NEW c, IsCache(c), c.node = [s.node EXCEPT ![n] = m], c.dfi = [s.dfi EXCEPT ![n] = d]
  PROVE  SuccessorsSound(c, t, k)
<1>0. 1 .. k \subseteq Node /\ k \in Nat
  BY NodeAssumption
<1>1. /\ s.node \in [Node -> Node \cup {NULL}] /\ s.dfi \in [Node -> Int]
      /\ \A x \in 1 .. k : /\ s.node[x] \in 1 .. k \cup {NULL}
                           /\ s.dfi[x] <= k
                           /\ s.dfi[x] = k => AtEnd(t, k, x)
  BY DEF SuccessorsSound
<1>2. c.node \in [Node -> Node \cup {NULL}] /\ c.dfi \in [Node -> Int]
  BY <1>0, <1>1
<1>3. \A x \in 1 .. k : /\ c.node[x] = IF x = n THEN m ELSE s.node[x]
                        /\ c.dfi[x] = IF x = n THEN d ELSE s.dfi[x]
  BY <1>0, <1>1
<1>4. ASSUME NEW x \in 1 .. k
      PROVE  c.node[x] \in 1 .. k \cup {NULL} /\ c.dfi[x] <= k /\ (c.dfi[x] = k => AtEnd(t, k, x))
  BY <1>1, <1>3, <1>4
<1>. QED  BY <1>2, <1>4 DEF SuccessorsSound

\* What postorder_successor_dfi() leaves of the caches.
SuccessorOutcome(c, s, t, v, k, n) ==
  /\ IsCache(c)
  /\ \/ c = s /\ (s.node[n] = NULL => s.dfi[n] = k)
     \/ /\ s.node[n] # NULL
        /\ c.node = s.node /\ c.dfi = [s.dfi EXCEPT ![n] = v[s.node[n]]]
     \/ \E m : /\ m = SuccessorSearch(t, v, n).node
               /\ c.node = [s.node EXCEPT ![n] = m]
               /\ c.dfi = [s.dfi EXCEPT ![n] = IF m = NULL THEN k ELSE v[m]]

LEMMA SuccessorOutcomes ==
  ASSUME NEW t, NEW b, NEW s, NEW k, NEW n, NEW v, v = DfiValues(t, b),
         NEW c, c = PostorderSuccessor(t, b, s, k, n).suc,
         IsCache(s)
  PROVE  SuccessorOutcome(c, s, t, v, k, n)
<1>. PICK old, newdfi, search, current, stillLast, sameGap :
       /\ old = s.node[n] /\ newdfi = IF old = NULL THEN k ELSE v[old]
       /\ search = SuccessorSearch(t, v, n)
       /\ current = (old # NULL /\ b.base_mod[n] = b.latest_mod /\ b.base_mod[old] = b.latest_mod)
       /\ stillLast = (old = NULL /\ s.dfi[n] = k)
       /\ sameGap = (old # NULL /\ b.base_index[n] - v[n] = s.dfi[n] - newdfi)
  OBVIOUS
<1>1. c = IF current \/ stillLast THEN s
          ELSE IF sameGap THEN [s EXCEPT !.dfi[n] = newdfi]
          ELSE [s EXCEPT !.node[n] = search.node,
                         !.dfi[n] = IF search.node = NULL THEN k ELSE v[search.node]]
  BY Zenon DEF PostorderSuccessor
<1>2. CASE current \/ stillLast
  BY <1>1, <1>2 DEF SuccessorOutcome
<1>3. CASE ~(current \/ stillLast) /\ sameGap
  <2>1. c = [s EXCEPT !.dfi[n] = newdfi] /\ old # NULL
    BY <1>1, <1>3
  <2>2. c.node = s.node /\ c.dfi = [s.dfi EXCEPT ![n] = newdfi] /\ newdfi = v[s.node[n]]
    BY <2>1 DEF IsCache
  <2>. QED  BY <2>1, <2>2 DEF SuccessorOutcome, IsCache
<1>4. CASE ~(current \/ stillLast) /\ ~sameGap
  <2>. PICK m, d : m = search.node /\ d = IF m = NULL THEN k ELSE v[m]
    OBVIOUS
  <2>1. c = [s EXCEPT !.node[n] = m, !.dfi[n] = d]
    BY <1>1, <1>4, Zenon
  <2>2. c.node = [s.node EXCEPT ![n] = m] /\ c.dfi = [s.dfi EXCEPT ![n] = d]
    BY <2>1 DEF IsCache
  <2>. QED  BY <2>1, <2>2 DEF SuccessorOutcome, IsCache
<1>. QED  BY <1>2, <1>3, <1>4

LEMMA SuccessorsStaySound ==
  ASSUME NEW t, NEW k \in 1 .. MaxNodes, OneTree(t, k), NEW v, Numbers(v, t, k),
         NEW s, SuccessorsSound(s, t, k), NEW n \in 1 .. k, NEW c,
         SuccessorOutcome(c, s, t, v, k, n)
  PROVE  SuccessorsSound(c, t, k)
<1>0. /\ IsCache(s) /\ s.node \in [Node -> Node \cup {NULL}] /\ n \in Node /\ k \in Nat
      /\ s.node[n] \in 1 .. k \cup {NULL} /\ IsCache(c)
  BY NodeAssumption DEF SuccessorsSound, SuccessorOutcome
<1>1. \A x \in 1 .. k : v[x] \in Int /\ v[x] < k
  BY <1>0 DEF Numbers
<1>2. CASE c = s
  BY <1>2
<1>3. CASE /\ s.node[n] # NULL
           /\ c.node = s.node /\ c.dfi = [s.dfi EXCEPT ![n] = v[s.node[n]]]
  <2>1. c.node = [s.node EXCEPT ![n] = s.node[n]]
    BY <1>0, <1>3
  <2>2. v[s.node[n]] \in Int /\ v[s.node[n]] < k
    BY <1>0, <1>1, <1>3
  <2>3. v[s.node[n]] <= k /\ v[s.node[n]] # k
    BY <1>0, <2>2
  <2>. QED  BY <1>0, <1>3, <2>1, <2>2, <2>3, CachedSound
<1>4. CASE \E m : /\ m = SuccessorSearch(t, v, n).node
                  /\ c.node = [s.node EXCEPT ![n] = m]
                  /\ c.dfi = [s.dfi EXCEPT ![n] = IF m = NULL THEN k ELSE v[m]]
  <2>. PICK m : /\ m = SuccessorSearch(t, v, n).node
                /\ c.node = [s.node EXCEPT ![n] = m]
                /\ c.dfi = [s.dfi EXCEPT ![n] = IF m = NULL THEN k ELSE v[m]]
    BY <1>4
  <2>. PICK d : d = IF m = NULL THEN k ELSE v[m]
    OBVIOUS
  <2>1. IF m = NULL THEN AtEnd(t, k, n) ELSE m \in 1 .. k /\ Follows(v, t, k, n, v[m])
    BY SearchExact
  <2>2. m \in 1 .. k \cup {NULL} /\ d \in Int /\ d <= k /\ (d = k => AtEnd(t, k, n))
    BY <1>0, <1>1, <2>1
  <2>3. c.dfi = [s.dfi EXCEPT ![n] = d]
    OBVIOUS
  <2>. QED  BY <1>0, <2>2, <2>3, CachedSound
<1>. QED  BY <1>2, <1>3, <1>4 DEF SuccessorOutcome

\* With its cached node forgotten, postorder_successor_dfi() of n is exact.
LEMMA ForgottenExact ==
  ASSUME NEW t, NEW k \in 1 .. MaxNodes, OneTree(t, k), NEW v, Numbers(v, t, k),
         NEW s, SuccessorsSound(s, t, k), NEW n \in 1 .. k, s.node[n] = NULL, NEW c,
         SuccessorOutcome(c, s, t, v, k, n)
  PROVE  Follows(v, t, k, n, c.dfi[n])
<1>0. s.dfi \in [Node -> Int] /\ n \in Node
  BY NodeAssumption DEF SuccessorsSound
<1>1. CASE c = s /\ s.dfi[n] = k
  <2>1. AtEnd(t, k, n)
    BY <1>1 DEF SuccessorsSound
  <2>. QED  BY <1>1, <2>1, EndAfter
<1>2. CASE \E m : /\ m = SuccessorSearch(t, v, n).node
                  /\ c.node = [s.node EXCEPT ![n] = m]
                  /\ c.dfi = [s.dfi EXCEPT ![n] = IF m = NULL THEN k ELSE v[m]]
  <2>. PICK m : /\ m = SuccessorSearch(t, v, n).node
                /\ c.dfi = [s.dfi EXCEPT ![n] = IF m = NULL THEN k ELSE v[m]]
    BY <1>2
  <2>1. IF m = NULL THEN AtEnd(t, k, n) ELSE m \in 1 .. k /\ Follows(v, t, k, n, v[m])
    BY SearchExact
  <2>2. c.dfi[n] = IF m = NULL THEN k ELSE v[m]
    BY <1>0
  <2>. QED  BY <2>1, <2>2, EndAfter
<1>. QED  BY <1>1, <1>2 DEF SuccessorOutcome

-----------------------------------------------------------------------------
(* What insert() looks up is what it needs. *)

\* get_node finds the node of a number.
LEMMA NodeAtExact ==
  ASSUME OneTree(tree, size), size \in 1 .. MaxNodes, NEW v, Numbers(v, tree, size),
         NEW table, Sound(table, Nodes), Sorted(table, Nodes, v), NEW i \in 0 .. size,
         NEW y, y = NodeAt(table, v, i)
  PROVE  IF i = size THEN y = NULL ELSE y \in Nodes /\ v[y] = i
<1>. PICK path, hit : /\ path = SearchPath(table, v, i)
                      /\ hit = {x \in Nodes : path # <<>> /\ x = path[Len(path)] /\ v[x] = i}
  OBVIOUS
<1>1. y = IF hit = {} THEN NULL ELSE CHOOSE x \in hit : TRUE
  BY DEF NodeAt
<1>2. Nodes = 1 .. size /\ \A x \in Nodes : v[x] \in 0 .. size - 1
  BY DEF Nodes, Numbers
<1>3. CASE i = size
  <2>1. hit = {}
    BY <1>2, <1>3
  <2>. QED  BY <1>1, <1>3, <2>1
<1>4. CASE i # size
  <2>1. PICK x \in Nodes : v[x] = i
    <3>1. i \in 0 .. size - 1
      BY <1>4
    <3>. QED  BY <1>2, <3>1 DEF Numbers
  <2>2. \A m \in Nodes : v[m] = v[x] => m = x
    BY <1>2, <2>1, NumbersTell
  <2>3. path = SearchPath(table, v, v[x])
    BY <2>1
  <2>4. path # <<>> /\ path[Len(path)] = x
    BY <2>2, <2>3, SearchFinds
  <2>5. x \in hit
    BY <2>1, <2>4
  <2>6. y \in hit
    BY <1>1, <2>5
  <2>. QED  BY <1>4, <2>6
<1>. QED  BY <1>3, <1>4

\* r is the number a child behind the first pos of p must take; what it displaces is the
\* next child, if there is one.
Aimed(v, p, pos, r) ==
  /\ FitsAt(v, tree, size, p, pos, r)
  /\ pos < Len(tree.children[p]) => /\ tree.children[p][pos + 1] \in Nodes
                                    /\ v[tree.children[p][pos + 1]] = r

\* The cached successor of n is forgotten, and the caches are sound.
Forgotten(c, t, k, n) == SuccessorsSound(c, t, k) /\ c.node[n] = NULL /\ IsCache(c)

LEMMA Forgets ==
  ASSUME NEW t, NEW k \in 1 .. MaxNodes, NEW s, SuccessorsSound(s, t, k), NEW n \in 1 .. k,
         NEW c, c = [s EXCEPT !.node[n] = NULL]
  PROVE  Forgotten(c, t, k, n)
<1>1. /\ IsCache(s) /\ s.node \in [Node -> Node \cup {NULL}] /\ s.dfi \in [Node -> Int]
      /\ s.dfi[n] <= k /\ (s.dfi[n] = k => AtEnd(t, k, n)) /\ n \in Node
  BY NodeAssumption DEF SuccessorsSound
<1>2. IsCache(c) /\ c.node = [s.node EXCEPT ![n] = NULL] /\ c.dfi = [s.dfi EXCEPT ![n] = s.dfi[n]]
  BY <1>1 DEF IsCache
<1>3. s.dfi[n] \in Int /\ NULL \in 1 .. k \cup {NULL} /\ c.node[n] = NULL
  BY <1>1, <1>2
<1>4. \A x \in 1 .. k : /\ s.node[x] \in 1 .. k \cup {NULL}
                       /\ s.dfi[x] <= k
                       /\ s.dfi[x] = k => AtEnd(t, k, x)
  BY DEF SuccessorsSound
<1>5. /\ c.node \in [Node -> Node \cup {NULL}] /\ c.dfi = s.dfi
      /\ \A x \in 1 .. k : c.node[x] = IF x = n THEN NULL ELSE s.node[x]
  BY <1>1, <1>2, NodeAssumption
<1>6. SuccessorsSound(c, t, k)
  BY <1>1, <1>2, <1>4, <1>5 DEF SuccessorsSound
<1>. QED  BY <1>2, <1>3, <1>6 DEF Forgotten

LEMMA TargetExact ==
  ASSUME OneTree(tree, size), size \in 1 .. MaxNodes, NEW v, v = DfiValues(tree, idx),
         Numbers(v, tree, size), SuccessorsSound(suc, tree, size), NEW p \in Nodes,
         NEW pos \in 0 .. Len(tree.children[p])
  PROVE  /\ Aimed(v, p, pos, Target(p, pos).index)
         /\ SuccessorsSound(Target(p, pos).suc, tree, size)
<1>. PICK kids, L : kids = tree.children[p] /\ L = Len(kids)
  OBVIOUS
<1>0. Nodes = 1 .. size /\ p \in 1 .. size /\ p \in Node /\ L \in Nat /\ pos \in 0 .. L
  <2>1. Nodes = 1 .. size /\ p \in Node
    BY NodeAssumption DEF Nodes
  <2>2. kids \in Seq(1 .. size)
    BY <2>1 DEF OneTree, ChildLists
  <2>. QED  BY <2>1, <2>2
<1>1. ASSUME pos < L  PROVE  kids[pos + 1] \in Nodes /\ FitsAt(v, tree, size, p, pos, v[kids[pos + 1]])
  BY <1>0, <1>1, SiblingFits
<1>2. CASE kids # <<>> /\ pos = L
  <2>. PICK s, c : /\ s = [suc EXCEPT !.node[p] = NULL]
                   /\ c = PostorderSuccessor(tree, idx, s, size, p).suc
    OBVIOUS
  <2>1. Target(p, pos).index = c.dfi[p] /\ Target(p, pos).suc = c
    BY <1>2 DEF Target
  <2>2. SuccessorsSound(s, tree, size) /\ s.node[p] = NULL /\ IsCache(s)
    <3>1. Forgotten(s, tree, size, p)
      BY <1>0, Forgets
    <3>. QED  BY <3>1 DEF Forgotten
  <2>6. SuccessorOutcome(c, s, tree, v, size, p)
    BY <2>2, SuccessorOutcomes
  <2>7. SuccessorsSound(c, tree, size)
    BY <1>0, <2>2, <2>6, SuccessorsStaySound
  <2>8. Follows(v, tree, size, p, c.dfi[p])
    BY <1>0, <2>2, <2>6, ForgottenExact
  <2>9. FitsAt(v, tree, size, p, L, c.dfi[p])
    BY <1>0, <2>8, LastFits
  <2>. QED  BY <1>0, <1>2, <2>1, <2>7, <2>9 DEF Aimed
<1>3. CASE ~(kids # <<>> /\ pos = L)
  <2>1. Target(p, pos).suc = suc /\ Target(p, pos).index = IF pos = 0 THEN v[p] + 1 ELSE v[kids[pos + 1]]
    BY <1>3 DEF Target
  <2>2. CASE pos = 0
    <3>1. FitsAt(v, tree, size, p, 0, v[p] + 1) /\ (L > 0 => v[kids[1]] = v[p] + 1)
      BY <1>0, FirstFits
    <3>. QED  BY <1>0, <1>1, <2>1, <2>2, <3>1 DEF Aimed
  <2>3. CASE pos # 0
    <3>1. pos < L
      <4>1. L # 0 => kids # <<>>
        OBVIOUS
      <4>. QED  BY <1>0, <1>3, <2>3, <4>1
    <3>. QED  BY <1>1, <2>1, <2>3, <3>1 DEF Aimed
  <2>. QED  BY <2>2, <2>3
<1>. QED  BY <1>2, <1>3

\* The plan of an insertion.
PlanSound(plan, v, p, pos, r) ==
  /\ Planned(plan, v, size + 1, r) /\ Aimed(v, p, pos, r)
  /\ plan.tree = Hung(tree, size + 1, p) /\ plan.val = v /\ plan.target = r
  /\ SuccessorsSound(plan.suc, tree, size)

LEMMA PlanExact ==
  ASSUME OneTree(tree, size), size \in 1 .. MaxNodes, NEW v, v = DfiValues(tree, idx),
         Numbers(v, tree, size), SuccessorsSound(suc, tree, size),
         Sound(tbl, Nodes), Sorted(tbl, Nodes, v), NEW p \in Nodes,
         NEW pos \in 0 .. Len(tree.children[p])
  PROVE  \E r : PlanSound(Plan(p, pos), v, p, pos, r)
<1>. PICK plan, target, r : plan = Plan(p, pos) /\ target = Target(p, pos) /\ r = target.index
  OBVIOUS
<1>1. Aimed(v, p, pos, r) /\ SuccessorsSound(target.suc, tree, size)
  BY TargetExact
<1>2. r \in 0 .. size
  BY <1>1 DEF Aimed, FitsAt
<1>. PICK sibling : sibling = IF pos < Len(tree.children[p]) THEN tree.children[p][pos + 1] ELSE NULL
  OBVIOUS
<1>3. /\ plan.node = size + 1 /\ plan.tree = Hung(tree, size + 1, p) /\ plan.val = v
      /\ plan.target = r /\ plan.suc = target.suc
      /\ plan.displaced = IF sibling # NULL THEN sibling ELSE NodeAt(tbl, v, r)
      /\ plan.index = IF plan.displaced # NULL /\ r # size THEN v[plan.displaced] ELSE r
  BY DEF Plan, PlanAt, Hung
<1>4. sibling # NULL => sibling \in Nodes /\ v[sibling] = r
  BY <1>1 DEF Aimed
<1>. PICK y : y = NodeAt(tbl, v, r)
  OBVIOUS
<1>5. IF r = size THEN y = NULL ELSE y \in Nodes /\ v[y] = r
  BY <1>2, NodeAtExact
<1>6. Nodes = 1 .. size /\ NULL \notin Nodes
  BY NodeAssumption, NullAssumption DEF Nodes
<1>7. \A x \in Nodes : v[x] # size
  BY <1>6 DEF Numbers
<1>8. plan.displaced \in Nodes \cup {NULL} /\ (plan.displaced # NULL => v[plan.displaced] = r)
      /\ (plan.displaced = NULL => r = size)
  <2>. PICK d : d = plan.displaced
    OBVIOUS
  <2>1. d = IF sibling # NULL THEN sibling ELSE y
    BY <1>3, Zenon
  <2>2. d \in Nodes \cup {NULL} /\ (d # NULL => v[d] = r) /\ (d = NULL => r = size)
    BY <1>4, <1>5, <1>6, <2>1
  <2>. QED  BY <2>2
<1>9. plan.index = r
  BY <1>3, <1>8
<1>10. Planned(plan, v, size + 1, r)
  BY <1>2, <1>3, <1>8, <1>9 DEF Planned
<1>. QED  BY <1>1, <1>3, <1>10 DEF PlanSound

\* The tree that insert() makes.
LEMMA GrownTree ==
  ASSUME NEW t, NEW k \in 1 .. MaxNodes, k < MaxNodes, OneTree(t, k), NEW p \in 1 .. k,
         NEW pos \in 0 .. Len(t.children[p]), NEW n, n = k + 1,
         NEW g, g = Grown(t, n, p, pos)
  PROVE  Grows(g, t, k, p, pos, n) /\ OneTree(g, n)
<1>0. /\ k \in Nat /\ n \in Node /\ 1 .. k \subseteq Node /\ n \notin 1 .. k /\ p \in Node
      /\ TreeShape(t) /\ Ancestry(t, k) /\ ChildLists(t, k)
  BY NodeAssumption DEF OneTree
<1>1. TreeShape(g) /\ Ancestry(g, n) /\ ChildLists(g, n)
  <2>1. /\ TreeShape(Grown(t, k + 1, p, pos)) /\ Ancestry(Grown(t, k + 1, p, pos), k + 1)
        /\ ChildLists(Grown(t, k + 1, p, pos), k + 1)
    BY <1>0, TreeGrownSound
  <2>. QED  BY <2>1
<1>2. /\ g.parent = [t.parent EXCEPT ![n] = p]
      /\ g.above = [t.above EXCEPT ![n] = t.above[p] \cup {p}]
      /\ g.children = [t.children EXCEPT ![p] = InsertAt(@, pos + 1, n)]
  BY DEF Grown, Hung
<1>3. t.parent \in [Node -> Node \cup {NULL}] /\ t.above \in [Node -> SUBSET Node]
      /\ t.children \in [Node -> Seq(Node)]
  BY <1>0 DEF TreeShape
<1>4. /\ g.above[n] = t.above[p] \cup {p}
      /\ \A m \in 1 .. k : g.above[m] = t.above[m] /\ g.parent[m] = t.parent[m]
  BY <1>0, <1>2, <1>3
<1>5. IsGrown(t.children[p], g.children[p], n, pos + 1, 1 .. n)
  <2>. PICK s : s = t.children[p]
    OBVIOUS
  <2>1. s \in Seq(1 .. k)
    BY <1>0 DEF ChildLists
  <2>2. s \in Seq(1 .. n)
    BY <1>0, <2>1
  <2>3. pos + 1 \in 1 .. Len(s) + 1 /\ n \in 1 .. n
    BY <1>0, <2>1
  <2>4. IsGrown(s, InsertAt(s, pos + 1, n), n, pos + 1, 1 .. n)
    BY <2>2, <2>3, InsertAtFacts
  <2>5. g.children[p] = InsertAt(s, pos + 1, n)
    BY <1>0, <1>2, <1>3
  <2>. QED  BY <2>4, <2>5
<1>6. \A q \in Node : q # p => g.children[q] = t.children[q]
  BY <1>2, <1>3
<1>7. Grows(g, t, k, p, pos, n)
  BY <1>4, <1>5, <1>6 DEF Grows
<1>8. g.parent[1] = NULL
  <2>1. 1 \in 1 .. k /\ t.parent[1] = NULL
    BY <1>0 DEF OneTree
  <2>. QED  BY <1>4, <2>1
<1>9. ASSUME NEW m \in 2 .. n  PROVE 1 \in g.above[m]
  <2>1. CASE m = n
    <3>1. p = 1 \/ 1 \in t.above[p]
      BY <1>0 DEF OneTree
    <3>. QED  BY <1>4, <2>1, <3>1
  <2>2. CASE m # n
    <3>1. m \in 1 .. k /\ 1 \in t.above[m]
      BY <1>0, <2>2 DEF OneTree
    <3>. QED  BY <1>4, <3>1
  <2>. QED  BY <2>1, <2>2
<1>. QED  BY <1>1, <1>7, <1>8, <1>9 DEF OneTree

\* The depth-first index says what it should: the numbers are the document order, the
\* caches of the successors and the table agree with them.
Exact(t, k, b, s, table) ==
  /\ OneTree(t, k) /\ IndexTyped(b)
  /\ Numbers(DfiValues(t, b), t, k)
  /\ SuccessorsSound(s, t, k)
  /\ Sound(table, 1 .. k) /\ Sorted(table, 1 .. k, DfiValues(t, b))

IntOn(v, M) == \A y \in M : v[y] \in Int

\* No node of M has the number r.
Free(w, M, r) == \A y \in M : w[y] # r

\* The nodes of a numbering that is moved up stay in their order, and r is free for the
\* new one.
LEMMA MovedAlike ==
  ASSUME NEW k, NEW v, IntOn(v, 1 .. k), NEW n, NEW r \in Int, NEW w,
         MovedUp(w, v, k, n, r)
  PROVE  Alike(v, w, 1 .. k) /\ Free(w, 1 .. k, r)
<1>1. \A y \in 1 .. k : w[y] = v[y] + IF r <= v[y] THEN 1 ELSE 0
  BY DEF MovedUp
<1>2. \A a, b \in 1 .. k : v[a] < v[b] <=> w[a] < w[b]
  <2>. TAKE a, b \in 1 .. k
  <2>1. v[a] \in Int /\ v[b] \in Int /\ w[a] = v[a] + (IF r <= v[a] THEN 1 ELSE 0)
        /\ w[b] = v[b] + (IF r <= v[b] THEN 1 ELSE 0)
    BY <1>1 DEF IntOn
  <2>. QED  BY <2>1
<1>3. \A y \in 1 .. k : w[y] # r
  <2>. TAKE y \in 1 .. k
  <2>1. v[y] \in Int /\ w[y] = v[y] + (IF r <= v[y] THEN 1 ELSE 0)
    BY <1>1 DEF IntOn
  <2>. QED  BY <2>1
<1>. QED  BY <1>2, <1>3 DEF Alike, Free

\* A table follows an insertion: its keys move, and the new node is added or not.
TableMoved(table, M, w, n) ==
  /\ Sorted(table, M, w)
  /\ Sound(Probe(table, w, n), M \cup {n}) /\ Sorted(Probe(table, w, n), M \cup {n}, w)

LEMMA TableFollows ==
  ASSUME NEW k \in 1 .. MaxNodes, k < MaxNodes, NEW v, IntOn(v, 1 .. k),
         NEW n, n = k + 1, NEW r \in Int, NEW w \in [Node -> Int], MovedUp(w, v, k, n, r),
         NEW table, NEW M, M \subseteq 1 .. k, Sound(table, M), Sorted(table, M, v)
  PROVE  TableMoved(table, M, w, n)
<1>1. Alike(v, w, 1 .. k) /\ Free(w, 1 .. k, r)
  BY MovedAlike
<1>2. Alike(v, w, M)
  BY <1>1 DEF Alike
<1>3. Sorted(table, M, w)
  BY <1>2, SortedRekeyed
<1>4. w[n] = r /\ n \in Node \ M
  BY NodeAssumption DEF MovedUp
<1>5. \A m \in M : w[m] # w[n]
  BY <1>1, <1>4 DEF Free
<1>. QED  BY <1>3, <1>4, <1>5, ProbeAdds DEF TableMoved

\* To insert the new node a second time changes nothing.
LEMMA TabledOnce ==
  ASSUME NEW table, NEW M, NEW w, NEW n, TableMoved(table, M, w, n), NEW moved
  PROVE  Tabled(table, w, n, moved) = Probe(table, w, n)
<1>. PICK t : t = Probe(table, w, n)
  OBVIOUS
<1>1. Sound(t, M \cup {n}) /\ Sorted(t, M \cup {n}, w)
  BY DEF TableMoved
<1>2. Probe(t, w, n) = t
  BY <1>1, ProbeAgain
<1>. QED  BY <1>2 DEF Tabled

\* What insert() caches as the successor index of the new node n: the displaced node's, or
\* the number of nodes.
LastOf(d, w, n) == IF d # NULL THEN w[d] ELSE n

EndOf(d, w, k, n) == d = NULL => w[n] = k

CacheWith(c, s, n, d, last) ==
  IsCache(c) /\ c.node = [s.node EXCEPT ![n] = d] /\ c.dfi = [s.dfi EXCEPT ![n] = last]

\* The caches of the successors after the insertion of n: its own is the displaced node.
LEMMA GrownSuccessors ==
  ASSUME NEW t, NEW k \in 1 .. MaxNodes, k < MaxNodes, OneTree(t, k), NEW n, n = k + 1,
         NEW g, OneTree(g, n), NEW w, Numbers(w, g, n), NEW s, SuccessorsSound(s, t, k),
         NEW d \in 1 .. k \cup {NULL}, EndOf(d, w, k, n), NEW c,
         CacheWith(c, s, n, d, LastOf(d, w, n))
  PROVE  SuccessorsSound(c, g, n)
<1>. PICK last : last = LastOf(d, w, n)
  OBVIOUS
<1>a. last = IF d # NULL THEN w[d] ELSE n
  BY DEF LastOf
<1>b. d = NULL => w[n] = k
  BY DEF EndOf
<1>c. /\ IsCache(c) /\ c.node = [s.node EXCEPT ![n] = d]
      /\ c.dfi = [s.dfi EXCEPT ![n] = last]
  BY DEF CacheWith
<1>0. /\ k \in Nat /\ n \in Node /\ 1 .. k \subseteq Node /\ n \notin 1 .. k /\ NULL \notin Node
      /\ 1 .. n \subseteq Node /\ n \in 1 .. MaxNodes
  BY NodeAssumption, NullAssumption
<1>1. /\ s.node \in [Node -> Node \cup {NULL}] /\ s.dfi \in [Node -> Int]
      /\ \A x \in 1 .. k : s.node[x] \in 1 .. k \cup {NULL} /\ s.dfi[x] <= k
  BY DEF SuccessorsSound
<1>2. \A x \in 1 .. n : w[x] \in 0 .. n - 1
  BY DEF Numbers
<1>3. last \in Int /\ last <= n /\ (last = n => AtEnd(g, n, n))
  <2>1. CASE d # NULL
    <3>1. w[d] \in 0 .. n - 1
      BY <1>0, <1>2, <2>1
    <3>. QED  BY <1>0, <1>a, <2>1, <3>1
  <2>2. CASE d = NULL
    <3>1. \A z \in 1 .. n : ~LeftOf(g, n, z)
      <4>. SUFFICES ASSUME NEW z \in 1 .. n, LeftOf(g, n, z)  PROVE FALSE
        OBVIOUS
      <4>1. Precedes(g, n, z)
        BY DEF Precedes
      <4>2. w[n] < w[z]
        BY <1>0, <4>1 DEF Numbers
      <4>. QED  BY <1>0, <1>2, <1>b, <2>2, <4>2
    <3>2. AtEnd(g, n, n)
      BY <1>0, <3>1, EndIsLast
    <3>. QED  BY <1>0, <1>a, <2>2, <3>2
  <2>. QED  BY <2>1, <2>2
<1>4. c.node \in [Node -> Node \cup {NULL}] /\ c.dfi \in [Node -> Int]
  BY <1>0, <1>1, <1>3, <1>c
<1>5. \A x \in 1 .. n : /\ c.node[x] = IF x = n THEN d ELSE s.node[x]
                        /\ c.dfi[x] = IF x = n THEN last ELSE s.dfi[x]
  BY <1>0, <1>1, <1>c
<1>6. ASSUME NEW x \in 1 .. n
      PROVE  c.node[x] \in 1 .. n \cup {NULL} /\ c.dfi[x] <= n /\ (c.dfi[x] = n => AtEnd(g, n, x))
  <2>1. CASE x = n
    BY <1>0, <1>3, <1>5, <2>1
  <2>2. CASE x # n
    <3>1. x \in 1 .. k
      BY <1>0, <2>2
    <3>2. s.node[x] \in 1 .. k \cup {NULL} /\ s.dfi[x] <= k /\ s.dfi[x] \in Int
      BY <1>0, <1>1, <3>1
    <3>. QED  BY <1>0, <1>5, <2>2, <3>2
  <2>. QED  BY <2>1, <2>2
<1>. QED  BY <1>4, <1>6, <1>c DEF SuccessorsSound

\* What an insertion makes of the index.
GrownExact(v, w, p, pos, n, b, plan, r) ==
  /\ n = size + 1 /\ w = DfiValues(plan.tree, b)
  /\ MovedUp(w, v, size, n, r) /\ w \in [Node -> Int] /\ IndexTyped(b)
  /\ Numbers(w, Grown(tree, n, p, pos), n)
  /\ Grows(Grown(tree, n, p, pos), tree, size, p, pos, n)
  /\ OneTree(Grown(tree, n, p, pos), n)
  /\ plan.displaced # NULL => w[plan.displaced] = r + 1
  /\ plan.displaced = NULL => r = size

LEMMA GrowthExact ==
  ASSUME TreeSound, OneTree(tree, size), size < MaxNodes, IndexTyped(idx), NEW v,
         v = DfiValues(tree, idx), Numbers(v, tree, size), UpToDate(tree, size, idx, v),
         NEW p \in Nodes, NEW pos \in 0 .. Len(tree.children[p]), NEW n, n = size + 1,
         NEW plan, NEW r, PlanSound(plan, v, p, pos, r), NEW early, NEW b, b = Created(p, plan, early),
         NEW w, w = DfiValues(plan.tree, b)
  PROVE  GrownExact(v, w, p, pos, n, b, plan, r)
<1>0. /\ Nodes = 1 .. size /\ size \in 1 .. MaxNodes /\ size \in Nat /\ Nodes \subseteq Node
  BY NodeAssumption DEF TreeSound, Nodes
<1>1. Planned(plan, v, n, r) /\ plan.tree = Hung(tree, n, p) /\ Aimed(v, p, pos, r)
  BY DEF PlanSound
<1>2. MovedUp(w, v, size, n, r) /\ IndexTyped(b) /\ w \in [Node -> Int]
  <2>1. w = DfiValues(Hung(tree, n, p), b)
    BY <1>1
  <2>. QED  BY <1>1, <2>1, CreatedNumbers
<1>. PICK g : g = Grown(tree, n, p, pos)
  OBVIOUS
<1>3. Grows(g, tree, size, p, pos, n) /\ OneTree(g, n)
  BY <1>0, GrownTree
<1>4. Numbers(w, g, n)
  <2>1. FitsAt(v, tree, size, p, pos, r)
    BY <1>1 DEF Aimed
  <2>. QED  BY <1>0, <1>2, <1>3, <2>1, GrowthNumbers
<1>5. plan.displaced # NULL => w[plan.displaced] = r + 1
  <2>. PICK d : d = plan.displaced
    OBVIOUS
  <2>1. d # NULL => d \in Nodes /\ v[d] = r /\ r \in 0 .. size
    BY <1>1 DEF Planned
  <2>2. d # NULL => w[d] = v[d] + IF r <= v[d] THEN 1 ELSE 0
    BY <1>0, <1>2, <2>1 DEF MovedUp
  <2>. QED  BY <1>0, <2>1, <2>2
<1>6. plan.displaced = NULL => r = size
  BY <1>1 DEF Planned
<1>. QED  BY <1>2, <1>3, <1>4, <1>5, <1>6 DEF GrownExact

\* None of the assertions about the index fails.
LEMMA NoAssertFails ==
  ASSUME TreeSound, NEW v, Numbers(v, tree, size), NEW w, NEW p \in Nodes, NEW pos, NEW n,
         n = size + 1, NEW b, NEW plan, NEW r, PlanSound(plan, v, p, pos, r),
         GrownExact(v, w, p, pos, n, b, plan, r)
  PROVE  FailedAsserts(p, pos, plan, w, LastOf(plan.displaced, w, n)) = {}
<1>. PICK last : last = LastOf(plan.displaced, w, n)
  OBVIOUS
<1>0. /\ last = IF plan.displaced # NULL THEN w[plan.displaced] ELSE size + 1
      /\ \A y \in Nodes : v[y] # size
      /\ NULL \notin Nodes /\ size \in Nat /\ tree.children[p] \in Seq(Nodes)
  BY NodeAssumption, NullAssumption DEF LastOf, TreeSound, Nodes, ChildLists, Numbers
<1>1. /\ plan.node = n /\ plan.index = r /\ r \in 0 .. size /\ plan.target = r /\ plan.val = v
      /\ plan.displaced \in Nodes \cup {NULL}
      /\ plan.displaced # NULL => v[plan.displaced] = r
      /\ plan.displaced = NULL => r = size
      /\ pos < Len(tree.children[p]) => v[tree.children[p][pos + 1]] = r
  BY DEF PlanSound, Planned, Aimed
<1>2. w[n] = r /\ (plan.displaced # NULL => w[plan.displaced] = r + 1)
  BY DEF GrownExact, MovedUp
<1>. PICK d : d = plan.displaced
  OBVIOUS
<1>3. ~(pos = 0 /\ tree.children[p] # <<>> /\ plan.target # plan.val[tree.children[p][1]])
  <2>. SUFFICES ASSUME pos = 0, tree.children[p] # <<>>  PROVE plan.target = plan.val[tree.children[p][1]]
    OBVIOUS
  <2>1. Len(tree.children[p]) # 0 /\ Len(tree.children[p]) \in Nat
    BY <1>0
  <2>2. pos < Len(tree.children[p]) /\ pos + 1 = 1
    BY <2>1
  <2>. QED  BY <1>1, <2>2
<1>4. ~(plan.target = size /\ plan.displaced # NULL)
  <2>1. d # NULL => d \in Nodes /\ v[d] = r
    BY <1>1
  <2>2. d # NULL => r # size
    BY <1>0, <2>1
  <2>. QED  BY <1>1, <2>2
<1>5. ~(plan.displaced = NULL /\ plan.index # size)
  BY <1>1
<1>6. plan.index \in 0 .. size + 1
  BY <1>0, <1>1
<1>7. ~(last < w[plan.node])
  <2>1. w[plan.node] = r /\ r \in Int /\ r <= size
    BY <1>0, <1>1, <1>2
  <2>2. last = IF d # NULL THEN r + 1 ELSE size + 1
    BY <1>0, <1>2
  <2>. QED  BY <1>0, <2>1, <2>2
<1>. QED  BY <1>3, <1>4, <1>5, <1>6, <1>7 DEF FailedAsserts

-----------------------------------------------------------------------------
(* The steps of an index that says what it should *)

\* The index after an insertion: t, b, s and table say what they should, and dfi() returns w.
Follow(t, b, s, table, v, w, r, n) ==
  /\ Exact(t, n, b, s, table) /\ DfiValues(t, b) = w
  /\ w \in [Node -> Int] /\ MovedUp(w, v, size, n, r)

NewCaches(plan, w, n) ==
  [plan.suc EXCEPT !.node[n] = plan.displaced, !.dfi[n] = LastOf(plan.displaced, w, n)]

LEMMA FollowsInsertion ==
  ASSUME TreeSound, Exact(tree, size, idx, suc, tbl), size < MaxNodes, NEW v,
         v = DfiValues(tree, idx), NEW p, NEW pos, NEW plan, NEW r,
         PlanSound(plan, v, p, pos, r), p \in Nodes, pos \in 0 .. Len(tree.children[p]), NEW n,
         NEW b, NEW w, GrownExact(v, w, p, pos, n, b, plan, r), NEW reads
  PROVE  Follow(Grown(tree, n, p, pos), Refresh(plan.tree, b, reads), NewCaches(plan, w, n),
                Probe(tbl, w, n), v, w, r, n)
<1>p. PICK g, h, c, d, q, s : /\ g = Grown(tree, n, p, pos) /\ h = plan.tree
                          /\ c = Refresh(h, b, reads) /\ d = plan.displaced /\ q = plan.suc
                          /\ s = NewCaches(plan, w, n)
  OBVIOUS
<1>a. n = size + 1 /\ w = DfiValues(plan.tree, b)
  BY DEF GrownExact
<1>0. /\ Nodes = 1 .. size /\ size \in 1 .. MaxNodes /\ size \in Nat /\ Nodes \subseteq Node
      /\ n \in 1 .. MaxNodes /\ n \in Node /\ 1 .. n = Nodes \cup {n}
  BY <1>a, NodeAssumption DEF TreeSound, Nodes
<1>1. /\ MovedUp(w, v, size, n, r) /\ w \in [Node -> Int] /\ IndexTyped(b)
      /\ Numbers(w, g, n) /\ OneTree(g, n)
      /\ d = NULL => r = size
  BY <1>p DEF GrownExact
<1>2. h = Hung(tree, n, p) /\ d \in 1 .. size \cup {NULL} /\ r \in Int
      /\ SuccessorsSound(q, tree, size)
  BY <1>0, <1>a, <1>p DEF PlanSound, Planned
<1>3. TreeShape(h) /\ Ancestry(h, n)
  <2>1. TreeShape(Hung(tree, size + 1, p)) /\ Ancestry(Hung(tree, size + 1, p), size + 1)
    BY <1>0, HungSound DEF TreeSound
  <2>. QED  BY <1>2, <1>a, <2>1
<1>4. g.parent = h.parent
  BY <1>2, <1>p DEF Grown
<1>5. IndexTyped(c)
  BY <1>0, <1>1, <1>3, <1>p, RefreshTyped
<1>6. DfiValues(h, c) = w
  <2>1. ModsTyped(b)
    BY <1>1 DEF IndexTyped
  <2>2. DfiValues(h, Refresh(h, b, reads)) = DfiValues(h, b)
    BY <1>0, <1>3, <2>1, RefreshValues
  <2>. QED  BY <1>a, <1>p, <2>2
<1>7. DfiValues(g, c) = w
  <2>1. TreeShape(g) /\ Ancestry(g, n)
    BY <1>1 DEF OneTree
  <2>2. DfiValues(h, c) = DfiValues(g, c)
    BY <1>0, <1>3, <1>4, <2>1, ValuesByParent
  <2>. QED  BY <1>6, <2>2
<1>8. SuccessorsSound(s, g, n)
  <2>1. IsCache(q)
    BY <1>2 DEF SuccessorsSound
  <2>2. CacheWith(s, q, n, d, LastOf(d, w, n))
    BY <1>p, <2>1 DEF CacheWith, IsCache, NewCaches
  <2>3. OneTree(tree, size)
    BY DEF Exact
  <2>4. EndOf(d, w, size, n)
    BY <1>1 DEF MovedUp, EndOf
  <2>. QED  BY <1>0, <1>1, <1>2, <2>2, <2>3, <2>4, <1>a, GrownSuccessors
<1>9. Sound(Probe(tbl, w, n), 1 .. n) /\ Sorted(Probe(tbl, w, n), 1 .. n, w)
  <2>1. IntOn(v, 1 .. size)
    BY <1>0 DEF Exact, Numbers, IntOn
  <2>2. Sound(tbl, 1 .. size) /\ Sorted(tbl, 1 .. size, v)
    BY DEF Exact
  <2>3. /\ Sound(Probe(tbl, w, n), 1 .. size \cup {n})
        /\ Sorted(Probe(tbl, w, n), 1 .. size \cup {n}, w)
    <3>1. TableMoved(tbl, 1 .. size, w, n)
      BY <1>0, <1>1, <1>2, <1>a, <2>1, <2>2, TableFollows
    <3>. QED  BY <3>1 DEF TableMoved
  <2>4. 1 .. size \cup {n} = 1 .. n
    BY <1>0, <1>a
  <2>. QED  BY <2>3, <2>4
<1>10. Exact(g, n, c, s, Probe(tbl, w, n))
  BY <1>1, <1>5, <1>7, <1>8, <1>9 DEF Exact
<1>. QED  BY <1>1, <1>7, <1>10, <1>p DEF Follow

\* insert() fails in an assertion about the type index, or follows its plan.
InsertedExact(v, w) ==
  \/ fault' = 150 /\ UNCHANGED <<tree, size, idx, suc, tbl>>
  \/ /\ fault' = fault /\ size' = size + 1
     /\ \E r \in Int : Follow(tree', idx', suc', tbl', v, w, r, size')

\* What dfi() would return for each node as soon as the new one is created.
ValuesAfter(w, p, pos, early) ==
  w = DfiValues(Plan(p, pos).tree, Created(p, Plan(p, pos), early))

\* An insertion carries out its plan: n is the new node, r its number, b the index when it
\* is created, and reads the nodes whose dfi() runs after that.
InsertedBy(plan, n, r, b, reads, v, w, p, pos) ==
  /\ PlanSound(plan, v, p, pos, r) /\ GrownExact(v, w, p, pos, n, b, plan, r)
  /\ \/ fault' = 150 /\ UNCHANGED <<tree, size, idx, suc, tbl>>
     \/ /\ fault' = fault /\ size' = n
        /\ tree' = Grown(tree, n, p, pos)
        /\ idx' = Refresh(plan.tree, b, reads)
        /\ suc' = NewCaches(plan, w, n)
        /\ tbl' = Probe(tbl, w, n)

LEMMA InsertNodeBy ==
  ASSUME IInv, Exact(tree, size, idx, suc, tbl), NEW v, v = DfiValues(tree, idx),
         UpToDate(tree, size, idx, v), NEW p \in Nodes, NEW pos, NEW early, NEW late,
         NEW failed \in SUBSET {150}, CanInsert(p, pos), InsertNode(p, pos, early, late, failed),
         NEW w, ValuesAfter(w, p, pos, early)
  PROVE  \E plan, n, r, b, reads :
           /\ plan = Plan(p, pos) /\ b = Created(p, plan, early) /\ n \in reads
           /\ InsertedBy(plan, n, r, b, reads, v, w, p, pos)
<1>p. PICK plan, b, n, last :
       /\ plan = Plan(p, pos) /\ b = Created(p, plan, early) /\ n = plan.node
       /\ last = LastOf(plan.displaced, w, n)
  OBVIOUS
<1>0. /\ size < MaxNodes /\ pos \in 0 .. Len(tree.children[p]) /\ TreeSound
      /\ size \in 1 .. MaxNodes /\ size \in Nat /\ Nodes = 1 .. size
      /\ OneTree(tree, size) /\ IndexTyped(idx) /\ Numbers(v, tree, size)
      /\ SuccessorsSound(suc, tree, size) /\ Sound(tbl, Nodes) /\ Sorted(tbl, Nodes, v)
  BY DEF CanInsert, IInv, TreeSound, Nodes, Exact
<1>1. PICK r : PlanSound(plan, v, p, pos, r)
  BY <1>0, <1>p, PlanExact
<1>2. /\ n = size + 1 /\ plan.tree = Hung(tree, n, p) /\ r \in Int /\ plan.node = size + 1
  BY <1>0, <1>1, <1>p DEF PlanSound, Planned
<1>3. w = DfiValues(plan.tree, b) /\ b = Created(p, plan, early)
  BY <1>p DEF ValuesAfter
<1>4. GrownExact(v, w, p, pos, n, b, plan, r)
  BY <1>0, <1>1, <1>2, <1>3, GrowthExact
<1>5. FailedAsserts(p, pos, plan, w, last) = {}
  BY <1>0, <1>1, <1>2, <1>4, <1>p, NoAssertFails
<1>6. PICK reads :
        /\ n \in reads
        /\ IF FailedAsserts(p, pos, plan, w, last) \cup failed # {}
           THEN /\ fault' = Min(FailedAsserts(p, pos, plan, w, last) \cup failed)
                /\ UNCHANGED <<tree, size, idx, suc, tbl>>
           ELSE /\ tree' = [plan.tree EXCEPT !.children[p] = InsertAt(@, pos + 1, n)]
                /\ size' = size + 1
                /\ idx' = Refresh(plan.tree, b, reads)
                /\ suc' = [plan.suc EXCEPT !.node[n] = plan.displaced, !.dfi[n] = last]
                /\ tbl' = Tabled(tbl, w, n, plan.displaced # NULL)
                /\ UNCHANGED fault
  <2>1. last = IF plan.displaced # NULL THEN w[plan.displaced] ELSE size + 1
    BY <1>2, <1>p DEF LastOf
  <2>. QED  BY <1>p, <2>1 DEF InsertNode, ValuesAfter
<1>7. CASE failed = {}
  <2>1.      /\ tree' = [plan.tree EXCEPT !.children[p] = InsertAt(@, pos + 1, n)]
             /\ size' = size + 1
             /\ idx' = Refresh(plan.tree, b, reads)
             /\ suc' = [plan.suc EXCEPT !.node[n] = plan.displaced, !.dfi[n] = last]
             /\ tbl' = Tabled(tbl, w, n, plan.displaced # NULL)
             /\ UNCHANGED fault
    BY <1>5, <1>6, <1>7
  <2>0. tbl' = Probe(tbl, w, n)
    <3>1. IntOn(v, 1 .. size)
      BY <1>0 DEF Numbers, IntOn
    <3>2. MovedUp(w, v, size, n, r) /\ w \in [Node -> Int]
      BY <1>4 DEF GrownExact
    <3>3. TableMoved(tbl, 1 .. size, w, n)
      BY <1>0, <1>2, <3>1, <3>2, TableFollows
    <3>. QED  BY <2>1, <3>3, TabledOnce
  <2>2. tree' = Grown(tree, n, p, pos)
    BY <1>2, <2>1 DEF Grown
  <2>3. suc' = NewCaches(plan, w, n)
    BY <1>p, <2>1 DEF NewCaches
  <2>4. InsertedBy(plan, n, r, b, reads, v, w, p, pos)
    BY <1>1, <1>2, <1>4, <2>0, <2>1, <2>2, <2>3 DEF InsertedBy
  <2>. QED  BY <1>3, <1>6, <1>p, <2>4
<1>8. CASE failed # {}
  <2>1. failed = {150} /\ FailedAsserts(p, pos, plan, w, last) \cup failed = {150}
    BY <1>5, <1>8
  <2>2. Min({150}) = 150
    BY DEF Min
  <2>3. fault' = 150 /\ UNCHANGED <<tree, size, idx, suc, tbl>>
    BY <1>6, <2>1, <2>2
  <2>4. InsertedBy(plan, n, r, b, reads, v, w, p, pos)
    BY <1>1, <1>4, <2>3 DEF InsertedBy
  <2>. QED  BY <1>3, <1>6, <1>p, <2>4
<1>. QED  BY <1>7, <1>8

LEMMA InsertNodeExact ==
  ASSUME IInv, Exact(tree, size, idx, suc, tbl), NEW v, v = DfiValues(tree, idx),
         UpToDate(tree, size, idx, v), NEW p \in Nodes, NEW pos, NEW early, NEW late,
         NEW failed \in SUBSET {150}, CanInsert(p, pos), InsertNode(p, pos, early, late, failed),
         NEW w, ValuesAfter(w, p, pos, early)
  PROVE  InsertedExact(v, w)
<1>1. PICK plan, n, r, b, reads : InsertedBy(plan, n, r, b, reads, v, w, p, pos)
  BY InsertNodeBy
<1>2. /\ PlanSound(plan, v, p, pos, r) /\ GrownExact(v, w, p, pos, n, b, plan, r)
      /\ TreeSound /\ size < MaxNodes /\ pos \in 0 .. Len(tree.children[p])
  BY <1>1 DEF InsertedBy, IInv, CanInsert
<1>3. Follow(Grown(tree, n, p, pos), Refresh(plan.tree, b, reads), NewCaches(plan, w, n),
             Probe(tbl, w, n), v, w, r, n)
  BY <1>2, FollowsInsertion, Zenon
<1>4. n = size + 1 /\ r \in Int
  BY <1>2 DEF GrownExact, PlanSound, Planned
<1>5. CASE fault' = 150 /\ UNCHANGED <<tree, size, idx, suc, tbl>>
  BY <1>5 DEF InsertedExact
<1>6. CASE /\ fault' = fault /\ size' = n
           /\ tree' = Grown(tree, n, p, pos)
           /\ idx' = Refresh(plan.tree, b, reads)
           /\ suc' = NewCaches(plan, w, n)
           /\ tbl' = Probe(tbl, w, n)
  <2>1. Follow(tree', idx', suc', tbl', v, w, r, size')
    BY <1>3, <1>6
  <2>. QED  BY <1>4, <1>6, <2>1 DEF InsertedExact
<1>. QED  BY <1>1, <1>5, <1>6 DEF InsertedBy

-----------------------------------------------------------------------------
(* What the search of a table passes by *)

\* m is in the table on the side of q that a search for i turned away from at q.
Apart(S, rank, i, q) ==
  \E s \in Sides : (rank[q] = i \/ s # Turn(rank, i, q)) /\ S \subseteq Part(Int, rank[q], s)

\* A member is on the path of a search, or the search turned away from it.
LEMMA MetOrApart ==
  ASSUME NEW t, NEW M, Sound(t, M), NEW rank, NEW span, Ordered(t, M, rank, span), NEW i,
         NEW p, Searched(t, M, rank, i, t.root, p)
  PROVE  \A m \in M : \E x \in 1 .. Len(p) : m = p[x] \/ Apart(span[m], rank, i, p[x])
<1>. DEFINE T == {m \in Node : \E x \in 1 .. Len(p) : m = p[x] \/ Apart(span[m], rank, i, p[x])}
<1>1. TableType(t) /\ Linked(t, M) /\ M \subseteq Node /\ t.root \in M \cup {NULL}
  BY DEF Sound, Linked
<1>2. p \in Seq(M) /\ Len(p) \in Nat /\ \A x \in 1 .. Len(p) : p[x] \in M
  BY DEF Searched
<1>3. t.root # NULL => t.root \in T
  <2>1. t.root # NULL => 1 \in 1 .. Len(p) /\ p[1] = t.root /\ t.root \in Node
    BY <1>1, <1>2 DEF Searched
  <2>. QED  BY <2>1
<1>4. ASSUME NEW q \in M \cap T, NEW s \in Sides, t.link[q][s] # NULL
      PROVE  t.link[q][s] \in T
  <2>. PICK c : c = t.link[q][s]
    OBVIOUS
  <2>1. c \in Node /\ c \in M /\ c # NULL
    BY <1>1, <1>4 DEF Linked
  <2>2. span[c] = Part(span[q], rank[q], s)
    BY <1>4 DEF Ordered
  <2>3. span[c] \subseteq span[q] /\ span[q] \subseteq Int
    BY <1>1, <2>2 DEF Ordered, Part
  <2>4. PICK x \in 1 .. Len(p) : q = p[x] \/ Apart(span[q], rank, i, p[x])
    BY <1>4
  <2>5. CASE Apart(span[q], rank, i, p[x])
    <3>1. Apart(span[c], rank, i, p[x])
      BY <2>3, <2>5 DEF Apart
    <3>. QED  BY <2>1, <3>1
  <2>6. CASE q = p[x] /\ (rank[q] = i \/ s # Turn(rank, i, q))
    <3>1. span[c] \subseteq Part(Int, rank[q], s)
      BY <2>2, <2>3 DEF Part
    <3>2. Apart(span[c], rank, i, p[x])
      BY <2>6, <3>1 DEF Apart
    <3>. QED  BY <2>1, <3>2
  <2>7. CASE q = p[x] /\ rank[q] # i /\ s = Turn(rank, i, q)
    <3>1. p # <<>>
      BY <1>2, <2>4
    <3>2. x # Len(p)
      BY <2>1, <2>7, <3>1 DEF Searched
    <3>3. x \in 1 .. Len(p) - 1 /\ x + 1 \in 1 .. Len(p)
      BY <1>2, <3>2
    <3>4. p[x + 1] = c
      BY <2>7, <3>3 DEF Searched
    <3>. QED  BY <2>1, <3>3, <3>4
  <2>. QED  BY <2>4, <2>5, <2>6, <2>7
<1>. HIDE DEF T
<1>5. M \subseteq T
  BY <1>3, <1>4, HandedDown
<1>. QED  BY <1>5 DEF T

\* a is on the right side of i, and a is between i and b.
OnSide(a, i, gth) == IF gth THEN a >= i ELSE a <= i
NotBeyond(a, b, gth) == IF gth THEN a <= b ELSE b <= a

\* What the search turned away from, and is on the right side of i, is beyond a node of its
\* path that is on the right side too.
LEMMA ApartBeyond ==
  ASSUME NEW rank, NEW i \in Int, NEW q, rank[q] \in Int, NEW S, Apart(S, rank, i, q),
         NEW a \in S, NEW gth \in BOOLEAN, OnSide(a, i, gth)
  PROVE  OnSide(rank[q], i, gth) /\ NotBeyond(rank[q], a, gth)
<1>1. PICK s \in Sides : (rank[q] = i \/ s # Turn(rank, i, q)) /\ S \subseteq Part(Int, rank[q], s)
  BY DEF Apart
<1>2. a \in Int /\ IF s = 0 THEN a < rank[q] ELSE a > rank[q]
  BY <1>1 DEF Part
<1>3. rank[q] = i \/ IF s = 0 THEN i > rank[q] ELSE ~(i > rank[q])
  BY <1>1 DEF Turn, Sides
<1>4. CASE gth
  BY <1>2, <1>3, <1>4 DEF OnSide, NotBeyond
<1>5. CASE ~gth
  BY <1>2, <1>3, <1>5 DEF OnSide, NotBeyond
<1>. QED  BY <1>4, <1>5

\* Below a node of its path the search keeps to the side it turned to there.
LEMMA PathNarrows ==
  ASSUME NEW t, NEW M, Sound(t, M), NEW rank, NEW span, Ordered(t, M, rank, span), NEW i,
         NEW p, Searched(t, M, rank, i, t.root, p), NEW x \in 1 .. Len(p), NEW z \in 1 .. Len(p),
         x < z
  PROVE  rank[p[z]] \in Part(Int, rank[p[x]], Turn(rank, i, p[x])) /\ rank[p[x]] # i
<1>. PICK S : S = Part(Int, rank[p[x]], Turn(rank, i, p[x]))
  OBVIOUS
<1>. DEFINE T == {m \in Nat : x + 1 + m \in 1 .. Len(p) => span[p[x + 1 + m]] \subseteq S}
<1>1. TableType(t) /\ Linked(t, M) /\ M \subseteq Node /\ NULL \notin M
  BY NullAssumption DEF Sound, Linked
<1>2. p \in Seq(M) /\ Len(p) \in Nat /\ \A j \in 1 .. Len(p) : p[j] \in M
  BY DEF Searched
<1>3. \A j \in 1 .. Len(p) - 1 : rank[p[j]] # i /\ p[j + 1] = t.link[p[j]][Turn(rank, i, p[j])]
  BY DEF Searched
<1>4. \A j \in 1 .. Len(p) - 1 : span[p[j + 1]] = Part(span[p[j]], rank[p[j]], Turn(rank, i, p[j]))
  <2>. SUFFICES ASSUME NEW j \in 1 .. Len(p) - 1
                PROVE  span[p[j + 1]] = Part(span[p[j]], rank[p[j]], Turn(rank, i, p[j]))
    OBVIOUS
  <2>. PICK q, c, s : q = p[j] /\ c = p[j + 1] /\ s = Turn(rank, i, q)
    OBVIOUS
  <2>1. q \in M /\ c \in M /\ c # NULL /\ s \in Sides /\ c = t.link[q][s]
    BY <1>1, <1>2, <1>3 DEF Turn, Sides
  <2>2. span[c] = Part(span[q], rank[q], s)
    BY <2>1 DEF Ordered
  <2>. QED  BY <2>2
<1>5. \A j \in 1 .. Len(p) : span[p[j]] \subseteq Int
  BY <1>1, <1>2 DEF Ordered
<1>6. 0 \in T
  <2>1. x \in 1 .. Len(p) - 1 /\ x + 1 + 0 = x + 1
    BY <1>2
  <2>2. span[p[x + 1]] \subseteq S
    BY <1>4, <1>5, <2>1 DEF Part
  <2>. QED  BY <2>1, <2>2
<1>7. \A m \in 0 .. Len(p) - 1 : m \in T => m + 1 \in T
  <2>. SUFFICES ASSUME NEW m \in 0 .. Len(p) - 1, m \in T, x + 1 + (m + 1) \in 1 .. Len(p)
                PROVE  span[p[x + 1 + (m + 1)]] \subseteq S
    BY <1>2
  <2>. PICK j : j = x + 1 + m
    OBVIOUS
  <2>1. j \in 1 .. Len(p) - 1 /\ x + 1 + (m + 1) = j + 1 /\ j \in 1 .. Len(p)
    BY <1>2
  <2>2. span[p[j]] \subseteq S
    BY <2>1
  <2>3. span[p[j + 1]] \subseteq span[p[j]]
    BY <1>4, <2>1 DEF Part
  <2>. QED  BY <2>1, <2>2, <2>3
<1>. HIDE DEF T
<1>8. 0 .. Len(p) \subseteq T
  BY <1>2, <1>6, <1>7, Reaches
<1>9. span[p[z]] \subseteq S
  <2>1. z - x - 1 \in 0 .. Len(p) /\ x + 1 + (z - x - 1) = z
    BY <1>2
  <2>2. z - x - 1 \in T
    BY <1>8, <2>1
  <2>. QED  BY <2>1, <2>2 DEF T
<1>10. rank[p[z]] \in span[p[z]]
  BY <1>2 DEF Ordered
<1>11. rank[p[x]] # i
  BY <1>2, <1>3
<1>. QED  BY <1>9, <1>10, <1>11

\* Of two nodes of its path on the right side, the later one is the nearer.
LEMMA LaterNearer ==
  ASSUME NEW rank, NEW i \in Int, NEW a, NEW b, rank[a] \in Int, rank[a] # i,
         rank[b] \in Part(Int, rank[a], Turn(rank, i, a)), NEW gth \in BOOLEAN,
         OnSide(rank[a], i, gth)
  PROVE  NotBeyond(rank[b], rank[a], gth)
BY DEF Part, Turn, OnSide, NotBeyond

\* y is the member nearest to i on its right side, if there is any.
BestBound(y, M, v, i, gth) ==
  IF y = NULL THEN \A m \in M : ~OnSide(v[m], i, gth)
  ELSE /\ y \in M /\ OnSide(v[y], i, gth)
       /\ \A m \in M : OnSide(v[m], i, gth) => NotBeyond(v[y], v[m], gth)

\* The last node on the right side of the path is the nearest.
LEMMA LastIsBest ==
  ASSUME NEW t, NEW M, Sound(t, M), NEW v, NEW span, Ordered(t, M, v, span), NEW i \in Int,
         NEW p, Searched(t, M, v, i, t.root, p), NEW gth \in BOOLEAN, NEW h \in 1 .. Len(p),
         OnSide(v[p[h]], i, gth), \A j \in h + 1 .. Len(p) : ~OnSide(v[p[j]], i, gth)
  PROVE  BestBound(p[h], M, v, i, gth)
<1>1. M \subseteq Node /\ NULL \notin Node /\ \A m \in M : v[m] \in Int /\ v[m] \in span[m]
  BY NullAssumption DEF Sound, Linked, Ordered
<1>2. p \in Seq(M) /\ Len(p) \in Nat /\ \A j \in 1 .. Len(p) : p[j] \in M
  BY DEF Searched
<1>3. ASSUME NEW x \in 1 .. Len(p), OnSide(v[p[x]], i, gth)
      PROVE  NotBeyond(v[p[h]], v[p[x]], gth)
  <2>1. ~(x > h)
    BY <1>2, <1>3
  <2>2. CASE x = h
    BY <1>1, <1>2, <2>2 DEF NotBeyond
  <2>3. CASE x < h
    <3>1. v[p[h]] \in Part(Int, v[p[x]], Turn(v, i, p[x])) /\ v[p[x]] # i
      BY <2>3, PathNarrows
    <3>2. v[p[x]] \in Int
      BY <1>1, <1>2
    <3>. QED  BY <1>3, <3>1, <3>2, LaterNearer
  <2>. QED  BY <1>2, <2>1, <2>2, <2>3
<1>4. ASSUME NEW m \in M, OnSide(v[m], i, gth)
      PROVE  NotBeyond(v[p[h]], v[m], gth)
  <2>1. PICK x \in 1 .. Len(p) : m = p[x] \/ Apart(span[m], v, i, p[x])
    BY MetOrApart
  <2>2. CASE m = p[x]
    BY <1>3, <1>4, <2>2
  <2>3. CASE Apart(span[m], v, i, p[x])
    <3>1. v[p[x]] \in Int /\ v[m] \in span[m]
      BY <1>1, <1>2
    <3>2. OnSide(v[p[x]], i, gth) /\ NotBeyond(v[p[x]], v[m], gth)
      BY <1>4, <2>3, <3>1, ApartBeyond
    <3>3. NotBeyond(v[p[h]], v[p[x]], gth)
      BY <1>3, <3>2
    <3>4. v[p[h]] \in Int /\ v[m] \in Int /\ v[p[x]] \in Int
      BY <1>1, <1>2
    <3>. QED  BY <3>2, <3>3, <3>4 DEF NotBeyond
  <2>. QED  BY <2>1, <2>2, <2>3
<1>5. p[h] \in M /\ p[h] # NULL
  BY <1>1, <1>2
<1>. QED  BY <1>4, <1>5 DEF BestBound

\* Where no node of the path is on the right side, no member is.
LEMMA NoneIsBest ==
  ASSUME NEW t, NEW M, Sound(t, M), NEW v, NEW span, Ordered(t, M, v, span), NEW i \in Int,
         NEW p, Searched(t, M, v, i, t.root, p), NEW gth \in BOOLEAN,
         \A j \in 1 .. Len(p) : ~OnSide(v[p[j]], i, gth)
  PROVE  BestBound(NULL, M, v, i, gth)
<1>1. M \subseteq Node /\ \A m \in M : v[m] \in Int /\ v[m] \in span[m]
  BY DEF Sound, Linked, Ordered
<1>2. \A j \in 1 .. Len(p) : p[j] \in M
  BY DEF Searched
<1>3. ASSUME NEW m \in M, OnSide(v[m], i, gth)
      PROVE  FALSE
  <2>1. PICK x \in 1 .. Len(p) : m = p[x] \/ Apart(span[m], v, i, p[x])
    BY MetOrApart
  <2>2. m # p[x]
    BY <1>3
  <2>3. v[p[x]] \in Int /\ v[m] \in span[m]
    BY <1>1, <1>2
  <2>4. OnSide(v[p[x]], i, gth)
    BY <1>3, <2>1, <2>2, <2>3, ApartBeyond
  <2>. QED  BY <2>4
<1>. QED  BY <1>3 DEF BestBound

-----------------------------------------------------------------------------
(* The way along the links of a table *)

\* A key on one side of a member q, where q's subtree may hold it, is further down there.
LEMMA FurtherDown ==
  ASSUME NEW t, NEW M, Sound(t, M), NEW rank, NEW span, Ordered(t, M, rank, span), NEW m \in M,
         NEW q \in M, NEW s \in Sides, rank[m] \in Part(span[q], rank[q], s)
  PROVE  t.link[q][s] \in M /\ rank[m] \in span[t.link[q][s]]
<1>. PICK i, p : i = rank[m] /\ p = SearchPath(t, rank, i)
  OBVIOUS
<1>1. TableType(t) /\ Linked(t, M) /\ M \subseteq Node /\ NULL \notin Node
  BY NullAssumption DEF Sound, Linked
<1>2. /\ i \in Int /\ i \in span[m] /\ i \in span[q] /\ i # rank[q] /\ s = Turn(rank, i, q)
      /\ \A y \in M : rank[y] \in Int
  BY <1>1 DEF Ordered, Part, Turn, Sides
<1>3. Searched(t, M, rank, i, t.root, p)
  <2>1. PICK H, h : Balanceable(t, h, H)
    BY DEF Sound
  <2>. QED  BY <1>1, <2>1, SearchFrom
<1>4. p \in Seq(M) /\ Len(p) \in Nat /\ \A x \in 1 .. Len(p) : p[x] \in M
  BY <1>3 DEF Searched
<1>5. ASSUME NEW y \in M, i \in span[y]
      PROVE  \E x \in 1 .. Len(p) : y = p[x]
  <2>1. PICK x \in 1 .. Len(p) : y = p[x] \/ Apart(span[y], rank, i, p[x])
    BY <1>3, MetOrApart, ZenonT(60)
  <2>2. CASE Apart(span[y], rank, i, p[x])
    <3>1. PICK o \in Sides : (rank[p[x]] = i \/ o # Turn(rank, i, p[x])) /\ span[y] \subseteq Part(Int, rank[p[x]], o)
      BY <2>2 DEF Apart
    <3>2. i \in Part(Int, rank[p[x]], o) /\ rank[p[x]] \in Int
      BY <1>2, <1>4, <1>5, <3>1
    <3>. QED  BY <1>2, <3>1, <3>2 DEF Part, Turn, Sides
  <2>. QED  BY <2>1, <2>2
<1>6. PICK x \in 1 .. Len(p) : q = p[x]
  BY <1>2, <1>5
<1>7. PICK z \in 1 .. Len(p) : m = p[z]
  BY <1>2, <1>5
<1>8. x \in 1 .. Len(p) - 1
  <2>1. \A j \in 1 .. Len(p) - 1 : rank[p[j]] # i
    BY <1>3 DEF Searched
  <2>2. z = Len(p)
    BY <1>4, <1>7, <2>1
  <2>. QED  BY <1>2, <1>4, <1>6, <1>7, <2>2
<1>9. t.link[q][s] = p[x + 1] /\ x + 1 \in 1 .. Len(p)
  <2>1. p[x + 1] = t.link[p[x]][Turn(rank, i, p[x])]
    BY <1>3, <1>8 DEF Searched
  <2>. QED  BY <1>2, <1>4, <1>6, <1>8, <2>1
<1>10. t.link[q][s] \in M /\ t.link[q][s] # NULL
  BY <1>1, <1>4, <1>9
<1>11. span[t.link[q][s]] = Part(span[q], rank[q], s)
  BY <1>10 DEF Ordered
<1>. QED  BY <1>10, <1>11

\* f goes down to the left, and g up to the first node that is reached from the left.
Leftward(f, t) == f = [m \in Node |-> IF t.link[m][0] = NULL THEN m ELSE f[t.link[m][0]]]
Upward(g, t) ==
  g = [m \in Node |-> IF t.up[m] = NULL THEN NULL
                      ELSE IF t.link[t.up[m]][0] = m THEN t.up[m]
                      ELSE g[t.up[m]]]

LEMMA LeftwardExists ==
  ASSUME NEW t, NEW M, Sound(t, M)
  PROVE  \E f : Leftward(f, t)
<1>1. TableType(t) /\ \E H, h : Balanceable(t, h, H)
  BY DEF Sound
<1>2. PICK H, h : Balanceable(t, h, H)
  BY <1>1
<1>. DEFINE l == [n \in Node |-> t.link[n][0]]
<1>3. H \in Nat /\ \A n \in Node : h[n] \in 1 .. H /\ l[n] \in Slot /\ h[l[n]] < h[n]
  <2>1. H \in Nat /\ HeightType(h, H)
    BY <1>2 DEF Balanceable, HeightType
  <2>. QED  BY <1>1, <1>2, <2>1, ChildrenLower DEF Balanceable, Sides
<1>4. PICK step : step = [x \in Node \X Slot \X Slot |-> IF t.link[x[1]][0] = NULL THEN x[1] ELSE x[2]]
  OBVIOUS
<1>5. step \in [Node \X Slot \X Slot -> Slot] /\ NULL \in Slot
  BY <1>4 DEF Slot
<1>6. PICK f \in [Slot -> Slot] : Computed(f, NULL, step, l, l)
  <2>. HIDE DEF l
  <2>. QED  BY <1>3, <1>5, ComputedExists
<1>7. ASSUME NEW n \in Node
      PROVE  f[n] = IF t.link[n][0] = NULL THEN n ELSE f[t.link[n][0]]
  <2>1. f[n] = step[<<n, f[l[n]], f[l[n]]>>]
    BY <1>6 DEF Computed
  <2>2. <<n, f[l[n]], f[l[n]]>> \in Node \X Slot \X Slot
    BY <1>3, <1>6
  <2>. QED  BY <1>4, <2>1, <2>2
<1>. PICK g : g = [n \in Node |-> f[n]]
  OBVIOUS
<1>8. \A n \in Node : t.link[n][0] # NULL => t.link[n][0] \in Node
  BY <1>3 DEF Slot
<1>9. \A n \in Node : g[n] = IF t.link[n][0] = NULL THEN n ELSE g[t.link[n][0]]
  BY <1>7, <1>8
<1>10. Leftward(g, t)
  BY <1>9 DEF Leftward
<1>. QED  BY <1>10

LEMMA UpwardExists ==
  ASSUME NEW t, NEW M, Sound(t, M)
  PROVE  \E f : Upward(f, t)
<1>1. TableType(t) /\ Linked(t, M) /\ \E H, h : Balanceable(t, h, H)
  BY DEF Sound
<1>2. PICK H, h : Balanceable(t, h, H)
  BY <1>1
<1>14. PICK l : l = [n \in Node |-> t.up[n]]
  OBVIOUS
<1>15. PICK d : d = [n \in Slot |-> IF n \in M THEN (H + 1) - h[n] ELSE 1]
  OBVIOUS
<1>3. H \in Nat /\ \A n \in Node : h[n] \in 1 .. H /\ \A s \in Sides : h[t.link[n][s]] < h[n]
  <2>1. H \in Nat /\ HeightType(h, H)
    BY <1>2 DEF Balanceable, HeightType
  <2>. QED  BY <1>1, <1>2, <2>1, ChildrenLower DEF Balanceable, Sides
<1>. PICK K : K = H + 1
  OBVIOUS
<1>12. K \in Nat
  BY <1>3
<1>4. \A n \in Node : l[n] \in Slot /\ d[n] \in 1 .. K /\ (l[n] # NULL => d[l[n]] < d[n])
  <2>. SUFFICES ASSUME NEW n \in Node
                PROVE  l[n] \in Slot /\ d[n] \in 1 .. K /\ (l[n] # NULL => d[l[n]] < d[n])
    OBVIOUS
  <2>1. d[n] \in 1 .. K
    BY <1>3, <1>15 DEF Slot
  <2>2. CASE t.up[n] = NULL
    BY <1>14, <2>1, <2>2 DEF Slot
  <2>3. CASE t.up[n] # NULL
    <3>1. n \in M /\ n # t.root
      BY <1>1, <2>3 DEF Linked
    <3>2. t.up[n] \in M /\ t.up[n] \in Node /\ \E s \in Sides : t.link[t.up[n]][s] = n
      BY <1>1, <3>1 DEF Linked
    <3>3. h[n] < h[t.up[n]] /\ h[n] \in Int /\ h[t.up[n]] \in Int
      BY <1>3, <3>2
    <3>4. d[n] = (H + 1) - h[n] /\ d[t.up[n]] = (H + 1) - h[t.up[n]]
      BY <1>15, <3>1, <3>2 DEF Slot
    <3>. QED  BY <1>3, <1>14, <2>1, <3>2, <3>3, <3>4 DEF Slot
  <2>. QED  BY <2>2, <2>3
<1>13. \A n \in Node : t.up[n] \in Slot
  BY <1>4, <1>14
<1>5. PICK step : step = [x \in Node \X Slot \X Slot |->
         IF t.up[x[1]] = NULL THEN NULL ELSE IF t.link[t.up[x[1]]][0] = x[1] THEN t.up[x[1]] ELSE x[2]]
  OBVIOUS
<1>6. step \in [Node \X Slot \X Slot -> Slot] /\ NULL \in Slot
  BY <1>5, <1>13 DEF Slot
<1>7. PICK f \in [Slot -> Slot] : Computed(f, NULL, step, l, l)
  <2>. QED  BY <1>4, <1>6, <1>12, ComputedExists
<1>8. ASSUME NEW n \in Node
      PROVE  f[n] = IF t.up[n] = NULL THEN NULL ELSE IF t.link[t.up[n]][0] = n THEN t.up[n]
                    ELSE f[t.up[n]]
  <2>1. f[n] = step[<<n, f[l[n]], f[l[n]]>>]
    BY <1>7 DEF Computed
  <2>2. <<n, f[l[n]], f[l[n]]>> \in Node \X Slot \X Slot
    BY <1>4, <1>7
  <2>. QED  BY <1>5, <1>14, <2>1, <2>2
<1>. PICK g : g = [n \in Node |-> f[n]]
  OBVIOUS
<1>9. \A n \in Node : t.up[n] # NULL => t.up[n] \in Node
  BY <1>13 DEF Slot
<1>10. \A n \in Node : g[n] = IF t.up[n] = NULL THEN NULL
                              ELSE IF t.link[t.up[n]][0] = n THEN t.up[n] ELSE g[t.up[n]]
  BY <1>8, <1>9
<1>11. Upward(g, t)
  BY <1>10 DEF Upward
<1>. QED  BY <1>11

\* y is the first of the members whose keys are in the span of c.
FirstIn(y, M, rank, S) ==
  y \in M /\ rank[y] \in S /\ \A m \in M : rank[m] \in S => rank[y] <= rank[m]

\* The way down to the left ends at the first member of a subtree.
LEMMA LeftwardFirst ==
  ASSUME NEW t, NEW M, Sound(t, M), NEW rank, NEW span, Ordered(t, M, rank, span), NEW f,
         Leftward(f, t)
  PROVE  \A c \in M : FirstIn(f[c], M, rank, span[c])
<1>1. TableType(t) /\ Linked(t, M) /\ M \subseteq Node /\ NULL \notin Node
      /\ \E H, h : Balanceable(t, h, H)
  BY NullAssumption DEF Sound, Linked
<1>2. PICK H, h : Balanceable(t, h, H)
  BY <1>1
<1>3. H \in Nat /\ \A n \in Node : h[n] \in 1 .. H /\ h[t.link[n][0]] < h[n]
  <2>1. H \in Nat /\ HeightType(h, H)
    BY <1>2 DEF Balanceable, HeightType
  <2>. QED  BY <1>1, <1>2, <2>1, ChildrenLower DEF Balanceable, Sides
<1>4. \A n \in Node : f[n] = IF t.link[n][0] = NULL THEN n ELSE f[t.link[n][0]]
  BY DEF Leftward
<1>5. \A c \in M : rank[c] \in span[c] /\ span[c] \subseteq Int /\ rank[c] \in Int
  BY <1>1 DEF Ordered
<1>6. ASSUME NEW c \in M, t.link[c][0] # NULL => FirstIn(f[t.link[c][0]], M, rank, span[t.link[c][0]])
      PROVE  FirstIn(f[c], M, rank, span[c])
  <2>1. ASSUME NEW m \in M, rank[m] \in span[c], rank[m] < rank[c]
        PROVE  t.link[c][0] \in M /\ rank[m] \in span[t.link[c][0]]
    <3>1. rank[m] \in Part(span[c], rank[c], 0)
      BY <2>1 DEF Part
    <3>. QED  BY <3>1, FurtherDown DEF Sides
  <2>2. CASE t.link[c][0] = NULL
    <3>1. f[c] = c
      BY <1>1, <1>4, <2>2
    <3>2. \A m \in M : rank[m] \in span[c] => rank[c] <= rank[m]
      BY <1>1, <1>5, <2>1, <2>2
    <3>. QED  BY <1>5, <3>1, <3>2 DEF FirstIn
  <2>3. CASE t.link[c][0] # NULL
    <3>. PICK a : a = t.link[c][0]
      OBVIOUS
    <3>1. f[c] = f[a] /\ a \in M /\ a # NULL
      BY <1>1, <1>4, <2>3 DEF Linked, Sides
    <3>2. FirstIn(f[a], M, rank, span[a])
      BY <1>6, <2>3
    <3>3. span[a] = Part(span[c], rank[c], 0)
      BY <2>3 DEF Ordered, Sides
    <3>. PICK y : y = f[a]
      OBVIOUS
    <3>4. y \in M /\ rank[y] \in span[a] /\ rank[y] \in span[c] /\ rank[y] < rank[c]
      BY <3>2, <3>3 DEF FirstIn, Part
    <3>5. ASSUME NEW m \in M, rank[m] \in span[c]
          PROVE  rank[y] <= rank[m]
      <4>1. CASE rank[m] < rank[c]
        <5>1. rank[m] \in span[a]
          BY <2>1, <3>5, <4>1
        <5>. QED  BY <3>2, <5>1 DEF FirstIn
      <4>2. CASE ~(rank[m] < rank[c])
        BY <1>5, <3>4, <4>2
      <4>. QED  BY <4>1, <4>2
    <3>. QED  BY <3>1, <3>4, <3>5 DEF FirstIn
  <2>. QED  BY <2>2, <2>3
<1>. DEFINE T == {k \in 0 .. H : \A c \in M : h[c] <= k => FirstIn(f[c], M, rank, span[c])}
<1>7. 0 \in T
  BY <1>1, <1>3
<1>8. \A k \in 0 .. H - 1 : k \in T => k + 1 \in T
  <2>. SUFFICES ASSUME NEW k \in 0 .. H - 1, k \in T, NEW c \in M, h[c] <= k + 1
                PROVE  FirstIn(f[c], M, rank, span[c])
    BY <1>3
  <2>1. ASSUME t.link[c][0] # NULL
        PROVE  FirstIn(f[t.link[c][0]], M, rank, span[t.link[c][0]])
    <3>. PICK a : a = t.link[c][0]
      OBVIOUS
    <3>1. a \in M /\ h[a] < h[c]
      BY <1>1, <1>3, <2>1 DEF Linked, Sides
    <3>2. h[a] <= k
      BY <1>1, <1>3, <3>1
    <3>. QED  BY <3>1, <3>2
  <2>. QED  BY <1>6, <2>1
<1>. HIDE DEF T
<1>9. 0 .. H \subseteq T
  BY <1>3, <1>7, <1>8, Reaches
<1>10. H \in T
  BY <1>3, <1>9
<1>. QED  BY <1>1, <1>3, <1>10 DEF T

\* y is where the keys of a span end: they are all less, and none is left out after k.
EndsAt(y, M, rank, k, S) ==
  IF y = NULL THEN \A z \in Int : z > k => z \in S
  ELSE /\ y \in M /\ \A z \in S : z < rank[y]
       /\ \A z \in Int : z > k /\ z < rank[y] => z \in S

\* The way up ends where the keys of a subtree do.
LEMMA UpwardEnds ==
  ASSUME NEW t, NEW M, Sound(t, M), NEW rank, NEW span, Ordered(t, M, rank, span), NEW g,
         Upward(g, t)
  PROVE  \A c \in M : EndsAt(g[c], M, rank, rank[c], span[c])
<1>. DEFINE T == {c \in Node : EndsAt(g[c], M, rank, rank[c], span[c])}
<1>1. TableType(t) /\ Linked(t, M) /\ M \subseteq Node /\ NULL \notin Node /\ t.root \in M \cup {NULL}
  BY NullAssumption DEF Sound, Linked
<1>2. \A n \in Node : g[n] = IF t.up[n] = NULL THEN NULL
                             ELSE IF t.link[t.up[n]][0] = n THEN t.up[n] ELSE g[t.up[n]]
  BY DEF Upward
<1>3. \A c \in M : /\ rank[c] \in span[c] /\ span[c] \subseteq Int /\ rank[c] \in Int
                   /\ Convex(span[c])
  <2>1. \A c \in M : Convex(span[c])
    BY SpanConvex
  <2>. QED  BY <1>1, <2>1 DEF Ordered
<1>4. t.root # NULL => t.root \in T
  <2>. SUFFICES ASSUME t.root # NULL  PROVE t.root \in T
    OBVIOUS
  <2>1. t.root \in M /\ t.up[t.root] = NULL /\ span[t.root] = Int
    BY <1>1 DEF Linked, Ordered
  <2>2. g[t.root] = NULL
    BY <1>1, <1>2, <2>1
  <2>. QED  BY <1>1, <2>1, <2>2 DEF EndsAt
<1>5. ASSUME NEW q \in M \cap T, NEW s \in Sides, t.link[q][s] # NULL
      PROVE  t.link[q][s] \in T
  <2>. PICK c : c = t.link[q][s]
    OBVIOUS
  <2>1. c \in M /\ c \in Node /\ t.up[c] = q /\ q \in M /\ q # NULL /\ span[c] = Part(span[q], rank[q], s)
    BY <1>1, <1>5 DEF Linked, Ordered
  <2>2. g[c] = IF t.link[q][0] = c THEN q ELSE g[q]
    BY <1>2, <2>1
  <2>3. CASE s = 0
    <3>1. g[c] = q
      BY <2>2, <2>3
    <3>2. \A z \in span[c] : z < rank[q]
      BY <2>1, <2>3 DEF Part
    <3>3. ASSUME NEW z \in Int, z > rank[c], z < rank[q]
          PROVE  z \in span[c]
      <4>1. rank[c] \in span[q] /\ rank[q] \in span[q] /\ Convex(span[q])
        BY <1>3, <2>1 DEF Part
      <4>2. z \in span[q]
        BY <3>3, <4>1 DEF Convex
      <4>. QED  BY <2>1, <2>3, <3>3, <4>2 DEF Part
    <3>4. EndsAt(q, M, rank, rank[c], span[c])
      BY <2>1, <3>2, <3>3 DEF EndsAt
    <3>. QED  BY <2>1, <3>1, <3>4
  <2>4. CASE s = 1
    <3>1. g[c] = g[q]
      <4>1. t.link[q][0] # c
        BY <1>1, <2>1, <2>4 DEF Linked
      <4>. QED  BY <2>2, <4>1
    <3>. PICK y : y = g[q]
      OBVIOUS
    <3>2. EndsAt(y, M, rank, rank[q], span[q])
      BY <1>5
    <3>3. rank[c] > rank[q] /\ rank[c] \in Int /\ rank[q] \in Int
      BY <1>3, <2>1, <2>4 DEF Part
    <3>4. \A z \in span[q] : z > rank[q] => z \in span[c]
      BY <2>1, <2>4 DEF Part
    <3>5. span[c] \subseteq span[q]
      BY <2>1 DEF Part
    <3>6. CASE y = NULL
      <4>1. \A z \in Int : z > rank[c] => z \in span[c]
        BY <3>2, <3>3, <3>4, <3>6 DEF EndsAt
      <4>. QED  BY <2>1, <3>1, <3>6, <4>1 DEF EndsAt
    <3>7. CASE y # NULL
      <4>1. /\ y \in M /\ \A z \in span[q] : z < rank[y]
            /\ \A z \in Int : z > rank[q] /\ z < rank[y] => z \in span[q]
        BY <3>2, <3>7 DEF EndsAt
      <4>2. \A z \in Int : z > rank[c] /\ z < rank[y] => z \in span[c]
        BY <3>3, <3>4, <4>1
      <4>3. EndsAt(y, M, rank, rank[c], span[c])
        BY <3>5, <3>7, <4>1, <4>2 DEF EndsAt
      <4>. QED  BY <2>1, <3>1, <4>3
    <3>. QED  BY <3>6, <3>7
  <2>. QED  BY <2>3, <2>4 DEF Sides
<1>. HIDE DEF T
<1>6. M \subseteq T
  BY <1>4, <1>5, HandedDown
<1>. QED  BY <1>6 DEF T

\* y is the next member after n, by the keys.
NextOf(y, M, rank, n) ==
  IF y = NULL THEN \A m \in M : rank[m] <= rank[n]
  ELSE y \in M /\ rank[n] < rank[y] /\ \A m \in M : rank[n] < rank[m] => rank[y] <= rank[m]


-----------------------------------------------------------------------------
(* What an iteration has returned, and what it still has to *)

\* A list of members by their numbers, from first on and up to the number of last.
Listed(list, M, v, first, last) ==
  /\ list \in Seq(Node) /\ Len(list) \in Nat \ {0} /\ list[1] = first /\ Rising(list, v, Int)
  /\ \A i \in 1 .. Len(list) : list[i] \in M /\ v[list[i]] <= v[last]

\* The list has all of them.
ListsAll(list, M, v, first, last) ==
  \A m \in M : v[first] <= v[m] /\ v[m] <= v[last] => \E i \in 1 .. Len(list) : list[i] = m

\* The nodes given are those of the list before node, which comes next if its number is not
\* past that of last.
Reached(some, list, v, node, last) ==
  /\ Len(some) \in 0 .. Len(list) /\ some = SubSeq(list, 1, Len(some))
  /\ IF node # NULL /\ v[node] <= v[last]
     THEN Len(some) < Len(list) /\ node = list[Len(some) + 1]
     ELSE some = list

LEMMA NextGiven ==
  ASSUME NEW list \in Seq(Node), NEW c \in Nat, c < Len(list), NEW some, some = SubSeq(list, 1, c)
  PROVE  /\ Append(some, list[c + 1]) = SubSeq(list, 1, c + 1)
         /\ Len(some) = c /\ Len(Append(some, list[c + 1])) = c + 1
         /\ c + 1 = Len(list) => SubSeq(list, 1, c + 1) = list
<1>1. some \in Seq(Node) /\ Len(some) = c /\ \A i \in 1 .. c : some[i] = list[i]
  BY SubSeqProperties
<1>2. list[c + 1] \in Node
  OBVIOUS
<1>. PICK one, two : one = Append(some, list[c + 1]) /\ two = SubSeq(list, 1, c + 1)
  OBVIOUS
<1>3. /\ one \in Seq(Node) /\ Len(one) = c + 1
      /\ \A i \in 1 .. c + 1 : one[i] = IF i = c + 1 THEN list[c + 1] ELSE some[i]
  BY <1>1, <1>2, AppendProperties
<1>4. two \in Seq(Node) /\ Len(two) = c + 1 /\ \A i \in 1 .. c + 1 : two[i] = list[i]
  BY SubSeqProperties
<1>5. \A i \in 1 .. c + 1 : one[i] = two[i]
  BY <1>1, <1>3, <1>4
<1>6. one = two
  BY <1>3, <1>4, <1>5, SeqEqual
<1>7. c + 1 = Len(list) => two = list
  BY <1>4, SeqEqual
<1>. QED  BY <1>1, <1>3, <1>6, <1>7

\* The numbers of a list tell the places.
LEMMA ListPlaces ==
  ASSUME NEW list, NEW v, Rising(list, v, Int), Len(list) \in Nat,
         NEW i \in 1 .. Len(list), NEW j \in 1 .. Len(list)
  PROVE  /\ v[list[i]] < v[list[j]] => i < j
         /\ list[i] = list[j] => i = j
<1>1. v[list[i]] \in Int /\ v[list[j]] \in Int
  BY DEF Rising
<1>2. CASE i < j
  <2>1. v[list[i]] < v[list[j]]
    BY <1>2 DEF Rising
  <2>. QED  BY <1>1, <1>2, <2>1
<1>3. CASE j < i
  <2>1. v[list[j]] < v[list[i]]
    BY <1>3 DEF Rising
  <2>. QED  BY <1>1, <1>3, <2>1
<1>4. CASE i = j
  BY <1>1, <1>4
<1>. QED  BY <1>2, <1>3, <1>4

\* next() gives the node at the cursor, and goes on to the next of the list.
LEMMA NextReached ==
  ASSUME NEW M, NEW v, IntOn(v, M), NULL \notin M, NEW first \in M, NEW last \in M, NEW list,
         Listed(list, M, v, first, last), ListsAll(list, M, v, first, last), NEW node \in M,
         v[node] <= v[last], NEW some, Reached(some, list, v, node, last), NEW y,
         NextOf(y, M, v, node)
  PROVE  Reached(Append(some, node), list, v, y, last)
<1>. PICK c, L, more : c = Len(some) /\ L = Len(list) /\ more = Append(some, node)
  OBVIOUS
<1>1. /\ list \in Seq(Node) /\ L \in Nat /\ c \in 0 .. L /\ c < L /\ node = list[c + 1]
      /\ some = SubSeq(list, 1, c) /\ Rising(list, v, Int) /\ list[1] = first
      /\ \A i \in 1 .. L : list[i] \in M /\ v[list[i]] <= v[last]
  BY DEF Listed, Reached
<1>2. /\ more = SubSeq(list, 1, c + 1) /\ Len(more) = c + 1
      /\ c + 1 = L => more = list
  BY <1>1, NextGiven
<1>3. \A i, j \in 1 .. L : v[list[i]] < v[list[j]] => i < j
  BY <1>1, ListPlaces
<1>4. v[first] <= v[node]
  <2>1. CASE c = 0
    BY <1>1, <2>1 DEF IntOn
  <2>2. CASE c # 0
    <3>1. 1 \in 1 .. L /\ c + 1 \in 1 .. L /\ 1 < c + 1
      BY <1>1, <2>2
    <3>2. v[list[1]] < v[list[c + 1]]
      BY <1>1, <3>1 DEF Rising
    <3>. QED  BY <1>1, <3>2 DEF IntOn
  <2>. QED  BY <2>1, <2>2
<1>5. CASE y # NULL /\ v[y] <= v[last]
  <2>1. y \in M /\ v[node] < v[y] /\ \A m \in M : v[node] < v[m] => v[y] <= v[m]
    BY <1>5 DEF NextOf
  <2>2. v[first] <= v[y]
    BY <1>4, <2>1 DEF IntOn
  <2>3. PICK i \in 1 .. L : list[i] = y
    BY <1>5, <2>1, <2>2 DEF ListsAll
  <2>4. c + 1 < i
    <3>1. c + 1 \in 1 .. L
      BY <1>1
    <3>. QED  BY <1>1, <1>3, <2>1, <2>3, <3>1
  <2>5. c + 2 \in 1 .. L /\ c + 1 \in 1 .. L
    BY <1>1, <2>4
  <2>6. v[node] < v[list[c + 2]] /\ list[c + 2] \in M
    BY <1>1, <2>5 DEF Rising
  <2>7. v[list[i]] <= v[list[c + 2]]
    BY <2>1, <2>3, <2>6
  <2>8. i = c + 2
    <3>1. CASE c + 2 < i
      <4>1. v[list[c + 2]] < v[list[i]]
        BY <1>1, <2>5, <3>1 DEF Rising
      <4>. QED  BY <2>1, <2>3, <2>6, <2>7, <4>1 DEF IntOn
    <3>. QED  BY <2>4, <2>5, <3>1
  <2>. QED  BY <1>1, <1>2, <1>5, <2>3, <2>5, <2>8 DEF Reached
<1>6. CASE ~(y # NULL /\ v[y] <= v[last])
  <2>1. c + 1 = L
    <3>. SUFFICES ASSUME c + 1 # L  PROVE FALSE
      OBVIOUS
    <3>1. c + 2 \in 1 .. L /\ c + 1 \in 1 .. L
      BY <1>1
    <3>2. v[node] < v[list[c + 2]] /\ list[c + 2] \in M /\ v[list[c + 2]] <= v[last]
      BY <1>1, <3>1 DEF Rising
    <3>3. y # NULL /\ y \in M /\ v[y] <= v[list[c + 2]]
      BY <3>2, SMTT(60) DEF NextOf, IntOn
    <3>. QED  BY <1>6, <3>2, <3>3 DEF IntOn
  <2>. QED  BY <1>1, <1>2, <1>6, <2>1 DEF Reached
<1>. QED  BY <1>5, <1>6

\* A result of one node ends after it.
LEMMA OnlyReached ==
  ASSUME NEW M, NEW v, IntOn(v, M), NULL \notin M, NEW first \in M, NEW last \in M,
         v[first] = v[last], NEW list,
         Listed(list, M, v, first, last), NEW node \in M, v[node] <= v[last], NEW some,
         Reached(some, list, v, node, last)
  PROVE  Reached(Append(some, node), list, v, NULL, last)
<1>. PICK c, L, more : c = Len(some) /\ L = Len(list) /\ more = Append(some, node)
  OBVIOUS
<1>1. /\ list \in Seq(Node) /\ L \in Nat /\ c \in 0 .. L /\ L # 0 /\ list[1] = first
      /\ Rising(list, v, Int) /\ some = SubSeq(list, 1, c)
      /\ \A i \in 1 .. L : list[i] \in M /\ v[list[i]] <= v[last]
  BY DEF Listed, Reached
<1>2. L = 1
  <2>. SUFFICES ASSUME L # 1  PROVE FALSE
    OBVIOUS
  <2>1. 1 \in 1 .. L /\ 2 \in 1 .. L
    BY <1>1
  <2>2. v[list[1]] < v[list[2]]
    BY <1>1, <2>1 DEF Rising
  <2>. QED  BY <1>1, <2>1, <2>2 DEF IntOn
<1>3. node # NULL /\ c < L /\ node = list[c + 1]
  BY DEF Reached
<1>4. more = list
  <2>1. c = 0 /\ c + 1 = L
    BY <1>1, <1>2, <1>3
  <2>2. c \in Nat /\ c < Len(list) /\ list \in Seq(Node)
    BY <1>1, <1>3
  <2>3. /\ Append(some, list[c + 1]) = SubSeq(list, 1, c + 1)
        /\ c + 1 = Len(list) => SubSeq(list, 1, c + 1) = list
    BY <1>1, <2>2, NextGiven
  <2>. QED  BY <1>3, <2>1, <2>3
<1>. QED  BY <1>1, <1>4 DEF Reached

LEMMA IntervalCount ==
  ASSUME NEW k \in Nat
  PROVE  IsFiniteSet(1 .. k) /\ Cardinality(1 .. k) = k
BY FS_Interval

\* A rising list of nodes is not longer than there can be nodes.
LEMMA ListShort ==
  ASSUME NEW list \in Seq(Node), NEW v, Rising(list, v, Int)
  PROVE  Len(list) <= MaxNodes
<1>1. \A i, j \in 1 .. Len(list) : list[i] = list[j] => i = j
  BY ListPlaces
<1>2. list \in [1 .. Len(list) -> Node] /\ Len(list) \in Nat /\ MaxNodes \in Nat
  BY NodeAssumption
<1>3. list \in Injection(1 .. Len(list), 1 .. MaxNodes)
  BY <1>1, <1>2, NodeAssumption DEF Injection, IsInjective
<1>. PICK L, H : L = Len(list) /\ H = MaxNodes
  OBVIOUS
<1>4. L \in Nat /\ H \in Nat
  BY <1>2
<1>5. IsFiniteSet(1 .. L) /\ IsFiniteSet(1 .. H)
      /\ Cardinality(1 .. L) = L /\ Cardinality(1 .. H) = H
  BY <1>4, IntervalCount
<1>6. Cardinality(1 .. L) <= Cardinality(1 .. H)
  BY <1>3, <1>5, FS_Injection
<1>. QED  BY <1>5, <1>6

\* A complete list is as long as there are members between its ends.
LEMMA ListCounts ==
  ASSUME NEW M, M \subseteq Node, NEW v, IntOn(v, M), NEW first \in M, NEW last \in M, NEW list,
         Listed(list, M, v, first, last), ListsAll(list, M, v, first, last)
  PROVE  Cardinality({m \in M : v[first] <= v[m] /\ v[m] <= v[last]}) = Len(list)
<1>. PICK L : L = Len(list)
  OBVIOUS
<1>. DEFINE S == {m \in M : v[first] <= v[m] /\ v[m] <= v[last]}
<1>1. /\ list \in Seq(Node) /\ L \in Nat /\ L # 0 /\ list[1] = first /\ Rising(list, v, Int)
      /\ \A i \in 1 .. L : list[i] \in M /\ v[list[i]] <= v[last]
  BY DEF Listed
<1>2. ASSUME NEW i \in 1 .. L
      PROVE  list[i] \in S
  <2>1. CASE i = 1
    BY <1>1, <2>1 DEF IntOn
  <2>2. CASE i # 1
    <3>1. 1 \in 1 .. L /\ 1 < i
      BY <1>1, <2>2
    <3>2. v[list[1]] < v[list[i]]
      BY <1>1, <3>1 DEF Rising
    <3>. QED  BY <1>1, <3>2 DEF IntOn
  <2>. QED  BY <2>1, <2>2
<1>3. \A i, j \in 1 .. L : list[i] = list[j] => i = j
  BY <1>1, ListPlaces
<1>4. \A m \in S : \E i \in 1 .. L : list[i] = m
  BY DEF ListsAll
<1>5. list \in [1 .. L -> S]
  <2>1. list = [i \in 1 .. L |-> list[i]]
    BY <1>1
  <2>. QED  BY <1>2, <2>1
<1>6. ExistsBijection(1 .. L, S)
  <2>1. list \in Bijection(1 .. L, S)
    BY <1>3, <1>4, <1>5 DEF Bijection, Injection, Surjection, IsInjective
  <2>. QED  BY <2>1 DEF ExistsBijection
<1>. HIDE DEF S
<1>7. Cardinality(S) = L
  BY <1>1, <1>6, FS_CountingElements
<1>. QED  BY <1>7 DEF S

\* The members between two of them, by how many are before each.
RanksTell(M, v, first, last) ==
  (Cardinality({m \in M : v[m] < v[last]}) - Cardinality({m \in M : v[m] < v[first]})) + 1
    = Cardinality({m \in M : v[first] <= v[m] /\ v[m] <= v[last]})

LEMMA RanksCount ==
  ASSUME NEW M, IsFiniteSet(M), NEW v, IntOn(v, M), \A m, n \in M : v[m] = v[n] => m = n,
         NEW first \in M, NEW last \in M, v[first] <= v[last]
  PROVE  RanksTell(M, v, first, last)
<1>. DEFINE A == {m \in M : v[m] < v[first]}
            B == {m \in M : v[first] <= v[m] /\ v[m] < v[last]}
            C == {m \in M : v[m] < v[last]}
            D == {m \in M : v[first] <= v[m] /\ v[m] <= v[last]}
<1>1. A \cup B = C /\ A \cap B = {}
  BY DEF IntOn
<1>2. B \cup {last} = D /\ last \notin B
  BY DEF IntOn
<1>3. IsFiniteSet(A) /\ IsFiniteSet(B)
  <2>1. A \in SUBSET M /\ B \in SUBSET M
    OBVIOUS
  <2>. HIDE DEF A, B
  <2>. QED  BY <2>1, FS_Subset
<1>. HIDE DEF A, B, C, D
<1>4. Cardinality(C) = Cardinality(A) + Cardinality(B) - Cardinality(A \cap B)
  BY <1>1, <1>3, FS_Union
<1>5. Cardinality(A \cap B) = 0
  BY <1>1, FS_EmptySet
<1>6. Cardinality(D) = Cardinality(B) + 1
  BY <1>2, <1>3, FS_AddElement
<1>7. Cardinality(A) \in Nat /\ Cardinality(B) \in Nat
  BY <1>3, FS_CardinalityType
<1>8. (Cardinality(C) - Cardinality(A)) + 1 = Cardinality(D)
  BY <1>4, <1>5, <1>6, <1>7
<1>. QED  BY <1>8 DEF A, C, D, RanksTell

\* An insertion keeps the order of the nodes it finds.
LEMMA MovedOrder ==
  ASSUME NEW k \in Nat, NEW v, IntOn(v, 1 .. k), NEW n, NEW r \in Int, NEW w, MovedUp(w, v, k, n, r),
         NEW a \in 1 .. k, NEW b \in 1 .. k
  PROVE  /\ v[a] < v[b] <=> w[a] < w[b]
         /\ v[a] <= v[b] <=> w[a] <= w[b]
         /\ w[a] \in Int
<1>1. /\ v[a] \in Int /\ v[b] \in Int
      /\ w[a] = v[a] + (IF r <= v[a] THEN 1 ELSE 0) /\ w[b] = v[b] + (IF r <= v[b] THEN 1 ELSE 0)
  BY DEF IntOn, MovedUp
<1>. QED  BY <1>1

LEMMA ListedKept ==
  ASSUME NEW k \in Nat, NEW v, IntOn(v, 1 .. k), NEW n, NEW r \in Int, NEW w, MovedUp(w, v, k, n, r),
         NEW M, M \subseteq 1 .. k, NEW N, M \subseteq N, NEW first \in M, NEW last \in M, NEW list,
         Listed(list, M, v, first, last)
  PROVE  Listed(list, N, w, first, last)
<1>. PICK L : L = Len(list)
  OBVIOUS
<1>1. /\ list \in Seq(Node) /\ L \in Nat \ {0} /\ list[1] = first /\ Rising(list, v, Int)
      /\ \A i \in 1 .. L : list[i] \in M /\ v[list[i]] <= v[last]
  BY DEF Listed
<1>2. \A i \in 1 .. L : list[i] \in N /\ w[list[i]] <= w[last] /\ w[list[i]] \in Int
  <2>. SUFFICES ASSUME NEW i \in 1 .. L
                PROVE  list[i] \in N /\ w[list[i]] <= w[last] /\ w[list[i]] \in Int
    OBVIOUS
  <2>1. list[i] \in 1 .. k /\ last \in 1 .. k /\ v[list[i]] <= v[last]
    BY <1>1
  <2>2. w[list[i]] <= w[last] /\ w[list[i]] \in Int
    BY <2>1, MovedOrder
  <2>. QED  BY <1>1, <2>2
<1>3. ASSUME NEW i \in 1 .. L, NEW j \in 1 .. L, i < j
      PROVE  w[list[i]] < w[list[j]]
  <2>1. v[list[i]] < v[list[j]] /\ list[i] \in 1 .. k /\ list[j] \in 1 .. k
    BY <1>1, <1>3 DEF Rising
  <2>. QED  BY <2>1, MovedOrder
<1>4. Rising(list, w, Int)
  BY <1>2, <1>3 DEF Rising
<1>. QED  BY <1>1, <1>2, <1>4 DEF Listed

LEMMA ReachedKept ==
  ASSUME NEW k \in Nat, NEW v, IntOn(v, 1 .. k), NEW n, NEW r \in Int, NEW w, MovedUp(w, v, k, n, r),
         NEW node \in 1 .. k \cup {NULL}, NEW last \in 1 .. k, NEW some, NEW list,
         Reached(some, list, v, node, last)
  PROVE  Reached(some, list, w, node, last)
<1>1. node # NULL => (v[node] <= v[last] <=> w[node] <= w[last])
  BY MovedOrder
<1>. QED  BY <1>1 DEF Reached

\* Behind the last number nothing is added between the ends of a list.
LEMMA AllKept ==
  ASSUME NEW k \in Nat, NEW v, IntOn(v, 1 .. k), NEW n, NEW r \in Int, NEW w, MovedUp(w, v, k, n, r),
         \A y \in 1 .. k : v[y] < r, NEW M, M \subseteq 1 .. k, NEW N, N \subseteq M \cup {n},
         NEW first \in M, NEW last \in M, NEW list, ListsAll(list, M, v, first, last)
  PROVE  ListsAll(list, N, w, first, last)
<1>. SUFFICES ASSUME NEW m \in N, w[first] <= w[m], w[m] <= w[last]
              PROVE  \E i \in 1 .. Len(list) : list[i] = m
  BY DEF ListsAll
<1>1. m \in M
  <2>. SUFFICES ASSUME m = n  PROVE FALSE
    OBVIOUS
  <2>1. w[n] = r /\ v[last] < r /\ v[last] \in Int /\ last \in 1 .. k
    BY DEF MovedUp, IntOn
  <2>2. w[last] = v[last] + (IF r <= v[last] THEN 1 ELSE 0)
    BY <2>1 DEF MovedUp
  <2>. QED  BY <2>1, <2>2
<1>2. v[first] <= v[m] /\ v[m] <= v[last]
  BY <1>1, MovedOrder
<1>. QED  BY <1>1, <1>2 DEF ListsAll
=============================================================================
