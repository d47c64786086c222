----------------------------- MODULE PavlProofs -----------------------------
(***************************************************************************)
(* Lemmas about the AVL tables of Pavl: every table that insertions build  *)
(* is a search tree in balance, and is walked in order.  Heights and the   *)
(* ranges the keys of a subtree may lie in are not stored: the proofs      *)
(* carry them as functions of the node, h and span, that are shown to      *)
(* exist, and change them as the statements of pavl_probe_node_ex change   *)
(* the links.                                                              *)
(*                                                                         *)
(* `rank` stands for `key`: the lemmas hold of any numbers.                *)
(***************************************************************************)
EXTENDS Pavl, FiniteSetTheorems, SequenceTheorems, WellFoundedInduction, TLAPS

-----------------------------------------------------------------------------
(* Induction on the natural numbers, stated about sets. *)

\* Every set of natural numbers has a least member, if it has any.
LEMMA LeastMember ==
  ASSUME NEW T, T \subseteq Nat, T # {}
  PROVE  \E n \in T : \A m \in T : n <= m
<1>1. PICK n \in T : \A m \in T : ~(<<m, n>> \in OpToRel(<, Nat))
  BY NatLessThanWellFounded, WFMin
<1>2. ASSUME NEW m \in T, m < n
      PROVE  <<m, n>> \in OpToRel(<, Nat)
  <2>1. <<m, n>> \in Nat \X Nat /\ <<m, n>>[1] < <<m, n>>[2]
    BY <1>2
  <2>. QED  BY <2>1 DEF OpToRel
<1>3. \A m \in T : ~(m < n)
  BY <1>1, <1>2
<1>. QED  BY <1>3

\* A bounded set of natural numbers has a greatest member, if it has any.
LEMMA GreatestMember ==
  ASSUME NEW N \in Nat, NEW T, T \subseteq 0 .. N, T # {}
  PROVE  \E n \in T : \A m \in T : m <= n
<1>. PICK U : U = {N - m : m \in T}
  OBVIOUS
<1>1. U \subseteq Nat
  OBVIOUS
<1>0. U # {}
  <2>1. PICK m : m \in T
    OBVIOUS
  <2>. QED  BY <2>1
<1>2. PICK u \in U : \A v \in U : u <= v
  BY <1>0, <1>1, LeastMember
<1>3. PICK n \in T : u = N - n
  OBVIOUS
<1>4. ASSUME NEW m \in T
      PROVE  m <= n
  <2>1. N - n <= N - m
    BY <1>2, <1>3
  <2>. QED  BY <2>1
<1>. QED  BY <1>4

\* What holds of 0 and is handed on holds of every number up to s.
LEMMA Reaches ==
  ASSUME NEW s \in Nat, NEW T, 0 \in T, \A n \in 0 .. s - 1 : n \in T => n + 1 \in T
  PROVE  0 .. s \subseteq T
<1>. DEFINE U == (0 .. s) \ T
<1>. SUFFICES ASSUME U # {}  PROVE FALSE
  OBVIOUS
<1>1. PICK n \in U : \A m \in U : n <= m
  <2>1. U \subseteq Nat
    OBVIOUS
  <2>. HIDE DEF U
  <2>. QED  BY <2>1, LeastMember
<1>2. n - 1 \in 0 .. s - 1
  BY <1>1
<1>3. n - 1 \in T
  BY <1>1, <1>2
<1>4. (n - 1) + 1 \in T
  BY <1>2, <1>3
<1>. QED  BY <1>1, <1>4

-----------------------------------------------------------------------------
(* Nodes and their heights. *)

Slot == Node \cup {NULL}

\* Among some nodes with heights there is a lowest one, and a highest one when the
\* heights are bounded.
LEMMA Lowest ==
  ASSUME NEW T, NEW h, T # {}, \A n \in T : h[n] \in Nat
  PROVE  \E n \in T : \A m \in T : h[n] <= h[m]
<1>. PICK U : U = {h[n] : n \in T}
  OBVIOUS
<1>1. U \subseteq Nat /\ U # {}
  OBVIOUS
<1>2. PICK u \in U : \A v \in U : u <= v
  BY <1>1, LeastMember
<1>. QED  BY <1>2

\* Among nodes whose heights are bounded there is a highest one.
LEMMA Highest ==
  ASSUME NEW T, NEW h, NEW H \in Nat, T # {}, \A n \in T : h[n] \in 0 .. H
  PROVE  \E n \in T : \A m \in T : h[m] <= h[n]
<1>. PICK U : U = {h[n] : n \in T}
  OBVIOUS
<1>1. U \subseteq 0 .. H /\ U # {}
  OBVIOUS
<1>2. PICK u \in U : \A v \in U : v <= u
  BY <1>1, GreatestMember
<1>. QED  BY <1>2

\* A value that every node computes from those of two lower ones, l[n] and r[n].
Computed(f, base, step, l, r) ==
  /\ f[NULL] = base
  /\ \A n \in Node : f[n] = step[<<n, f[l[n]], f[r[n]]>>]

\* Such values exist when the heights are bounded.
LEMMA ComputedExists ==
  ASSUME NEW V, NEW base \in V, NEW step \in [Node \X V \X V -> V],
         NEW l, NEW r, NEW h, NEW H \in Nat,
         \A n \in Node : /\ l[n] \in Slot /\ r[n] \in Slot
                         /\ h[n] \in 1 .. H
                         /\ l[n] # NULL => h[l[n]] < h[n]
                         /\ r[n] # NULL => h[r[n]] < h[n]
  PROVE  \E f \in [Slot -> V] : Computed(f, base, step, l, r)
<1>. DEFINE UpTo(f, k) == /\ f \in [Slot -> V]
                          /\ f[NULL] = base
                          /\ \A n \in Node : h[n] <= k => f[n] = step[<<n, f[l[n]], f[r[n]]>>]
            T == {k \in 0 .. H : \E f : UpTo(f, k)}
<1>1. 0 \in T
  <2>1. UpTo([n \in Slot |-> base], 0)
    BY DEF Slot
  <2>. QED  BY <2>1
<1>2. ASSUME NEW k \in 0 .. H - 1, k \in T
      PROVE  k + 1 \in T
  <2>1. PICK f : UpTo(f, k)
    BY <1>2
  <2>. DEFINE g == [n \in Slot |-> IF n # NULL /\ h[n] = k + 1
                                   THEN step[<<n, f[l[n]], f[r[n]]>>] ELSE f[n]]
  <2>2. g \in [Slot -> V]
    <3>1. ASSUME NEW n \in Node
          PROVE  step[<<n, f[l[n]], f[r[n]]>>] \in V
      <4>1. f[l[n]] \in V /\ f[r[n]] \in V
        BY <2>1
      <4>2. <<n, f[l[n]], f[r[n]]>> \in Node \X V \X V
        BY <4>1
      <4>. QED  BY <4>2
    <3>. QED  BY <2>1, <3>1 DEF Slot
  <2>3. \A n \in Slot : n = NULL \/ h[n] <= k => g[n] = f[n]
    BY DEF Slot
  <2>4. ASSUME NEW n \in Node, h[n] <= k + 1
        PROVE  g[n] = step[<<n, g[l[n]], g[r[n]]>>]
    <3>1. \A m \in {l[n], r[n]} : m \in Slot /\ (m = NULL \/ h[m] <= k)
      <4>1. \A m \in {l[n], r[n]} : m \in Slot /\ (m # NULL => h[m] < h[n])
        OBVIOUS
      <4>. QED  BY <2>4, <4>1 DEF Slot
    <3>2. g[l[n]] = f[l[n]] /\ g[r[n]] = f[r[n]]
      BY <2>3, <3>1
    <3>3. n \in Slot /\ n # NULL
      BY NullAssumption DEF Slot
    <3>4. g[n] = step[<<n, f[l[n]], f[r[n]]>>]
      <4>1. CASE h[n] = k + 1
        BY <3>3, <4>1
      <4>2. CASE h[n] <= k
        BY <2>1, <2>3, <3>3, <4>2
      <4>. QED  BY <2>4, <4>1, <4>2, SMTT(30)
    <3>. QED  BY <3>2, <3>4
  <2>5. g[NULL] = base
    BY <2>1, <2>3 DEF Slot
  <2>6. UpTo(g, k + 1)
    BY <2>2, <2>4, <2>5
  <2>7. k + 1 \in 0 .. H
    OBVIOUS
  <2>. QED  BY <2>6, <2>7
<1>3. H \in T
  <2>. HIDE DEF T
  <2>1. 0 .. H \subseteq T
    BY <1>1, <1>2, Reaches
  <2>. QED  BY <2>1
<1>4. PICK f : UpTo(f, H)
  BY <1>3
<1>5. Computed(f, base, step, l, r)
  BY <1>4 DEF Computed
<1>. QED  BY <1>4, <1>5

-----------------------------------------------------------------------------
(* What a table of the nodes M is. *)

Sides == {0, 1}

Taller(a, b) == IF a >= b THEN a ELSE b

TableType(t) ==
  t \in [root : Slot, link : [Node -> [Sides -> Slot]], up : [Node -> Slot],
         bal : [Node -> Int], count : Nat]

\* Children are members of the table and know their parent; every member but the root
\* is a child of a member, and a node outside the table is alone.
Linked(t, M) ==
  /\ M \subseteq Node
  /\ t.root \in M \cup {NULL} /\ (t.root = NULL => M = {})
  /\ \A n \in M, s \in Sides :
       t.link[n][s] # NULL => t.link[n][s] \in M /\ t.up[t.link[n][s]] = n
  /\ \A n \in M : t.link[n][0] # NULL => t.link[n][0] # t.link[n][1]
  /\ \A n \in M : IF n = t.root THEN t.up[n] = NULL
                  ELSE t.up[n] \in M /\ \E s \in Sides : t.link[t.up[n]][s] = n
  /\ \A n \in Node \ M : t.up[n] = NULL /\ \A s \in Sides : t.link[n][s] = NULL

\* h is the height of n's subtree, and the balance of n tells how its children differ.
High(t, h, n) == h[n] = 1 + Taller(h[t.link[n][0]], h[t.link[n][1]])
Even(t, h, n) == t.bal[n] = h[t.link[n][1]] - h[t.link[n][0]]

HeightType(h, H) == H \in Nat /\ h \in [Slot -> 0 .. H] /\ h[NULL] = 0

Balanceable(t, h, H) ==
  /\ HeightType(h, H)
  /\ \A n \in Node : High(t, h, n) /\ Even(t, h, n) /\ t.bal[n] \in -1 .. 1

\* A table of M in balance: some function gives every node its height.
Sound(t, M) ==
  /\ TableType(t)
  /\ Linked(t, M)
  /\ \E H, h : Balanceable(t, h, H)

\* The empty table.
LEMMA EmptySound ==
  /\ Sound(EmptyTable, {}) /\ EmptyTable.root = NULL /\ EmptyTable.count = 0
  /\ \A n \in Node : EmptyTable.up[n] = NULL
<1>. DEFINE h == [n \in Slot |-> IF n = NULL THEN 0 ELSE 1]
<1>. PICK t : t = EmptyTable
  OBVIOUS
<1>1. /\ t.root = NULL /\ t.link = [n \in Node |-> [side \in {0, 1} |-> NULL]]
      /\ t.up = [n \in Node |-> NULL] /\ t.bal = [n \in Node |-> 0] /\ t.count = 0
  BY DEF EmptyTable
<1>2. \A n \in Node : /\ t.link[n][0] = NULL /\ t.link[n][1] = NULL
                      /\ t.up[n] = NULL /\ t.bal[n] = 0
  BY <1>1
<1>3. TableType(t)
  BY DEF EmptyTable, TableType, Slot, Sides
<1>4. Linked(t, {})
  BY <1>1, <1>2 DEF Linked, Sides
<1>5. Balanceable(t, h, 1)
  <2>1. HeightType(h, 1)
    BY DEF HeightType, Slot
  <2>2. \A n \in Node : h[n] = 1 /\ h[NULL] = 0
    BY NullAssumption DEF Slot
  <2>. HIDE DEF h
  <2>. QED  BY <1>2, <2>1, <2>2 DEF Balanceable, High, Even, Taller
<1>6. Sound(t, {})
  BY <1>3, <1>4, <1>5 DEF Sound
<1>. QED  BY <1>1, <1>2, <1>6

\* A node is higher than its children.
LEMMA ChildrenLower ==
  ASSUME NEW t, NEW h, NEW H, TableType(t), HeightType(h, H), NEW n \in Node, High(t, h, n)
  PROVE  /\ h[n] \in 1 .. H
         /\ \A s \in Sides : /\ t.link[n][s] \in Slot
                             /\ h[t.link[n][s]] \in 0 .. H
                             /\ h[t.link[n][s]] < h[n]
<1>1. n \in Slot /\ \A s \in Sides : t.link[n][s] \in Slot
  BY DEF TableType, Slot
<1>2. h[n] \in 0 .. H /\ \A s \in Sides : h[t.link[n][s]] \in 0 .. H
  BY <1>1 DEF HeightType
<1>3. h[n] >= 1 + h[t.link[n][0]] /\ h[n] >= 1 + h[t.link[n][1]]
  BY <1>2 DEF High, Taller, Sides
<1>4. \A s \in Sides : h[t.link[n][s]] < h[n]
  BY <1>2, <1>3 DEF Sides
<1>5. H \in Nat
  BY DEF HeightType
<1>. QED  BY <1>1, <1>2, <1>4, <1>5 DEF Sides

-----------------------------------------------------------------------------
(* Searching *)

Turn(rank, k, n) == IF k > rank[n] THEN 1 ELSE 0

\* p is the path of the search for k from n down.
Searched(t, M, rank, k, n, p) ==
  /\ p \in Seq(M)
  /\ IF n = NULL THEN p = <<>> ELSE Len(p) > 0 /\ p[1] = n
  /\ \A i \in 1 .. Len(p) - 1 :
       rank[p[i]] # k /\ p[i + 1] = t.link[p[i]][Turn(rank, k, p[i])]
  /\ p # <<>> => \/ rank[p[Len(p)]] = k
                 \/ t.link[p[Len(p)]][Turn(rank, k, p[Len(p)])] = NULL

\* The search of pavl_probe_node and pavl_find walks such a path from the root.
LEMMA SearchFrom ==
  ASSUME NEW t, NEW M, NEW h, NEW H, NEW rank, NEW k,
         TableType(t), Linked(t, M), Balanceable(t, h, H)
  PROVE  Searched(t, M, rank, k, t.root, SearchPath(t, rank, k))
<1>. DEFINE Toward(n) == t.link[n][IF k > rank[n] THEN 1 ELSE 0]
            l == [n \in Node |-> Toward(n)]
            Down(f) == f = [n \in Slot |->
                             IF n = NULL THEN <<>>
                             ELSE IF rank[n] = k THEN <<n>>
                             ELSE <<n>> \o f[t.link[n][IF k > rank[n] THEN 1 ELSE 0]]]
<1>1. H \in Nat /\ \A n \in Node : /\ h[n] \in 1 .. H
                                   /\ l[n] \in Slot /\ h[l[n]] < h[n]
  <2>1. H \in Nat /\ HeightType(h, H)
    BY DEF Balanceable, HeightType
  <2>2. ASSUME NEW n \in Node
        PROVE  h[n] \in 1 .. H /\ Toward(n) \in Slot /\ h[Toward(n)] < h[n]
    BY <2>1, ChildrenLower DEF Balanceable, Sides
  <2>. QED  BY <2>1, <2>2
<1>2. \E f : Down(f)
  <2>1. PICK step : step = [x \in Node \X Seq(Node) \X Seq(Node) |->
                              IF rank[x[1]] = k THEN <<x[1]>> ELSE <<x[1]>> \o x[2]]
    OBVIOUS
  <2>2. step \in [Node \X Seq(Node) \X Seq(Node) -> Seq(Node)]
    BY <2>1
  <2>3. <<>> \in Seq(Node)
    OBVIOUS
  <2>4. PICK f \in [Slot -> Seq(Node)] : Computed(f, <<>>, step, l, l)
    <3>. HIDE DEF l
    <3>. QED  BY <1>1, <2>2, <2>3, ComputedExists
  <2>5. ASSUME NEW n \in Node
        PROVE  f[n] = IF rank[n] = k THEN <<n>> ELSE <<n>> \o f[Toward(n)]
    <3>1. f[n] = step[<<n, f[l[n]], f[l[n]]>>]
      BY <2>4 DEF Computed
    <3>2. <<n, f[l[n]], f[l[n]]>> \in Node \X Seq(Node) \X Seq(Node)
      BY <1>1
    <3>3. step[<<n, f[l[n]], f[l[n]]>>] = IF rank[n] = k THEN <<n>> ELSE <<n>> \o f[l[n]]
      BY <2>1, <3>2
    <3>4. l[n] = Toward(n)
      OBVIOUS
    <3>. QED  BY <3>1, <3>3, <3>4
  <2>6. Down(f)
    <3>1. f = [n \in Slot |-> f[n]]
      BY <2>4
    <3>2. \A n \in Slot : f[n] = IF n = NULL THEN <<>>
                                ELSE IF rank[n] = k THEN <<n>> ELSE <<n>> \o f[Toward(n)]
      BY <2>4, <2>5 DEF Computed, Slot
    <3>. QED  BY <3>1, <3>2
  <2>. QED  BY <2>6
<1>3. PICK f : Down(f) /\ SearchPath(t, rank, k) = f[t.root]
  <2>1. SearchPath(t, rank, k) = (CHOOSE f : Down(f))[t.root]
    BY DEF SearchPath, Slot
  <2>. QED  BY <1>2, <2>1, Zenon
<1>4. f[NULL] = <<>> /\ \A n \in Node : f[n] = IF rank[n] = k THEN <<n>>
                                                 ELSE <<n>> \o f[Toward(n)]
  BY <1>3, NullAssumption DEF Slot
<1>. DEFINE Good(n) == Searched(t, M, rank, k, n, f[n])
<1>5. Good(NULL)
  BY <1>4 DEF Searched
<1>6. \A n \in M : Toward(n) \in M \cup {NULL}
  BY DEF Linked, Sides
<1>7. ASSUME NEW n \in M, Good(Toward(n))
      PROVE  Good(n)
  <2>. DEFINE q == f[Toward(n)]
  <2>0. n \in Node /\ n # NULL
    BY NullAssumption DEF Linked
  <2>1. CASE rank[n] = k
    <3>1. f[n] = <<n>>
      BY <1>4, <2>0, <2>1
    <3>. QED  BY <2>0, <2>1, <3>1 DEF Searched
  <2>2. CASE rank[n] # k
    <3>1. f[n] = <<n>> \o q
      BY <1>4, <2>0, <2>2
    <3>2. q \in Seq(M) /\ <<n>> \in Seq(M) /\ Len(<<n>>) = 1 /\ <<n>>[1] = n
      BY <1>7 DEF Searched
    <3>. HIDE DEF q
    <3>3. /\ f[n] \in Seq(M) /\ Len(f[n]) = 1 + Len(q) /\ Len(q) \in Nat
          /\ f[n][1] = n
          /\ \A i \in 1 .. Len(q) : f[n][i + 1] = q[i]
      <4>1. /\ <<n>> \o q \in Seq(M) /\ Len(<<n>> \o q) = 1 + Len(q)
            /\ \A i \in 1 .. 1 + Len(q) :
                 (<<n>> \o q)[i] = IF i <= 1 THEN <<n>>[i] ELSE q[i - 1]
        BY <3>2, ConcatProperties
      <4>2. Len(q) \in Nat
        BY <3>2
      <4>3. 1 \in 1 .. 1 + Len(q) /\ \A i \in 1 .. Len(q) : /\ i + 1 \in 1 .. 1 + Len(q)
                                                            /\ ~(i + 1 <= 1) /\ (i + 1) - 1 = i
        BY <4>2
      <4>4. (<<n>> \o q)[1] = <<n>>[1]
        BY <4>1, <4>3
      <4>5. \A i \in 1 .. Len(q) : (<<n>> \o q)[i + 1] = q[i]
        BY <4>1, <4>3
      <4>. QED  BY <3>1, <3>2, <4>1, <4>2, <4>4, <4>5
    <3>4. /\ Toward(n) = NULL => q = <<>>
          /\ Toward(n) # NULL => Len(q) > 0 /\ q[1] = Toward(n)
          /\ \A i \in 1 .. Len(q) - 1 :
               rank[q[i]] # k /\ q[i + 1] = t.link[q[i]][Turn(rank, k, q[i])]
          /\ q # <<>> => \/ rank[q[Len(q)]] = k
                         \/ t.link[q[Len(q)]][Turn(rank, k, q[Len(q)])] = NULL
      BY <1>7 DEF Searched, q
    <3>5. Toward(n) = t.link[n][Turn(rank, k, n)]
      BY DEF Turn
    <3>. HIDE DEF Turn
    <3>6. CASE Toward(n) = NULL
      <4>1. Len(f[n]) = 1
        BY <3>3, <3>4, <3>6
      <4>2. /\ f[n] \in Seq(M) /\ Len(f[n]) > 0 /\ f[n][1] = n
            /\ \A i \in 1 .. Len(f[n]) - 1 : FALSE
            /\ f[n][Len(f[n])] = n
        BY <3>3, <4>1
      <4>3. t.link[n][Turn(rank, k, n)] = NULL
        BY <3>5, <3>6
      <4>. QED  BY <2>0, <4>2, <4>3 DEF Searched
    <3>7. CASE Toward(n) # NULL
      <4>1. ASSUME NEW i \in 1 .. Len(f[n]) - 1
            PROVE  rank[f[n][i]] # k /\ f[n][i + 1] = t.link[f[n][i]][Turn(rank, k, f[n][i])]
        <5>1. CASE i = 1
          BY <2>2, <3>3, <3>4, <3>5, <3>7, <5>1
        <5>2. CASE i > 1
          <6>1. i - 1 \in 1 .. Len(q) - 1 /\ (i - 1) + 1 = i /\ i \in 1 .. Len(q)
                /\ i - 1 \in 1 .. Len(q)
            BY <3>3, <5>2
          <6>2. f[n][i] = q[i - 1] /\ f[n][i + 1] = q[i]
            BY <3>3, <6>1
          <6>3. rank[q[i - 1]] # k /\ q[(i - 1) + 1] = t.link[q[i - 1]][Turn(rank, k, q[i - 1])]
            BY <3>4, <6>1
          <6>. QED  BY <6>1, <6>2, <6>3
        <5>. QED  BY <3>3, <5>1, <5>2
      <4>2. Len(q) \in 1 .. Len(q) /\ f[n][Len(f[n])] = q[Len(q)] /\ q # <<>> /\ Len(f[n]) > 0
        BY <3>3, <3>4, <3>7
      <4>3. f[n][1] = n /\ f[n] \in Seq(M)
        BY <3>3
      <4>. QED  BY <2>0, <3>4, <4>1, <4>2, <4>3 DEF Searched
    <3>. QED  BY <3>6, <3>7
  <2>. QED  BY <2>1, <2>2
<1>8. \A n \in M : Good(n)
  <2>. DEFINE T == {n \in M : ~Good(n)}
  <2>. SUFFICES ASSUME T # {}  PROVE FALSE
    OBVIOUS
  <2>. HIDE DEF Good
  <2>1. \A n \in T : h[n] \in Nat
    BY <1>1 DEF Linked
  <2>2. PICK n \in T : \A m \in T : h[n] <= h[m]
    <3>. HIDE DEF T
    <3>. QED  BY <2>1, Lowest
  <2>3. n \in Node /\ h[Toward(n)] < h[n] /\ h[n] \in Nat
    BY <1>1, <2>1, <2>2 DEF Linked
  <2>4. Toward(n) # NULL => h[Toward(n)] \in Nat
    BY <1>1, <1>6, <2>2 DEF Linked
  <2>5. Toward(n) \in M => Toward(n) \notin T
    BY <1>1, <2>2, <2>3 DEF Linked
  <2>6. Good(Toward(n))
    BY <1>5, <1>6, <2>2, <2>5
  <2>. QED  BY <1>7, <2>2, <2>6
<1>9. t.root \in M \cup {NULL}
  BY DEF Linked
<1>. QED  BY <1>3, <1>5, <1>8, <1>9
LinkSet(t, n, s, v) == [t EXCEPT !.link[n][s] = v]
UpSet(t, n, v) == [t EXCEPT !.up[n] = v]
BalSet(t, n, v) == [t EXCEPT !.bal[n] = v]
RootSet(t, v) == [t EXCEPT !.root = v]
CountSet(t) == [t EXCEPT !.count = @ + 1]

IsLinkSet(u, t, n, s, v) ==
  /\ TableType(u)
  /\ u.root = t.root /\ u.up = t.up /\ u.bal = t.bal /\ u.count = t.count
  /\ \A m \in Node, i \in Sides : u.link[m][i] = IF m = n /\ i = s THEN v ELSE t.link[m][i]

IsUpSet(u, t, n, v) ==
  /\ TableType(u)
  /\ u.root = t.root /\ u.link = t.link /\ u.bal = t.bal /\ u.count = t.count
  /\ \A m \in Node : u.up[m] = IF m = n THEN v ELSE t.up[m]

IsBalSet(u, t, n, v) ==
  /\ TableType(u)
  /\ u.root = t.root /\ u.link = t.link /\ u.up = t.up /\ u.count = t.count
  /\ \A m \in Node : u.bal[m] = IF m = n THEN v ELSE t.bal[m]

\* Each of these one-field changes does what its name says and keeps the type.
LEMMA SetLink ==
  ASSUME NEW t, TableType(t), NEW n \in Node, NEW s \in Sides, NEW v \in Slot
  PROVE  IsLinkSet(LinkSet(t, n, s, v), t, n, s, v)
<1>. DEFINE u == LinkSet(t, n, s, v)
<1>1. /\ t.link \in [Node -> [Sides -> Slot]]
      /\ t = [root |-> t.root, link |-> t.link, up |-> t.up, bal |-> t.bal, count |-> t.count]
  BY DEF TableType
<1>2. u = [root |-> t.root, link |-> [t.link EXCEPT ![n][s] = v], up |-> t.up, bal |-> t.bal,
           count |-> t.count]
  <2>1. PICK l : l = [t.link EXCEPT ![n][s] = v]
    OBVIOUS
  <2>2. u = [t EXCEPT !.link = l]
    BY <2>1 DEF LinkSet
  <2>3. [t EXCEPT !.link = l] = [root |-> t.root, link |-> l, up |-> t.up, bal |-> t.bal,
                                 count |-> t.count]
    BY <1>1
  <2>. QED  BY <2>1, <2>2, <2>3
<1>3. /\ [t.link EXCEPT ![n][s] = v] \in [Node -> [Sides -> Slot]]
      /\ \A m \in Node, i \in Sides :
           [t.link EXCEPT ![n][s] = v][m][i] = IF m = n /\ i = s THEN v ELSE t.link[m][i]
  BY <1>1
<1>4. TableType(u)
  BY <1>2, <1>3 DEF TableType
<1>. QED  BY <1>2, <1>3, <1>4 DEF IsLinkSet

\* A parent pointer is set, the rest stays.
LEMMA SetUp ==
  ASSUME NEW t, TableType(t), NEW n \in Node, NEW v \in Slot
  PROVE  IsUpSet(UpSet(t, n, v), t, n, v)
<1>. DEFINE u == UpSet(t, n, v)
<1>1. /\ t.up \in [Node -> Slot]
      /\ t = [root |-> t.root, link |-> t.link, up |-> t.up, bal |-> t.bal, count |-> t.count]
  BY DEF TableType
<1>2. u = [root |-> t.root, link |-> t.link, up |-> [t.up EXCEPT ![n] = v], bal |-> t.bal,
           count |-> t.count]
  BY <1>1 DEF UpSet
<1>3. /\ [t.up EXCEPT ![n] = v] \in [Node -> Slot]
      /\ \A m \in Node : [t.up EXCEPT ![n] = v][m] = IF m = n THEN v ELSE t.up[m]
  BY <1>1
<1>4. TableType(u)
  BY <1>2, <1>3 DEF TableType
<1>. QED  BY <1>2, <1>3, <1>4 DEF IsUpSet

\* A balance is set, the rest stays.
LEMMA SetBal ==
  ASSUME NEW t, TableType(t), NEW n \in Node, NEW v \in Int
  PROVE  IsBalSet(BalSet(t, n, v), t, n, v)
<1>. DEFINE u == BalSet(t, n, v)
<1>1. /\ t.bal \in [Node -> Int]
      /\ t = [root |-> t.root, link |-> t.link, up |-> t.up, bal |-> t.bal, count |-> t.count]
  BY DEF TableType
<1>2. u = [root |-> t.root, link |-> t.link, up |-> t.up, bal |-> [t.bal EXCEPT ![n] = v],
           count |-> t.count]
  BY <1>1 DEF BalSet
<1>3. /\ [t.bal EXCEPT ![n] = v] \in [Node -> Int]
      /\ \A m \in Node : [t.bal EXCEPT ![n] = v][m] = IF m = n THEN v ELSE t.bal[m]
  BY <1>1
<1>4. TableType(u)
  BY <1>2, <1>3 DEF TableType
<1>. QED  BY <1>2, <1>3, <1>4 DEF IsBalSet

\* The root is set, the rest stays.
LEMMA SetRoot ==
  ASSUME NEW t, TableType(t), NEW v \in Slot
  PROVE  /\ TableType(RootSet(t, v)) /\ RootSet(t, v).root = v
         /\ RootSet(t, v).link = t.link /\ RootSet(t, v).up = t.up
         /\ RootSet(t, v).bal = t.bal /\ RootSet(t, v).count = t.count
<1>1. t = [root |-> t.root, link |-> t.link, up |-> t.up, bal |-> t.bal, count |-> t.count]
  BY DEF TableType
<1>2. RootSet(t, v) = [root |-> v, link |-> t.link, up |-> t.up, bal |-> t.bal,
                       count |-> t.count]
  BY <1>1 DEF RootSet
<1>. QED  BY <1>2 DEF TableType

\* An item is counted, the rest stays.
LEMMA SetCount ==
  ASSUME NEW t, TableType(t)
  PROVE  /\ TableType(CountSet(t)) /\ CountSet(t).count = t.count + 1
         /\ CountSet(t).root = t.root /\ CountSet(t).link = t.link
         /\ CountSet(t).up = t.up /\ CountSet(t).bal = t.bal
<1>1. /\ t.count \in Nat
      /\ t = [root |-> t.root, link |-> t.link, up |-> t.up, bal |-> t.bal, count |-> t.count]
  BY DEF TableType
<1>2. CountSet(t) = [root |-> t.root, link |-> t.link, up |-> t.up, bal |-> t.bal,
                     count |-> t.count + 1]
  BY <1>1 DEF CountSet
<1>. QED  BY <1>1, <1>2 DEF TableType

\* The parent pointer of a node's child is set to the node.
IsAdopted(u, t, n, c) ==
  /\ TableType(u)
  /\ u.root = t.root /\ u.link = t.link /\ u.bal = t.bal /\ u.count = t.count
  /\ \A m \in Node : u.up[m] = IF m = c THEN n ELSE t.up[m]

\* What Adopt does to each field, whether or not there is a child.
LEMMA AdoptFields ==
  ASSUME NEW t, TableType(t), NEW n \in Node, NEW s \in Sides
  PROVE  IsAdopted(Adopt(t, n, s), t, n, t.link[n][s])
<1>. DEFINE c == t.link[n][s]
<1>1. c \in Slot /\ n \in Slot /\ NULL \notin Node
  BY NullAssumption DEF TableType, Slot
<1>2. CASE c = NULL
  BY <1>1, <1>2 DEF Adopt, IsAdopted
<1>3. CASE c # NULL
  <2>1. c \in Node /\ Adopt(t, n, s) = UpSet(t, c, n)
    <3>1. c \in Node
      BY <1>1, <1>3 DEF Slot
    <3>2. Adopt(t, n, s) = UpSet(t, c, n)
      BY <1>3, Zenon DEF Adopt, UpSet
    <3>. QED  BY <3>1, <3>2
  <2>2. IsUpSet(UpSet(t, c, n), t, c, n)
    BY <1>1, <2>1, SetUp
  <2>. QED  BY <2>1, <2>2 DEF IsUpSet, IsAdopted
<1>. QED  BY <1>2, <1>3

\* The root of a rotated subtree takes the place of y below p.
IsReattached(u, t, p, y, w) ==
  /\ TableType(u) /\ u.up = t.up /\ u.bal = t.bal /\ u.count = t.count
  /\ u.root = IF p = NULL THEN w ELSE t.root
  /\ \A m \in Node, i \in Sides :
       u.link[m][i] = IF m = p /\ i = SideOf(t, p, y) THEN w ELSE t.link[m][i]

\* What Reattach does to each field, at the root and below a parent.
LEMMA ReattachFields ==
  ASSUME NEW t, TableType(t), NEW p \in Slot, NEW y \in Node, NEW w \in Node
  PROVE  IsReattached(Reattach(t, p, y, w), t, p, y, w)
<1>1. NULL \notin Node /\ w \in Slot
  BY NullAssumption DEF Slot
<1>2. CASE p = NULL
  <2>1. Reattach(t, p, y, w) = RootSet(t, w)
    BY <1>2 DEF Reattach, RootSet
  <2>2. /\ TableType(RootSet(t, w)) /\ RootSet(t, w).root = w
        /\ RootSet(t, w).link = t.link /\ RootSet(t, w).up = t.up
        /\ RootSet(t, w).bal = t.bal /\ RootSet(t, w).count = t.count
    BY <1>1, SetRoot
  <2>. QED  BY <1>1, <1>2, <2>1, <2>2 DEF IsReattached
<1>3. CASE p # NULL
  <2>1. Reattach(t, p, y, w) = LinkSet(t, p, SideOf(t, p, y), w) /\ p \in Node
    BY <1>3 DEF Reattach, Slot, LinkSet
  <2>2. SideOf(t, p, y) \in Sides
    BY DEF SideOf, Sides
  <2>3. IsLinkSet(LinkSet(t, p, SideOf(t, p, y), w), t, p, SideOf(t, p, y), w)
    BY <1>1, <2>1, <2>2, SetLink
  <2>. QED  BY <1>3, <2>1, <2>3 DEF IsLinkSet, IsReattached
<1>. QED  BY <1>2, <1>3

\* What a single rotation does to links and parents; everything else is as it was.
IsSingle(u, t, s, y, x) ==
  /\ TableType(u) /\ u.count = t.count
  /\ u.root = IF t.up[y] = NULL THEN x ELSE t.root
  /\ \A m \in Node :
       /\ u.bal[m] = IF m \in {x, y} THEN 0 ELSE t.bal[m]
       /\ u.up[m] = IF m = t.link[x][1 - s] THEN y
                    ELSE IF m = x THEN t.up[y] ELSE IF m = y THEN x ELSE t.up[m]
       /\ \A i \in Sides :
            u.link[m][i] = IF m = t.up[y] /\ i = SideOf(t, m, y) THEN x
                           ELSE IF m = y /\ i = s THEN t.link[x][1 - s]
                           ELSE IF m = x /\ i # s THEN y
                           ELSE t.link[m][i]

\* What a single rotation does to each field (pavl_extensions.cpp:121-128, 155-162).
LEMMA SingleFields ==
  ASSUME NEW t, TableType(t), NEW s \in Sides, NEW y \in Node, NEW x \in Node,
         x = t.link[y][s], x # y, t.up[y] \notin {x, y}
  PROVE  IsSingle(SingleRotation(t, y, s), t, s, y, x)
<1>. DEFINE b == t.link[x][1 - s]
            p == t.up[y]
            r1 == LinkSet(t, y, s, b)
            r2 == LinkSet(r1, x, 1 - s, y)
            r3 == BalSet(r2, x, 0)
            r4 == BalSet(r3, y, 0)
            r5 == UpSet(r4, x, p)
            r6 == UpSet(r5, y, x)
            r7 == Adopt(r6, y, s)
            u == Reattach(r7, p, y, x)
<1>0. SingleRotation(t, y, s) = u
  BY DEF SingleRotation, LinkSet, BalSet, UpSet
<1>1. /\ 1 - s \in Sides /\ 1 - s # s /\ \A i \in Sides : i # s <=> i = 1 - s
      /\ x \in Slot /\ y \in Slot /\ b \in Slot /\ p \in Slot /\ 0 \in Int
  BY DEF Sides, TableType, Slot
<1>. HIDE DEF b, p, r1, r2, r3, r4, r5, r6, r7, u
<1>2. IsLinkSet(r1, t, y, s, b)
  BY <1>1, SetLink DEF r1
<1>3. IsLinkSet(r2, r1, x, 1 - s, y)
  <2>1. TableType(r1)
    BY <1>2 DEF IsLinkSet
  <2>. QED  BY <1>1, <2>1, SetLink DEF r2
<1>4. IsBalSet(r3, r2, x, 0)
  BY <1>1, <1>3, SetBal DEF r3, IsLinkSet
<1>5. IsBalSet(r4, r3, y, 0)
  BY <1>1, <1>4, SetBal DEF r4, IsBalSet
<1>6. IsUpSet(r5, r4, x, p)
  BY <1>1, <1>5, SetUp DEF r5, IsBalSet
<1>7. IsUpSet(r6, r5, y, x)
  <2>1. TableType(r5)
    BY <1>6 DEF IsUpSet
  <2>. QED  BY <1>1, <2>1, SetUp DEF r6
<1>8. r6.link = r2.link
  BY <1>4, <1>5, <1>6, <1>7 DEF IsBalSet, IsUpSet
<1>9. r6.link[y][s] = b
  BY <1>1, <1>2, <1>3, <1>8 DEF IsLinkSet
<1>10. IsAdopted(r7, r6, y, r6.link[y][s])
  BY <1>1, <1>7, AdoptFields DEF r7, IsUpSet
<1>11. IsReattached(u, r7, p, y, x)
  BY <1>1, <1>10, ReattachFields DEF u, IsAdopted
<1>12. /\ TableType(u) /\ u.count = t.count
       /\ u.root = IF p = NULL THEN x ELSE t.root
  BY <1>2, <1>3, <1>4, <1>5, <1>6, <1>7, <1>10, <1>11
     DEF IsLinkSet, IsBalSet, IsUpSet, IsAdopted, IsReattached
<1>13. p \in Node => SideOf(r7, p, y) = SideOf(t, p, y)
  <2>1. p \in Node => r7.link[p][0] = t.link[p][0]
    BY <1>2, <1>3, <1>8, <1>10 DEF IsLinkSet, IsAdopted, p, Sides
  <2>. QED  BY <2>1 DEF SideOf
<1>14. \A m \in Node : u.bal[m] = IF m \in {x, y} THEN 0 ELSE t.bal[m]
  BY <1>2, <1>3, <1>4, <1>5, <1>6, <1>7, <1>10, <1>11
     DEF IsLinkSet, IsBalSet, IsUpSet, IsAdopted, IsReattached
<1>15. \A m \in Node : u.up[m] = IF m = b THEN y ELSE IF m = x THEN p ELSE IF m = y THEN x
                                 ELSE t.up[m]
  BY <1>2, <1>3, <1>4, <1>5, <1>6, <1>7, <1>9, <1>10, <1>11
     DEF IsLinkSet, IsBalSet, IsUpSet, IsAdopted, IsReattached
<1>16. \A m \in Node, i \in Sides :
         u.link[m][i] = IF m = p /\ i = SideOf(t, m, y) THEN x
                        ELSE IF m = y /\ i = s THEN b ELSE IF m = x /\ i # s THEN y
                        ELSE t.link[m][i]
  BY <1>1, <1>2, <1>3, <1>8, <1>10, <1>11, <1>13
     DEF IsLinkSet, IsAdopted, IsReattached
<1>. QED  BY <1>0, <1>12, <1>14, <1>15, <1>16 DEF b, p, IsSingle

\* What a double rotation does.
Heavy(s) == IF s = 0 THEN -1 ELSE 1

IsDouble(u, t, s, y, x, w) ==
  /\ TableType(u) /\ u.count = t.count
  /\ u.root = IF t.up[y] = NULL THEN w ELSE t.root
  /\ \A m \in Node :
       /\ u.bal[m] = IF m = w THEN 0
                     ELSE IF m = y THEN IF t.bal[w] = Heavy(s) THEN -Heavy(s) ELSE 0
                     ELSE IF m = x THEN IF t.bal[w] = -Heavy(s) THEN Heavy(s) ELSE 0
                     ELSE t.bal[m]
       /\ u.up[m] = IF m = t.link[w][1 - s] THEN y ELSE IF m = t.link[w][s] THEN x
                    ELSE IF m = w THEN t.up[y] ELSE IF m \in {x, y} THEN w ELSE t.up[m]
       /\ \A i \in Sides :
            u.link[m][i] = IF m = t.up[y] /\ i = SideOf(t, m, y) THEN w
                           ELSE IF m = w THEN IF i = s THEN x ELSE y
                           ELSE IF m = x /\ i # s THEN t.link[w][s]
                           ELSE IF m = y /\ i = s THEN t.link[w][1 - s]
                           ELSE t.link[m][i]

\* What a double rotation does to each field (pavl_extensions.cpp:131-148, 165-182).
LEMMA DoubleFields ==
  ASSUME NEW t, TableType(t), NEW s \in Sides, NEW y \in Node, NEW x \in Node, NEW w \in Node,
         x = t.link[y][s], w = t.link[x][1 - s], x # y, w # x, w # y, t.up[y] \notin {x, y, w}
  PROVE  IsDouble(DoubleRotation(t, y, s), t, s, y, x, w)
<1>. DEFINE b == t.link[w][s]
            c == t.link[w][1 - s]
            p == t.up[y]
            balx == IF t.bal[w] = -Heavy(s) THEN Heavy(s) ELSE 0
            baly == IF t.bal[w] = Heavy(s) THEN -Heavy(s) ELSE 0
            r1 == LinkSet(t, x, 1 - s, b)
            r2 == LinkSet(r1, w, s, x)
            r3 == LinkSet(r2, y, s, c)
            r4 == LinkSet(r3, w, 1 - s, y)
            r5 == BalSet(r4, x, balx)
            r6 == BalSet(r5, y, baly)
            r7 == BalSet(r6, w, 0)
            r8 == UpSet(r7, w, p)
            r9 == UpSet(r8, x, w)
            r10 == UpSet(r9, y, w)
            r11 == Adopt(r10, x, 1 - s)
            r12 == Adopt(r11, y, s)
            u == Reattach(r12, p, y, w)
<1>0. DoubleRotation(t, y, s) = u
  BY DEF DoubleRotation, LinkSet, BalSet, UpSet, Heavy
<1>1. /\ 1 - s \in Sides /\ 1 - s # s /\ \A i \in Sides : i # s <=> i = 1 - s
      /\ x \in Slot /\ y \in Slot /\ w \in Slot /\ b \in Slot /\ c \in Slot /\ p \in Slot
  BY DEF Sides, TableType, Slot
<1>2. 0 \in Int /\ balx \in Int /\ baly \in Int
  BY DEF Heavy
<1>. HIDE DEF b, c, p, balx, baly, r1, r2, r3, r4, r5, r6, r7, r8, r9, r10, r11, r12, u
<1>3. IsLinkSet(r1, t, x, 1 - s, b)
  BY <1>1, SetLink DEF r1
<1>4. IsLinkSet(r2, r1, w, s, x)
  <2>1. TableType(r1)
    BY <1>3 DEF IsLinkSet
  <2>. QED  BY <1>1, <2>1, SetLink DEF r2
<1>5. IsLinkSet(r3, r2, y, s, c)
  <2>1. TableType(r2)
    BY <1>4 DEF IsLinkSet
  <2>. QED  BY <1>1, <2>1, SetLink DEF r3
<1>6. IsLinkSet(r4, r3, w, 1 - s, y)
  <2>1. TableType(r3)
    BY <1>5 DEF IsLinkSet
  <2>. QED  BY <1>1, <2>1, SetLink DEF r4
<1>7. IsBalSet(r5, r4, x, balx)
  <2>1. TableType(r4)
    BY <1>6 DEF IsLinkSet
  <2>. QED  BY <1>2, <2>1, SetBal DEF r5
<1>8. IsBalSet(r6, r5, y, baly)
  <2>1. TableType(r5)
    BY <1>7 DEF IsBalSet
  <2>. QED  BY <1>2, <2>1, SetBal DEF r6
<1>9. IsBalSet(r7, r6, w, 0)
  <2>1. TableType(r6)
    BY <1>8 DEF IsBalSet
  <2>. QED  BY <1>2, <2>1, SetBal DEF r7
<1>10. IsUpSet(r8, r7, w, p)
  <2>1. TableType(r7)
    BY <1>9 DEF IsBalSet
  <2>. QED  BY <1>1, <2>1, SetUp DEF r8
<1>11. IsUpSet(r9, r8, x, w)
  <2>1. TableType(r8)
    BY <1>10 DEF IsUpSet
  <2>. QED  BY <1>1, <2>1, SetUp DEF r9
<1>12. IsUpSet(r10, r9, y, w)
  <2>1. TableType(r9)
    BY <1>11 DEF IsUpSet
  <2>. QED  BY <1>1, <2>1, SetUp DEF r10
<1>13. \A m \in Node, i \in Sides :
         r10.link[m][i] = IF m = w THEN IF i = s THEN x ELSE y
                          ELSE IF m = x /\ i # s THEN b
                          ELSE IF m = y /\ i = s THEN c
                          ELSE t.link[m][i]
  <2>1. r10.link = r4.link
    BY <1>7, <1>8, <1>9, <1>10, <1>11, <1>12 DEF IsBalSet, IsUpSet
  <2>. QED  BY <1>1, <1>3, <1>4, <1>5, <1>6, <2>1 DEF IsLinkSet
<1>14. r10.link[x][1 - s] = b /\ r10.link[y][s] = c
  BY <1>1, <1>13
<1>15. IsAdopted(r11, r10, x, b)
  <2>1. TableType(r10)
    BY <1>12 DEF IsUpSet
  <2>2. IsAdopted(r11, r10, x, r10.link[x][1 - s])
    BY <1>1, <2>1, AdoptFields DEF r11
  <2>. QED  BY <1>14, <2>2
<1>16. IsAdopted(r12, r11, y, c)
  <2>1. TableType(r11) /\ r11.link = r10.link
    BY <1>15 DEF IsAdopted
  <2>2. IsAdopted(r12, r11, y, r11.link[y][s])
    BY <1>1, <2>1, AdoptFields DEF r12
  <2>. QED  BY <1>14, <2>1, <2>2
<1>17. IsReattached(u, r12, p, y, w)
  <2>1. TableType(r12)
    BY <1>16 DEF IsAdopted
  <2>. QED  BY <1>1, <2>1, ReattachFields DEF u
<1>18. /\ r10.count = t.count /\ r10.root = t.root
       /\ \A m \in Node : r10.bal[m] = IF m = w THEN 0 ELSE IF m = y THEN baly
                                       ELSE IF m = x THEN balx ELSE t.bal[m]
       /\ \A m \in Node : r10.up[m] = IF m \in {x, y} THEN w ELSE IF m = w THEN p ELSE t.up[m]
  <2>1. r4.count = t.count /\ r4.root = t.root /\ r4.bal = t.bal /\ r4.up = t.up
    BY <1>3, <1>4, <1>5, <1>6 DEF IsLinkSet
  <2>2. /\ r7.count = t.count /\ r7.root = t.root /\ r7.up = t.up
        /\ \A m \in Node : r7.bal[m] = IF m = w THEN 0 ELSE IF m = y THEN baly
                                       ELSE IF m = x THEN balx ELSE t.bal[m]
    BY <1>7, <1>8, <1>9, <2>1 DEF IsBalSet
  <2>. QED  BY <1>10, <1>11, <1>12, <2>2 DEF IsUpSet
<1>19. /\ TableType(u) /\ u.count = t.count
       /\ u.root = IF p = NULL THEN w ELSE t.root
       /\ u.bal = r10.bal
       /\ \A m \in Node : u.up[m] = IF m = c THEN y ELSE IF m = b THEN x ELSE r10.up[m]
  BY <1>15, <1>16, <1>17, <1>18, SMTT(30) DEF IsAdopted, IsReattached
<1>20. p \in Node => SideOf(r12, p, y) = SideOf(t, p, y)
  <2>1. p \in Node => r12.link[p][0] = t.link[p][0]
    BY <1>13, <1>15, <1>16 DEF IsAdopted, p, Sides
  <2>. QED  BY <2>1 DEF SideOf
<1>21. \A m \in Node, i \in Sides :
         u.link[m][i] = IF m = p /\ i = SideOf(t, m, y) THEN w ELSE r10.link[m][i]
  BY <1>15, <1>16, <1>17, <1>20 DEF IsAdopted, IsReattached
<1>22. \A m \in Node :
         /\ u.bal[m] = IF m = w THEN 0 ELSE IF m = y THEN baly ELSE IF m = x THEN balx
                       ELSE t.bal[m]
         /\ u.up[m] = IF m = c THEN y ELSE IF m = b THEN x ELSE IF m = w THEN p
                      ELSE IF m \in {x, y} THEN w ELSE t.up[m]
  BY <1>18, <1>19, SMTT(30)
<1>23. \A m \in Node, i \in Sides :
         u.link[m][i] = IF m = p /\ i = SideOf(t, m, y) THEN w
                        ELSE IF m = w THEN IF i = s THEN x ELSE y
                        ELSE IF m = x /\ i # s THEN b
                        ELSE IF m = y /\ i = s THEN c
                        ELSE t.link[m][i]
  BY <1>13, <1>21
<1>. QED  BY <1>0, <1>19, <1>22, <1>23, ZenonT(60) DEF b, c, p, balx, baly, IsDouble

\* The table before a rotation: h is right for every node but y, which is declared as
\* high as it was before the insertion.  Its heavy child leans, which is what the
\* assertions of pavl_extensions.cpp:130 and :164 say.
Lopsided(t, M, h, H, y, s) ==
  /\ TableType(t) /\ Linked(t, M) /\ HeightType(h, H)
  /\ y \in M /\ s \in Sides
  /\ \A m \in Node \ {y} : High(t, h, m) /\ Even(t, h, m) /\ t.bal[m] \in -1 .. 1
  /\ t.link[y][s] \notin {NULL, y} /\ t.bal[t.link[y][s]] # 0
  /\ h[t.link[y][s]] = h[y] /\ h[t.link[y][1 - s]] = h[y] - 2

\* The node above y, if any.
Above(t, M, h, y) ==
  \/ t.up[y] = NULL /\ t.root = y
  \/ /\ t.up[y] \in M \ {y} /\ t.root # y
     /\ h[t.up[y]] > h[y]
     /\ SideOf(t, t.up[y], y) \in Sides
     /\ \A i \in Sides : t.link[t.up[y]][i] = y <=> i = SideOf(t, t.up[y], y)

\* A lopsided node hangs below a higher one, or is the root.
LEMMA LopsidedAbove ==
  ASSUME NEW t, NEW M, NEW h, NEW H, NEW y, NEW s, Lopsided(t, M, h, H, y, s)
  PROVE  Above(t, M, h, y)
<1>. DEFINE p == t.up[y]
<1>1. y # NULL /\ y \in Node /\ M \subseteq Node
  BY NullAssumption DEF Lopsided, Linked
<1>2. CASE y = t.root
  BY <1>2 DEF Lopsided, Linked, Above
<1>3. CASE y # t.root
  <2>1. p \in M /\ \E i \in Sides : t.link[p][i] = y
    BY <1>3 DEF Lopsided, Linked
  <2>2. t.link[y][s] # y /\ t.link[y][1 - s] # y
    <3>1. h[y] \in Nat
      BY <1>1 DEF Lopsided, HeightType, Slot
    <3>. QED  BY <3>1 DEF Lopsided
  <2>3. p # y
    BY <2>1, <2>2 DEF Lopsided, Sides
  <2>4. High(t, h, p) /\ p \in Node /\ TableType(t) /\ HeightType(h, H)
    BY <1>1, <2>1, <2>3 DEF Lopsided
  <2>5. h[p] > h[y]
    BY <2>1, <2>4, ChildrenLower
  <2>6. t.link[p][0] # NULL => t.link[p][0] # t.link[p][1]
    BY <2>1 DEF Lopsided, Linked
  <2>7. /\ SideOf(t, p, y) \in Sides
        /\ \A i \in Sides : t.link[p][i] = y <=> i = SideOf(t, p, y)
    BY <1>1, <2>1, <2>6 DEF SideOf, Sides
  <2>. QED  BY <1>3, <2>1, <2>3, <2>5, <2>7 DEF Above
<1>. QED  BY <1>2, <1>3

\* How the children of a node differ.
Differing(t, h, m, s) ==
  /\ h[m] \in Nat /\ h[t.link[m][s]] \in Nat /\ h[t.link[m][1 - s]] \in Nat
  /\ t.link[m][s] \in Slot /\ t.link[m][1 - s] \in Slot
  /\ h[t.link[m][s]] < h[m] /\ h[t.link[m][1 - s]] < h[m]
  /\ t.bal[m] = Heavy(s) => h[t.link[m][s]] = h[m] - 1 /\ h[t.link[m][1 - s]] = h[m] - 2
  /\ t.bal[m] = -Heavy(s) => h[t.link[m][1 - s]] = h[m] - 1 /\ h[t.link[m][s]] = h[m] - 2
  /\ t.bal[m] = 0 => h[t.link[m][1 - s]] = h[m] - 1 /\ h[t.link[m][s]] = h[m] - 1
  /\ t.bal[m] \in {-1, 0, 1}

\* A balance of -1, 0 or 1 tells the heights of both children.
LEMMA Differ ==
  ASSUME NEW t, NEW h, NEW H, NEW s \in Sides, NEW m \in Node, TableType(t), HeightType(h, H),
         High(t, h, m), Even(t, h, m), t.bal[m] \in -1 .. 1
  PROVE  Differing(t, h, m, s)
<1>1. 1 - s \in Sides
  BY DEF Sides
<1>2. /\ h[m] \in 1 .. H
      /\ \A i \in Sides : /\ t.link[m][i] \in Slot
                          /\ h[t.link[m][i]] \in 0 .. H
                          /\ h[t.link[m][i]] < h[m]
  BY <1>1, ChildrenLower
<1>3. H \in Nat
  BY <1>1 DEF HeightType
<1>4. h[m] \in Nat /\ \A i \in Sides : h[t.link[m][i]] \in Nat
  BY <1>2, <1>3
<1>5. CASE s = 0
  BY <1>1, <1>2, <1>4, <1>5 DEF High, Even, Taller, Heavy, Sides, Differing
<1>6. CASE s = 1
  <2>1. 1 - s = 0 /\ 0 \in Sides /\ 1 \in Sides
    BY <1>6 DEF Sides
  <2>2. t.link[m][s] = t.link[m][1] /\ t.link[m][1 - s] = t.link[m][0] /\ Heavy(s) = 1
    BY <1>6, <2>1 DEF Heavy
  <2>3. /\ h[t.link[m][0]] \in Nat /\ h[t.link[m][1]] \in Nat /\ h[m] \in Nat
        /\ t.link[m][0] \in Slot /\ t.link[m][1] \in Slot
        /\ h[t.link[m][0]] < h[m] /\ h[t.link[m][1]] < h[m]
    BY <1>2, <1>4, <2>1
  <2>. QED  BY <1>1, <2>2, <2>3 DEF High, Even, Taller, Differing
<1>. QED  BY <1>1, <1>5, <1>6 DEF Sides

\* In a lopsided table it does so at every node but the lopsided one.
LEMMA LopsidedDiffer ==
  ASSUME NEW t, NEW M, NEW h, NEW H, NEW y, NEW s, Lopsided(t, M, h, H, y, s),
         NEW m \in Node, m # y
  PROVE  Differing(t, h, m, s)
<1>1. /\ TableType(t) /\ HeightType(h, H) /\ s \in Sides
      /\ High(t, h, m) /\ Even(t, h, m) /\ t.bal[m] \in -1 .. 1
  BY DEF Lopsided
<1>. QED  BY <1>1, Differ

\* Who is who around y and its child x.
Family(t, M, y, s, x) ==
  /\ y \in M /\ s \in Sides /\ 1 - s \in Sides /\ 1 - s # s
  /\ x \in M /\ x # y /\ t.up[x] = y /\ t.up[y] # x /\ t.up[y] # y /\ x # t.root
  /\ x \in Node /\ y \in Node /\ x # NULL /\ y # NULL
  /\ t.link[x][1 - s] # x /\ t.link[x][1 - s] # y /\ t.link[x][s] # y /\ t.link[x][s] # x
  /\ t.link[y][1 - s] # x /\ t.link[y][1 - s] # y
  /\ t.link[y][1 - s] # NULL => t.up[t.link[y][1 - s]] = y
  /\ t.link[x][s] # NULL => t.up[t.link[x][s]] = x
  /\ t.link[x][1 - s] # NULL => t.up[t.link[x][1 - s]] = x

\* The heavy child exists, and no pointer leads from it or its children back to y.
LEMMA LopsidedFamily ==
  ASSUME NEW t, NEW M, NEW h, NEW H, NEW y, NEW s, Lopsided(t, M, h, H, y, s),
         NEW x, x = t.link[y][s]
  PROVE  Family(t, M, y, s, x)
<1>1. /\ TableType(t) /\ Linked(t, M) /\ HeightType(h, H) /\ y \in M
      /\ s \in Sides /\ 1 - s \in Sides /\ 1 - s # s
      /\ x # NULL /\ x # y /\ h[x] = h[y] /\ h[t.link[y][1 - s]] = h[y] - 2
  BY DEF Lopsided, Sides
<1>2. x \in M /\ t.up[x] = y /\ y \in Node /\ x \in Node /\ y # NULL
  BY <1>1, NullAssumption DEF Linked
<1>3. /\ h[y] \in Nat /\ h[x] \in Nat
      /\ h[t.link[x][s]] < h[x] /\ h[t.link[x][1 - s]] < h[x]
      /\ h[t.link[x][s]] \in Nat /\ h[t.link[x][1 - s]] \in Nat
  <2>1. Differing(t, h, x, s)
    BY <1>1, <1>2, LopsidedDiffer
  <2>. QED  BY <1>1, <2>1 DEF Differing
<1>4. t.up[y] \notin {x, y}
  <2>1. Above(t, M, h, y)
    BY LopsidedAbove
  <2>. QED  BY <1>1, <1>2, <1>3, <2>1 DEF Above
<1>5. x # t.root
  BY <1>1, <1>2 DEF Linked
<1>6. /\ t.link[x][1 - s] # x /\ t.link[x][1 - s] # y /\ t.link[x][s] # y /\ t.link[x][s] # x
      /\ t.link[y][1 - s] # x /\ t.link[y][1 - s] # y
  BY <1>1, <1>3
<1>7. /\ t.link[y][1 - s] # NULL => t.up[t.link[y][1 - s]] = y
      /\ \A i \in Sides : t.link[x][i] # NULL => t.up[t.link[x][i]] = x
  BY <1>1, <1>2 DEF Linked
<1>. QED  BY <1>1, <1>2, <1>4, <1>5, <1>6, <1>7 DEF Family

\* A single rotation leaves links and parents that mirror each other.
LEMMA SingleLinked ==
  ASSUME NEW t, NEW M, NEW h, NEW H, NEW y, NEW s, Lopsided(t, M, h, H, y, s),
         NEW x, x = t.link[y][s], NEW u, IsSingle(u, t, s, y, x)
  PROVE  Linked(u, M)
<1>. DEFINE b == t.link[x][1 - s]
            c == t.link[y][1 - s]
            a == t.link[x][s]
            p == t.up[y]
            side == SideOf(t, p, y)
<1>1. /\ x \in M /\ x # y /\ t.up[x] = y /\ p # x /\ p # y /\ x # t.root
      /\ x \in Node /\ y \in Node /\ x # NULL /\ y # NULL
      /\ b # x /\ b # y /\ a # y /\ a # x /\ c # x /\ c # y
      /\ c # NULL => t.up[c] = y
      /\ b # NULL => t.up[b] = x
      /\ a # NULL => t.up[a] = x
      /\ s \in Sides /\ 1 - s \in Sides /\ 1 - s # s /\ \A i \in Sides : i # s <=> i = 1 - s
      /\ y \in M
  <2>1. s \in Sides
    BY DEF Lopsided
  <2>2. \A i \in Sides : i # s <=> i = 1 - s
    BY <2>1 DEF Sides
  <2>3. Family(t, M, y, s, x)
    BY LopsidedFamily
  <2>. QED  BY <2>1, <2>2, <2>3 DEF Family
<1>2. \/ p = NULL /\ t.root = y
      \/ /\ p \in M /\ t.root # y /\ side \in Sides
         /\ \A i \in Sides : t.link[p][i] = y <=> i = side
  BY LopsidedAbove DEF Above
<1>3. /\ M \subseteq Node
      /\ t.root \in M \cup {NULL} /\ (t.root = NULL => M = {})
      /\ \A n \in M, i \in Sides :
           t.link[n][i] # NULL => t.link[n][i] \in M /\ t.up[t.link[n][i]] = n
      /\ \A n \in M : t.link[n][0] # NULL => t.link[n][0] # t.link[n][1]
      /\ \A n \in M : n = t.root => t.up[n] = NULL
      /\ \A n \in M : n # t.root => t.up[n] \in M /\ \E i \in Sides : t.link[t.up[n]][i] = n
      /\ \A n \in Node \ M : t.up[n] = NULL /\ \A i \in Sides : t.link[n][i] = NULL
  BY DEF Lopsided, Linked
<1>4. /\ u.root = IF p = NULL THEN x ELSE t.root
      /\ \A m \in Node :
           /\ u.up[m] = IF m = b THEN y ELSE IF m = x THEN p ELSE IF m = y THEN x ELSE t.up[m]
           /\ \A i \in Sides :
                u.link[m][i] = IF m = p /\ i = side THEN x
                               ELSE IF m = y /\ i = s THEN b
                               ELSE IF m = x /\ i # s THEN y
                               ELSE t.link[m][i]
  BY DEF IsSingle
<1>5. /\ a # NULL => a # b
      /\ a = t.link[x][s] /\ b = t.link[x][1 - s] /\ c = t.link[y][1 - s]
      /\ x = t.link[y][s]
      /\ a \in M \cup {NULL} /\ b \in M \cup {NULL} /\ c \in M \cup {NULL}
  BY <1>1, <1>3 DEF Sides
<1>0. NULL \notin M
  BY <1>3, NullAssumption
<1>. HIDE DEF a, b, c, p, side
<1>6. \A m \in M, i \in Sides :
        u.link[m][i] # NULL => u.link[m][i] \in M /\ u.up[u.link[m][i]] = m
  <2>. SUFFICES ASSUME NEW m \in M, NEW i \in Sides, u.link[m][i] # NULL
                PROVE  u.link[m][i] \in M /\ u.up[u.link[m][i]] = m
    OBVIOUS
  <2>1. CASE m = p /\ i = side
    BY <1>1, <1>3, <1>4, <1>5, <2>1, ZenonT(60)
  <2>2. CASE m = y /\ i = s
    BY <1>1, <1>3, <1>4, <1>5, <2>2
  <2>3. CASE m = y /\ i # s
    BY <1>1, <1>3, <1>4, <1>5, <2>3, SMTT(60)
  <2>4. CASE m = x /\ i = s
    BY <1>1, <1>3, <1>4, <1>5, <2>4, SMTT(60)
  <2>5. CASE m = x /\ i # s
    BY <1>1, <1>3, <1>4, <1>5, <2>5, ZenonT(60)
  <2>6. CASE m \notin {x, y} /\ ~(m = p /\ i = side)
    <3>1. u.link[m][i] = t.link[m][i] /\ t.link[m][i] \in M /\ t.up[t.link[m][i]] = m
      BY <1>1, <1>3, <1>4, <2>6
    <3>2. t.link[m][i] # x /\ t.link[m][i] # b
      BY <1>1, <2>6, <3>1
    <3>3. t.link[m][i] # y
      BY <1>0, <1>1, <1>2, <2>6, <3>1 DEF p
    <3>. QED  BY <1>3, <1>4, <3>1, <3>2, <3>3
  <2>. QED  BY <1>1, <2>1, <2>2, <2>3, <2>4, <2>5, <2>6
<1>7. \A m \in M : u.link[m][0] # NULL => u.link[m][0] # u.link[m][1]
  <2>. SUFFICES ASSUME NEW m \in M  PROVE \A i \in Sides : u.link[m][i] # NULL =>
                                            u.link[m][i] # u.link[m][1 - i]
    BY DEF Sides
  <2>0. \A i \in Sides : 1 - i \in Sides /\ i # 1 - i
    BY DEF Sides
  <2>1. \A n \in M : \A i \in Sides : t.link[n][i] # NULL => t.link[n][i] # t.link[n][1 - i]
    BY <1>3 DEF Sides
  <2>2. CASE m = y
    <3>1. u.link[y][s] = b /\ u.link[y][1 - s] = c
      BY <1>1, <1>4, <1>5
    <3>2. (b # NULL => b # c) /\ (c # NULL => b # c)
      BY <1>1
    <3>3. \A i \in Sides : i = s \/ (i = 1 - s /\ 1 - i = s)
      BY <1>1 DEF Sides
    <3>. QED  BY <2>2, <3>1, <3>2, <3>3
  <2>3. CASE m = x
    BY <1>1, <1>3, <1>4, <1>5, <2>0, <2>3
  <2>4. CASE m = p /\ m \notin {x, y}
    BY <1>1, <1>2, <1>3, <1>4, <1>5, <2>0, <2>1, <2>4, SMTT(60)
  <2>5. CASE m \notin {x, y, p}
    BY <1>3, <1>4, <2>0, <2>1, <2>5
  <2>. QED  BY <2>2, <2>3, <2>4, <2>5
<1>8. \A m \in M : m = u.root => u.up[m] = NULL
  BY <1>1, <1>2, <1>3, <1>4
<1>9. \A m \in M : m # u.root => u.up[m] \in M /\ \E i \in Sides : u.link[u.up[m]][i] = m
  <2>. SUFFICES ASSUME NEW m \in M, m # u.root
                PROVE  u.up[m] \in M /\ \E i \in Sides : u.link[u.up[m]][i] = m
    OBVIOUS
  <2>1. CASE m = b
    <3>1. u.up[m] = y /\ u.link[y][s] = b
      BY <1>1, <1>3, <1>4, <2>1
    <3>. QED  BY <1>1, <2>1, <3>1
  <2>2. CASE m = x
    <3>1. p # NULL
      BY <1>4, <2>2
    <3>2. p \in M /\ side \in Sides /\ p \in Node /\ x # b
      BY <1>1, <1>2, <1>3, <3>1
    <3>3. u.up[x] = p /\ u.link[p][side] = x
      BY <1>1, <1>4, <3>2
    <3>. QED  BY <2>2, <3>2, <3>3
  <2>3. CASE m = y
    BY <1>1, <1>2, <1>3, <1>4, <1>5, <2>3
  <2>4. CASE m \notin {x, y, b}
    <3>1. u.up[m] = t.up[m] /\ m # t.root
      BY <1>0, <1>1, <1>2, <1>3, <1>4, <2>4
    <3>2. PICK i \in Sides : t.link[t.up[m]][i] = m
      BY <1>3, <3>1
    <3>3. t.up[m] \in M
      BY <1>3, <3>1
    <3>4. /\ ~(t.up[m] = p /\ i = side)
          /\ ~(t.up[m] = y /\ i = s)
          /\ ~(t.up[m] = x /\ i # s)
      BY <1>0, <1>1, <1>2, <1>5, <2>4, <3>2, <3>3
    <3>5. u.link[t.up[m]][i] = m
      BY <1>3, <1>4, <3>2, <3>3, <3>4
    <3>. QED  BY <3>1, <3>3, <3>5
  <2>. QED  BY <2>1, <2>2, <2>3, <2>4
<1>10. \A m \in Node \ M : u.up[m] = NULL /\ \A i \in Sides : u.link[m][i] = NULL
  <2>1. \A m \in Node \ M : m # x /\ m # y /\ m # b /\ m # p
    BY <1>1, <1>2, <1>5, NullAssumption
  <2>. QED  BY <1>3, <1>4, <2>1
<1>11. u.root \in M \cup {NULL} /\ (u.root = NULL => M = {})
  BY <1>1, <1>3, <1>4
<1>. QED  BY <1>3, <1>6, <1>7, <1>8, <1>9, <1>10, <1>11 DEF Linked

\* High and Even, told from either side.
LEMMA Judged ==
  ASSUME NEW t, NEW h, NEW m, NEW s \in Sides, NEW a \in Nat, NEW b \in Nat,
         h[t.link[m][s]] = a, h[t.link[m][1 - s]] = b,
         h[m] = 1 + Taller(a, b),
         \/ a = b + 1 /\ t.bal[m] = Heavy(s)
         \/ b = a + 1 /\ t.bal[m] = -Heavy(s)
         \/ a = b /\ t.bal[m] = 0
  PROVE  High(t, h, m) /\ Even(t, h, m) /\ t.bal[m] \in -1 .. 1
<1>1. CASE s = 0
  <2>1. 1 - s = 1
    BY <1>1
  <2>2. h[t.link[m][0]] = a /\ h[t.link[m][1]] = b /\ Heavy(s) = -1
    BY <1>1, <2>1 DEF Heavy
  <2>. QED  BY <2>2 DEF High, Even, Taller
<1>2. CASE s = 1
  <2>1. 1 - s = 0
    BY <1>2
  <2>2. h[t.link[m][1]] = a /\ h[t.link[m][0]] = b /\ Heavy(s) = 1
    BY <1>2, <2>1 DEF Heavy
  <2>. QED  BY <2>2 DEF High, Even, Taller
<1>. QED  BY <1>1, <1>2 DEF Sides

\* A single rotation leaves every balance right, when the child is heavy on the same side.
LEMMA SingleBalanced ==
  ASSUME NEW t, NEW M, NEW h, NEW H, NEW y, NEW s, Lopsided(t, M, h, H, y, s),
         NEW x, x = t.link[y][s], t.bal[x] = Heavy(s), NEW u, IsSingle(u, t, s, y, x)
  PROVE  Balanceable(u, [h EXCEPT ![y] = h[y] - 1], H)
<1>. DEFINE b == t.link[x][1 - s]
            c == t.link[y][1 - s]
            a == t.link[x][s]
            p == t.up[y]
            side == SideOf(t, p, y)
            g == [h EXCEPT ![y] = h[y] - 1]
<1>1. /\ x \in M /\ x # y /\ t.up[x] = y /\ p # x /\ p # y /\ x # t.root
      /\ x \in Node /\ y \in Node /\ x # NULL /\ y # NULL
      /\ b # x /\ b # y /\ a # y /\ a # x /\ c # x /\ c # y
      /\ s \in Sides /\ 1 - s \in Sides /\ 1 - s # s /\ \A i \in Sides : i # s <=> i = 1 - s
      /\ y \in M /\ HeightType(h, H) /\ Linked(t, M)
      /\ h[x] = h[y] /\ h[c] = h[y] - 2 /\ TableType(t)
  <2>1. s \in Sides /\ HeightType(h, H) /\ h[x] = h[y] /\ h[c] = h[y] - 2
        /\ Linked(t, M) /\ TableType(t)
    BY DEF Lopsided
  <2>2. \A i \in Sides : i # s <=> i = 1 - s
    BY <2>1 DEF Sides
  <2>3. Family(t, M, y, s, x)
    BY LopsidedFamily
  <2>. QED  BY <2>1, <2>2, <2>3 DEF Family
<1>2. \/ p = NULL /\ t.root = y
      \/ /\ p \in M /\ t.root # y /\ side \in Sides
         /\ \A i \in Sides : t.link[p][i] = y <=> i = side
  BY LopsidedAbove DEF Above
<1>3. /\ h[a] = h[y] - 1 /\ h[b] = h[y] - 2 /\ h[a] \in Nat /\ h[b] \in Nat /\ h[y] \in Nat
      /\ a \in Slot /\ b \in Slot
  <2>1. Differing(t, h, x, s)
    BY <1>1, LopsidedDiffer
  <2>. QED  BY <1>1, <2>1 DEF Differing
<1>4. \A m \in Node :
        /\ u.bal[m] = IF m \in {x, y} THEN 0 ELSE t.bal[m]
        /\ \A i \in Sides :
             u.link[m][i] = IF m = p /\ i = side THEN x
                            ELSE IF m = y /\ i = s THEN b
                            ELSE IF m = x /\ i # s THEN y
                            ELSE t.link[m][i]
  BY DEF IsSingle
<1>5. c \in Slot /\ h[c] \in Nat /\ H \in Nat
  BY <1>1 DEF TableType, HeightType
<1>6. g[y] = h[y] - 1 /\ \A m \in Slot : m # y => g[m] = h[m]
  BY <1>1 DEF HeightType, Slot
<1>. HIDE DEF a, b, c, p, side, g
<1>7. HeightType(g, H)
  <2>1. h[y] - 1 \in 0 .. H /\ h[y] \in 0 .. H
    BY <1>1, <1>3, <1>5 DEF HeightType, Slot
  <2>2. g \in [Slot -> 0 .. H]
    BY <1>1, <2>1 DEF HeightType, g
  <2>3. g[NULL] = 0
    BY <1>1, <1>6 DEF HeightType, Slot
  <2>. QED  BY <1>5, <2>2, <2>3 DEF HeightType
<1>8. High(u, g, y) /\ Even(u, g, y) /\ u.bal[y] \in -1 .. 1
  <2>1. u.link[y][s] = b /\ u.link[y][1 - s] = c /\ u.bal[y] = 0
    BY <1>1, <1>4 DEF c
  <2>2. g[b] = h[y] - 2 /\ g[c] = h[y] - 2 /\ g[y] = 1 + Taller(g[b], g[c])
    BY <1>1, <1>3, <1>5, <1>6 DEF Taller
  <2>3. g[b] \in Nat /\ g[c] \in Nat
    BY <1>1, <1>3, <1>5, <1>6
  <2>4. s \in Sides /\ g[b] = g[c]
    BY <1>1, <2>2
  <2>. QED  BY <2>1, <2>2, <2>3, <2>4, Judged
<1>9. High(u, g, x) /\ Even(u, g, x) /\ u.bal[x] \in -1 .. 1
  <2>1. u.link[x][s] = a /\ u.link[x][1 - s] = y /\ u.bal[x] = 0
    BY <1>1, <1>4 DEF a
  <2>2. g[a] = h[y] - 1 /\ g[y] = h[y] - 1 /\ g[x] = 1 + Taller(g[a], g[y])
    BY <1>1, <1>3, <1>5, <1>6 DEF Taller, Slot
  <2>3. g[a] \in Nat /\ g[y] \in Nat
    BY <1>1, <1>3, <1>5, <1>6, <2>2
  <2>4. s \in Sides /\ g[a] = g[y]
    BY <1>1, <2>2
  <2>. QED  BY <2>1, <2>2, <2>3, <2>4, Judged
<1>10. ASSUME NEW m \in Node \ {x, y}
       PROVE  High(u, g, m) /\ Even(u, g, m) /\ u.bal[m] \in -1 .. 1
  <2>1. High(t, h, m) /\ Even(t, h, m) /\ t.bal[m] \in -1 .. 1
    BY DEF Lopsided
  <2>2. \A i \in Sides : g[u.link[m][i]] = h[t.link[m][i]]
    <3>. SUFFICES ASSUME NEW i \in Sides  PROVE g[u.link[m][i]] = h[t.link[m][i]]
      OBVIOUS
    <3>1. CASE m = p /\ i = side
      <4>1. t.link[m][i] = y /\ u.link[m][i] = x
        BY <1>2, <1>4, <3>1, NullAssumption
      <4>. QED  BY <1>1, <1>6, <4>1 DEF Slot
    <3>2. CASE ~(m = p /\ i = side)
      <4>1. u.link[m][i] = t.link[m][i] /\ t.link[m][i] \in Slot
        BY <1>1, <1>4, <3>2 DEF TableType
      <4>2. t.link[m][i] # y
        <5>1. CASE m \notin M
          BY <1>1, <5>1 DEF Linked
        <5>2. CASE m \in M
          <6>. SUFFICES ASSUME t.link[m][i] = y  PROVE FALSE
            OBVIOUS
          <6>1. m = p
            BY <1>1, <5>2 DEF Linked, p
          <6>2. p \in M /\ i = side
            BY <1>2, <6>1, NullAssumption
          <6>. QED  BY <3>2, <6>1, <6>2
        <5>. QED  BY <5>1, <5>2
      <4>. QED  BY <1>6, <4>1, <4>2
    <3>. QED  BY <3>1, <3>2
  <2>3. u.bal[m] = t.bal[m] /\ g[m] = h[m]
    BY <1>4, <1>6 DEF Slot
  <2>. QED  BY <2>1, <2>2, <2>3 DEF High, Even, Sides
<1>. QED  BY <1>7, <1>8, <1>9, <1>10 DEF Balanceable, g

\* A lower node is another one.
LEMMA LowerDiffers ==
  ASSUME NEW h, NEW m, NEW n, h[m] \in Nat, h[m] < h[n]
  PROVE  m # n
OBVIOUS

\* w is the inner child of x.
InnerFamily(t, M, h, y, s, x, w) ==
  /\ w = t.link[x][1 - s] /\ x = t.link[y][s]
  /\ w \in M /\ w \in Node /\ w # NULL /\ w # x /\ w # y /\ t.up[w] = x /\ w # t.root
  /\ h[w] = h[y] - 1 /\ h[t.link[x][s]] = h[y] - 2
  /\ t.up[y] # w /\ t.link[x][s] # w /\ t.link[y][1 - s] # w
  /\ t.link[w][s] # w /\ t.link[w][s] # x /\ t.link[w][s] # y
  /\ t.link[w][1 - s] # w /\ t.link[w][1 - s] # x /\ t.link[w][1 - s] # y
  /\ t.link[w][s] # NULL => t.up[t.link[w][s]] = w /\ t.link[w][s] # t.link[w][1 - s]
  /\ t.link[w][1 - s] # NULL => t.up[t.link[w][1 - s]] = w /\ t.link[w][s] # t.link[w][1 - s]

\* When the child is heavy on the other side, its inner child exists.
LEMMA LopsidedInner ==
  ASSUME NEW t, NEW M, NEW h, NEW H, NEW y, NEW s, Lopsided(t, M, h, H, y, s),
         NEW x, x = t.link[y][s], t.bal[x] = -Heavy(s), NEW w, w = t.link[x][1 - s]
  PROVE  InnerFamily(t, M, h, y, s, x, w)
<1>1. /\ TableType(t) /\ Linked(t, M) /\ HeightType(h, H)
      /\ h[x] = h[y] /\ h[t.link[y][1 - s]] = h[y] - 2
  BY DEF Lopsided
<1>2. Family(t, M, y, s, x)
  BY LopsidedFamily
<1>3. /\ h[w] = h[x] - 1 /\ h[t.link[x][s]] = h[x] - 2
      /\ h[x] \in Nat /\ h[w] \in Nat /\ h[t.link[x][s]] \in Nat
  <2>1. x \in Node /\ x # y
    BY <1>2 DEF Family
  <2>2. Differing(t, h, x, s)
    BY <2>1, LopsidedDiffer
  <2>. QED  BY <2>2 DEF Differing
<1>4. w # NULL
  BY <1>1, <1>3 DEF HeightType
<1>5. w \in M /\ t.up[w] = x /\ w \in Node /\ w # x /\ w # y
  BY <1>1, <1>2, <1>4 DEF Linked, Family
<1>6. w # t.root
  BY <1>1, <1>2, <1>5 DEF Linked, Family
<1>7. /\ h[t.link[w][s]] < h[w] /\ h[t.link[w][1 - s]] < h[w] /\ h[w] \in Nat
      /\ h[t.link[w][s]] \in Nat /\ h[t.link[w][1 - s]] \in Nat
  <2>1. Differing(t, h, w, s)
    BY <1>5, LopsidedDiffer
  <2>. QED  BY <2>1 DEF Differing
<1>8. t.up[y] # w
  <2>1. Above(t, M, h, y)
    BY LopsidedAbove
  <2>2. h[w] < h[y]
    BY <1>1, <1>3
  <2>. QED  BY <1>1, <1>3, <1>4, <2>1, <2>2 DEF Above
<1>9. /\ t.link[w][s] # w /\ t.link[w][s] # x /\ t.link[w][s] # y
      /\ t.link[w][1 - s] # w /\ t.link[w][1 - s] # x /\ t.link[w][1 - s] # y
      /\ t.link[x][s] # w /\ t.link[y][1 - s] # w
  <2>. PICK b, c : b = t.link[w][s] /\ c = t.link[w][1 - s]
    OBVIOUS
  <2>1. h[w] < h[x] /\ h[x] = h[y] /\ h[w] \in Nat /\ h[x] \in Nat
    BY <1>1, <1>3
  <2>2. ASSUME NEW m \in {b, c}  PROVE m # w /\ m # x /\ m # y
    <3>1. h[m] < h[w] /\ h[m] \in Nat
      BY <1>7
    <3>2. h[m] < h[x] /\ h[m] < h[y]
      BY <2>1, <3>1
    <3>. QED  BY <2>1, <3>1, <3>2, LowerDiffers
  <2>3. b # w /\ b # x /\ b # y /\ c # w /\ c # x /\ c # y
    BY <2>2
  <2>4. t.link[x][s] # w /\ t.link[y][1 - s] # w
    BY <1>1, <1>3
  <2>. QED  BY <2>3, <2>4
<1>10. /\ t.link[w][s] # NULL => t.up[t.link[w][s]] = w /\ t.link[w][s] # t.link[w][1 - s]
       /\ t.link[w][1 - s] # NULL => t.up[t.link[w][1 - s]] = w /\ t.link[w][s] # t.link[w][1 - s]
  <2>1. s \in Sides /\ 1 - s \in Sides
    BY <1>2 DEF Family
  <2>2. t.link[w][0] # NULL => t.link[w][0] # t.link[w][1]
    BY <1>1, <1>5 DEF Linked
  <2>3. (s = 0 /\ 1 - s = 1) \/ (s = 1 /\ 1 - s = 0)
    BY <2>1 DEF Sides
  <2>4. /\ t.link[w][s] # NULL => t.link[w][s] # t.link[w][1 - s]
        /\ t.link[w][1 - s] # NULL => t.link[w][s] # t.link[w][1 - s]
    BY <2>2, <2>3
  <2>5. /\ t.link[w][s] # NULL => t.up[t.link[w][s]] = w
        /\ t.link[w][1 - s] # NULL => t.up[t.link[w][1 - s]] = w
    BY <1>1, <1>5, <2>1 DEF Linked
  <2>. QED  BY <2>4, <2>5
<1>11. h[w] = h[y] - 1 /\ h[t.link[x][s]] = h[y] - 2
  BY <1>1, <1>3
<1>. QED  BY <1>4, <1>5, <1>6, <1>8, <1>9, <1>10, <1>11 DEF InnerFamily

\* What a double rotation changes, node by node.
DoubleShape(u, t, M, y, s, x, w, a, b, c, d, p, side) ==
  /\ u.root = IF p = NULL THEN w ELSE t.root
  /\ u.link[w][s] = x /\ u.link[w][1 - s] = y
  /\ u.link[x][s] = a /\ u.link[x][1 - s] = b
  /\ u.link[y][s] = c /\ u.link[y][1 - s] = d
  /\ p \in M => u.link[p][side] = w
  /\ \A m \in Node, i \in Sides :
       m # x /\ m # y /\ m # w /\ ~(m = p /\ i = side) => u.link[m][i] = t.link[m][i]
  /\ u.up[x] = w /\ u.up[y] = w /\ u.up[w] = p
  /\ b # NULL => u.up[b] = x
  /\ c # NULL => u.up[c] = y
  /\ \A m \in Node : m # x /\ m # y /\ m # w /\ m # b /\ m # c => u.up[m] = t.up[m]

\* The shape a double rotation leaves, with names for the subtrees it moves.
LEMMA DoubleChanges ==
  ASSUME NEW t, NEW M, NEW h, NEW y, NEW s, NEW x, NEW w, NEW u,
         TableType(t), Linked(t, M), Above(t, M, h, y), Family(t, M, y, s, x),
         InnerFamily(t, M, h, y, s, x, w), IsDouble(u, t, s, y, x, w)
  PROVE  DoubleShape(u, t, M, y, s, x, w, t.link[x][s], t.link[w][s], t.link[w][1 - s],
                     t.link[y][1 - s], t.up[y], SideOf(t, t.up[y], y))
<1>. DEFINE b == t.link[w][s]
            c == t.link[w][1 - s]
            p == t.up[y]
            side == SideOf(t, p, y)
<1>1. /\ u.root = IF p = NULL THEN w ELSE t.root
      /\ \A m \in Node :
           /\ u.up[m] = IF m = c THEN y ELSE IF m = b THEN x
                        ELSE IF m = w THEN p ELSE IF m \in {x, y} THEN w ELSE t.up[m]
           /\ \A i \in Sides :
                u.link[m][i] = IF m = p /\ i = side THEN w
                               ELSE IF m = w THEN IF i = s THEN x ELSE y
                               ELSE IF m = x /\ i # s THEN b
                               ELSE IF m = y /\ i = s THEN c
                               ELSE t.link[m][i]
  <2>1. \A m, i : m = p /\ i = side <=> m = p /\ i = SideOf(t, m, y)
    OBVIOUS
  <2>. QED  BY <2>1 DEF IsDouble
<1>2. /\ s \in Sides /\ 1 - s \in Sides /\ 1 - s # s
      /\ x \in Node /\ y \in Node /\ w \in Node /\ x # y /\ w # x /\ w # y
      /\ p # x /\ p # y /\ p # w
      /\ b # x /\ b # y /\ b # w /\ c # x /\ c # y /\ c # w
      /\ b # NULL => b # c
      /\ c # NULL => b # c
      /\ b \in Slot /\ c \in Slot
  BY DEF Family, InnerFamily, TableType
<1>3. p \in M => p \in Node /\ side \in Sides
  BY DEF Linked, SideOf, Sides
<1>4. (b # NULL => b \in Node) /\ (c # NULL => c \in Node)
  BY <1>2 DEF Slot
<1>. HIDE DEF b, c, p, side
<1>5. /\ u.link[w][s] = x /\ u.link[w][1 - s] = y
      /\ u.link[x][s] = t.link[x][s] /\ u.link[x][1 - s] = b
      /\ u.link[y][s] = c /\ u.link[y][1 - s] = t.link[y][1 - s]
      /\ p \in M => u.link[p][side] = w
  BY <1>1, <1>2, <1>3
<1>6. /\ u.up[x] = w /\ u.up[y] = w /\ u.up[w] = p
      /\ b # NULL => u.up[b] = x
      /\ c # NULL => u.up[c] = y
  BY <1>1, <1>2, <1>4
<1>7. \A m \in Node, i \in Sides :
        m # x /\ m # y /\ m # w /\ ~(m = p /\ i = side) => u.link[m][i] = t.link[m][i]
  BY <1>1
<1>8. \A m \in Node : m # x /\ m # y /\ m # w /\ m # b /\ m # c => u.up[m] = t.up[m]
  BY <1>1
<1>. QED  BY <1>1, <1>5, <1>6, <1>7, <1>8 DEF DoubleShape, b, c, p, side

\* A double rotation leaves links and parents that mirror each other.
LEMMA DoubleLinked ==
  ASSUME NEW t, NEW M, NEW h, NEW y, NEW s, NEW x, NEW w, NEW u,
         TableType(t), Linked(t, M), Above(t, M, h, y), Family(t, M, y, s, x),
         InnerFamily(t, M, h, y, s, x, w), IsDouble(u, t, s, y, x, w)
  PROVE  Linked(u, M)
<1>. DEFINE b == t.link[w][s]
            c == t.link[w][1 - s]
            d == t.link[y][1 - s]
            a == t.link[x][s]
            p == t.up[y]
            side == SideOf(t, p, y)
<1>1. /\ x \in M /\ x # y /\ t.up[x] = y /\ p # x /\ p # y /\ p # w /\ x # t.root
      /\ w \in M /\ w # y /\ w # x /\ t.up[w] = x /\ w # t.root
      /\ x \in Node /\ y \in Node /\ w \in Node /\ x # NULL /\ y # NULL /\ w # NULL
      /\ b # x /\ b # y /\ b # w /\ c # x /\ c # y /\ c # w
      /\ a # x /\ a # y /\ a # w /\ d # x /\ d # y /\ d # w
      /\ d # NULL => t.up[d] = y
      /\ a # NULL => t.up[a] = x
      /\ b # NULL => t.up[b] = w /\ b # c
      /\ c # NULL => t.up[c] = w /\ b # c
      /\ s \in Sides /\ 1 - s \in Sides /\ 1 - s # s /\ y \in M
      /\ w = t.link[x][1 - s] /\ x = t.link[y][s]
  BY DEF Family, InnerFamily
<1>2. \/ p = NULL /\ t.root = y
      \/ /\ p \in M /\ t.root # y /\ side \in Sides
         /\ \A i \in Sides : t.link[p][i] = y <=> i = side
  BY DEF Above
<1>3. /\ M \subseteq Node
      /\ t.root \in M \cup {NULL} /\ (t.root = NULL => M = {})
      /\ \A n \in M, i \in Sides :
           t.link[n][i] # NULL => t.link[n][i] \in M /\ t.up[t.link[n][i]] = n
      /\ \A n \in M : t.link[n][0] # NULL => t.link[n][0] # t.link[n][1]
      /\ \A n \in M : n = t.root => t.up[n] = NULL
      /\ \A n \in M : n # t.root => t.up[n] \in M /\ \E i \in Sides : t.link[t.up[n]][i] = n
      /\ \A n \in Node \ M : t.up[n] = NULL /\ \A i \in Sides : t.link[n][i] = NULL
  BY DEF Linked
<1>4. DoubleShape(u, t, M, y, s, x, w, a, b, c, d, p, side)
  BY DoubleChanges
<1>5. /\ a \in M \cup {NULL} /\ b \in M \cup {NULL} /\ c \in M \cup {NULL} /\ d \in M \cup {NULL}
      /\ a = t.link[x][s] /\ b = t.link[w][s] /\ c = t.link[w][1 - s] /\ d = t.link[y][1 - s]
  BY <1>1, <1>3
<1>6. /\ NULL \notin M
      /\ \A i \in Sides : i = s \/ i = 1 - s
      /\ \A i \in Sides : 1 - i \in Sides /\ i # 1 - i
      /\ 1 - (1 - s) = s
  <2>1. NULL \notin M
    BY <1>3, NullAssumption
  <2>2. (s = 0 /\ 1 - s = 1) \/ (s = 1 /\ 1 - s = 0)
    BY <1>1 DEF Sides
  <2>3. \A i \in Sides : i = s \/ i = 1 - s
    BY <2>2 DEF Sides
  <2>4. \A i \in Sides : 1 - i \in Sides /\ i # 1 - i
    BY DEF Sides
  <2>5. 1 - (1 - s) = s
    BY <2>2
  <2>. QED  BY <2>1, <2>3, <2>4, <2>5
<1>. HIDE DEF a, b, c, d, p, side
<1>7. /\ \A i \in Sides : u.link[w][i] \in {x, y} /\ u.link[x][i] \in {a, b} /\ u.link[y][i] \in {c, d}
      /\ u.up[x] = w /\ u.up[y] = w
      /\ b # NULL => u.up[b] = x
      /\ c # NULL => u.up[c] = y
      /\ a # NULL => u.up[a] = x
      /\ d # NULL => u.up[d] = y
  <2>1. /\ a # NULL => a # b /\ a # c /\ a \in Node
        /\ d # NULL => d # b /\ d # c /\ d \in Node
    <3>1. ASSUME NEW m, m # NULL, t.up[m] # w  PROVE m # b /\ m # c
      BY <1>1, <3>1
    <3>2. a # NULL => t.up[a] # w
      BY <1>1
    <3>3. d # NULL => t.up[d] # w
      BY <1>1
    <3>4. a # NULL => a # b /\ a # c
      BY <3>1, <3>2
    <3>5. d # NULL => d # b /\ d # c
      BY <3>1, <3>3
    <3>6. (a # NULL => a \in Node) /\ (d # NULL => d \in Node)
      BY <1>3, <1>5
    <3>. QED  BY <3>4, <3>5, <3>6
  <2>2. \A i \in Sides : u.link[w][i] \in {x, y} /\ u.link[x][i] \in {a, b} /\ u.link[y][i] \in {c, d}
    BY <1>4, <1>6 DEF DoubleShape
  <2>3. u.up[x] = w /\ u.up[y] = w /\ (b # NULL => u.up[b] = x) /\ (c # NULL => u.up[c] = y)
    BY <1>4 DEF DoubleShape
  <2>4. a # NULL => u.up[a] = x
    BY <1>1, <1>4, <2>1 DEF DoubleShape
  <2>5. d # NULL => u.up[d] = y
    BY <1>1, <1>4, <2>1 DEF DoubleShape
  <2>. QED  BY <2>2, <2>3, <2>4, <2>5
<1>8. ASSUME NEW m \in M, NEW i \in Sides, m # x, m # y, m # w
      PROVE  \/ m = p /\ i = side /\ u.link[m][i] = w /\ u.up[w] = m
             \/ /\ u.link[m][i] = t.link[m][i]
                /\ t.link[m][i] # NULL => /\ t.link[m][i] \in M
                                          /\ t.link[m][i] # x /\ t.link[m][i] # y
                                          /\ t.link[m][i] # w
                                          /\ u.up[t.link[m][i]] = m
  <2>1. CASE m = p /\ i = side
    BY <1>4, <2>1 DEF DoubleShape
  <2>2. CASE ~(m = p /\ i = side)
    <3>1. u.link[m][i] = t.link[m][i]
      BY <1>3, <1>4, <1>8, <2>2 DEF DoubleShape
    <3>2. ASSUME t.link[m][i] # NULL
          PROVE  /\ t.link[m][i] \in M /\ t.link[m][i] # x /\ t.link[m][i] # y
                 /\ t.link[m][i] # w /\ u.up[t.link[m][i]] = m
      <4>1. t.link[m][i] \in M /\ t.up[t.link[m][i]] = m
        BY <1>3, <3>2
      <4>2. t.link[m][i] # x /\ t.link[m][i] # w
        BY <1>1, <1>8, <4>1
      <4>3. t.link[m][i] # y
        <5>. SUFFICES ASSUME t.link[m][i] = y  PROVE FALSE
          OBVIOUS
        <5>1. m = p
          BY <4>1 DEF p
        <5>. QED  BY <1>2, <1>6, <2>2, <5>1
      <4>4. t.link[m][i] # b /\ t.link[m][i] # c
        BY <1>1, <1>8, <3>2, <4>1
      <4>. QED  BY <1>3, <1>4, <4>1, <4>2, <4>3, <4>4 DEF DoubleShape
    <3>. QED  BY <3>1, <3>2
  <2>. QED  BY <2>1, <2>2
<1>9. \A m \in M, i \in Sides :
        u.link[m][i] # NULL => u.link[m][i] \in M /\ u.up[u.link[m][i]] = m
  <2>. SUFFICES ASSUME NEW m \in M, NEW i \in Sides, u.link[m][i] # NULL
                PROVE  u.link[m][i] \in M /\ u.up[u.link[m][i]] = m
    OBVIOUS
  <2>1. CASE m = w
    BY <1>1, <1>7, <2>1
  <2>2. CASE m = x
    BY <1>5, <1>7, <2>2
  <2>3. CASE m = y
    BY <1>5, <1>7, <2>3
  <2>4. CASE m # x /\ m # y /\ m # w
    <3>1. CASE u.link[m][i] = w /\ u.up[w] = m
      BY <1>1, <3>1
    <3>2. CASE /\ u.link[m][i] = t.link[m][i]
               /\ t.link[m][i] # NULL => t.link[m][i] \in M /\ u.up[t.link[m][i]] = m
      BY <3>2
    <3>. QED  BY <1>8, <2>4, <3>1, <3>2
  <2>. QED  BY <2>1, <2>2, <2>3, <2>4
<1>10. \A m \in M : u.link[m][0] # NULL => u.link[m][0] # u.link[m][1]
  <2>. SUFFICES ASSUME NEW m \in M  PROVE \A i \in Sides : u.link[m][i] # NULL =>
                                            u.link[m][i] # u.link[m][1 - i]
    BY DEF Sides
  <2>1. \A n \in M : \A i \in Sides : t.link[n][i] # NULL => t.link[n][i] # t.link[n][1 - i]
    BY <1>3 DEF Sides
  <2>2. CASE m = w
    <3>1. u.link[m][s] # u.link[m][1 - s]
      BY <1>1, <1>4, <2>2 DEF DoubleShape
    <3>. QED  BY <1>6, <3>1
  <2>3. CASE m = x
    <3>1. a = b => a = NULL /\ b = NULL
      BY <1>1
    <3>2. u.link[m][s] = a /\ u.link[m][1 - s] = b
      BY <1>4, <2>3 DEF DoubleShape
    <3>. QED  BY <1>6, <3>1, <3>2
  <2>4. CASE m = y
    <3>1. c = d => c = NULL /\ d = NULL
      BY <1>1
    <3>2. u.link[m][s] = c /\ u.link[m][1 - s] = d
      BY <1>4, <2>4 DEF DoubleShape
    <3>. QED  BY <1>6, <3>1, <3>2
  <2>5. CASE m # x /\ m # y /\ m # w
    <3>. SUFFICES ASSUME NEW i \in Sides, u.link[m][i] # NULL
                  PROVE  u.link[m][i] # u.link[m][1 - i]
      OBVIOUS
    <3>1. 1 - i \in Sides /\ i # 1 - i
      BY <1>6
    <3>2. CASE m = p /\ i = side
      <4>1. u.link[m][i] = w /\ ~(m = p /\ 1 - i = side)
        BY <1>4, <3>1, <3>2 DEF DoubleShape
      <4>2. u.link[m][1 - i] # w
        <5>1. /\ u.link[m][1 - i] = t.link[m][1 - i]
              /\ t.link[m][1 - i] # NULL => t.link[m][1 - i] # w
          BY <1>8, <2>5, <3>1, <4>1
        <5>. QED  BY <1>1, <5>1
      <4>. QED  BY <4>1, <4>2
    <3>3. CASE ~(m = p /\ i = side)
      <4>1. u.link[m][i] = t.link[m][i] /\ t.link[m][i] # NULL /\ t.link[m][i] # w
        BY <1>8, <2>5, <3>3
      <4>2. u.link[m][1 - i] \in {w, t.link[m][1 - i]}
        BY <1>8, <2>5, <3>1
      <4>. QED  BY <2>1, <4>1, <4>2
    <3>. QED  BY <3>2, <3>3
  <2>. QED  BY <2>2, <2>3, <2>4, <2>5
<1>11. \A m \in M : m = u.root => u.up[m] = NULL
  <2>. SUFFICES ASSUME NEW m \in M, m = u.root  PROVE u.up[m] = NULL
    OBVIOUS
  <2>1. CASE p = NULL
    BY <1>4, <2>1 DEF DoubleShape
  <2>2. CASE p # NULL
    <3>1. m = t.root /\ t.up[m] = NULL /\ m # y
      BY <1>2, <1>3, <1>4, <2>2 DEF DoubleShape
    <3>2. m # x /\ m # w /\ m # b /\ m # c /\ m \in Node
      <4>1. m # x /\ m # w /\ m \in Node
        BY <1>1, <1>3, <3>1
      <4>2. m # b
        BY <1>1, <1>6, <3>1, ZenonT(60)
      <4>3. m # c
        BY <1>1, <1>6, <3>1, ZenonT(60)
      <4>. QED  BY <3>1, <4>1, <4>2, <4>3
    <3>. QED  BY <1>4, <3>1, <3>2 DEF DoubleShape
  <2>. QED  BY <2>1, <2>2
<1>12. \A m \in M : m # u.root => u.up[m] \in M /\ \E i \in Sides : u.link[u.up[m]][i] = m
  <2>. SUFFICES ASSUME NEW m \in M, m # u.root
                PROVE  u.up[m] \in M /\ \E i \in Sides : u.link[u.up[m]][i] = m
    OBVIOUS
  <2>1. CASE m = c
    <3>1. u.up[m] = y /\ u.link[y][s] = c
      BY <1>4, <1>6, <2>1 DEF DoubleShape
    <3>. QED  BY <1>1, <2>1, <3>1
  <2>2. CASE m = b
    <3>1. u.up[m] = x /\ u.link[x][1 - s] = b
      BY <1>4, <1>6, <2>2 DEF DoubleShape
    <3>. QED  BY <1>1, <2>2, <3>1
  <2>3. CASE m = w
    <3>1. p # NULL
      BY <1>4, <2>3 DEF DoubleShape
    <3>2. p \in M /\ u.up[m] = p /\ u.link[p][side] = w /\ side \in Sides
      BY <1>2, <1>4, <2>3, <3>1 DEF DoubleShape
    <3>. QED  BY <2>3, <3>2
  <2>4. CASE m = x
    <3>1. u.up[m] = w /\ u.link[w][s] = x
      BY <1>4, <2>4 DEF DoubleShape
    <3>. QED  BY <1>1, <2>4, <3>1
  <2>5. CASE m = y
    <3>1. u.up[m] = w /\ u.link[w][1 - s] = y
      BY <1>4, <2>5 DEF DoubleShape
    <3>. QED  BY <1>1, <2>5, <3>1
  <2>6. CASE m # x /\ m # y /\ m # w /\ m # b /\ m # c
    <3>1. u.up[m] = t.up[m]
      BY <1>3, <1>4, <2>6 DEF DoubleShape
    <3>2. m # t.root
      <4>1. u.root = IF p = NULL THEN w ELSE t.root
        BY <1>4 DEF DoubleShape
      <4>2. CASE p = NULL
        BY <1>2, <1>6, <2>6, <4>2
      <4>3. CASE p # NULL
        BY <4>1, <4>3
      <4>. QED  BY <4>2, <4>3
    <3>3. PICK i \in Sides : t.link[t.up[m]][i] = m
      BY <1>3, <3>2
    <3>4. t.up[m] \in M
      BY <1>3, <3>2
    <3>5. CASE t.up[m] = w
      BY <1>5, <1>6, <2>6, <3>3, <3>5
    <3>6. CASE t.up[m] = x
      <4>1. m = a /\ i = s
        BY <1>1, <1>5, <1>6, <2>6, <3>3, <3>6
      <4>2. u.link[x][s] = a
        BY <1>4 DEF DoubleShape
      <4>. QED  BY <3>1, <3>4, <3>6, <4>1, <4>2
    <3>7. CASE t.up[m] = y
      <4>1. m = d /\ i = 1 - s
        BY <1>1, <1>5, <1>6, <2>6, <3>3, <3>7
      <4>2. u.link[y][1 - s] = d
        BY <1>4 DEF DoubleShape
      <4>. QED  BY <1>1, <3>1, <3>4, <3>7, <4>1, <4>2
    <3>8. CASE t.up[m] # w /\ t.up[m] # x /\ t.up[m] # y
      <4>1. ~(t.up[m] = p /\ i = side)
        BY <1>2, <1>6, <2>6, <3>3, <3>4
      <4>2. u.link[t.up[m]][i] = t.link[t.up[m]][i]
        BY <1>3, <1>4, <3>4, <3>8, <4>1 DEF DoubleShape
      <4>. QED  BY <3>1, <3>3, <3>4, <4>2
    <3>. QED  BY <3>5, <3>6, <3>7, <3>8
  <2>. QED  BY <2>1, <2>2, <2>3, <2>4, <2>5, <2>6
<1>13. \A m \in Node \ M : u.up[m] = NULL /\ \A i \in Sides : u.link[m][i] = NULL
  <2>1. \A m \in Node \ M : m # x /\ m # y /\ m # w /\ m # b /\ m # c /\ m # p
    BY <1>1, <1>2, <1>5, NullAssumption
  <2>. QED  BY <1>3, <1>4, <2>1 DEF DoubleShape
<1>14. u.root \in M \cup {NULL} /\ (u.root = NULL => M = {})
  BY <1>1, <1>3, <1>4 DEF DoubleShape
<1>. QED  BY <1>3, <1>9, <1>10, <1>11, <1>12, <1>13, <1>14 DEF Linked

\* A double rotation leaves every balance right, whichever way the inner child leaned.
LEMMA DoubleBalanced ==
  ASSUME NEW t, NEW M, NEW h, NEW H, NEW y, NEW s, NEW x, NEW w, NEW u,
         Lopsided(t, M, h, H, y, s), Family(t, M, y, s, x), InnerFamily(t, M, h, y, s, x, w),
         IsDouble(u, t, s, y, x, w)
  PROVE  \E g : Balanceable(u, g, H)
<1>. DEFINE b == t.link[w][s]
            c == t.link[w][1 - s]
            d == t.link[y][1 - s]
            a == t.link[x][s]
            p == t.up[y]
            side == SideOf(t, p, y)
            g == [n \in Slot |-> IF n = w THEN h[y] ELSE IF n = x \/ n = y THEN h[y] - 1 ELSE h[n]]
<1>1. /\ TableType(t) /\ Linked(t, M) /\ HeightType(h, H) /\ h[d] = h[y] - 2
      /\ s \in Sides /\ 1 - s \in Sides
  BY DEF Lopsided, Sides
<1>2. Above(t, M, h, y)
  BY LopsidedAbove
<1>3. /\ x \in Node /\ y \in Node /\ w \in Node /\ x # y /\ x # w /\ y # w
      /\ x # NULL /\ y # NULL /\ w # NULL
      /\ b # x /\ b # y /\ b # w /\ c # x /\ c # y /\ c # w
      /\ a # x /\ a # y /\ a # w /\ d # x /\ d # y /\ d # w
      /\ p # x /\ p # y /\ p # w
      /\ h[w] = h[y] - 1 /\ h[a] = h[y] - 2
  BY DEF Family, InnerFamily
<1>4. DoubleShape(u, t, M, y, s, x, w, a, b, c, d, p, side)
  BY <1>1, <1>2, DoubleChanges
<1>5. Differing(t, h, w, s)
  BY <1>3, LopsidedDiffer
<1>6. /\ t.bal[w] = Heavy(s) /\ h[b] = h[y] - 2 /\ h[c] = h[y] - 3 /\ h[y] - 3 \in Nat
      \/ /\ t.bal[w] = -Heavy(s) /\ h[b] = h[y] - 3 /\ h[c] = h[y] - 2 /\ h[y] - 3 \in Nat
      \/ /\ t.bal[w] = 0 /\ h[b] = h[y] - 2 /\ h[c] = h[y] - 2 /\ h[y] - 2 \in Nat
  <2>1. Heavy(s) \in {-1, 1}
    BY DEF Heavy
  <2>2. t.bal[w] = Heavy(s) \/ t.bal[w] = -Heavy(s) \/ t.bal[w] = 0
    BY <1>5, <2>1 DEF Differing
  <2>3. h[w] = h[y] - 1 /\ h[w] \in Nat /\ h[b] \in Nat /\ h[c] \in Nat /\ h[y] \in Int
    BY <1>1, <1>3, <1>5 DEF Differing, HeightType, Slot
  <2>4. CASE t.bal[w] = Heavy(s)
    <3>1. h[b] = h[w] - 1 /\ h[c] = h[w] - 2
      BY <1>5, <2>4 DEF Differing
    <3>. QED  BY <2>3, <2>4, <3>1
  <2>5. CASE t.bal[w] = -Heavy(s)
    <3>1. h[c] = h[w] - 1 /\ h[b] = h[w] - 2
      BY <1>5, <2>5 DEF Differing
    <3>. QED  BY <2>3, <2>5, <3>1
  <2>6. CASE t.bal[w] = 0
    <3>1. h[c] = h[w] - 1 /\ h[b] = h[w] - 1
      BY <1>5, <2>6 DEF Differing
    <3>. QED  BY <2>3, <2>6, <3>1
  <2>. QED  BY <2>2, <2>4, <2>5, <2>6
<1>7. /\ a \in Slot /\ b \in Slot /\ c \in Slot /\ d \in Slot
      /\ h[y] \in 2 .. H /\ H \in Nat /\ h[NULL] = 0 /\ h \in [Slot -> 0 .. H]
  <2>1. a \in Slot /\ b \in Slot /\ c \in Slot /\ d \in Slot
    BY <1>1, <1>3 DEF TableType
  <2>2. h[y] \in 0 .. H /\ H \in Nat /\ h[NULL] = 0 /\ h \in [Slot -> 0 .. H] /\ h[d] \in 0 .. H
    BY <1>1, <1>3, <2>1 DEF HeightType, Slot
  <2>. QED  BY <1>1, <2>1, <2>2
<1>8. /\ u.bal[w] = 0
      /\ u.bal[y] = IF t.bal[w] = Heavy(s) THEN -Heavy(s) ELSE 0
      /\ u.bal[x] = IF t.bal[w] = -Heavy(s) THEN Heavy(s) ELSE 0
      /\ \A m \in Node : m # x /\ m # y /\ m # w => u.bal[m] = t.bal[m]
  BY <1>3 DEF IsDouble
<1>9. /\ g[w] = h[y] /\ g[x] = h[y] - 1 /\ g[y] = h[y] - 1
      /\ \A n \in Slot : n # w /\ n # x /\ n # y => g[n] = h[n]
  BY <1>3 DEF Slot
<1>10. HeightType(g, H)
  <2>1. g \in [Slot -> 0 .. H]
    <3>1. h[y] \in 0 .. H /\ h[y] - 1 \in 0 .. H
      BY <1>7
    <3>. QED  BY <1>7, <3>1
  <2>2. g[NULL] = 0
    BY <1>3, <1>7, <1>9 DEF Slot
  <2>. QED  BY <1>7, <2>1, <2>2 DEF HeightType
<1>. HIDE DEF g
<1>11. /\ g[a] = h[y] - 2 /\ g[d] = h[y] - 2 /\ g[b] = h[b] /\ g[c] = h[c]
  BY <1>1, <1>3, <1>7, <1>9
<1>12. /\ u.link[w][s] = x /\ u.link[w][1 - s] = y
       /\ u.link[x][s] = a /\ u.link[x][1 - s] = b
       /\ u.link[y][s] = c /\ u.link[y][1 - s] = d
  BY <1>4 DEF DoubleShape
<1>13. Heavy(s) # -Heavy(s) /\ Heavy(s) # 0 /\ -Heavy(s) # 0
  BY DEF Heavy
<1>. HIDE DEF a, b, c, d, p, side
<1>14. High(u, g, w) /\ Even(u, g, w) /\ u.bal[w] \in -1 .. 1
  <2>1. h[y] - 1 \in Nat /\ g[w] = 1 + Taller(h[y] - 1, h[y] - 1)
    BY <1>7, <1>9 DEF Taller
  <2>2. g[u.link[w][s]] = h[y] - 1 /\ g[u.link[w][1 - s]] = h[y] - 1
    BY <1>9, <1>12
  <2>. QED  BY <1>1, <1>8, <2>1, <2>2, Judged
<1>15. High(u, g, x) /\ Even(u, g, x) /\ u.bal[x] \in -1 .. 1
  <2>1. h[b] \in Nat /\ h[y] - 2 \in Nat /\ g[x] = 1 + Taller(h[y] - 2, h[b])
    BY <1>6, <1>7, <1>9 DEF Taller
  <2>2. g[u.link[x][s]] = h[y] - 2 /\ g[u.link[x][1 - s]] = h[b]
    BY <1>11, <1>12
  <2>3. \/ h[y] - 2 = h[b] + 1 /\ u.bal[x] = Heavy(s)
        \/ h[b] = (h[y] - 2) + 1 /\ u.bal[x] = -Heavy(s)
        \/ h[y] - 2 = h[b] /\ u.bal[x] = 0
    BY <1>6, <1>7, <1>8, <1>13
  <2>. QED  BY <1>1, <2>1, <2>2, <2>3, Judged
<1>16. High(u, g, y) /\ Even(u, g, y) /\ u.bal[y] \in -1 .. 1
  <2>1. h[c] \in Nat /\ h[y] - 2 \in Nat /\ g[y] = 1 + Taller(h[c], h[y] - 2)
    BY <1>6, <1>7, <1>9 DEF Taller
  <2>2. g[u.link[y][s]] = h[c] /\ g[u.link[y][1 - s]] = h[y] - 2
    BY <1>11, <1>12
  <2>3. \/ h[c] = (h[y] - 2) + 1 /\ u.bal[y] = Heavy(s)
        \/ h[y] - 2 = h[c] + 1 /\ u.bal[y] = -Heavy(s)
        \/ h[c] = h[y] - 2 /\ u.bal[y] = 0
    BY <1>6, <1>7, <1>8, <1>13
  <2>. QED  BY <1>1, <2>1, <2>2, <2>3, Judged
<1>17. ASSUME NEW m \in Node, m # x, m # y, m # w
       PROVE  High(u, g, m) /\ Even(u, g, m) /\ u.bal[m] \in -1 .. 1
  <2>1. High(t, h, m) /\ Even(t, h, m) /\ t.bal[m] \in -1 .. 1
    BY <1>17 DEF Lopsided
  <2>2. \A i \in Sides : g[u.link[m][i]] = h[t.link[m][i]]
    <3>. SUFFICES ASSUME NEW i \in Sides  PROVE g[u.link[m][i]] = h[t.link[m][i]]
      OBVIOUS
    <3>1. CASE m = p /\ i = side
      <4>1. p \in M /\ \A j \in Sides : t.link[p][j] = y <=> j = side
        BY <1>2, <3>1, NullAssumption DEF Above, p, side
      <4>2. t.link[m][i] = y /\ u.link[m][i] = w
        BY <1>4, <3>1, <4>1 DEF DoubleShape
      <4>. QED  BY <1>9, <4>2
    <3>2. CASE ~(m = p /\ i = side)
      <4>1. u.link[m][i] = t.link[m][i] /\ t.link[m][i] \in Slot
        BY <1>1, <1>4, <1>17, <3>2 DEF TableType, DoubleShape
      <4>2. t.link[m][i] # NULL => m \in M /\ t.up[t.link[m][i]] = m
        BY <1>1 DEF Linked
      <4>3. t.link[m][i] # y
        <5>. SUFFICES ASSUME t.link[m][i] = y  PROVE FALSE
          OBVIOUS
        <5>1. m = p /\ m \in M
          BY <1>3, <4>2 DEF p
        <5>2. p # NULL
          BY <5>1, NullAssumption DEF Linked
        <5>3. \A j \in Sides : t.link[p][j] = y <=> j = side
          BY <1>2, <5>2 DEF Above, p, side
        <5>. QED  BY <3>2, <5>1, <5>3
      <4>4. t.up[x] = y /\ t.up[w] = x
        BY DEF Family, InnerFamily
      <4>5. t.link[m][i] # x /\ t.link[m][i] # w
        BY <1>3, <1>17, <4>2, <4>4
      <4>. QED  BY <1>9, <4>1, <4>3, <4>5
    <3>. QED  BY <3>1, <3>2
  <2>3. u.bal[m] = t.bal[m] /\ g[m] = h[m]
    BY <1>8, <1>9, <1>17 DEF Slot
  <2>. QED  BY <2>1, <2>2, <2>3 DEF High, Even, Sides
<1>18. Balanceable(u, g, H)
  BY <1>10, <1>14, <1>15, <1>16, <1>17 DEF Balanceable
<1>. QED  BY <1>18

-----------------------------------------------------------------------------
(* Order *)

\* The numbers of S on one side of k.
Part(S, k, s) == {x \in S : IF s = 0 THEN x < k ELSE x > k}

\* span[n] is where the keys of n's subtree may lie.
Ordered(t, M, rank, span) ==
  /\ span \in [Node -> SUBSET Int] /\ rank \in [Node -> Int]
  /\ t.root # NULL => span[t.root] = Int
  /\ \A m \in M : /\ rank[m] \in span[m]
                  /\ \A i \in Sides : t.link[m][i] # NULL =>
                       span[t.link[m][i]] = Part(span[m], rank[m], i)

\* Parts of parts: j lies on side s of k.
Nested(S, k, j, s) ==
  /\ j \in S /\ k \in Part(S, j, 1 - s)
  /\ Part(S, k, s) \subseteq Int /\ Part(S, j, 1 - s) \subseteq Int
  /\ Part(Part(S, k, s), j, s) = Part(S, j, s)
  /\ Part(Part(S, j, 1 - s), k, 1 - s) = Part(S, k, 1 - s)
  /\ Part(Part(S, k, s), j, 1 - s) = Part(Part(S, j, 1 - s), k, s)

\* That is what the parts of parts are, on either side.
LEMMA PartOfPart ==
  ASSUME NEW S, S \subseteq Int, NEW s \in Sides, NEW k \in S, NEW j \in Part(S, k, s)
  PROVE  Nested(S, k, j, s)
<1>1. CASE s = 0
  <2>0. j \in S /\ j < k /\ k \in Int /\ j \in Int
    BY <1>1 DEF Part
  <2>1. \A T, m : /\ Part(T, m, s) = {x \in T : x < m}
                  /\ Part(T, m, 1 - s) = {x \in T : x > m}
    <3>1. 1 - s # s /\ (1 - s = 0 <=> s = 1)
      BY <1>1
    <3>. QED  BY <1>1, <3>1 DEF Part
  <2>2. Part(S, k, s) = {x \in S : x < k} /\ Part(S, j, 1 - s) = {x \in S : x > j}
        /\ Part(S, j, s) = {x \in S : x < j} /\ Part(S, k, 1 - s) = {x \in S : x > k}
    BY <2>1
  <2>3. Part(Part(S, k, s), j, s) = {x \in Part(S, k, s) : x < j}
        /\ Part(Part(S, j, 1 - s), k, 1 - s) = {x \in Part(S, j, 1 - s) : x > k}
        /\ Part(Part(S, k, s), j, 1 - s) = {x \in Part(S, k, s) : x > j}
        /\ Part(Part(S, j, 1 - s), k, s) = {x \in Part(S, j, 1 - s) : x < k}
    BY <2>1
  <2>4. {x \in {x \in S : x < k} : x < j} = {x \in S : x < j}
    <3>1. \A x \in S : x < j => x < k
      BY <2>0
    <3>. QED  BY <3>1
  <2>5. {x \in {x \in S : x > j} : x > k} = {x \in S : x > k}
    <3>1. \A x \in S : x > k => x > j
      BY <2>0
    <3>. QED  BY <3>1
  <2>6. {x \in {x \in S : x < k} : x > j} = {x \in {x \in S : x > j} : x < k}
    OBVIOUS
  <2>7. j \in S /\ k \in Part(S, j, 1 - s) /\ Part(S, k, s) \subseteq Int /\ Part(S, j, 1 - s) \subseteq Int
    BY <2>0, <2>2
  <2>. QED  BY <2>2, <2>3, <2>4, <2>5, <2>6, <2>7 DEF Nested
<1>2. CASE s = 1
  <2>0. j \in S /\ j > k /\ k \in Int /\ j \in Int
    BY <1>2 DEF Part
  <2>1. \A T, m : /\ Part(T, m, s) = {x \in T : x > m}
                  /\ Part(T, m, 1 - s) = {x \in T : x < m}
    <3>1. 1 - s # s /\ (1 - s = 0 <=> s = 1)
      BY <1>2
    <3>. QED  BY <1>2, <3>1 DEF Part
  <2>2. Part(S, k, s) = {x \in S : x > k} /\ Part(S, j, 1 - s) = {x \in S : x < j}
        /\ Part(S, j, s) = {x \in S : x > j} /\ Part(S, k, 1 - s) = {x \in S : x < k}
    BY <2>1
  <2>3. Part(Part(S, k, s), j, s) = {x \in Part(S, k, s) : x > j}
        /\ Part(Part(S, j, 1 - s), k, 1 - s) = {x \in Part(S, j, 1 - s) : x < k}
        /\ Part(Part(S, k, s), j, 1 - s) = {x \in Part(S, k, s) : x < j}
        /\ Part(Part(S, j, 1 - s), k, s) = {x \in Part(S, j, 1 - s) : x > k}
    BY <2>1
  <2>4. {x \in {x \in S : x > k} : x > j} = {x \in S : x > j}
    <3>1. \A x \in S : x > j => x > k
      BY <2>0
    <3>. QED  BY <3>1
  <2>5. {x \in {x \in S : x < j} : x < k} = {x \in S : x < k}
    <3>1. \A x \in S : x < k => x < j
      BY <2>0
    <3>. QED  BY <3>1
  <2>6. {x \in {x \in S : x > k} : x < j} = {x \in {x \in S : x < j} : x > k}
    OBVIOUS
  <2>7. j \in S /\ k \in Part(S, j, 1 - s) /\ Part(S, k, s) \subseteq Int /\ Part(S, j, 1 - s) \subseteq Int
    BY <2>0, <2>2
  <2>. QED  BY <2>2, <2>3, <2>4, <2>5, <2>6, <2>7 DEF Nested
<1>. QED  BY <1>1, <1>2 DEF Sides

\* Away from the rotated nodes, and below them, a rotation leaves children where they are:
\* the nodes R have new spans, and w takes the place of y.
Elsewhere(u, t, M, y, w, R) ==
  \A m \in M \ R, i \in Sides :
    \/ t.link[m][i] = y /\ u.link[m][i] = w
    \/ u.link[m][i] = t.link[m][i] /\ t.link[m][i] \notin R

\* A single rotation moves no other child.
LEMMA SingleElsewhere ==
  ASSUME NEW t, NEW M, NEW h, NEW y, NEW s, NEW x, NEW u,
         TableType(t), Linked(t, M), Above(t, M, h, y), Family(t, M, y, s, x),
         IsSingle(u, t, s, y, x)
  PROVE  Elsewhere(u, t, M, y, x, {x, y})
<1>. DEFINE p == t.up[y]
            side == SideOf(t, p, y)
<1>. SUFFICES ASSUME NEW m \in M, m # x, m # y, NEW i \in Sides
              PROVE  \/ t.link[m][i] = y /\ u.link[m][i] = x
                     \/ u.link[m][i] = t.link[m][i] /\ t.link[m][i] # x /\ t.link[m][i] # y
  BY DEF Elsewhere
<1>1. m \in Node /\ m # NULL /\ x # NULL /\ y # NULL /\ t.up[x] = y
  BY NullAssumption DEF Linked, Family
<1>2. u.link[m][i] = IF m = p /\ i = SideOf(t, m, y) THEN x ELSE t.link[m][i]
  BY <1>1 DEF IsSingle
<1>3. t.link[m][i] # NULL => t.up[t.link[m][i]] = m
  BY DEF Linked
<1>4. m = p => (t.link[m][i] = y <=> i = SideOf(t, m, y))
  BY <1>1 DEF Above
<1>5. t.link[m][i] = y => m = p
  BY <1>1, <1>3
<1>6. t.link[m][i] # x
  BY <1>1, <1>3
<1>. QED  BY <1>2, <1>4, <1>5, <1>6

\* A double rotation moves no other child.
LEMMA DoubleElsewhere ==
  ASSUME NEW t, NEW M, NEW h, NEW y, NEW s, NEW x, NEW w, NEW u,
         TableType(t), Linked(t, M), Above(t, M, h, y), Family(t, M, y, s, x),
         InnerFamily(t, M, h, y, s, x, w), IsDouble(u, t, s, y, x, w)
  PROVE  Elsewhere(u, t, M, y, w, {x, y, w})
<1>. DEFINE p == t.up[y]
<1>. SUFFICES ASSUME NEW m \in M, m # x, m # y, m # w, NEW i \in Sides
              PROVE  \/ t.link[m][i] = y /\ u.link[m][i] = w
                     \/ /\ u.link[m][i] = t.link[m][i] /\ t.link[m][i] # x /\ t.link[m][i] # y
                        /\ t.link[m][i] # w
  BY DEF Elsewhere
<1>1. /\ m \in Node /\ m # NULL /\ x # NULL /\ y # NULL /\ t.up[x] = y
      /\ w # NULL /\ t.up[w] = x
  BY NullAssumption DEF Linked, Family, InnerFamily
<1>2. u.link[m][i] = IF m = p /\ i = SideOf(t, m, y) THEN w ELSE t.link[m][i]
  BY <1>1 DEF IsDouble
<1>3. t.link[m][i] # NULL => t.up[t.link[m][i]] = m
  BY DEF Linked
<1>4. m = p => (t.link[m][i] = y <=> i = SideOf(t, m, y))
  BY <1>1 DEF Above
<1>5. t.link[m][i] = y => m = p
  BY <1>1, <1>3
<1>6. t.link[m][i] # x /\ t.link[m][i] # w
  BY <1>1, <1>3
<1>. QED  BY <1>2, <1>4, <1>5, <1>6

\* A single rotation keeps the order: the two nodes exchange the parts of their span.
LEMMA SingleOrdered ==
  ASSUME NEW t, NEW M, NEW h, NEW y, NEW s, NEW x, NEW u, NEW rank, NEW span,
         TableType(t), Linked(t, M), Above(t, M, h, y), Family(t, M, y, s, x), x = t.link[y][s],
         IsSingle(u, t, s, y, x), Ordered(t, M, rank, span)
  PROVE  \E g : Ordered(u, M, rank, g)
<1>. DEFINE a == t.link[x][s]
            b == t.link[x][1 - s]
            c == t.link[y][1 - s]
            Sy == span[y]
            g == [m \in Node |-> IF m = x THEN Sy ELSE IF m = y THEN Part(Sy, rank[x], 1 - s)
                                 ELSE span[m]]
<1>1. /\ x \in M /\ y \in M /\ x \in Node /\ y \in Node /\ x # y /\ x # NULL /\ y # NULL
      /\ s \in Sides /\ 1 - s \in Sides /\ 1 - s # s
      /\ a # x /\ a # y /\ b # x /\ b # y /\ c # x /\ c # y /\ t.up[y] # x /\ t.up[y] # y
      /\ x # t.root
  BY DEF Family
<1>2. /\ span \in [Node -> SUBSET Int] /\ rank \in [Node -> Int]
      /\ t.root # NULL => span[t.root] = Int
      /\ \A m \in M : /\ rank[m] \in span[m]
                      /\ \A i \in Sides : t.link[m][i] # NULL =>
                           span[t.link[m][i]] = Part(span[m], rank[m], i)
  BY DEF Ordered
<1>3. /\ Sy \subseteq Int /\ rank[y] \in Sy /\ rank[x] \in Part(Sy, rank[y], s)
      /\ span[x] = Part(Sy, rank[y], s)
      /\ a # NULL => span[a] = Part(span[x], rank[x], s)
      /\ b # NULL => span[b] = Part(span[x], rank[x], 1 - s)
      /\ c # NULL => span[c] = Part(Sy, rank[y], 1 - s)
  BY <1>1, <1>2
<1>. HIDE DEF Sy
<1>4. /\ rank[y] \in Part(Sy, rank[x], 1 - s) /\ rank[x] \in Sy /\ Part(Sy, rank[x], 1 - s) \subseteq Int
      /\ Part(Part(Sy, rank[y], s), rank[x], s) = Part(Sy, rank[x], s)
      /\ Part(Part(Sy, rank[x], 1 - s), rank[y], 1 - s) = Part(Sy, rank[y], 1 - s)
      /\ Part(Part(Sy, rank[y], s), rank[x], 1 - s) = Part(Part(Sy, rank[x], 1 - s), rank[y], s)
  <2>1. Nested(Sy, rank[y], rank[x], s)
    BY <1>1, <1>3, PartOfPart
  <2>. QED  BY <2>1 DEF Nested
<1>5. g \in [Node -> SUBSET Int]
  BY <1>2, <1>3, <1>4
<1>6. g[x] = Sy /\ g[y] = Part(Sy, rank[x], 1 - s)
      /\ \A m \in Node : m # x /\ m # y => g[m] = span[m]
  BY <1>1
<1>. HIDE DEF g
<1>7. /\ u.link[x][s] = a /\ u.link[x][1 - s] = y /\ u.link[y][s] = b /\ u.link[y][1 - s] = c
      /\ u.root = IF t.up[y] = NULL THEN x ELSE t.root
  BY <1>1 DEF IsSingle
<1>8. a \in Slot /\ b \in Slot /\ c \in Slot /\ \A i \in Sides : i = s \/ i = 1 - s
  BY <1>1 DEF TableType, Sides
<1>9. M \subseteq Node /\ NULL \notin M
  BY NullAssumption DEF Linked
<1>. HIDE DEF a, b, c
<1>10. u.root # NULL => g[u.root] = Int
  <2>1. CASE t.up[y] = NULL
    <3>1. t.root = y
      BY <1>9, <2>1 DEF Above
    <3>. QED  BY <1>1, <1>2, <1>6, <1>7, <2>1, <3>1 DEF Sy
  <2>2. CASE t.up[y] # NULL
    <3>1. t.root # y /\ t.root \in M \cup {NULL}
      BY <2>2 DEF Above, Linked
    <3>. QED  BY <1>1, <1>2, <1>6, <1>7, <1>9, <2>2, <3>1
  <2>. QED  BY <2>1, <2>2
<1>11. ASSUME NEW m \in M, NEW i \in Sides, u.link[m][i] # NULL
       PROVE  g[u.link[m][i]] = Part(g[m], rank[m], i)
  <2>1. CASE m = x /\ i = s
    BY <1>1, <1>3, <1>4, <1>6, <1>7, <1>8, <1>11, <2>1 DEF Slot
  <2>2. CASE m = x /\ i = 1 - s
    BY <1>6, <1>7, <2>2
  <2>3. CASE m = y /\ i = s
    BY <1>1, <1>3, <1>4, <1>6, <1>7, <1>8, <1>11, <2>3 DEF Slot
  <2>4. CASE m = y /\ i = 1 - s
    BY <1>1, <1>3, <1>4, <1>6, <1>7, <1>8, <1>11, <2>4 DEF Slot
  <2>5. CASE m # x /\ m # y
    <3>1. Elsewhere(u, t, M, y, x, {x, y})
      BY SingleElsewhere
    <3>2. \/ t.link[m][i] = y /\ u.link[m][i] = x
          \/ u.link[m][i] = t.link[m][i] /\ t.link[m][i] # x /\ t.link[m][i] # y
      BY <2>5, <3>1 DEF Elsewhere
    <3>3. g[m] = span[m] /\ t.link[m][i] \in Slot
      BY <1>6, <1>9, <2>5 DEF TableType
    <3>4. CASE t.link[m][i] = y /\ u.link[m][i] = x
      BY <1>1, <1>2, <1>6, <3>3, <3>4 DEF Sy
    <3>5. CASE u.link[m][i] = t.link[m][i] /\ t.link[m][i] # x /\ t.link[m][i] # y
      BY <1>2, <1>6, <1>11, <3>3, <3>5 DEF Slot
    <3>. QED  BY <3>2, <3>4, <3>5
  <2>. QED  BY <1>8, <2>1, <2>2, <2>3, <2>4, <2>5
<1>12. \A m \in M : rank[m] \in g[m]
  BY <1>2, <1>4, <1>6, <1>9
<1>13. Ordered(u, M, rank, g)
  BY <1>2, <1>5, <1>10, <1>11, <1>12 DEF Ordered
<1>. QED  BY <1>13

\* A double rotation keeps the order.
LEMMA DoubleOrdered ==
  ASSUME NEW t, NEW M, NEW h, NEW y, NEW s, NEW x, NEW w, NEW u, NEW rank, NEW span,
         TableType(t), Linked(t, M), Above(t, M, h, y), Family(t, M, y, s, x),
         InnerFamily(t, M, h, y, s, x, w), IsDouble(u, t, s, y, x, w), Ordered(t, M, rank, span)
  PROVE  \E g : Ordered(u, M, rank, g)
<1>. DEFINE a == t.link[x][s]
            b == t.link[w][s]
            c == t.link[w][1 - s]
            d == t.link[y][1 - s]
            p == t.up[y]
            Sy == span[y]
            g == [m \in Node |-> IF m = w THEN Sy ELSE IF m = x THEN Part(Sy, rank[w], s)
                                 ELSE IF m = y THEN Part(Sy, rank[w], 1 - s) ELSE span[m]]
<1>1. /\ x \in M /\ y \in M /\ w \in M /\ x \in Node /\ y \in Node /\ w \in Node
      /\ x # y /\ w # x /\ w # y /\ x # NULL /\ y # NULL /\ w # NULL
      /\ s \in Sides /\ 1 - s \in Sides /\ 1 - s # s
      /\ a # x /\ a # y /\ a # w /\ b # x /\ b # y /\ b # w
      /\ c # x /\ c # y /\ c # w /\ d # x /\ d # y /\ d # w
      /\ x # t.root /\ w # t.root
      /\ x = t.link[y][s] /\ w = t.link[x][1 - s]
  BY DEF Family, InnerFamily
<1>2. /\ span \in [Node -> SUBSET Int] /\ rank \in [Node -> Int]
      /\ t.root # NULL => span[t.root] = Int
      /\ \A m \in M : /\ rank[m] \in span[m]
                      /\ \A i \in Sides : t.link[m][i] # NULL =>
                           span[t.link[m][i]] = Part(span[m], rank[m], i)
  BY DEF Ordered
<1>3. /\ Sy \subseteq Int /\ rank[y] \in Sy /\ rank[x] \in span[x] /\ rank[w] \in span[w]
      /\ span[x] = Part(Sy, rank[y], s)
      /\ span[w] = Part(span[x], rank[x], 1 - s)
      /\ a # NULL => span[a] = Part(span[x], rank[x], s)
      /\ b # NULL => span[b] = Part(span[w], rank[w], s)
      /\ c # NULL => span[c] = Part(span[w], rank[w], 1 - s)
      /\ d # NULL => span[d] = Part(Sy, rank[y], 1 - s)
  <2>1. Sy \subseteq Int /\ rank[y] \in Sy /\ rank[x] \in span[x] /\ rank[w] \in span[w]
    BY <1>1, <1>2
  <2>2. span[x] = Part(Sy, rank[y], s)
    BY <1>1, <1>2
  <2>3. span[w] = Part(span[x], rank[x], 1 - s)
    BY <1>1, <1>2
  <2>4. /\ a # NULL => span[a] = Part(span[x], rank[x], s)
        /\ b # NULL => span[b] = Part(span[w], rank[w], s)
        /\ c # NULL => span[c] = Part(span[w], rank[w], 1 - s)
        /\ d # NULL => span[d] = Part(Sy, rank[y], 1 - s)
    BY <1>1, <1>2
  <2>. QED  BY <2>1, <2>2, <2>3, <2>4
<1>12. DoubleShape(u, t, M, y, s, x, w, a, b, c, d, p, SideOf(t, p, y))
  BY DoubleChanges
<1>. HIDE DEF Sy, a, b, c, d, p
<1>4. /\ rank[w] \in Part(Sy, rank[y], s) /\ rank[w] \in Sy
      /\ rank[x] \in Part(Sy, rank[w], s) /\ rank[y] \in Part(Sy, rank[w], 1 - s)
      /\ Part(Sy, rank[w], s) \subseteq Int /\ Part(Sy, rank[w], 1 - s) \subseteq Int
      /\ Part(span[x], rank[x], s) = Part(Part(Sy, rank[w], s), rank[x], s)
      /\ Part(span[w], rank[w], s) = Part(Part(Sy, rank[w], s), rank[x], 1 - s)
      /\ Part(span[w], rank[w], 1 - s) = Part(Part(Sy, rank[w], 1 - s), rank[y], s)
      /\ Part(Sy, rank[y], 1 - s) = Part(Part(Sy, rank[w], 1 - s), rank[y], 1 - s)
  <2>. PICK kw, kx, ky, Sx, z : kw = rank[w] /\ kx = rank[x] /\ ky = rank[y] /\ Sx = span[x] /\ z = 1 - s
    OBVIOUS
  <2>1. kw \in Part(Sx, kx, z) /\ kx \in Sx /\ Sx = Part(Sy, ky, s) /\ ky \in Sy
        /\ span[w] = Part(Sx, kx, z)
    BY <1>3
  <2>2. kw \in Sx
    BY <2>1 DEF Part
  <2>3. Nested(Sy, ky, kw, s)
    BY <1>1, <1>3, <2>1, <2>2, PartOfPart
  <2>4. Sx \subseteq Int /\ z \in Sides /\ 1 - z = s
    <3>1. Sx \subseteq Int
      BY <2>1, <2>3 DEF Nested
    <3>2. z \in Sides /\ z = 1 - s
      BY <1>1
    <3>3. (s = 0 /\ z = 1) \/ (s = 1 /\ z = 0)
      BY <1>1, <3>2 DEF Sides
    <3>. QED  BY <3>1, <3>2, <3>3
  <2>5. Nested(Sx, kx, kw, z)
    BY <2>1, <2>4, PartOfPart
  <2>6. /\ kw \in Sy /\ ky \in Part(Sy, kw, z)
        /\ Part(Sy, kw, z) \subseteq Int
        /\ Part(Sx, kw, s) = Part(Sy, kw, s)
        /\ Part(Part(Sy, kw, z), ky, z) = Part(Sy, ky, z)
        /\ Part(Sx, kw, z) = Part(Part(Sy, kw, z), ky, s)
    BY <2>1, <2>3 DEF Nested
  <2>7. /\ kx \in Part(Sx, kw, s) /\ Part(Sx, kw, s) \subseteq Int
        /\ Part(Part(Sx, kx, z), kw, z) = Part(Sx, kw, z)
        /\ Part(Part(Sx, kw, s), kx, s) = Part(Sx, kx, s)
        /\ Part(Part(Sx, kx, z), kw, s) = Part(Part(Sx, kw, s), kx, z)
    BY <2>4, <2>5 DEF Nested
  <2>8. /\ Part(Sx, kx, s) = Part(Part(Sy, kw, s), kx, s)
        /\ Part(span[w], kw, s) = Part(Part(Sy, kw, s), kx, z)
        /\ Part(span[w], kw, z) = Part(Part(Sy, kw, z), ky, s)
        /\ kx \in Part(Sy, kw, s) /\ Part(Sy, kw, s) \subseteq Int
    BY <2>1, <2>6, <2>7
  <2>. QED  BY <2>1, <2>2, <2>6, <2>8
<1>5. g \in [Node -> SUBSET Int]
  BY <1>2, <1>3, <1>4
<1>6. g[w] = Sy /\ g[x] = Part(Sy, rank[w], s) /\ g[y] = Part(Sy, rank[w], 1 - s)
      /\ \A m \in Node : m # x /\ m # y /\ m # w => g[m] = span[m]
  BY <1>1
<1>. HIDE DEF g
<1>7. /\ u.link[w][s] = x /\ u.link[w][1 - s] = y
      /\ u.link[x][s] = a /\ u.link[x][1 - s] = b /\ u.link[y][s] = c /\ u.link[y][1 - s] = d
      /\ u.root = IF p = NULL THEN w ELSE t.root
  BY <1>12 DEF DoubleShape
<1>8. a \in Slot /\ b \in Slot /\ c \in Slot /\ d \in Slot /\ \A i \in Sides : i = s \/ i = 1 - s
  <2>1. a \in Slot /\ b \in Slot /\ c \in Slot /\ d \in Slot
    BY <1>1 DEF TableType, a, b, c, d
  <2>2. \A i \in Sides : i = s \/ i = 1 - s
    BY <1>1 DEF Sides
  <2>. QED  BY <2>1, <2>2
<1>9. M \subseteq Node /\ NULL \notin M
  BY NullAssumption DEF Linked
<1>10. u.root # NULL => g[u.root] = Int
  <2>1. CASE p = NULL
    <3>1. t.root = y
      BY <1>9, <2>1 DEF Above, p
    <3>. QED  BY <1>1, <1>2, <1>6, <1>7, <2>1, <3>1 DEF Sy
  <2>2. CASE p # NULL
    <3>1. t.root # y /\ t.root \in M \cup {NULL}
      BY <2>2 DEF Above, Linked, p
    <3>2. u.root = t.root /\ t.root # x /\ t.root # w
      BY <1>1, <1>7, <2>2
    <3>3. t.root # NULL => g[t.root] = span[t.root]
      BY <1>6, <1>9, <3>1, <3>2
    <3>. QED  BY <1>2, <3>2, <3>3
  <2>. QED  BY <2>1, <2>2
<1>13. /\ a # NULL => g[a] = Part(g[x], rank[x], s)
       /\ b # NULL => g[b] = Part(g[x], rank[x], 1 - s)
       /\ c # NULL => g[c] = Part(g[y], rank[y], s)
       /\ d # NULL => g[d] = Part(g[y], rank[y], 1 - s)
  <2>1. /\ a # NULL => g[a] = span[a]
        /\ b # NULL => g[b] = span[b]
        /\ c # NULL => g[c] = span[c]
        /\ d # NULL => g[d] = span[d]
    BY <1>1, <1>6, <1>8 DEF Slot
  <2>. QED  BY <1>3, <1>4, <1>6, <2>1
<1>11. ASSUME NEW m \in M, NEW i \in Sides, u.link[m][i] # NULL
       PROVE  g[u.link[m][i]] = Part(g[m], rank[m], i)
  <2>1. CASE m = w
    BY <1>6, <1>7, <1>8, <2>1
  <2>2. CASE m = x
    BY <1>7, <1>8, <1>11, <1>13, <2>2
  <2>3. CASE m = y
    BY <1>7, <1>8, <1>11, <1>13, <2>3
  <2>5. CASE m # x /\ m # y /\ m # w
    <3>1. Elsewhere(u, t, M, y, w, {x, y, w})
      BY DoubleElsewhere
    <3>2. \/ t.link[m][i] = y /\ u.link[m][i] = w
          \/ /\ u.link[m][i] = t.link[m][i] /\ t.link[m][i] # x /\ t.link[m][i] # y
             /\ t.link[m][i] # w
      BY <2>5, <3>1 DEF Elsewhere
    <3>3. g[m] = span[m] /\ t.link[m][i] \in Slot
      BY <1>6, <1>9, <2>5 DEF TableType
    <3>4. CASE t.link[m][i] = y /\ u.link[m][i] = w
      BY <1>1, <1>2, <1>6, <3>3, <3>4, ZenonT(60) DEF Sy
    <3>5. CASE u.link[m][i] = t.link[m][i] /\ t.link[m][i] # x /\ t.link[m][i] # y
               /\ t.link[m][i] # w
      BY <1>2, <1>6, <1>11, <3>3, <3>5 DEF Slot
    <3>. QED  BY <3>2, <3>4, <3>5
  <2>. QED  BY <2>1, <2>2, <2>3, <2>5
<1>14. \A m \in M : rank[m] \in g[m]
  BY <1>2, <1>4, <1>6, <1>9
<1>15. Ordered(u, M, rank, g)
  BY <1>2, <1>5, <1>10, <1>11, <1>14 DEF Ordered
<1>. QED  BY <1>15

\* Some spans put the table in order.
Sorted(t, M, rank) == \E span : Ordered(t, M, rank, span)

\* A rotation puts a lopsided table right.
IsRebalanced(u, t, M, H) ==
  /\ TableType(u) /\ u.count = t.count /\ Linked(u, M)
  /\ \E g : Balanceable(u, g, H)
  /\ \A rank : Sorted(t, M, rank) => Sorted(u, M, rank)

\* Whichever rotation is chosen, the table comes out linked, in balance and in order.
LEMMA RebalanceLopsided ==
  ASSUME NEW t, NEW M, NEW h, NEW H, NEW y, NEW s, Lopsided(t, M, h, H, y, s),
         t.bal[y] = IF s = 0 THEN -2 ELSE 2
  PROVE  IsRebalanced(Rebalance(t, y), t, M, H)
<1>. PICK x, w : x = t.link[y][s] /\ w = t.link[x][1 - s]
  OBVIOUS
<1>1. TableType(t) /\ s \in Sides /\ y \in M
  BY DEF Lopsided
<1>2. Family(t, M, y, s, x)
  BY LopsidedFamily
<1>3. x \in Node /\ y \in Node /\ x # y /\ t.up[y] # x /\ t.up[y] # y /\ t.bal[x] # 0
  BY <1>2 DEF Family, Lopsided
<1>4. Rebalance(t, y) = IF t.bal[x] = Heavy(s) THEN SingleRotation(t, y, s)
                        ELSE DoubleRotation(t, y, s)
  <2>1. CASE s = 0
    BY <2>1 DEF Rebalance, Heavy
  <2>2. CASE s = 1
    BY <2>2 DEF Rebalance, Heavy
  <2>. QED  BY <1>1, <2>1, <2>2 DEF Sides
<1>5. CASE t.bal[x] = Heavy(s)
  <2>. DEFINE u == SingleRotation(t, y, s)
  <2>1. IsSingle(u, t, s, y, x)
    BY <1>1, <1>3, SingleFields
  <2>. HIDE DEF u
  <2>2. Linked(u, M)
    BY <2>1, SingleLinked
  <2>3. Balanceable(u, [h EXCEPT ![y] = h[y] - 1], H)
    BY <1>5, <2>1, SingleBalanced
  <2>4. TableType(u) /\ u.count = t.count
    BY <2>1 DEF IsSingle
  <2>6. Above(t, M, h, y) /\ Linked(t, M)
    BY LopsidedAbove DEF Lopsided
  <2>7. \A rank, span : Ordered(t, M, rank, span) => \E g : Ordered(u, M, rank, g)
    BY <1>1, <1>2, <2>1, <2>6, SingleOrdered
  <2>5. IsRebalanced(u, t, M, H)
    BY <2>2, <2>3, <2>4, <2>7 DEF IsRebalanced, Sorted
  <2>. QED  BY <1>4, <1>5, <2>5 DEF u
<1>6. CASE t.bal[x] # Heavy(s)
  <2>. DEFINE u == DoubleRotation(t, y, s)
  <2>1. t.bal[x] = -Heavy(s)
    <3>1. Differing(t, h, x, s)
      BY <1>3, LopsidedDiffer
    <3>. QED  BY <1>3, <1>6, <3>1 DEF Differing, Heavy
  <2>2. InnerFamily(t, M, h, y, s, x, w)
    BY <2>1, LopsidedInner
  <2>3. w \in Node /\ w # x /\ w # y /\ t.up[y] # w
    BY <2>2 DEF InnerFamily
  <2>4. IsDouble(u, t, s, y, x, w)
    BY <1>1, <1>3, <2>3, DoubleFields
  <2>. HIDE DEF u
  <2>5. Above(t, M, h, y)
    BY LopsidedAbove
  <2>6. Linked(t, M)
    BY DEF Lopsided
  <2>7. Linked(u, M)
    BY <1>1, <1>2, <2>2, <2>4, <2>5, <2>6, DoubleLinked
  <2>8. \E g : Balanceable(u, g, H)
    BY <1>2, <2>2, <2>4, DoubleBalanced
  <2>9. TableType(u) /\ u.count = t.count
    BY <2>4 DEF IsDouble
  <2>11. \A rank, span : Ordered(t, M, rank, span) => \E g : Ordered(u, M, rank, g)
    BY <1>1, <1>2, <2>2, <2>4, <2>5, <2>6, DoubleOrdered
  <2>10. IsRebalanced(u, t, M, H)
    BY <2>7, <2>8, <2>9, <2>11 DEF IsRebalanced, Sorted
  <2>. QED  BY <1>4, <1>6, <2>10 DEF u
<1>. QED  BY <1>5, <1>6

-----------------------------------------------------------------------------
(* Growing a leaf *)

\* The path of a search: every node on it is met once, below the one before.
Walked(t, M, h, rank, k, p) ==
  /\ p \in Seq(M) /\ Len(p) \in Nat \ {0} /\ p[1] = t.root
  /\ \A i \in 1 .. Len(p) : p[i] \in M /\ p[i] \in Node
  /\ \A i, j \in 1 .. Len(p) : p[i] = p[j] => i = j
  /\ \A i \in 1 .. Len(p) - 1 :
       p[i + 1] = t.link[p[i]][Turn(rank, k, p[i])] /\ t.up[p[i + 1]] = p[i]

\* A search meets no node twice, since each is lower than the one before.
LEMMA PathWalked ==
  ASSUME NEW t, NEW M, NEW h, NEW H, NEW rank, NEW k, NEW p,
         TableType(t), Linked(t, M), Balanceable(t, h, H), t.root # NULL,
         Searched(t, M, rank, k, t.root, p)
  PROVE  Walked(t, M, h, rank, k, p)
<1>1. /\ p \in Seq(M) /\ Len(p) > 0 /\ p[1] = t.root
      /\ \A i \in 1 .. Len(p) - 1 : p[i + 1] = t.link[p[i]][Turn(rank, k, p[i])]
  BY DEF Searched
<1>2. M \subseteq Node /\ NULL \notin M
  BY NullAssumption DEF Linked
<1>3. /\ Len(p) \in Nat \ {0} /\ \A i \in 1 .. Len(p) : p[i] \in M /\ p[i] \in Node
  BY <1>1, <1>2
<1>4. H \in Nat /\ \A m \in Node : h[m] \in 1 .. H /\ \A s \in Sides : h[t.link[m][s]] < h[m]
  <2>1. H \in Nat /\ HeightType(h, H)
    BY DEF Balanceable, HeightType
  <2>. QED  BY <2>1, ChildrenLower DEF Balanceable
<1>5. ASSUME NEW i \in 1 .. Len(p) - 1
      PROVE  t.up[p[i + 1]] = p[i] /\ h[p[i + 1]] < h[p[i]]
  <2>1. Turn(rank, k, p[i]) \in Sides
    BY DEF Turn, Sides
  <2>2. p[i] \in M /\ p[i + 1] \in M /\ p[i + 1] = t.link[p[i]][Turn(rank, k, p[i])]
    BY <1>1, <1>3
  <2>. QED  BY <1>2, <1>4, <2>1, <2>2 DEF Linked
<1>6. ASSUME NEW i \in 1 .. Len(p)
      PROVE  \A d \in 0 .. Len(p) - i : h[p[i + d]] + d <= h[p[i]]
  <2>. DEFINE T == {d \in 0 .. Len(p) - i : h[p[i + d]] + d <= h[p[i]]}
  <2>1. h[p[i]] \in Int
    BY <1>3, <1>4
  <2>2. 0 \in T
    BY <1>3, <2>1
  <2>3. ASSUME NEW d \in 0 .. (Len(p) - i) - 1, d \in T
        PROVE  d + 1 \in T
    <3>1. i + d \in 1 .. Len(p) - 1 /\ i + (d + 1) = (i + d) + 1 /\ i + d \in 1 .. Len(p)
          /\ (i + d) + 1 \in 1 .. Len(p)
      BY <1>3
    <3>2. h[p[(i + d) + 1]] < h[p[i + d]]
      BY <1>5, <3>1
    <3>3. h[p[i + d]] \in Int /\ h[p[(i + d) + 1]] \in Int
      BY <1>3, <1>4, <3>1
    <3>4. h[p[i + (d + 1)]] + (d + 1) <= h[p[i]]
      <4>1. h[p[i + d]] + d <= h[p[i]]
        BY <2>3
      <4>2. h[p[(i + d) + 1]] + (d + 1) <= h[p[i]]
        <5>. PICK a, b, c : a = h[p[i + d]] /\ b = h[p[(i + d) + 1]] /\ c = h[p[i]]
          OBVIOUS
        <5>1. a \in Int /\ b \in Int /\ c \in Int /\ b < a /\ a + d <= c
          BY <2>1, <3>2, <3>3, <4>1
        <5>2. b + (d + 1) <= c
          BY <5>1, SMTT(30)
        <5>. QED  BY <5>2
      <4>. QED  BY <3>1, <4>2
    <3>. QED  BY <1>3, <3>4
  <2>4. Len(p) - i \in Nat
    BY <1>3
  <2>. HIDE DEF T
  <2>5. 0 .. Len(p) - i \subseteq T
    BY <2>2, <2>3, <2>4, Reaches
  <2>. QED  BY <2>5 DEF T
<1>7. ASSUME NEW i \in 1 .. Len(p), NEW j \in 1 .. Len(p), i < j
      PROVE  p[i] # p[j]
  <2>1. j - i \in 0 .. Len(p) - i /\ i + (j - i) = j /\ j - i > 0
    BY <1>3, <1>7
  <2>2. h[p[j]] + (j - i) <= h[p[i]]
    BY <1>6, <2>1
  <2>3. h[p[j]] \in Nat /\ h[p[i]] \in Nat
    BY <1>3, <1>4
  <2>. QED  BY <2>1, <2>2, <2>3
<1>8. \A i, j \in 1 .. Len(p) : p[i] = p[j] => i = j
  <2>. SUFFICES ASSUME NEW i \in 1 .. Len(p), NEW j \in 1 .. Len(p), p[i] = p[j]  PROVE i = j
    OBVIOUS
  <2>1. ~(i < j) /\ ~(j < i)
    BY <1>7
  <2>. QED  BY <1>3, <2>1
<1>. QED  BY <1>1, <1>3, <1>5, <1>8 DEF Walked

IsLeafed(u, t, q, s, n) ==
  /\ TableType(u) /\ u.root = t.root /\ u.count = t.count + 1
  /\ \A m \in Node :
       /\ u.up[m] = IF m = n THEN q ELSE t.up[m]
       /\ u.bal[m] = IF m = n THEN 0 ELSE t.bal[m]
       /\ \A i \in Sides : u.link[m][i] = IF m = q /\ i = s THEN n ELSE t.link[m][i]

\* What linking a leaf does to each field (pavl_extensions.cpp:74-83).
LEMMA LeafFields ==
  ASSUME NEW t, TableType(t), NEW q \in Node, NEW s \in Sides, NEW n \in Node
  PROVE  IsLeafed(LinkLeaf(t, q, s, n), t, q, s, n)
<1>1. n \in Slot /\ q \in Slot
  BY DEF Slot
<1>. DEFINE r1 == LinkSet(t, q, s, n)
            r2 == UpSet(r1, n, q)
            r3 == BalSet(r2, n, 0)
            r4 == CountSet(r3)
<1>2. LinkLeaf(t, q, s, n) = r4
  BY DEF LinkLeaf, LinkSet, UpSet, BalSet, CountSet
<1>3. IsLinkSet(r1, t, q, s, n)
  BY <1>1, SetLink
<1>. HIDE DEF r1
<1>4. IsUpSet(r2, r1, n, q)
  BY <1>1, <1>3, SetUp DEF IsLinkSet
<1>. HIDE DEF r2
<1>5. IsBalSet(r3, r2, n, 0)
  BY <1>4, SetBal DEF IsUpSet
<1>. HIDE DEF r3
<1>6. /\ TableType(r4) /\ r4.count = r3.count + 1
      /\ r4.root = r3.root /\ r4.link = r3.link /\ r4.up = r3.up /\ r4.bal = r3.bal
  BY <1>5, SetCount DEF IsBalSet
<1>. HIDE DEF r4
<1>7. IsLeafed(r4, t, q, s, n)
  <2>1. r4.root = t.root /\ r4.count = t.count + 1
    BY <1>3, <1>4, <1>5, <1>6 DEF IsLinkSet, IsUpSet, IsBalSet
  <2>2. \A m \in Node : r4.up[m] = IF m = n THEN q ELSE t.up[m]
    BY <1>3, <1>4, <1>5, <1>6 DEF IsLinkSet, IsUpSet, IsBalSet
  <2>3. \A m \in Node : r4.bal[m] = IF m = n THEN 0 ELSE t.bal[m]
    BY <1>3, <1>4, <1>5, <1>6 DEF IsLinkSet, IsUpSet, IsBalSet
  <2>4. r4.link = r1.link
    BY <1>4, <1>5, <1>6 DEF IsUpSet, IsBalSet
  <2>5. \A m \in Node, i \in Sides :
          r4.link[m][i] = IF m = q /\ i = s THEN n ELSE t.link[m][i]
    BY <1>3, <2>4 DEF IsLinkSet
  <2>. QED  BY <1>6, <2>1, <2>2, <2>3, <2>5 DEF IsLeafed
<1>. QED  BY <1>2, <1>7

\* Above the leaf the balances move towards it, from the j-th node of the path down.
IsTilted(u, t, rank, k, p, j) ==
  /\ TableType(u)
  /\ u.root = t.root /\ u.link = t.link /\ u.up = t.up /\ u.count = t.count
  /\ \A i \in j .. Len(p) : u.bal[p[i]] = t.bal[p[i]] + Heavy(Turn(rank, k, p[i]))
  /\ \A m \in Node : (\A i \in j .. Len(p) : p[i] # m) => u.bal[m] = t.bal[m]

\* What the loop over the path does to each balance (pavl_extensions.cpp:87-98).
LEMMA AdjustFields ==
  ASSUME NEW v, NEW M, NEW h, NEW rank, NEW k, NEW p, NEW j, NEW n, NEW t,
         TableType(v), Linked(v, M), Walked(v, M, h, rank, k, p), j \in 1 .. Len(p),
         n \in Node \ M, IsLeafed(t, v, p[Len(p)], Turn(rank, k, p[Len(p)]), n)
  PROVE  IsTilted(AdjustBalance(t, p, p[j], n), t, rank, k, p, j)
<1>. DEFINE below == Append(p, n)
            G(i) == IF SideOf(t, p[i], below[i + 1]) = 0 THEN -1 ELSE 1
            first == CHOOSE i \in DOMAIN p : p[i] = p[j]
            f == [m \in Node |->
                    IF \E i \in j .. Len(p) : p[i] = m
                    THEN t.bal[m] + G(CHOOSE i \in j .. Len(p) : p[i] = m)
                    ELSE t.bal[m]]
            u == [t EXCEPT !.bal = f]
<1>1. /\ Len(p) \in Nat \ {0} /\ DOMAIN p = 1 .. Len(p)
      /\ \A i \in 1 .. Len(p) : p[i] \in M /\ p[i] \in Node
      /\ \A i, l \in 1 .. Len(p) : p[i] = p[l] => i = l
      /\ p \in Seq(Node)
  BY DEF Walked, Linked
<1>2. first = j
  <2>1. \E i \in DOMAIN p : p[i] = p[j]
    BY <1>1
  <2>2. first \in DOMAIN p /\ p[first] = p[j]
    BY <2>1
  <2>. HIDE DEF first
  <2>. QED  BY <1>1, <2>2
<1>3. AdjustBalance(t, p, p[j], n) = u
  <2>1. AdjustBalance(t, p, p[j], n) =
          [t EXCEPT !.bal = [m \in Node |->
             IF \E i \in first .. Len(p) : p[i] = m
             THEN t.bal[m] + G(CHOOSE i \in first .. Len(p) : p[i] = m)
             ELSE t.bal[m]]]
    BY DEF AdjustBalance
  <2>. HIDE DEF first
  <2>. QED  BY <1>2, <2>1
<1>4. ASSUME NEW i \in 1 .. Len(p)
      PROVE  G(i) = Heavy(Turn(rank, k, p[i]))
  <2>0. p[i] \in M /\ p[i] \in Node /\ Turn(rank, k, p[i]) \in Sides /\ 0 \in Sides
    BY <1>1 DEF Turn, Sides
  <2>1. CASE i = Len(p)
    <3>1. below[i + 1] = n
      BY <1>1, <2>1
    <3>2. t.link[p[i]][0] = n <=> Turn(rank, k, p[i]) = 0
      <4>1. v.link[p[i]][0] # n
        <5>1. v.link[p[i]][0] \in M \cup {NULL}
          BY <2>0 DEF Linked
        <5>. QED  BY <5>1, NullAssumption
      <4>. QED  BY <2>0, <2>1, <4>1 DEF IsLeafed
    <3>. QED  BY <3>1, <3>2 DEF SideOf, Heavy
  <2>2. CASE i < Len(p)
    <3>1. below[i + 1] = p[i + 1] /\ i \in 1 .. Len(p) - 1 /\ p[i + 1] \in M
      BY <1>1, <2>2
    <3>2. p[i + 1] = v.link[p[i]][Turn(rank, k, p[i])] /\ p[i + 1] # NULL
      BY <3>1, NullAssumption DEF Walked, Linked
    <3>3. p[i] # p[Len(p)]
      BY <1>1, <2>2
    <3>4. t.link[p[i]][0] = v.link[p[i]][0]
      BY <2>0, <3>3 DEF IsLeafed
    <3>5. v.link[p[i]][0] # NULL => v.link[p[i]][0] # v.link[p[i]][1]
      BY <2>0 DEF Linked
    <3>6. v.link[p[i]][0] = p[i + 1] <=> Turn(rank, k, p[i]) = 0
      BY <2>0, <3>2, <3>5 DEF Sides
    <3>. QED  BY <3>1, <3>4, <3>6 DEF SideOf, Heavy
  <2>3. i = Len(p) \/ i < Len(p)
    <3>1. Len(p) \in Nat
      BY <1>1
    <3>2. i \in Int /\ i <= Len(p)
      BY <3>1
    <3>. HIDE DEF G, u, f, below, first
    <3>. QED  BY <3>1, <3>2
  <2>. QED  BY <2>1, <2>2, <2>3
<1>. HIDE DEF G
<1>5. TableType(t)
  BY DEF IsLeafed
<1>6. Heavy(0) = -1 /\ Heavy(1) = 1 /\ \A i \in 1 .. Len(p) : G(i) \in Int
  BY <1>4 DEF Heavy
<1>7. ASSUME NEW i \in j .. Len(p)
      PROVE  f[p[i]] = t.bal[p[i]] + Heavy(Turn(rank, k, p[i]))
  <2>0. i \in 1 .. Len(p) /\ j .. Len(p) \subseteq 1 .. Len(p)
    BY <1>1
  <2>. DEFINE c == CHOOSE l \in j .. Len(p) : p[l] = p[i]
  <2>1. c \in j .. Len(p) /\ p[c] = p[i]
    OBVIOUS
  <2>2. f[p[i]] = t.bal[p[i]] + G(c)
    BY <1>1, <2>0
  <2>. HIDE DEF c
  <2>3. c = i
    BY <1>1, <2>0, <2>1
  <2>. QED  BY <1>4, <2>0, <2>2, <2>3
<1>8. ASSUME NEW m \in Node, \A i \in j .. Len(p) : p[i] # m
      PROVE  f[m] = t.bal[m]
  BY <1>8
<1>9. f \in [Node -> Int]
  <2>1. ASSUME NEW m \in Node  PROVE f[m] \in Int
    <3>0. t.bal[m] \in Int
      BY <1>5 DEF TableType
    <3>1. CASE \E i \in j .. Len(p) : p[i] = m
      <4>1. PICK i \in j .. Len(p) : p[i] = m
        BY <3>1
      <4>2. f[m] = t.bal[m] + Heavy(Turn(rank, k, p[i]))
        BY <1>7, <4>1
      <4>3. Heavy(Turn(rank, k, p[i])) \in Int
        BY DEF Heavy
      <4>. QED  BY <3>0, <4>2, <4>3
    <3>2. CASE ~\E i \in j .. Len(p) : p[i] = m
      BY <3>0, <3>2
    <3>. QED  BY <3>1, <3>2
  <2>2. f = [m \in Node |-> f[m]]
    OBVIOUS
  <2>. QED  BY <2>1, <2>2
<1>. HIDE DEF f
<1>10. u = [root |-> t.root, link |-> t.link, up |-> t.up, bal |-> f, count |-> t.count]
  <2>1. t = [root |-> t.root, link |-> t.link, up |-> t.up, bal |-> t.bal, count |-> t.count]
    BY <1>5 DEF TableType
  <2>. QED  BY <2>1
<1>11. TableType(u)
  BY <1>5, <1>9, <1>10 DEF TableType
<1>12. IsTilted(u, t, rank, k, p, j)
  BY <1>7, <1>8, <1>10, <1>11 DEF IsTilted
<1>. QED  BY <1>3, <1>12

\* The state an insertion of n has reached when the balances have moved: p is the path
\* of the search for its key, and below the j-th node of p every node was in balance.
Growing(t, M, h, H, rank, n, p, j, v, u) ==
  /\ TableType(t) /\ Linked(t, M) /\ Balanceable(t, h, H)
  /\ n \in Node \ M /\ Walked(t, M, h, rank, rank[n], p)
  /\ \A i \in 1 .. Len(p) : rank[p[i]] # rank[n]
  /\ t.link[p[Len(p)]][Turn(rank, rank[n], p[Len(p)])] = NULL
  /\ j \in 1 .. Len(p)
  /\ \A i \in 1 .. Len(p) : i > j => t.bal[p[i]] = 0
  /\ t.bal[p[j]] = 0 => j = 1
  /\ IsLeafed(v, t, p[Len(p)], Turn(rank, rank[n], p[Len(p)]), n)
  /\ IsTilted(u, v, rank, rank[n], p, j)

\* The nodes whose subtree has grown by one level.
Risen(t, p, j) == {p[i] : i \in IF t.bal[p[j]] = 0 THEN j .. Len(p) ELSE j + 1 .. Len(p)}

Raised(h, R) == [m \in Slot |-> IF m \in R THEN h[m] + 1 ELSE h[m]]

\* What the path is.
OnPath(t, M, rank, k, p, j) ==
  /\ Len(p) \in Nat \ {0}
  /\ \A i \in 1 .. Len(p) : /\ p[i] \in M /\ p[i] \in Node /\ p[i] \in Slot /\ p[i] # NULL
                            /\ Turn(rank, k, p[i]) \in Sides /\ 1 - Turn(rank, k, p[i]) \in Sides
                            /\ 1 - Turn(rank, k, p[i]) # Turn(rank, k, p[i])
  /\ \A i, l \in 1 .. Len(p) : p[i] = p[l] => i = l
  /\ \A i \in 1 .. Len(p) - 1 :
       p[i + 1] = t.link[p[i]][Turn(rank, k, p[i])] /\ t.up[p[i + 1]] = p[i]

\* The path of an insertion is one.
LEMMA GrowingPath ==
  ASSUME NEW t, NEW M, NEW h, NEW H, NEW rank, NEW n, NEW p, NEW j, NEW v, NEW u,
         Growing(t, M, h, H, rank, n, p, j, v, u)
  PROVE  OnPath(t, M, rank, rank[n], p, j)
<1>1. Walked(t, M, h, rank, rank[n], p)
  BY DEF Growing
<1>2. \A i : /\ Turn(rank, rank[n], p[i]) \in Sides /\ 1 - Turn(rank, rank[n], p[i]) \in Sides
             /\ 1 - Turn(rank, rank[n], p[i]) # Turn(rank, rank[n], p[i])
  BY DEF Turn, Sides
<1>3. \A i \in 1 .. Len(p) : p[i] \in M /\ p[i] \in Node /\ p[i] \in Slot /\ p[i] # NULL
  BY <1>1, NullAssumption DEF Walked, Slot
<1>. QED  BY <1>1, <1>2, <1>3 DEF Walked, OnPath

\* A child that has risen is the next node of the path.
RisenChild(t, rank, k, p, j, m, s) ==
  \E i \in j .. Len(p) - 1 : m = p[i] /\ s = Turn(rank, k, p[i]) /\ p[i + 1] = t.link[m][s]

\* Below a node, only the next node of the path can have risen.
LEMMA RisenIsNext ==
  ASSUME NEW t, NEW M, NEW h, NEW H, NEW rank, NEW n, NEW p, NEW j, NEW v, NEW u,
         Growing(t, M, h, H, rank, n, p, j, v, u),
         NEW m \in Node, NEW s \in Sides, t.link[m][s] \in Risen(t, p, j)
  PROVE  RisenChild(t, rank, rank[n], p, j, m, s)
<1>1. OnPath(t, M, rank, rank[n], p, j)
  BY GrowingPath
<1>2. Linked(t, M) /\ j \in 1 .. Len(p) /\ p[1] = t.root /\ Len(p) \in Nat
  BY <1>1 DEF Growing, Walked, OnPath
<1>3. PICK i \in j .. Len(p) : t.link[m][s] = p[i] /\ (i = j => t.bal[p[j]] = 0)
  BY <1>2 DEF Risen
<1>4. i \in 1 .. Len(p) /\ p[i] \in M /\ p[i] # NULL
  BY <1>1, <1>2 DEF OnPath
<1>5. m \in M /\ t.up[p[i]] = m /\ m # NULL
  BY <1>2, <1>3, <1>4, NullAssumption DEF Linked
<1>6. i # j
  <2>. SUFFICES ASSUME i = j  PROVE FALSE
    OBVIOUS
  <2>1. j = 1
    BY <1>3 DEF Growing
  <2>2. p[i] = t.root
    BY <1>2, <2>1
  <2>3. t.up[p[i]] = NULL
    BY <1>2, <1>4, <2>2 DEF Linked
  <2>. QED  BY <1>5, <2>3
<1>7. i - 1 \in j .. Len(p) - 1 /\ i - 1 \in 1 .. Len(p) - 1 /\ (i - 1) + 1 = i
      /\ i - 1 \in 1 .. Len(p)
  BY <1>2, <1>4, <1>6
<1>8. p[i] = t.link[p[i - 1]][Turn(rank, rank[n], p[i - 1])] /\ t.up[p[i]] = p[i - 1]
  BY <1>1, <1>7 DEF OnPath
<1>9. m = p[i - 1]
  BY <1>5, <1>8
<1>10. s = Turn(rank, rank[n], p[i - 1])
  <2>1. t.link[m][0] # NULL => t.link[m][0] # t.link[m][1]
    BY <1>2, <1>5 DEF Linked
  <2>2. Turn(rank, rank[n], p[i - 1]) \in Sides
    BY <1>1, <1>7 DEF OnPath
  <2>. QED  BY <1>3, <1>4, <1>8, <1>9, <2>1, <2>2 DEF Sides
<1>11. p[(i - 1) + 1] = t.link[m][s]
  BY <1>3, <1>7
<1>. QED  BY <1>7, <1>9, <1>10, <1>11 DEF RisenChild

\* How the children of the nodes of the path have grown.
GrownChildren(u, t, g, h, rank, k, p, j) ==
  \A i \in j .. Len(p) :
    /\ g[u.link[p[i]][Turn(rank, k, p[i])]] = h[t.link[p[i]][Turn(rank, k, p[i])]] + 1
    /\ g[u.link[p[i]][1 - Turn(rank, k, p[i])]] = h[t.link[p[i]][1 - Turn(rank, k, p[i])]]
    /\ u.link[p[i]][1 - Turn(rank, k, p[i])] = t.link[p[i]][1 - Turn(rank, k, p[i])]

\* From the j-th node down, the child on the path has risen by one, the other has not.
LEMMA ChildrenGrown ==
  ASSUME NEW t, NEW M, NEW h, NEW H, NEW rank, NEW n, NEW p, NEW j, NEW v, NEW u,
         Growing(t, M, h, H, rank, n, p, j, v, u)
  PROVE  GrownChildren(u, t, Raised(h, Risen(t, p, j)), h, rank, rank[n], p, j)
<1>. DEFINE k == rank[n]
            R == Risen(t, p, j)
            g == Raised(h, R)
<1>1. OnPath(t, M, rank, k, p, j)
  BY GrowingPath
<1>2. /\ TableType(t) /\ Linked(t, M) /\ HeightType(h, H) /\ j \in 1 .. Len(p) /\ n \in Node /\ n \notin M
      /\ t.link[p[Len(p)]][Turn(rank, k, p[Len(p)])] = NULL
  BY DEF Growing, Balanceable
<1>3. /\ \A m \in Node, i \in Sides :
           u.link[m][i] = IF m = p[Len(p)] /\ i = Turn(rank, k, p[Len(p)]) THEN n ELSE t.link[m][i]
  BY DEF Growing, IsLeafed, IsTilted
<1>4. \A m \in Slot : g[m] = IF m \in R THEN h[m] + 1 ELSE h[m]
  BY DEF Raised
<1>5. \A i \in j + 1 .. Len(p) : p[i] \in R
  BY <1>2 DEF Risen
<1>6. h[n] = 1 /\ h[NULL] = 0 /\ n \in Slot /\ n \notin R
  <2>1. t.link[n][0] = NULL /\ t.link[n][1] = NULL
    BY <1>2 DEF Linked, Sides
  <2>2. High(t, h, n)
    BY <1>2 DEF Growing, Balanceable
  <2>3. h[NULL] = 0
    BY <1>2 DEF HeightType
  <2>4. R \subseteq M
    BY <1>1, <1>2 DEF Risen, OnPath
  <2>. QED  BY <1>2, <2>1, <2>2, <2>3, <2>4 DEF High, Taller, Slot
<1>. HIDE DEF R, g, k
<1>7. ASSUME NEW i \in j .. Len(p)
      PROVE  /\ g[u.link[p[i]][Turn(rank, k, p[i])]] = h[t.link[p[i]][Turn(rank, k, p[i])]] + 1
             /\ g[u.link[p[i]][1 - Turn(rank, k, p[i])]] = h[t.link[p[i]][1 - Turn(rank, k, p[i])]]
             /\ u.link[p[i]][1 - Turn(rank, k, p[i])] = t.link[p[i]][1 - Turn(rank, k, p[i])]
  <2>. PICK s : s = Turn(rank, k, p[i])
    OBVIOUS
  <2>1. /\ i \in 1 .. Len(p) /\ Len(p) \in 1 .. Len(p) /\ Len(p) \in Nat
        /\ p[i] \in Node /\ s \in Sides /\ 1 - s \in Sides /\ 1 - s # s
    BY <1>1, <1>2 DEF OnPath
  <2>2. g[u.link[p[i]][s]] = h[t.link[p[i]][s]] + 1
    <3>1. CASE i = Len(p)
      <4>1. u.link[p[i]][s] = n /\ t.link[p[i]][s] = NULL
        BY <1>2, <1>3, <2>1, <3>1
      <4>2. g[n] = 1
        BY <1>4, <1>6
      <4>. QED  BY <1>6, <4>1, <4>2
    <3>2. CASE i # Len(p)
      <4>1. i \in 1 .. Len(p) - 1 /\ i + 1 \in j + 1 .. Len(p) /\ i + 1 \in 1 .. Len(p)
        BY <1>2, <2>1, <3>2
      <4>2. p[i] # p[Len(p)]
        BY <1>1, <2>1, <3>2 DEF OnPath
      <4>3. u.link[p[i]][s] = t.link[p[i]][s] /\ t.link[p[i]][s] = p[i + 1]
        BY <1>1, <1>3, <2>1, <4>1, <4>2 DEF OnPath
      <4>4. p[i + 1] \in R /\ p[i + 1] \in Slot
        BY <1>1, <1>5, <4>1 DEF OnPath
      <4>. QED  BY <1>4, <4>3, <4>4
    <3>. QED  BY <3>1, <3>2
  <2>3. u.link[p[i]][1 - s] = t.link[p[i]][1 - s] /\ t.link[p[i]][1 - s] \in Slot
    <3>1. ~(p[i] = p[Len(p)] /\ 1 - s = Turn(rank, k, p[Len(p)]))
      BY <1>1, <2>1 DEF OnPath
    <3>. QED  BY <1>2, <1>3, <2>1, <3>1 DEF TableType
  <2>4. t.link[p[i]][1 - s] \notin R
    <3>. SUFFICES ASSUME t.link[p[i]][1 - s] \in R  PROVE FALSE
      OBVIOUS
    <3>1. RisenChild(t, rank, rank[n], p, j, p[i], 1 - s)
      BY <2>1, RisenIsNext DEF R
    <3>2. PICK l \in j .. Len(p) - 1 : p[i] = p[l] /\ 1 - s = Turn(rank, rank[n], p[l])
      BY <3>1 DEF RisenChild
    <3>. QED  BY <2>1, <3>2 DEF k
  <2>. QED  BY <1>4, <2>2, <2>3, <2>4
<1>. QED  BY <1>7 DEF GrownChildren, R, g, k

\* Off the path below its j-th node nothing has changed.
StillEven(u, g, p, j) ==
  \A m \in Node : (\A i \in j .. Len(p) : p[i] # m) =>
                    High(u, g, m) /\ Even(u, g, m) /\ u.bal[m] \in -1 .. 1

\* So every other node is in balance as it was.
LEMMA OthersStay ==
  ASSUME NEW t, NEW M, NEW h, NEW H, NEW rank, NEW n, NEW p, NEW j, NEW v, NEW u,
         Growing(t, M, h, H, rank, n, p, j, v, u)
  PROVE  StillEven(u, Raised(h, Risen(t, p, j)), p, j)
<1>. DEFINE k == rank[n]
            R == Risen(t, p, j)
            g == Raised(h, R)
<1>1. OnPath(t, M, rank, k, p, j)
  BY GrowingPath
<1>2. /\ TableType(t) /\ Linked(t, M) /\ HeightType(h, H) /\ j \in 1 .. Len(p) /\ n \in Node /\ n \notin M
  BY DEF Growing, Balanceable
<1>3. /\ \A m \in Node, i \in Sides :
           u.link[m][i] = IF m = p[Len(p)] /\ i = Turn(rank, k, p[Len(p)]) THEN n ELSE t.link[m][i]
      /\ \A m \in Node : (\A i \in j .. Len(p) : p[i] # m) =>
                           u.bal[m] = IF m = n THEN 0 ELSE t.bal[m]
  BY DEF Growing, IsLeafed, IsTilted
<1>4. \A m \in Slot : g[m] = IF m \in R THEN h[m] + 1 ELSE h[m]
  BY DEF Raised
<1>5. ASSUME NEW m \in Node, \A i \in j .. Len(p) : p[i] # m
      PROVE  High(u, g, m) /\ Even(u, g, m) /\ u.bal[m] \in -1 .. 1
  <2>1. High(t, h, m) /\ Even(t, h, m) /\ t.bal[m] \in -1 .. 1
    BY DEF Growing, Balanceable
  <2>2. m # p[Len(p)] /\ Len(p) \in j .. Len(p)
    BY <1>1, <1>2, <1>5 DEF OnPath
  <2>3. ASSUME NEW i \in Sides
        PROVE  u.link[m][i] = t.link[m][i] /\ g[t.link[m][i]] = h[t.link[m][i]]
    <3>1. u.link[m][i] = t.link[m][i] /\ t.link[m][i] \in Slot
      BY <1>2, <1>3, <2>2 DEF TableType
    <3>2. t.link[m][i] \notin R
      <4>. SUFFICES ASSUME t.link[m][i] \in R  PROVE FALSE
        OBVIOUS
      <4>1. RisenChild(t, rank, rank[n], p, j, m, i)
        BY RisenIsNext
      <4>2. PICK l \in j .. Len(p) - 1 : m = p[l]
        BY <4>1 DEF RisenChild
      <4>3. l \in j .. Len(p)
        BY <1>1, <1>2 DEF OnPath
      <4>. QED  BY <1>5, <4>2, <4>3
    <3>. QED  BY <1>4, <3>1, <3>2
  <2>4. g[m] = h[m]
    <3>1. m \notin R
      BY <1>2, <1>5 DEF Risen
    <3>. QED  BY <1>4, <3>1 DEF Slot
  <2>5. u.bal[m] = t.bal[m]
    <3>1. CASE m = n
      <4>1. t.link[n][0] = NULL /\ t.link[n][1] = NULL /\ h[NULL] = 0
        BY <1>2 DEF Linked, Sides, HeightType
      <4>2. t.bal[n] = 0
        BY <2>1, <3>1, <4>1 DEF Even
      <4>. QED  BY <1>3, <1>5, <3>1, <4>2
    <3>2. CASE m # n
      BY <1>3, <1>5, <3>2
    <3>. QED  BY <3>1, <3>2
  <2>. QED  BY <2>1, <2>3, <2>4, <2>5 DEF High, Even, Sides
<1>. QED  BY <1>5 DEF StillEven

\* The table with its leaf has links and parents that mirror each other.
LEMMA GrownLinked ==
  ASSUME NEW t, NEW M, NEW h, NEW H, NEW rank, NEW n, NEW p, NEW j, NEW v, NEW u,
         Growing(t, M, h, H, rank, n, p, j, v, u)
  PROVE  Linked(u, M \cup {n})
<1>. PICK q, s : q = p[Len(p)] /\ s = Turn(rank, rank[n], q)
  OBVIOUS
<1>1. OnPath(t, M, rank, rank[n], p, j)
  BY GrowingPath
<1>2. /\ TableType(t) /\ n \in Node /\ n \notin M /\ n # NULL
      /\ q \in M /\ q \in Node /\ s \in Sides /\ t.link[q][s] = NULL /\ p[1] = t.root
      /\ t.root # NULL /\ q # n /\ q # NULL
  <2>1. Len(p) \in 1 .. Len(p) /\ 1 \in 1 .. Len(p)
    BY <1>1 DEF OnPath
  <2>2. t.root # NULL /\ p[1] = t.root
    BY <1>1, <2>1 DEF OnPath, Growing, Walked
  <2>. QED  BY <1>1, <2>1, <2>2, NullAssumption DEF Growing, OnPath
<1>3. /\ M \subseteq Node
      /\ t.root \in M \cup {NULL}
      /\ \A m \in M, i \in Sides :
           t.link[m][i] # NULL => t.link[m][i] \in M /\ t.up[t.link[m][i]] = m
      /\ \A m \in M : t.link[m][0] # NULL => t.link[m][0] # t.link[m][1]
      /\ \A m \in M : m = t.root => t.up[m] = NULL
      /\ \A m \in M : m # t.root => t.up[m] \in M /\ \E i \in Sides : t.link[t.up[m]][i] = m
      /\ \A m \in Node \ M : t.up[m] = NULL /\ \A i \in Sides : t.link[m][i] = NULL
  BY DEF Growing, Linked
<1>4. /\ u.root = t.root
      /\ \A m \in Node : u.up[m] = IF m = n THEN q ELSE t.up[m]
      /\ \A m \in Node, i \in Sides : u.link[m][i] = IF m = q /\ i = s THEN n ELSE t.link[m][i]
  BY DEF Growing, IsLeafed, IsTilted
<1>5. \A m \in M \cup {n}, i \in Sides :
        u.link[m][i] # NULL => u.link[m][i] \in M \cup {n} /\ u.up[u.link[m][i]] = m
  <2>. SUFFICES ASSUME NEW m \in M \cup {n}, NEW i \in Sides, u.link[m][i] # NULL
                PROVE  u.link[m][i] \in M \cup {n} /\ u.up[u.link[m][i]] = m
    OBVIOUS
  <2>1. CASE m = q /\ i = s
    BY <1>2, <1>4, <2>1
  <2>2. CASE ~(m = q /\ i = s)
    <3>1. u.link[m][i] = t.link[m][i] /\ m \in Node
      BY <1>2, <1>3, <1>4, <2>2
    <3>2. m \in M
      BY <1>2, <1>3, <3>1
    <3>3. t.link[m][i] \in M /\ t.up[t.link[m][i]] = m
      BY <1>3, <3>1, <3>2
    <3>. QED  BY <1>2, <1>3, <1>4, <3>1, <3>3
  <2>. QED  BY <2>1, <2>2
<1>6. \A m \in M \cup {n} : u.link[m][0] # NULL => u.link[m][0] # u.link[m][1]
  <2>. SUFFICES ASSUME NEW m \in M \cup {n}, u.link[m][0] # NULL, u.link[m][0] = u.link[m][1]
                PROVE  FALSE
    OBVIOUS
  <2>1. m \in Node /\ 0 \in Sides /\ 1 \in Sides
    BY <1>2, <1>3 DEF Sides
  <2>2. m \in M => /\ t.link[m][0] # NULL => t.link[m][0] # t.link[m][1]
                   /\ t.link[m][0] # n /\ t.link[m][1] # n
    BY <1>2, <1>3, <2>1
  <2>3. m \notin M => t.link[m][0] = NULL /\ t.link[m][1] = NULL
    BY <1>3, <2>1
  <2>4. CASE m = q /\ s = 0
    BY <1>2, <1>4, <2>1, <2>2, <2>4
  <2>5. CASE m = q /\ s = 1
    BY <1>2, <1>4, <2>1, <2>2, <2>5
  <2>6. CASE m # q
    BY <1>4, <2>1, <2>2, <2>3, <2>6
  <2>. QED  BY <1>2, <2>4, <2>5, <2>6 DEF Sides
<1>7. \A m \in M \cup {n} : IF m = u.root THEN u.up[m] = NULL
                            ELSE u.up[m] \in M \cup {n} /\ \E i \in Sides : u.link[u.up[m]][i] = m
  <2>. SUFFICES ASSUME NEW m \in M \cup {n}
                PROVE  /\ m = u.root => u.up[m] = NULL
                       /\ m # u.root => u.up[m] \in M /\ \E i \in Sides : u.link[u.up[m]][i] = m
    OBVIOUS
  <2>1. CASE m = n
    <3>1. u.up[m] = q /\ u.link[q][s] = m /\ m # u.root
      BY <1>2, <1>3, <1>4, <2>1
    <3>. QED  BY <1>2, <3>1
  <2>2. CASE m # n
    <3>1. m \in M /\ m \in Node /\ u.up[m] = t.up[m]
      BY <1>3, <1>4, <2>2
    <3>2. m = u.root => u.up[m] = NULL
      BY <1>3, <1>4, <3>1
    <3>3. ASSUME m # u.root
          PROVE  u.up[m] \in M /\ \E i \in Sides : u.link[u.up[m]][i] = m
      <4>1. PICK i \in Sides : t.link[t.up[m]][i] = m
        BY <1>3, <1>4, <3>1, <3>3
      <4>2. t.up[m] \in M /\ t.up[m] \in Node
        BY <1>3, <1>4, <3>1, <3>3
      <4>3. ~(t.up[m] = q /\ i = s)
        BY <1>2, <1>3, <3>1, <4>1, NullAssumption
      <4>4. u.link[t.up[m]][i] = m
        BY <1>4, <4>1, <4>2, <4>3
      <4>. QED  BY <3>1, <4>2, <4>4
    <3>. QED  BY <3>2, <3>3
  <2>. QED  BY <2>1, <2>2
<1>8. \A m \in Node \ (M \cup {n}) : u.up[m] = NULL /\ \A i \in Sides : u.link[m][i] = NULL
  BY <1>2, <1>3, <1>4
<1>9. u.root \in M \cup {n} \cup {NULL} /\ u.root # NULL
  BY <1>2, <1>3, <1>4
<1>. QED  BY <1>2, <1>3, <1>5, <1>6, <1>7, <1>8, <1>9 DEF Linked

\* A node of the path that was in balance has risen, and leans towards the leaf.
LEMMA RisenEven ==
  ASSUME NEW t, NEW M, NEW h, NEW H, NEW rank, NEW n, NEW p, NEW j, NEW v, NEW u,
         Growing(t, M, h, H, rank, n, p, j, v, u),
         NEW i \in j .. Len(p), t.bal[p[i]] = 0, NEW g, g = Raised(h, Risen(t, p, j))
  PROVE  /\ High(u, g, p[i]) /\ Even(u, g, p[i]) /\ u.bal[p[i]] \in -1 .. 1
         /\ u.bal[p[i]] # 0 /\ g[p[i]] = h[p[i]] + 1
<1>. PICK m, s : m = p[i] /\ s = Turn(rank, rank[n], p[i])
  OBVIOUS
<1>1. OnPath(t, M, rank, rank[n], p, j)
  BY GrowingPath
<1>2. j \in 1 .. Len(p) /\ Len(p) \in Nat /\ TableType(t) /\ Balanceable(t, h, H)
  BY <1>1 DEF Growing, OnPath
<1>3. i \in 1 .. Len(p) /\ m \in Node /\ m \in Slot /\ s \in Sides
  BY <1>1, <1>2 DEF OnPath
<1>4. Differing(t, h, m, s)
  BY <1>2, <1>3, Differ DEF Balanceable
<1>5. GrownChildren(u, t, g, h, rank, rank[n], p, j)
  BY ChildrenGrown
<1>6. m \in Risen(t, p, j)
  <2>1. i = j => t.bal[p[j]] = 0
    OBVIOUS
  <2>. QED  BY <1>2, <2>1 DEF Risen
<1>7. g[m] = h[m] + 1
  BY <1>3, <1>6 DEF Raised
<1>8. u.bal[m] = Heavy(s)
  <2>1. u.bal[m] = v.bal[m] + Heavy(s)
    BY DEF Growing, IsTilted
  <2>2. v.bal[m] = 0
    BY <1>3 DEF Growing, IsLeafed
  <2>3. Heavy(s) \in Int
    BY DEF Heavy
  <2>. QED  BY <2>1, <2>2, <2>3
<1>. PICK a : a = h[m] - 1
  OBVIOUS
<1>9. a \in Nat /\ h[t.link[m][s]] = a /\ h[t.link[m][1 - s]] = a /\ h[m] = a + 1
  BY <1>4 DEF Differing
<1>10. g[u.link[m][s]] = a + 1 /\ g[u.link[m][1 - s]] = a
  BY <1>5, <1>9 DEF GrownChildren
<1>11. a + 1 \in Nat /\ g[m] = 1 + Taller(a + 1, a)
  BY <1>7, <1>9 DEF Taller
<1>12. High(u, g, m) /\ Even(u, g, m) /\ u.bal[m] \in -1 .. 1
  BY <1>3, <1>8, <1>9, <1>10, <1>11, Judged, ZenonT(60)
<1>. QED  BY <1>7, <1>8, <1>12 DEF Heavy

\* What the insertion has left: a table in balance, or one that leans too far at p[j].
GrownTable(u, M, g, H, y, s) ==
  \/ Balanceable(u, g, H)
  \/ Lopsided(u, M, g, H, y, s) /\ u.bal[y] = IF s = 0 THEN -2 ELSE 2

\* At most one node is out of balance, the j-th: those below it were level and lean now.
LEMMA GrownSound ==
  ASSUME NEW t, NEW M, NEW h, NEW H, NEW rank, NEW n, NEW p, NEW j, NEW v, NEW u,
         Growing(t, M, h, H, rank, n, p, j, v, u), NEW g, g = Raised(h, Risen(t, p, j))
  PROVE  GrownTable(u, M \cup {n}, g, H + 1, p[j], Turn(rank, rank[n], p[j]))
<1>. PICK y, s : y = p[j] /\ s = Turn(rank, rank[n], p[j])
  OBVIOUS
<1>1. OnPath(t, M, rank, rank[n], p, j)
  BY GrowingPath
<1>2. /\ j \in 1 .. Len(p) /\ Len(p) \in Nat /\ TableType(t) /\ Balanceable(t, h, H)
      /\ HeightType(h, H) /\ TableType(u)
  BY <1>1 DEF Growing, OnPath, Balanceable, IsTilted
<1>3. y \in M /\ y \in Node /\ y \in Slot /\ s \in Sides /\ 1 - s \in Sides /\ j \in j .. Len(p)
  BY <1>1, <1>2 DEF OnPath
<1>4. HeightType(g, H + 1)
  <2>1. H \in Nat /\ h \in [Slot -> 0 .. H] /\ h[NULL] = 0
    BY <1>2 DEF HeightType
  <2>2. g \in [Slot -> 0 .. H + 1]
    BY <2>1 DEF Raised
  <2>3. NULL \notin Risen(t, p, j)
    BY <1>1, <1>2 DEF Risen, OnPath
  <2>4. g[NULL] = 0
    BY <2>1, <2>3 DEF Raised, Slot
  <2>. QED  BY <2>1, <2>2, <2>4 DEF HeightType
<1>5. ASSUME NEW m \in Node \ {y}
      PROVE  High(u, g, m) /\ Even(u, g, m) /\ u.bal[m] \in -1 .. 1
  <2>1. CASE \E i \in j .. Len(p) : p[i] = m
    <3>1. PICK i \in j .. Len(p) : p[i] = m
      BY <2>1
    <3>2. i \in 1 .. Len(p) /\ i > j
      BY <1>2, <3>1
    <3>3. t.bal[p[i]] = 0
      BY <3>2 DEF Growing
    <3>. QED  BY <3>1, <3>3, RisenEven
  <2>2. CASE ~\E i \in j .. Len(p) : p[i] = m
    <3>1. StillEven(u, g, p, j)
      BY OthersStay
    <3>. QED  BY <2>2, <3>1 DEF StillEven
  <2>. QED  BY <2>1, <2>2
<1>6. Differing(t, h, y, s)
  BY <1>2, <1>3, Differ DEF Balanceable
<1>7. /\ g[u.link[y][s]] = h[t.link[y][s]] + 1
      /\ g[u.link[y][1 - s]] = h[t.link[y][1 - s]]
  BY <1>3, ChildrenGrown DEF GrownChildren
<1>8. u.bal[y] = t.bal[y] + Heavy(s)
  <2>1. u.bal[y] = v.bal[y] + Heavy(s)
    BY <1>3 DEF Growing, IsTilted
  <2>2. v.bal[y] = t.bal[y]
    BY <1>3 DEF Growing, IsLeafed
  <2>. QED  BY <2>1, <2>2
<1>9. CASE t.bal[y] = 0
  <2>1. High(u, g, y) /\ Even(u, g, y) /\ u.bal[y] \in -1 .. 1
    BY <1>3, <1>9, RisenEven
  <2>2. Balanceable(u, g, H + 1)
    BY <1>4, <1>5, <2>1 DEF Balanceable
  <2>. QED  BY <2>2 DEF GrownTable
<1>10. t.bal[y] # 0 => g[y] = h[y]
  <2>. SUFFICES ASSUME t.bal[y] # 0  PROVE y \notin Risen(t, p, j)
    BY <1>3 DEF Raised
  <2>1. Risen(t, p, j) = {p[i] : i \in j + 1 .. Len(p)}
    BY DEF Risen
  <2>2. \A i \in j + 1 .. Len(p) : i \in 1 .. Len(p) /\ i # j
    BY <1>2
  <2>. QED  BY <1>1, <1>2, <2>1, <2>2 DEF OnPath
<1>11. CASE t.bal[y] = -Heavy(s)
  <2>. PICK b : b = h[y] - 1
    OBVIOUS
  <2>0. t.bal[y] # 0 /\ u.bal[y] = 0
    <3>1. Heavy(s) \in {-1, 1}
      BY DEF Heavy
    <3>. QED  BY <1>8, <1>11, <3>1
  <2>1. b \in Nat /\ g[u.link[y][s]] = b /\ g[u.link[y][1 - s]] = b /\ g[y] = 1 + Taller(b, b)
    <3>1. /\ h[t.link[y][1 - s]] = h[y] - 1 /\ h[t.link[y][s]] = h[y] - 2 /\ h[y] \in Nat
          /\ h[t.link[y][1 - s]] \in Nat
      BY <1>6, <1>11 DEF Differing
    <3>. QED  BY <1>7, <1>10, <2>0, <3>1 DEF Taller
  <2>2. High(u, g, y) /\ Even(u, g, y) /\ u.bal[y] \in -1 .. 1
    BY <1>3, <2>0, <2>1, Judged
  <2>3. Balanceable(u, g, H + 1)
    BY <1>4, <1>5, <2>2 DEF Balanceable
  <2>. QED  BY <2>3 DEF GrownTable
<1>12. CASE t.bal[y] = Heavy(s)
  <2>0. t.bal[y] # 0 /\ u.bal[y] = IF s = 0 THEN -2 ELSE 2
    BY <1>8, <1>12 DEF Heavy
  <2>1. /\ h[t.link[y][s]] = h[y] - 1 /\ h[t.link[y][1 - s]] = h[y] - 2 /\ h[y] \in Nat
        /\ h[t.link[y][1 - s]] \in Nat
    BY <1>6, <1>12 DEF Differing
  <2>2. g[u.link[y][s]] = g[y] /\ g[u.link[y][1 - s]] = g[y] - 2
    BY <1>7, <1>10, <2>0, <2>1
  <2>3. j # Len(p)
    <3>. SUFFICES ASSUME j = Len(p)  PROVE FALSE
      OBVIOUS
    <3>1. t.link[y][s] = NULL
      BY DEF Growing
    <3>2. h[NULL] = 0
      BY <1>2 DEF HeightType
    <3>. QED  BY <2>1, <3>1, <3>2, SMTT(60)
  <2>4. j + 1 \in j .. Len(p) /\ j \in 1 .. Len(p) - 1 /\ j + 1 \in 1 .. Len(p) /\ j + 1 > j
    BY <1>2, <2>3
  <2>5. u.link[y][s] = p[j + 1]
    <3>1. p[j + 1] = t.link[y][s]
      BY <1>1, <2>4 DEF OnPath
    <3>2. y # p[Len(p)]
      BY <1>1, <1>2, <2>3 DEF OnPath
    <3>3. u.link[y][s] = t.link[y][s]
      BY <1>3, <3>2 DEF Growing, IsLeafed, IsTilted
    <3>. QED  BY <3>1, <3>3
  <2>6. t.bal[p[j + 1]] = 0
    BY <2>4 DEF Growing
  <2>7. u.bal[p[j + 1]] # 0
    BY <2>4, <2>6, RisenEven
  <2>8. p[j + 1] # NULL /\ p[j + 1] # y
    BY <1>1, <1>2, <2>4 DEF OnPath
  <2>9. Linked(u, M \cup {n})
    BY GrownLinked
  <2>10. Lopsided(u, M \cup {n}, g, H + 1, y, s)
    BY <1>2, <1>3, <1>4, <1>5, <2>2, <2>5, <2>7, <2>8, <2>9 DEF Lopsided
  <2>. QED  BY <2>0, <2>10 DEF GrownTable
<1>13. t.bal[y] = 0 \/ t.bal[y] = Heavy(s) \/ t.bal[y] = -Heavy(s)
  BY <1>6 DEF Differing, Heavy
<1>. QED  BY <1>9, <1>11, <1>12, <1>13

\* The insertion into an empty table.
FirstItem(t, n) == [t EXCEPT !.root = n, !.up[n] = NULL, !.bal[n] = 0, !.count = @ + 1]

IsFirst(u, t, M, h, H, n) ==
  /\ TableType(u) /\ u.count = t.count + 1 /\ u.root = n
  /\ Linked(u, M \cup {n}) /\ Balanceable(u, h, H)
  /\ M = {} /\ u.link = t.link

\* The first item is a table of its own.
LEMMA FirstSound ==
  ASSUME NEW t, NEW M, NEW h, NEW H, NEW n \in Node \ M,
         TableType(t), Linked(t, M), Balanceable(t, h, H), t.root = NULL
  PROVE  IsFirst(FirstItem(t, n), t, M, h, H, n)
<1>. PICK u : u = FirstItem(t, n)
  OBVIOUS
<1>1. n \in Slot /\ NULL \in Slot /\ n \in Node /\ n # NULL
  BY NullAssumption DEF Slot
<1>. DEFINE r1 == RootSet(t, n)
            r2 == UpSet(r1, n, NULL)
            r3 == BalSet(r2, n, 0)
            r4 == CountSet(r3)
<1>2. u = r4
  BY DEF FirstItem, RootSet, UpSet, BalSet, CountSet
<1>3. TableType(r1) /\ r1.root = n /\ r1.link = t.link /\ r1.up = t.up /\ r1.bal = t.bal
      /\ r1.count = t.count
  BY <1>1, SetRoot
<1>. HIDE DEF r1
<1>4. IsUpSet(r2, r1, n, NULL)
  BY <1>1, <1>3, SetUp
<1>. HIDE DEF r2
<1>5. IsBalSet(r3, r2, n, 0)
  BY <1>1, <1>4, SetBal DEF IsUpSet
<1>. HIDE DEF r3
<1>6. /\ TableType(r4) /\ r4.count = r3.count + 1
      /\ r4.root = r3.root /\ r4.link = r3.link /\ r4.up = r3.up /\ r4.bal = r3.bal
  BY <1>5, SetCount DEF IsBalSet
<1>. HIDE DEF r4
<1>7. /\ u.root = n /\ u.count = t.count + 1 /\ TableType(u) /\ u.link = t.link
      /\ \A m \in Node : u.up[m] = IF m = n THEN NULL ELSE t.up[m]
      /\ \A m \in Node : u.bal[m] = IF m = n THEN 0 ELSE t.bal[m]
  <2>1. u.root = n /\ u.count = t.count + 1 /\ TableType(u) /\ u.link = t.link
    BY <1>2, <1>3, <1>4, <1>5, <1>6 DEF IsUpSet, IsBalSet
  <2>2. \A m \in Node : u.up[m] = IF m = n THEN NULL ELSE t.up[m]
    BY <1>2, <1>3, <1>4, <1>5, <1>6 DEF IsUpSet, IsBalSet
  <2>3. \A m \in Node : u.bal[m] = IF m = n THEN 0 ELSE t.bal[m]
    BY <1>2, <1>3, <1>4, <1>5, <1>6 DEF IsUpSet, IsBalSet
  <2>. QED  BY <2>1, <2>2, <2>3
<1>8. M = {} /\ \A m \in Node : t.up[m] = NULL /\ \A i \in Sides : t.link[m][i] = NULL
  BY DEF Linked
<1>9. Linked(u, M \cup {n})
  <2>1. \A m \in Node, i \in Sides : u.link[m][i] = NULL
    BY <1>7, <1>8
  <2>2. \A m \in Node : u.up[m] = NULL
    BY <1>7, <1>8
  <2>3. M \cup {n} = {n}
    BY <1>8
  <2>. QED  BY <1>1, <1>7, <2>1, <2>2, <2>3 DEF Linked, Sides
<1>10. \A m \in Node : High(t, h, m) /\ Even(t, h, m) /\ t.bal[m] \in -1 .. 1
  BY DEF Balanceable
<1>11. ASSUME NEW m \in Node
       PROVE  High(u, h, m) /\ Even(u, h, m) /\ u.bal[m] \in -1 .. 1
  <2>1. HeightType(h, H)
    BY DEF Balanceable
  <2>2. h[NULL] = 0 /\ u.link[m][0] = NULL /\ u.link[m][1] = NULL /\ t.bal[m] = 0
    BY <1>7, <1>8, <1>10, <2>1 DEF HeightType, Sides, Even
  <2>3. u.bal[m] = 0
    BY <1>7, <2>2
  <2>4. High(u, h, m)
    BY <1>7, <1>10 DEF High
  <2>. QED  BY <2>2, <2>3, <2>4 DEF Even
<1>12. Balanceable(u, h, H)
  BY <1>11 DEF Balanceable
<1>. QED  BY <1>7, <1>8, <1>9, <1>12 DEF IsFirst

\* An insertion below p: the stages it goes through.
ProbeStages(t, M, h, H, rank, n, r, p, j, v, u) ==
  /\ Growing(t, M, h, H, rank, n, p, j, v, u)
  /\ r = Rebalance(u, p[j])

\* What an insertion starts with.
Probing(t, M, h, H, rank, n) ==
  TableType(t) /\ Linked(t, M) /\ Balanceable(t, h, H) /\ n \in Node \ M

\* An insertion that meets no equal key goes through these stages.
LEMMA ProbeGrows ==
  ASSUME NEW t, NEW M, NEW h, NEW H, NEW rank, NEW n, Probing(t, M, h, H, rank, n), t.root # NULL,
         NEW p, p = SearchPath(t, rank, rank[n]), rank[p[Len(p)]] # rank[n]
  PROVE  \E j, v, u : ProbeStages(t, M, h, H, rank, n, Probe(t, rank, n), p, j, v, u)
<1>. PICK k, q, side : k = rank[n] /\ q = p[Len(p)] /\ side = Turn(rank, k, q)
  OBVIOUS
<1>1. TableType(t) /\ Linked(t, M) /\ Balanceable(t, h, H) /\ n \in Node \ M
  BY DEF Probing
<1>2. Searched(t, M, rank, k, t.root, p)
  BY <1>1, SearchFrom
<1>3. Walked(t, M, h, rank, k, p)
  BY <1>1, <1>2, PathWalked
<1>4. /\ Len(p) \in Nat \ {0} /\ p[1] = t.root /\ DOMAIN p = 1 .. Len(p)
      /\ \A i \in 1 .. Len(p) : p[i] \in M /\ p[i] \in Node
  BY <1>3 DEF Walked
<1>5. t.link[q][side] = NULL
  BY <1>2, <1>4 DEF Searched
<1>13. \A i \in 1 .. Len(p) : rank[p[i]] # k
  <2>1. \A i \in 1 .. Len(p) : i = Len(p) \/ i \in 1 .. Len(p) - 1
    BY <1>4
  <2>. QED  BY <1>2, <2>1 DEF Searched
<1>. DEFINE tilted == {i \in DOMAIN p : t.bal[p[i]] # 0}
            j == IF tilted = {} THEN 1 ELSE Max(tilted)
            v == LinkLeaf(t, q, side, n)
            u == AdjustBalance(v, p, p[j], n)
<1>6. /\ j \in 1 .. Len(p)
      /\ \A i \in 1 .. Len(p) : i > j => t.bal[p[i]] = 0
      /\ t.bal[p[j]] = 0 => j = 1
  <2>1. CASE tilted = {}
    BY <1>4, <2>1
  <2>2. CASE tilted # {}
    <3>1. tilted \subseteq 0 .. Len(p) /\ Len(p) \in Nat
      BY <1>4
    <3>2. PICK m \in tilted : \A i \in tilted : i <= m
      <4>. HIDE DEF tilted
      <4>. QED  BY <2>2, <3>1, GreatestMember
    <3>3. \A i \in tilted : m >= i
      BY <1>4, <3>2
    <3>4. j = CHOOSE x \in tilted : \A i \in tilted : x >= i
      BY <2>2 DEF Max
    <3>5. j \in tilted /\ \A i \in tilted : j >= i
      BY <3>3, <3>4
    <3>. HIDE DEF j
    <3>. QED  BY <1>4, <3>1, <3>5
  <2>. QED  BY <2>1, <2>2
<1>7. Probe(t, rank, n) = Rebalance(u, p[j])
  <2>1. side = IF rank[n] > rank[q] THEN 1 ELSE 0
    BY DEF Turn
  <2>2. p[j] = IF tilted = {} THEN t.root ELSE p[Max(tilted)]
    BY <1>4
  <2>. HIDE DEF j
  <2>. QED  BY <2>1, <2>2 DEF Probe
<1>. HIDE DEF j
<1>8. q \in Node /\ side \in Sides /\ Len(p) \in 1 .. Len(p)
  BY <1>4 DEF Turn, Sides
<1>9. IsLeafed(v, t, q, side, n)
  BY <1>1, <1>8, LeafFields
<1>. HIDE DEF v
<1>10. IsTilted(u, v, rank, k, p, j)
  BY <1>1, <1>3, <1>6, <1>9, AdjustFields
<1>. HIDE DEF u
<1>11. Growing(t, M, h, H, rank, n, p, j, v, u)
  BY <1>1, <1>3, <1>5, <1>6, <1>9, <1>10, <1>13 DEF Growing
<1>12. ProbeStages(t, M, h, H, rank, n, Probe(t, rank, n), p, j, v, u)
  BY <1>7, <1>11 DEF ProbeStages
<1>. QED  BY <1>12

\* Along the path of a search the number searched for lies in every span.
LEMMA PathSpans ==
  ASSUME NEW t, NEW M, NEW h, NEW rank, NEW k \in Int, NEW p, NEW span,
         TableType(t), Linked(t, M), Walked(t, M, h, rank, k, p), Ordered(t, M, rank, span),
         \A i \in 1 .. Len(p) - 1 : rank[p[i]] # k
  PROVE  \A i \in 1 .. Len(p) : k \in span[p[i]]
<1>. DEFINE T == {d \in 0 .. Len(p) - 1 : k \in span[p[d + 1]]}
<1>1. /\ Len(p) \in Nat \ {0} /\ p[1] = t.root
      /\ \A i \in 1 .. Len(p) : p[i] \in M /\ p[i] \in Node
      /\ \A i \in 1 .. Len(p) - 1 : p[i + 1] = t.link[p[i]][Turn(rank, k, p[i])]
  BY DEF Walked
<1>2. /\ rank \in [Node -> Int] /\ (t.root # NULL => span[t.root] = Int)
      /\ span \in [Node -> SUBSET Int]
      /\ \A m \in M, i \in Sides : t.link[m][i] # NULL =>
           span[t.link[m][i]] = Part(span[m], rank[m], i)
  BY DEF Ordered
<1>3. 0 \in T
  <2>1. 1 \in 1 .. Len(p)
    BY <1>1
  <2>2. p[1] # NULL
    BY <1>1, <2>1, NullAssumption
  <2>. QED  BY <1>1, <1>2, <2>2
<1>4. ASSUME NEW d \in 0 .. (Len(p) - 1) - 1, d \in T
      PROVE  d + 1 \in T
  <2>1. d + 1 \in 1 .. Len(p) - 1 /\ d + 1 \in 1 .. Len(p) /\ (d + 1) + 1 \in 1 .. Len(p)
        /\ d + 1 \in 0 .. Len(p) - 1
    BY <1>1
  <2>. PICK m, i, c : m = p[d + 1] /\ i = Turn(rank, k, p[d + 1]) /\ c = p[(d + 1) + 1]
    OBVIOUS
  <2>2. c = t.link[m][i] /\ c # NULL /\ m \in M /\ m \in Node /\ i \in Sides
    BY <1>1, <2>1, NullAssumption DEF Turn, Sides
  <2>3. span[c] = Part(span[m], rank[m], i) /\ k \in span[m] /\ rank[m] # k
    BY <1>2, <1>4, <2>1, <2>2
  <2>4. rank[m] \in Int /\ (i = IF k > rank[m] THEN 1 ELSE 0)
    BY <1>2, <2>2 DEF Turn
  <2>5. k \in span[c]
    BY <2>3, <2>4 DEF Part
  <2>. QED  BY <2>1, <2>5
<1>5. Len(p) - 1 \in Nat
  BY <1>1
<1>. HIDE DEF T
<1>6. 0 .. Len(p) - 1 \subseteq T
  BY <1>3, <1>4, <1>5, Reaches
<1>7. ASSUME NEW i \in 1 .. Len(p)  PROVE k \in span[p[i]]
  <2>1. i - 1 \in T /\ (i - 1) + 1 = i
    BY <1>1, <1>6
  <2>. QED  BY <2>1 DEF T
<1>. QED  BY <1>7

\* A leaf hung where its search ended is in order.
LEMMA LeafSorted ==
  ASSUME NEW t, NEW M, NEW h, NEW H, NEW rank, NEW n, NEW p, NEW j, NEW v, NEW u,
         Growing(t, M, h, H, rank, n, p, j, v, u), Sorted(t, M, rank)
  PROVE  Sorted(u, M \cup {n}, rank)
<1>. PICK span : Ordered(t, M, rank, span)
  BY DEF Sorted
<1>. PICK q, s, k : q = p[Len(p)] /\ s = Turn(rank, rank[n], q) /\ k = rank[n]
  OBVIOUS
<1>. DEFINE g == [m \in Node |-> IF m = n THEN Part(span[q], rank[q], s) ELSE span[m]]
<1>1. /\ TableType(t) /\ Linked(t, M) /\ n \in Node /\ n \notin M /\ n # NULL
      /\ Walked(t, M, h, rank, k, p) /\ \A i \in 1 .. Len(p) : rank[p[i]] # k
      /\ Len(p) \in Nat \ {0} /\ q \in M /\ q \in Node /\ s \in Sides /\ t.link[q][s] = NULL
  <2>1. Len(p) \in Nat \ {0} /\ \A i \in 1 .. Len(p) : p[i] \in M /\ p[i] \in Node
    BY DEF Growing, Walked
  <2>2. Len(p) \in 1 .. Len(p)
    BY <2>1
  <2>3. s \in Sides
    BY DEF Turn, Sides
  <2>. QED  BY <2>1, <2>2, <2>3, NullAssumption DEF Growing
<1>2. /\ span \in [Node -> SUBSET Int] /\ rank \in [Node -> Int] /\ k \in Int
      /\ t.root # NULL => span[t.root] = Int
      /\ \A m \in M : /\ rank[m] \in span[m]
                      /\ \A i \in Sides : t.link[m][i] # NULL =>
                           span[t.link[m][i]] = Part(span[m], rank[m], i)
  BY <1>1 DEF Ordered
<1>3. k \in span[q]
  <2>1. \A i \in 1 .. Len(p) - 1 : rank[p[i]] # k
    BY <1>1
  <2>2. \A i \in 1 .. Len(p) : k \in span[p[i]]
    BY <1>1, <1>2, <2>1, PathSpans
  <2>. QED  BY <1>1, <2>2
<1>4. k \in Part(span[q], rank[q], s) /\ Part(span[q], rank[q], s) \subseteq Int
  <2>1. rank[q] # k /\ rank[q] \in Int /\ span[q] \subseteq Int
    BY <1>1, <1>2
  <2>2. s = IF k > rank[q] THEN 1 ELSE 0
    BY DEF Turn
  <2>. QED  BY <1>2, <1>3, <2>1, <2>2 DEF Part
<1>5. /\ u.root = t.root
      /\ \A m \in Node, i \in Sides : u.link[m][i] = IF m = q /\ i = s THEN n ELSE t.link[m][i]
  BY DEF Growing, IsLeafed, IsTilted
<1>6. g \in [Node -> SUBSET Int] /\ g[n] = Part(span[q], rank[q], s)
      /\ \A m \in Node : m # n => g[m] = span[m]
  BY <1>1, <1>2, <1>4
<1>. HIDE DEF g
<1>7. u.root # NULL => g[u.root] = Int
  <2>1. t.root \in M \cup {NULL} /\ M \subseteq Node
    BY <1>1 DEF Linked
  <2>. QED  BY <1>1, <1>2, <1>5, <1>6, <2>1
<1>8. \A m \in M \cup {n} : rank[m] \in g[m]
  <2>1. M \subseteq Node
    BY <1>1 DEF Linked
  <2>. QED  BY <1>1, <1>2, <1>4, <1>6, <2>1
<1>9. ASSUME NEW m \in M \cup {n}, NEW i \in Sides, u.link[m][i] # NULL
      PROVE  g[u.link[m][i]] = Part(g[m], rank[m], i)
  <2>1. CASE m = q /\ i = s
    BY <1>1, <1>5, <1>6, <2>1
  <2>2. CASE ~(m = q /\ i = s)
    <3>1. m \in Node /\ u.link[m][i] = t.link[m][i]
      BY <1>1, <1>5, <2>2 DEF Linked
    <3>2. m \in M /\ m # n
      BY <1>1, <1>9, <3>1 DEF Linked
    <3>3. t.link[m][i] \in M /\ t.link[m][i] # n /\ t.link[m][i] \in Node
      BY <1>1, <1>9, <3>1, <3>2 DEF Linked
    <3>. QED  BY <1>2, <1>6, <1>9, <3>1, <3>2, <3>3
  <2>. QED  BY <2>1, <2>2
<1>10. Ordered(u, M \cup {n}, rank, g)
  BY <1>2, <1>6, <1>7, <1>8, <1>9 DEF Ordered
<1>. QED  BY <1>10 DEF Sorted

\* One item is in order.
LEMMA FirstSorted ==
  ASSUME NEW t, NEW M, NEW h, NEW H, NEW rank \in [Node -> Int], NEW n \in Node \ M,
         Linked(t, M), NEW u, IsFirst(u, t, M, h, H, n)
  PROVE  Sorted(u, M \cup {n}, rank)
<1>. DEFINE g == [m \in Node |-> Int]
<1>1. /\ u.root = n /\ M = {} /\ \A m \in Node, i \in Sides : u.link[m][i] = NULL
  BY DEF IsFirst, Linked
<1>2. g \in [Node -> SUBSET Int] /\ g[n] = Int /\ rank[n] \in g[n]
  OBVIOUS
<1>3. Ordered(u, M \cup {n}, rank, g)
  BY <1>1, <1>2 DEF Ordered
<1>. QED  BY <1>3 DEF Sorted

\* What an insertion returns: the same table when an item of the same key is met, else a
\* table with one item more.
Probed(r, t, M, rank, n) ==
  \/ r = t /\ \E m \in M : rank[m] = rank[n]
  \/ /\ TableType(r) /\ Linked(r, M \cup {n}) /\ r.count = t.count + 1
     /\ \E H, h : Balanceable(r, h, H)
     /\ Sorted(t, M, rank) => Sorted(r, M \cup {n}, rank)

\* An insertion keeps a sound table sound, and a table in order in order.
LEMMA ProbeSound ==
  ASSUME NEW t, NEW M, NEW h, NEW H, NEW rank, NEW n, Probing(t, M, h, H, rank, n)
  PROVE  Probed(Probe(t, rank, n), t, M, rank, n)
<1>1. TableType(t) /\ Linked(t, M) /\ Balanceable(t, h, H) /\ n \in Node \ M
  BY DEF Probing
<1>2. CASE t.root = NULL
  <2>1. Probe(t, rank, n) = FirstItem(t, n)
    BY <1>2 DEF Probe, FirstItem
  <2>2. IsFirst(FirstItem(t, n), t, M, h, H, n)
    BY <1>1, <1>2, FirstSound
  <2>3. Sorted(t, M, rank) => Sorted(FirstItem(t, n), M \cup {n}, rank)
    <3>. SUFFICES ASSUME Sorted(t, M, rank)  PROVE Sorted(FirstItem(t, n), M \cup {n}, rank)
      OBVIOUS
    <3>1. rank \in [Node -> Int]
      BY DEF Sorted, Ordered
    <3>. QED  BY <1>1, <2>2, <3>1, FirstSorted
  <2>. QED  BY <2>1, <2>2, <2>3 DEF Probed, IsFirst
<1>3. CASE t.root # NULL
  <2>. PICK p : p = SearchPath(t, rank, rank[n])
    OBVIOUS
  <2>1. CASE rank[p[Len(p)]] = rank[n]
    <3>1. Probe(t, rank, n) = t
      BY <1>3, <2>1 DEF Probe
    <3>2. Searched(t, M, rank, rank[n], t.root, p)
      BY <1>1, SearchFrom
    <3>3. Walked(t, M, h, rank, rank[n], p)
      BY <1>1, <1>3, <3>2, PathWalked
    <3>4. p[Len(p)] \in M
      BY <3>3 DEF Walked
    <3>. QED  BY <2>1, <3>1, <3>4 DEF Probed
  <2>2. CASE rank[p[Len(p)]] # rank[n]
    <3>1. PICK j, v, u : ProbeStages(t, M, h, H, rank, n, Probe(t, rank, n), p, j, v, u)
      BY <1>3, <2>2, ProbeGrows
    <3>2. Growing(t, M, h, H, rank, n, p, j, v, u) /\ Probe(t, rank, n) = Rebalance(u, p[j])
      BY <3>1 DEF ProbeStages
    <3>. PICK g : g = Raised(h, Risen(t, p, j))
      OBVIOUS
    <3>3. GrownTable(u, M \cup {n}, g, H + 1, p[j], Turn(rank, rank[n], p[j]))
      BY <3>2, GrownSound
    <3>4. Linked(u, M \cup {n})
      BY <3>2, GrownLinked
    <3>5. TableType(u) /\ u.count = t.count + 1
      BY <3>2 DEF Growing, IsLeafed, IsTilted
    <3>8. Sorted(t, M, rank) => Sorted(u, M \cup {n}, rank)
      BY <3>2, LeafSorted
    <3>6. CASE Balanceable(u, g, H + 1)
      <4>1. p[j] \in Node
        BY <3>2 DEF Growing, Walked
      <4>2. u.bal[p[j]] \in -1 .. 1
        BY <3>6, <4>1 DEF Balanceable
      <4>3. Rebalance(u, p[j]) = u
        BY <4>2 DEF Rebalance
      <4>. QED  BY <3>2, <3>4, <3>5, <3>6, <3>8, <4>3 DEF Probed
    <3>7. CASE ~Balanceable(u, g, H + 1)
      <4>. PICK s : s = Turn(rank, rank[n], p[j])
        OBVIOUS
      <4>1. Lopsided(u, M \cup {n}, g, H + 1, p[j], s) /\ u.bal[p[j]] = IF s = 0 THEN -2 ELSE 2
        BY <3>3, <3>7 DEF GrownTable
      <4>2. IsRebalanced(Rebalance(u, p[j]), u, M \cup {n}, H + 1)
        BY <4>1, RebalanceLopsided
      <4>. QED  BY <3>2, <3>5, <3>8, <4>2 DEF Probed, IsRebalanced
    <3>. QED  BY <3>6, <3>7
  <2>. QED  BY <2>1, <2>2
<1>. QED  BY <1>2, <1>3

-----------------------------------------------------------------------------
(* Symmetric order *)

\* f[n] is the walk through n's subtree.
IsWalk(f, t) ==
  /\ f \in [Slot -> Seq(Node)] /\ f[NULL] = <<>>
  /\ \A n \in Node : f[n] = f[t.link[n][0]] \o <<n>> \o f[t.link[n][1]]

\* Every table has such walks, and InOrder is the one from the root.
LEMMA WalkExists ==
  ASSUME NEW t, NEW h, NEW H, TableType(t), Balanceable(t, h, H)
  PROVE  \E f : IsWalk(f, t) /\ InOrder(t) = f[t.root]
<1>. DEFINE l == [n \in Node |-> t.link[n][0]]
            r == [n \in Node |-> t.link[n][1]]
            Down(f) == f = [n \in Slot |->
                             IF n = NULL THEN <<>>
                             ELSE f[t.link[n][0]] \o <<n>> \o f[t.link[n][1]]]
<1>1. H \in Nat /\ \A n \in Node : /\ h[n] \in 1 .. H
                                   /\ l[n] \in Slot /\ h[l[n]] < h[n]
                                   /\ r[n] \in Slot /\ h[r[n]] < h[n]
  <2>1. H \in Nat /\ HeightType(h, H)
    BY DEF Balanceable, HeightType
  <2>2. ASSUME NEW n \in Node
        PROVE  /\ h[n] \in 1 .. H /\ l[n] \in Slot /\ h[l[n]] < h[n]
               /\ r[n] \in Slot /\ h[r[n]] < h[n]
    BY <2>1, ChildrenLower DEF Balanceable, Sides
  <2>. QED  BY <2>1, <2>2
<1>2. \E f \in [Slot -> Seq(Node)] : Down(f)
  <2>1. PICK step : step = [x \in Node \X Seq(Node) \X Seq(Node) |-> x[2] \o <<x[1]>> \o x[3]]
    OBVIOUS
  <2>2. step \in [Node \X Seq(Node) \X Seq(Node) -> Seq(Node)]
    BY <2>1
  <2>3. <<>> \in Seq(Node)
    OBVIOUS
  <2>4. PICK f \in [Slot -> Seq(Node)] : Computed(f, <<>>, step, l, r)
    <3>. HIDE DEF l, r
    <3>. QED  BY <1>1, <2>2, <2>3, ComputedExists
  <2>5. ASSUME NEW n \in Node
        PROVE  f[n] = f[t.link[n][0]] \o <<n>> \o f[t.link[n][1]]
    <3>1. f[n] = step[<<n, f[l[n]], f[r[n]]>>]
      BY <2>4 DEF Computed
    <3>2. <<n, f[l[n]], f[r[n]]>> \in Node \X Seq(Node) \X Seq(Node)
      BY <1>1
    <3>3. step[<<n, f[l[n]], f[r[n]]>>] = f[l[n]] \o <<n>> \o f[r[n]]
      BY <2>1, <3>2
    <3>. QED  BY <3>1, <3>3
  <2>6. Down(f)
    <3>1. f = [n \in Slot |-> f[n]]
      BY <2>4
    <3>2. \A n \in Slot : f[n] = IF n = NULL THEN <<>>
                                ELSE f[t.link[n][0]] \o <<n>> \o f[t.link[n][1]]
      BY <2>4, <2>5 DEF Computed, Slot
    <3>. QED  BY <3>1, <3>2
  <2>. QED  BY <2>6
<1>3. PICK f : Down(f) /\ InOrder(t) = f[t.root]
  <2>1. InOrder(t) = (CHOOSE f : Down(f))[t.root]
    BY DEF InOrder, Slot
  <2>. QED  BY <1>2, <2>1, Zenon
<1>4. f[NULL] = <<>> /\ \A n \in Node : f[n] = f[t.link[n][0]] \o <<n>> \o f[t.link[n][1]]
  BY <1>3, NullAssumption DEF Slot
<1>8. f[NULL] \in Seq(Node)
  <2>1. f[NULL] = <<>>
    BY <1>4
  <2>. QED  BY <2>1
<1>9. ASSUME NEW n \in Node, f[t.link[n][0]] \in Seq(Node), f[t.link[n][1]] \in Seq(Node)
      PROVE  f[n] \in Seq(Node)
  <2>. PICK a, b : a = f[t.link[n][0]] /\ b = f[t.link[n][1]]
    OBVIOUS
  <2>1. a \o <<n>> \o b \in Seq(Node)
    BY <1>9
  <2>2. f[n] = a \o <<n>> \o b
    BY <1>4
  <2>. QED  BY <2>1, <2>2
<1>5. \A n \in Slot : f[n] \in Seq(Node)
  <2>. DEFINE T == {n \in Node : f[n] \notin Seq(Node)}
  <2>. SUFFICES ASSUME T # {}  PROVE FALSE
    BY <1>8 DEF Slot
  <2>1. \A n \in T : h[n] \in Nat
    BY <1>1
  <2>2. PICK n \in T : \A m \in T : h[n] <= h[m]
    <3>. HIDE DEF T
    <3>. QED  BY <2>1, Lowest
  <2>3. ASSUME NEW c \in {l[n], r[n]}  PROVE f[c] \in Seq(Node)
    <3>1. c \in Slot /\ h[c] < h[n] /\ h[n] \in Nat
      BY <1>1, <2>2
    <3>2. CASE c = NULL
      BY <1>8, <3>2
    <3>3. CASE c \in Node
      <4>1. h[c] \in Nat
        BY <1>1, <3>3
      <4>2. c \notin T
        BY <2>2, <3>1, <4>1
      <4>. QED  BY <3>3, <4>2
    <3>. QED  BY <3>1, <3>2, <3>3 DEF Slot
  <2>4. f[t.link[n][0]] \in Seq(Node) /\ f[t.link[n][1]] \in Seq(Node)
    BY <2>2, <2>3
  <2>. QED  BY <1>9, <2>2, <2>4
<1>6. f \in [Slot -> Seq(Node)]
  <2>1. f = [n \in Slot |-> IF n = NULL THEN <<>>
                            ELSE f[t.link[n][0]] \o <<n>> \o f[t.link[n][1]]]
    BY <1>3
  <2>2. DOMAIN f = Slot /\ f = [n \in DOMAIN f |-> f[n]]
    BY <2>1
  <2>. QED  BY <1>5, <2>2
<1>7. IsWalk(f, t)
  BY <1>4, <1>6 DEF IsWalk
<1>. QED  BY <1>3, <1>7

\* c is a, then n, then b.
Joined(c, a, n, b) ==
  /\ DOMAIN c = 1 .. Len(c) /\ Len(a) \in Nat /\ Len(b) \in Nat /\ Len(c) = Len(a) + 1 + Len(b)
  /\ \A i \in 1 .. Len(a) : c[i] = a[i]
  /\ c[Len(a) + 1] = n
  /\ \A i \in 1 .. Len(b) : c[Len(a) + 1 + i] = b[i]

\* A concatenation of the three is joined of them.
LEMMA JoinFields ==
  ASSUME NEW X, NEW a \in Seq(X), NEW n \in X, NEW b \in Seq(X)
  PROVE  Joined(a \o <<n>> \o b, a, n, b)
<1>. DEFINE d == a \o <<n>>
<1>1. Len(a) \in Nat /\ Len(b) \in Nat
  OBVIOUS
<1>2. /\ d \in Seq(X) /\ Len(d) = Len(a) + 1
      /\ \A i \in 1 .. Len(a) : d[i] = a[i]
      /\ d[Len(a) + 1] = n
  OBVIOUS
<1>. HIDE DEF d
<1>3. /\ d \o b \in Seq(X) /\ Len(d \o b) = Len(d) + Len(b)
      /\ \A i \in 1 .. Len(d) + Len(b) : (d \o b)[i] = IF i <= Len(d) THEN d[i] ELSE b[i - Len(d)]
  BY <1>2, ConcatProperties
<1>4. \A i \in 1 .. Len(a) : i \in 1 .. Len(d) + Len(b) /\ i <= Len(d)
  BY <1>1, <1>2
<1>5. Len(a) + 1 \in 1 .. Len(d) + Len(b) /\ Len(a) + 1 <= Len(d)
  BY <1>1, <1>2
<1>6. ASSUME NEW i \in 1 .. Len(b)
      PROVE  (d \o b)[Len(a) + 1 + i] = b[i]
  <2>1. /\ Len(a) + 1 + i \in 1 .. Len(d) + Len(b) /\ ~(Len(a) + 1 + i <= Len(d))
        /\ (Len(a) + 1 + i) - Len(d) = i
    BY <1>1, <1>2
  <2>. QED  BY <1>3, <2>1
<1>7. Joined(d \o b, a, n, b)
  <2>1. d \o b \in Seq(X) /\ Len(d \o b) = Len(a) + 1 + Len(b)
    BY <1>2, <1>3
  <2>2. \A i \in 1 .. Len(a) : (d \o b)[i] = a[i]
    BY <1>2, <1>3, <1>4
  <2>3. (d \o b)[Len(a) + 1] = n
    <3>. PICK m : m = Len(a) + 1
      OBVIOUS
    <3>1. m \in 1 .. Len(d) + Len(b) /\ m <= Len(d) /\ d[m] = n
      <4>1. m \in 1 .. Len(d) + Len(b) /\ m <= Len(d)
        BY <1>5
      <4>2. d[m] = n
        BY <1>2
      <4>. QED  BY <4>1, <4>2
    <3>2. (d \o b)[m] = d[m]
      BY <1>3, <3>1
    <3>. QED  BY <3>1, <3>2
  <2>. QED  BY <1>1, <1>6, <2>1, <2>2, <2>3 DEF Joined
<1>. QED  BY <1>7 DEF d

\* An index of c points into a, at n, or into b.
LEMMA JoinIndex ==
  ASSUME NEW c, NEW a, NEW n, NEW b, Joined(c, a, n, b), NEW i \in 1 .. Len(c)
  PROVE  \/ i \in 1 .. Len(a)
         \/ i = Len(a) + 1
         \/ \E k \in 1 .. Len(b) : i = Len(a) + 1 + k
<1>1. Len(a) \in Nat /\ Len(b) \in Nat /\ Len(c) = Len(a) + 1 + Len(b)
  BY DEF Joined
<1>2. CASE i > Len(a) + 1
  <2>1. i - (Len(a) + 1) \in 1 .. Len(b) /\ i = Len(a) + 1 + (i - (Len(a) + 1))
    BY <1>1, <1>2
  <2>. QED  BY <2>1
<1>3. CASE i <= Len(a) + 1
  BY <1>1, <1>3
<1>. QED  BY <1>1, <1>2, <1>3

\* The members of a joined list.
LEMMA JoinSet ==
  ASSUME NEW X, NEW c, NEW a \in Seq(X), NEW n, NEW b \in Seq(X), Joined(c, a, n, b)
  PROVE  ToSet(c) = ToSet(a) \cup {n} \cup ToSet(b)
<1>1. /\ Len(a) \in Nat /\ Len(b) \in Nat /\ Len(c) = Len(a) + 1 + Len(b) /\ DOMAIN c = 1 .. Len(c)
      /\ \A i \in 1 .. Len(a) : c[i] = a[i]
      /\ c[Len(a) + 1] = n
      /\ \A i \in 1 .. Len(b) : c[Len(a) + 1 + i] = b[i]
  BY DEF Joined
<1>2. ToSet(c) = {c[i] : i \in 1 .. Len(c)} /\ ToSet(a) = {a[i] : i \in 1 .. Len(a)}
      /\ ToSet(b) = {b[i] : i \in 1 .. Len(b)}
  <2>1. DOMAIN c = 1 .. Len(c) /\ DOMAIN a = 1 .. Len(a) /\ DOMAIN b = 1 .. Len(b)
    BY <1>1
  <2>. QED  BY <2>1 DEF ToSet
<1>3. ASSUME NEW i \in 1 .. Len(c)
      PROVE  c[i] \in ToSet(a) \cup {n} \cup ToSet(b)
  <2>1. CASE i \in 1 .. Len(a)
    BY <1>1, <1>2, <2>1
  <2>2. CASE i = Len(a) + 1
    BY <1>1, <2>2
  <2>3. CASE \E k \in 1 .. Len(b) : i = Len(a) + 1 + k
    BY <1>1, <1>2, <2>3
  <2>. QED  BY <2>1, <2>2, <2>3, JoinIndex
<1>4. ASSUME NEW i \in 1 .. Len(a)  PROVE a[i] \in ToSet(c)
  <2>1. i \in 1 .. Len(c)
    BY <1>1
  <2>. QED  BY <1>1, <1>2, <2>1
<1>5. n \in ToSet(c)
  <2>1. Len(a) + 1 \in 1 .. Len(c)
    BY <1>1
  <2>. QED  BY <1>1, <1>2, <2>1
<1>6. ASSUME NEW i \in 1 .. Len(b)  PROVE b[i] \in ToSet(c)
  <2>1. Len(a) + 1 + i \in 1 .. Len(c)
    BY <1>1
  <2>. QED  BY <1>1, <1>2, <2>1
<1>7. ToSet(c) \subseteq ToSet(a) \cup {n} \cup ToSet(b)
  BY <1>2, <1>3
<1>8. ToSet(a) \cup {n} \cup ToSet(b) \subseteq ToSet(c)
  BY <1>2, <1>4, <1>5, <1>6
<1>. QED  BY <1>7, <1>8

\* The keys along s increase, and lie in S.
Rising(s, rank, S) ==
  /\ \A i \in 1 .. Len(s) : rank[s[i]] \in S
  /\ \A i, j \in 1 .. Len(s) : i < j => rank[s[i]] < rank[s[j]]

\* A joined list rises, when both parts do, on their side of n.
LEMMA JoinRising ==
  ASSUME NEW X, NEW c, NEW a \in Seq(X), NEW n \in X, NEW b \in Seq(X), Joined(c, a, n, b),
         NEW rank, NEW S, S \subseteq Int, rank[n] \in S,
         Rising(a, rank, Part(S, rank[n], 0)), Rising(b, rank, Part(S, rank[n], 1))
  PROVE  Rising(c, rank, S)
<1>1. /\ Len(a) \in Nat /\ Len(b) \in Nat /\ Len(c) = Len(a) + 1 + Len(b)
      /\ \A i \in 1 .. Len(a) : c[i] = a[i]
      /\ c[Len(a) + 1] = n
      /\ \A i \in 1 .. Len(b) : c[Len(a) + 1 + i] = b[i]
  BY DEF Joined
<1>2. \A i \in 1 .. Len(a) : rank[c[i]] \in S /\ rank[c[i]] < rank[n]
  BY <1>1 DEF Rising, Part
<1>3. \A i \in 1 .. Len(b) : rank[c[Len(a) + 1 + i]] \in S /\ rank[c[Len(a) + 1 + i]] > rank[n]
  BY <1>1 DEF Rising, Part
<1>4. ASSUME NEW i \in 1 .. Len(c)  PROVE rank[c[i]] \in S
  BY <1>1, <1>2, <1>3, JoinIndex, SMTT(60)
<1>5. ASSUME NEW i \in 1 .. Len(c), NEW j \in 1 .. Len(c), i < j
      PROVE  rank[c[i]] < rank[c[j]]
  <2>0. rank[c[i]] \in Int /\ rank[c[j]] \in Int /\ rank[n] \in Int
    BY <1>4
  <2>1. CASE i \in 1 .. Len(a)
    <3>1. CASE j \in 1 .. Len(a)
      <4>1. rank[a[i]] < rank[a[j]]
        BY <1>5, <2>1, <3>1 DEF Rising
      <4>. QED  BY <1>1, <2>1, <3>1, <4>1
    <3>2. CASE j = Len(a) + 1
      BY <1>1, <1>2, <2>1, <3>2
    <3>3. ASSUME NEW k \in 1 .. Len(b), j = Len(a) + 1 + k
          PROVE  rank[c[i]] < rank[c[j]]
      <4>1. rank[c[i]] < rank[n] /\ rank[c[j]] > rank[n]
        BY <1>2, <1>3, <2>1, <3>3
      <4>. QED  BY <2>0, <4>1
    <3>. QED  BY <3>1, <3>2, <3>3, JoinIndex
  <2>2. CASE i = Len(a) + 1
    <3>1. PICK k \in 1 .. Len(b) : j = Len(a) + 1 + k
      <4>1. ~(j \in 1 .. Len(a)) /\ j # Len(a) + 1
        BY <1>1, <1>5, <2>2
      <4>. QED  BY <4>1, JoinIndex
    <3>2. rank[c[j]] > rank[n]
      BY <1>3, <3>1
    <3>. QED  BY <1>1, <2>0, <2>2, <3>2
  <2>3. ASSUME NEW k \in 1 .. Len(b), i = Len(a) + 1 + k
        PROVE  rank[c[i]] < rank[c[j]]
    <3>1. PICK l \in 1 .. Len(b) : j = Len(a) + 1 + l
      <4>1. ~(j \in 1 .. Len(a)) /\ j # Len(a) + 1
        BY <1>1, <1>5, <2>3
      <4>. QED  BY <4>1, JoinIndex
    <3>2. k < l
      BY <1>1, <1>5, <2>3, <3>1
    <3>3. rank[b[k]] < rank[b[l]]
      BY <3>2 DEF Rising
    <3>. QED  BY <1>1, <2>3, <3>1, <3>3
  <2>. QED  BY <2>1, <2>2, <2>3, JoinIndex
<1>. QED  BY <1>4, <1>5 DEF Rising

\* A table in order is walked in order, and the walk meets its members only.
Walks(f, t, M, rank, span, n) ==
  ToSet(f[n]) \subseteq M /\ (n # NULL => Rising(f[n], rank, span[n]))

\* Every walk rises within the span of its node.
LEMMA WalkRising ==
  ASSUME NEW t, NEW M, NEW h, NEW H, NEW f, NEW rank, NEW span,
         TableType(t), Linked(t, M), Balanceable(t, h, H), IsWalk(f, t), Ordered(t, M, rank, span)
  PROVE  \A n \in M \cup {NULL} : Walks(f, t, M, rank, span, n)
<1>1. /\ f \in [Slot -> Seq(Node)] /\ f[NULL] = <<>>
      /\ \A n \in Node : f[n] = f[t.link[n][0]] \o <<n>> \o f[t.link[n][1]]
  BY DEF IsWalk
<1>2. H \in Nat /\ \A n \in Node : h[n] \in 1 .. H /\ \A i \in Sides : h[t.link[n][i]] < h[n]
  <2>1. H \in Nat /\ HeightType(h, H)
    BY DEF Balanceable, HeightType
  <2>. QED  BY <2>1, ChildrenLower DEF Balanceable
<1>3. M \subseteq Node /\ NULL \notin M
  BY NullAssumption DEF Linked
<1>4. Walks(f, t, M, rank, span, NULL)
  <2>1. ToSet(f[NULL]) = {}
    BY <1>1 DEF ToSet
  <2>. QED  BY <2>1 DEF Walks
<1>5. ASSUME NEW n \in M, \A i \in Sides : Walks(f, t, M, rank, span, t.link[n][i])
      PROVE  Walks(f, t, M, rank, span, n)
  <2>. PICK a, b, c : a = f[t.link[n][0]] /\ b = f[t.link[n][1]] /\ c = f[n]
    OBVIOUS
  <2>1. n \in Node /\ t.link[n][0] \in Slot /\ t.link[n][1] \in Slot
    BY <1>3 DEF TableType, Sides
  <2>2. a \in Seq(Node) /\ b \in Seq(Node)
    BY <1>1, <2>1
  <2>3. Joined(c, a, n, b)
    <3>1. c = a \o <<n>> \o b
      BY <1>1, <2>1
    <3>2. Joined(a \o <<n>> \o b, a, n, b)
      BY <2>1, <2>2, JoinFields
    <3>. QED  BY <3>1, <3>2
  <2>4. ToSet(a) \subseteq M /\ ToSet(b) \subseteq M
    BY <1>5 DEF Walks, Sides
  <2>5. ToSet(c) \subseteq M
    BY <2>2, <2>3, <2>4, JoinSet
  <2>6. span[n] \subseteq Int /\ rank[n] \in span[n]
    BY <2>1 DEF Ordered
  <2>7. ASSUME NEW i \in Sides, NEW d, d = f[t.link[n][i]]
        PROVE  Rising(d, rank, Part(span[n], rank[n], i))
    <3>1. CASE t.link[n][i] = NULL
      <4>1. d = <<>> /\ Len(d) = 0
        BY <1>1, <2>7, <3>1
      <4>2. 1 .. Len(d) = {}
        BY <4>1
      <4>. QED  BY <4>2 DEF Rising
    <3>2. CASE t.link[n][i] # NULL
      <4>1. span[t.link[n][i]] = Part(span[n], rank[n], i)
        BY <3>2 DEF Ordered
      <4>2. Rising(f[t.link[n][i]], rank, span[t.link[n][i]])
        BY <1>5, <3>2 DEF Walks
      <4>. QED  BY <2>7, <4>1, <4>2
    <3>. QED  BY <3>1, <3>2
  <2>8. Rising(a, rank, Part(span[n], rank[n], 0)) /\ Rising(b, rank, Part(span[n], rank[n], 1))
    BY <2>7 DEF Sides
  <2>9. Rising(c, rank, span[n])
    BY <2>1, <2>2, <2>3, <2>6, <2>8, JoinRising
  <2>. QED  BY <2>5, <2>9 DEF Walks
<1>. DEFINE T == {n \in M : ~Walks(f, t, M, rank, span, n)}
<1>. SUFFICES ASSUME T # {}  PROVE FALSE
  BY <1>4
<1>6. \A n \in T : h[n] \in Nat
  BY <1>2, <1>3
<1>7. PICK n \in T : \A m \in T : h[n] <= h[m]
  <2>. HIDE DEF T
  <2>. QED  BY <1>6, Lowest
<1>8. ASSUME NEW i \in Sides  PROVE Walks(f, t, M, rank, span, t.link[n][i])
  <2>1. CASE t.link[n][i] = NULL
    BY <1>4, <2>1
  <2>2. CASE t.link[n][i] # NULL
    <3>1. t.link[n][i] \in M
      BY <1>7, <2>2 DEF Linked
    <3>2. h[t.link[n][i]] < h[n] /\ h[n] \in Nat /\ h[t.link[n][i]] \in Nat
      BY <1>2, <1>3, <1>7, <3>1
    <3>3. t.link[n][i] \notin T
      BY <1>7, <3>2
    <3>. QED  BY <3>1, <3>3
  <2>. QED  BY <2>1, <2>2
<1>. QED  BY <1>5, <1>7, <1>8

\* A walk meets its own node and, with a node, that node's children.
Closed(t, s) ==
  \A m \in ToSet(s), i \in Sides : t.link[m][i] # NULL => t.link[m][i] \in ToSet(s)

\* Every walk does.
LEMMA WalkClosed ==
  ASSUME NEW t, NEW M, NEW h, NEW H, NEW f,
         TableType(t), Linked(t, M), Balanceable(t, h, H), IsWalk(f, t)
  PROVE  \A n \in M : n \in ToSet(f[n]) /\ Closed(t, f[n])
<1>1. /\ f \in [Slot -> Seq(Node)] /\ f[NULL] = <<>>
      /\ \A n \in Node : f[n] = f[t.link[n][0]] \o <<n>> \o f[t.link[n][1]]
  BY DEF IsWalk
<1>2. H \in Nat /\ \A n \in Node : h[n] \in 1 .. H /\ \A i \in Sides : h[t.link[n][i]] < h[n]
  <2>1. H \in Nat /\ HeightType(h, H)
    BY DEF Balanceable, HeightType
  <2>. QED  BY <2>1, ChildrenLower DEF Balanceable
<1>3. M \subseteq Node /\ NULL \notin M
  BY NullAssumption DEF Linked
<1>4. Closed(t, f[NULL])
  <2>1. ToSet(f[NULL]) = {}
    BY <1>1 DEF ToSet
  <2>. QED  BY <2>1 DEF Closed
<1>5. ASSUME NEW n \in M
      PROVE  ToSet(f[n]) = ToSet(f[t.link[n][0]]) \cup {n} \cup ToSet(f[t.link[n][1]])
  <2>. PICK a, b, c : a = f[t.link[n][0]] /\ b = f[t.link[n][1]] /\ c = f[n]
    OBVIOUS
  <2>1. n \in Node /\ t.link[n][0] \in Slot /\ t.link[n][1] \in Slot
    BY <1>3 DEF TableType, Sides
  <2>2. a \in Seq(Node) /\ b \in Seq(Node)
    BY <1>1, <2>1
  <2>3. c = a \o <<n>> \o b
    BY <1>1, <2>1
  <2>4. Joined(a \o <<n>> \o b, a, n, b)
    BY <2>1, <2>2, JoinFields
  <2>5. Joined(c, a, n, b)
    BY <2>3, <2>4
  <2>6. ToSet(c) = ToSet(a) \cup {n} \cup ToSet(b)
    BY <2>2, <2>5, JoinSet
  <2>. QED  BY <2>6
<1>6. \A n \in M : n \in ToSet(f[n])
  BY <1>5
<1>7. ASSUME NEW n \in M, \A i \in Sides : Closed(t, f[t.link[n][i]])
      PROVE  Closed(t, f[n])
  <2>. SUFFICES ASSUME NEW m \in ToSet(f[n]), NEW i \in Sides, t.link[m][i] # NULL
                PROVE  t.link[m][i] \in ToSet(f[n])
    BY DEF Closed
  <2>1. CASE m = n
    <3>1. t.link[m][i] \in M
      BY <2>1 DEF Linked
    <3>2. t.link[m][i] \in ToSet(f[t.link[n][i]])
      BY <1>6, <2>1, <3>1
    <3>. QED  BY <1>5, <3>2 DEF Sides
  <2>2. CASE m \in ToSet(f[t.link[n][0]])
    <3>1. t.link[m][i] \in ToSet(f[t.link[n][0]])
      BY <1>7, <2>2 DEF Closed, Sides
    <3>. QED  BY <1>5, <3>1
  <2>3. CASE m \in ToSet(f[t.link[n][1]])
    <3>1. t.link[m][i] \in ToSet(f[t.link[n][1]])
      BY <1>7, <2>3 DEF Closed, Sides
    <3>. QED  BY <1>5, <3>1
  <2>. QED  BY <1>5, <2>1, <2>2, <2>3
<1>8. \A n \in M : Closed(t, f[n])
  <2>. DEFINE T == {n \in M : ~Closed(t, f[n])}
  <2>. SUFFICES ASSUME T # {}  PROVE FALSE
    OBVIOUS
  <2>1. \A n \in T : h[n] \in Nat
    BY <1>2, <1>3
  <2>2. PICK n \in T : \A m \in T : h[n] <= h[m]
    <3>. HIDE DEF T
    <3>. QED  BY <2>1, Lowest
  <2>3. ASSUME NEW i \in Sides  PROVE Closed(t, f[t.link[n][i]])
    <3>1. CASE t.link[n][i] = NULL
      BY <1>4, <3>1
    <3>2. CASE t.link[n][i] # NULL
      <4>1. t.link[n][i] \in M
        BY <2>2, <3>2 DEF Linked
      <4>2. h[t.link[n][i]] < h[n] /\ h[n] \in Nat /\ h[t.link[n][i]] \in Nat
        BY <1>2, <1>3, <2>2, <4>1
      <4>3. t.link[n][i] \notin T
        BY <2>2, <4>2
      <4>. QED  BY <4>1, <4>3
    <3>. QED  BY <3>1, <3>2
  <2>. QED  BY <1>7, <2>2, <2>3
<1>. QED  BY <1>6, <1>8

\* A walk from the root meets every member.
LEMMA WalkAll ==
  ASSUME NEW t, NEW M, NEW h, NEW H, NEW f,
         TableType(t), Linked(t, M), Balanceable(t, h, H), IsWalk(f, t)
  PROVE  M \subseteq ToSet(f[t.root])
<1>. DEFINE T == M \ ToSet(f[t.root])
<1>. SUFFICES ASSUME T # {}  PROVE FALSE
  OBVIOUS
<1>1. M \subseteq Node /\ t.root \in M \cup {NULL} /\ (t.root = NULL => M = {})
  BY DEF Linked
<1>2. H \in Nat /\ \A n \in Node : h[n] \in 0 .. H /\ \A i \in Sides : h[t.link[n][i]] < h[n]
  <2>1. H \in Nat /\ HeightType(h, H)
    BY DEF Balanceable, HeightType
  <2>. QED  BY <2>1, ChildrenLower DEF Balanceable
<1>3. t.root \in M
  BY <1>1
<1>4. t.root \in ToSet(f[t.root]) /\ Closed(t, f[t.root])
  BY <1>3, WalkClosed
<1>5. PICK n \in T : \A m \in T : h[m] <= h[n]
  <2>1. \A n \in T : h[n] \in 0 .. H
    BY <1>1, <1>2
  <2>. HIDE DEF T
  <2>. QED  BY <1>2, <2>1, Highest
<1>6. n # t.root
  BY <1>4, <1>5
<1>7. PICK i \in Sides : t.link[t.up[n]][i] = n
  BY <1>5, <1>6 DEF Linked
<1>8. t.up[n] \in M
  BY <1>5, <1>6 DEF Linked
<1>9. h[n] < h[t.up[n]] /\ h[n] \in Int /\ h[t.up[n]] \in Int
  BY <1>1, <1>2, <1>5, <1>7, <1>8
<1>10. t.up[n] \in ToSet(f[t.root])
  BY <1>5, <1>8, <1>9
<1>11. n # NULL
  BY <1>1, <1>5, NullAssumption
<1>. QED  BY <1>4, <1>5, <1>7, <1>10, <1>11 DEF Closed

\* What the symmetric order of a table in order is.
InOrderIs(t, M, rank) ==
  /\ InOrder(t) \in Seq(Node) /\ ToSet(InOrder(t)) = M
  /\ Rising(InOrder(t), rank, Int)

\* The symmetric order is the members of the table, each once, by increasing key.
LEMMA InOrderOf ==
  ASSUME NEW t, NEW M, NEW rank, Sound(t, M), Sorted(t, M, rank)
  PROVE  InOrderIs(t, M, rank)
<1>1. PICK H, h : Balanceable(t, h, H)
  BY DEF Sound
<1>2. PICK span : Ordered(t, M, rank, span)
  BY DEF Sorted
<1>3. TableType(t) /\ Linked(t, M)
  BY DEF Sound
<1>4. PICK f : IsWalk(f, t) /\ InOrder(t) = f[t.root]
  BY <1>1, <1>3, WalkExists
<1>5. f \in [Slot -> Seq(Node)] /\ f[NULL] = <<>>
  BY <1>4 DEF IsWalk
<1>6. t.root \in M \cup {NULL} /\ t.root \in Slot
  BY <1>3 DEF Linked, TableType
<1>7. M \subseteq ToSet(f[t.root])
  BY <1>1, <1>3, <1>4, WalkAll
<1>8. Walks(f, t, M, rank, span, t.root)
  BY <1>1, <1>2, <1>3, <1>4, <1>6, WalkRising
<1>9. Rising(f[t.root], rank, Int)
  <2>1. CASE t.root = NULL
    <3>1. f[t.root] = <<>> /\ Len(f[t.root]) = 0
      BY <1>5, <2>1
    <3>2. 1 .. Len(f[t.root]) = {}
      BY <3>1
    <3>. QED  BY <3>2 DEF Rising
  <2>2. CASE t.root # NULL
    <3>1. span[t.root] = Int
      BY <1>2, <2>2 DEF Ordered
    <3>. QED  BY <1>8, <2>2, <3>1 DEF Walks
  <2>. QED  BY <2>1, <2>2
<1>10. f[t.root] \in Seq(Node)
  BY <1>5, <1>6
<1>. QED  BY <1>4, <1>7, <1>8, <1>9, <1>10 DEF InOrderIs, Walks

\* A sound table is well formed.
LEMMA SoundHeight ==
  ASSUME NEW t, NEW h, NEW H, TableType(t), Balanceable(t, h, H)
  PROVE  \A n \in Slot : Height(t)[n] = h[n]
<1>. DEFINE Up(f) == f = [n \in Slot |->
                       IF n = NULL THEN 0
                       ELSE 1 + Max({f[t.link[n][0]], f[t.link[n][1]]})]
<1>1. /\ H \in Nat /\ h \in [Slot -> 0 .. H] /\ h[NULL] = 0
      /\ \A n \in Node : High(t, h, n)
      /\ \A n \in Node : /\ h[n] \in 0 .. H
                         /\ \A i \in Sides : t.link[n][i] \in Slot /\ h[t.link[n][i]] < h[n]
  <2>1. HeightType(h, H)
    BY DEF Balanceable
  <2>2. \A n \in Node : /\ h[n] \in 0 .. H
                        /\ \A i \in Sides : t.link[n][i] \in Slot /\ h[t.link[n][i]] < h[n]
    <3>1. \A n \in Node : h[n] \in 0 .. H
      BY <2>1 DEF HeightType, Slot
    <3>2. \A n \in Node, i \in Sides : t.link[n][i] \in Slot /\ h[t.link[n][i]] < h[n]
      BY <2>1, ChildrenLower DEF Balanceable
    <3>. QED  BY <3>1, <3>2
  <2>. QED  BY <2>1, <2>2 DEF Balanceable, HeightType
<1>2. ASSUME NEW a \in Nat, NEW b \in Nat  PROVE Max({a, b}) = Taller(a, b)
  <2>1. /\ Taller(a, b) \in {a, b} /\ Taller(a, b) \in Nat
        /\ \A y \in {a, b} : Taller(a, b) >= y
    BY DEF Taller
  <2>2. \A x \in {a, b} : (\A y \in {a, b} : x >= y) => x = Taller(a, b)
    BY DEF Taller
  <2>3. Max({a, b}) = CHOOSE x \in {a, b} : \A y \in {a, b} : x >= y
    BY DEF Max
  <2>. HIDE DEF Max
  <2>. QED  BY <2>1, <2>2, <2>3
<1>3. \A n \in Node : h[n] = 1 + Max({h[t.link[n][0]], h[t.link[n][1]]})
  <2>. SUFFICES ASSUME NEW n \in Node  PROVE h[n] = 1 + Max({h[t.link[n][0]], h[t.link[n][1]]})
    OBVIOUS
  <2>1. h[t.link[n][0]] \in Nat /\ h[t.link[n][1]] \in Nat
    BY <1>1 DEF Sides
  <2>2. h[n] = 1 + Taller(h[t.link[n][0]], h[t.link[n][1]])
    BY <1>1 DEF High
  <2>. QED  BY <1>2, <2>1, <2>2
<1>4. Up(h)
  <2>1. h = [n \in Slot |-> h[n]]
    BY <1>1
  <2>2. \A n \in Slot : h[n] = IF n = NULL THEN 0
                               ELSE 1 + Max({h[t.link[n][0]], h[t.link[n][1]]})
    BY <1>1, <1>3 DEF Slot
  <2>. QED  BY <2>1, <2>2, Zenon
<1>5. PICK f : Up(f) /\ Height(t) = f
  <2>1. Height(t) = CHOOSE f : Up(f)
    BY DEF Height, Slot
  <2>. QED  BY <1>4, <2>1, Zenon
<1>6. f[NULL] = 0 /\ \A n \in Node : f[n] = 1 + Max({f[t.link[n][0]], f[t.link[n][1]]})
  BY <1>5, NullAssumption DEF Slot
<1>. HIDE DEF Up
<1>7. \A n \in Node : f[n] = h[n]
  <2>. DEFINE T == {n \in Node : f[n] # h[n]}
  <2>. SUFFICES ASSUME T # {}  PROVE FALSE
    OBVIOUS
  <2>1. \A n \in T : h[n] \in Nat
    BY <1>1
  <2>2. PICK n \in T : \A m \in T : h[n] <= h[m]
    <3>. HIDE DEF T
    <3>. QED  BY <2>1, Lowest
  <2>3. ASSUME NEW i \in Sides  PROVE f[t.link[n][i]] = h[t.link[n][i]]
    <3>1. t.link[n][i] \in Slot /\ h[t.link[n][i]] < h[n] /\ h[n] \in Nat
      BY <1>1, <2>2
    <3>2. CASE t.link[n][i] = NULL
      BY <1>1, <1>6, <3>2
    <3>3. CASE t.link[n][i] \in Node
      <4>1. h[t.link[n][i]] \in Nat
        BY <1>1, <3>3
      <4>2. t.link[n][i] \notin T
        BY <2>2, <3>1, <4>1
      <4>. QED  BY <3>3, <4>2
    <3>. QED  BY <3>1, <3>2, <3>3 DEF Slot
  <2>4. f[t.link[n][0]] = h[t.link[n][0]] /\ f[t.link[n][1]] = h[t.link[n][1]]
    BY <2>3 DEF Sides
  <2>5. f[n] = h[n]
    BY <1>3, <1>6, <2>2, <2>4
  <2>. QED  BY <2>2, <2>5
<1>. QED  BY <1>1, <1>5, <1>6, <1>7 DEF Slot

\* A sound table is well formed: the shape invariants of the runs hold of it.
LEMMA SoundShape ==
  ASSUME NEW t, NEW M, Sound(t, M), ToSet(InOrder(t)) = M
  PROVE  LinksMirror(t) /\ Balanced(t)
<1>1. TableType(t) /\ Linked(t, M)
  BY DEF Sound
<1>2. PICK H, h : Balanceable(t, h, H)
  BY DEF Sound
<1>3. LinksMirror(t)
  <2>1. t.root # NULL => t.up[t.root] = NULL
    BY <1>1 DEF Linked
  <2>2. \A n \in M : \A side \in {0, 1} :
          t.link[n][side] # NULL => t.up[t.link[n][side]] = n
    BY <1>1 DEF Linked, Sides
  <2>. QED  BY <2>1, <2>2 DEF LinksMirror
<1>4. ASSUME NEW n \in M
      PROVE  /\ t.bal[n] = Height(t)[t.link[n][1]] - Height(t)[t.link[n][0]]
             /\ t.bal[n] \in -1 .. 1
  <2>1. n \in Node /\ t.link[n][0] \in Slot /\ t.link[n][1] \in Slot
    BY <1>1 DEF Linked, TableType, Sides
  <2>2. Even(t, h, n) /\ t.bal[n] \in -1 .. 1
    BY <1>2, <2>1 DEF Balanceable
  <2>3. \A m \in Slot : Height(t)[m] = h[m]
    BY <1>1, <1>2, SoundHeight
  <2>. QED  BY <2>1, <2>2, <2>3 DEF Even
<1>5. Balanced(t)
  BY <1>4 DEF Balanced
<1>. QED  BY <1>3, <1>5

\* As many items as the symmetric order is long.
LEMMA RisingCount ==
  ASSUME NEW X, NEW s \in Seq(X), NEW rank, Rising(s, rank, Int)
  PROVE  IsFiniteSet(ToSet(s)) /\ Cardinality(ToSet(s)) = Len(s)
<1>1. Len(s) \in Nat /\ DOMAIN s = 1 .. Len(s) /\ ToSet(s) = {s[i] : i \in 1 .. Len(s)}
  BY DEF ToSet
<1>2. ASSUME NEW i \in 1 .. Len(s), NEW j \in 1 .. Len(s), s[i] = s[j]
      PROVE  i = j
  <2>1. rank[s[i]] \in Int /\ rank[s[j]] \in Int
    BY DEF Rising
  <2>2. ~(i < j) /\ ~(j < i)
    BY <1>2, <2>1 DEF Rising
  <2>. QED  BY <1>1, <2>2
<1>. DEFINE f == [i \in 1 .. Len(s) |-> s[i]]
<1>3. f \in Bijection(1 .. Len(s), ToSet(s))
  <2>1. f \in [1 .. Len(s) -> ToSet(s)]
    BY <1>1
  <2>2. \A i, j \in 1 .. Len(s) : f[i] = f[j] => i = j
    BY <1>2
  <2>3. \A x \in ToSet(s) : \E i \in 1 .. Len(s) : f[i] = x
    BY <1>1
  <2>. QED  BY <2>1, <2>2, <2>3 DEF Bijection, Injection, Surjection, IsInjective
<1>4. ExistsBijection(1 .. Len(s), ToSet(s))
  BY <1>3 DEF ExistsBijection
<1>5. IsFiniteSet(1 .. Len(s)) /\ Cardinality(1 .. Len(s)) = Len(s)
  BY <1>1, FS_Interval, SMTT(60)
<1>. QED  BY <1>4, <1>5, FS_Bijection

-----------------------------------------------------------------------------
(* The keys in order: strictly increasing lists of integers. *)

Self == [k \in Int |-> k]

Increasing(l) == l \in Seq(Int) /\ Rising(l, Self, Int)

\* The same, read off the list.
LEMMA IncreasingFields ==
  ASSUME NEW l \in Seq(Int)
  PROVE  Increasing(l) <=> \A i, j \in 1 .. Len(l) : i < j => l[i] < l[j]
<1>1. \A i \in 1 .. Len(l) : l[i] \in Int /\ Self[l[i]] = l[i]
  BY DEF Self
<1>. QED  BY <1>1 DEF Increasing, Rising

\* An increasing list is the only one with its members: at the first place where two
\* of them differ, the smaller number is nowhere in the other.
LEMMA FirstDifference ==
  ASSUME NEW l, NEW k, Increasing(l), Increasing(k), ToSet(l) = ToSet(k),
         NEW i \in 1 .. Len(l), i \in 1 .. Len(k),
         \A j \in 1 .. Len(l) : j < i => l[j] = k[j]
  PROVE  ~(l[i] < k[i])
<1>. SUFFICES ASSUME l[i] < k[i]  PROVE FALSE
  OBVIOUS
<1>1. l \in Seq(Int) /\ k \in Seq(Int) /\ Len(l) \in Nat /\ Len(k) \in Nat
  BY DEF Increasing
<1>2. /\ \A m, j \in 1 .. Len(l) : m < j => l[m] < l[j]
      /\ \A m, j \in 1 .. Len(k) : m < j => k[m] < k[j]
  BY <1>1, IncreasingFields
<1>3. l[i] \in ToSet(k)
  <2>1. DOMAIN l = 1 .. Len(l)
    BY <1>1
  <2>. QED  BY <2>1 DEF ToSet
<1>4. PICK j \in 1 .. Len(k) : k[j] = l[i]
  <2>1. DOMAIN k = 1 .. Len(k)
    BY <1>1
  <2>. QED  BY <1>3, <2>1 DEF ToSet
<1>5. l[i] \in Int /\ k[i] \in Int
  BY <1>1
<1>6. CASE j < i
  <2>1. j \in 1 .. Len(l) /\ l[j] = k[j]
    BY <1>1, <1>6, SMTT(60)
  <2>2. l[j] < l[i]
    BY <1>2, <1>6, <2>1
  <2>. QED  BY <1>4, <1>5, <2>1, <2>2
<1>7. CASE j = i
  BY <1>4, <1>5, <1>7
<1>8. CASE j > i
  <2>1. k[i] < k[j]
    BY <1>2, <1>8
  <2>. QED  BY <1>4, <1>5, <2>1
<1>. QED  BY <1>6, <1>7, <1>8

\* Two increasing lists of the same numbers are equal.
LEMMA IncreasingUnique ==
  ASSUME NEW l, NEW k, Increasing(l), Increasing(k), ToSet(l) = ToSet(k)
  PROVE  l = k
<1>1. l \in Seq(Int) /\ k \in Seq(Int) /\ Len(l) \in Nat /\ Len(k) \in Nat
  BY DEF Increasing
<1>2. Len(l) = Len(k)
  <2>1. Cardinality(ToSet(l)) = Len(l)
    BY <1>1, RisingCount DEF Increasing
  <2>2. Cardinality(ToSet(k)) = Len(k)
    BY <1>1, RisingCount DEF Increasing
  <2>. QED  BY <2>1, <2>2
<1>3. \A i \in 1 .. Len(l) : l[i] = k[i]
  <2>. DEFINE T == {i \in 1 .. Len(l) : l[i] # k[i]}
  <2>. SUFFICES ASSUME T # {}  PROVE FALSE
    OBVIOUS
  <2>1. PICK i \in T : \A j \in T : i <= j
    <3>1. T \subseteq Nat
      OBVIOUS
    <3>. HIDE DEF T
    <3>. QED  BY <3>1, LeastMember
  <2>2. \A j \in 1 .. Len(l) : j < i => l[j] = k[j]
    BY <2>1
  <2>3. i \in 1 .. Len(l) /\ i \in 1 .. Len(k) /\ l[i] \in Int /\ k[i] \in Int /\ l[i] # k[i]
    BY <1>1, <1>2, <2>1
  <2>. HIDE DEF T
  <2>4. ~(l[i] < k[i])
    BY <2>2, <2>3, FirstDifference
  <2>5. ~(k[i] < l[i])
    <3>1. \A j \in 1 .. Len(k) : j < i => k[j] = l[j]
      BY <1>2, <2>2
    <3>. QED  BY <2>3, <3>1, FirstDifference
  <2>. QED  BY <2>3, <2>4, <2>5
<1>. QED  BY <1>1, <1>2, <1>3, SeqEqual

\* Where an absent number goes in an increasing list.
IsPlace(l, k, i) ==
  /\ i \in 1 .. Len(l) + 1
  /\ \A j \in 1 .. i - 1 : l[j] < k
  /\ \A j \in i .. Len(l) : l[j] > k

\* There is such a place.
LEMMA PlaceExists ==
  ASSUME NEW l, Increasing(l), NEW k \in Int, k \notin ToSet(l)
  PROVE  \E i : IsPlace(l, k, i)
<1>1. l \in Seq(Int) /\ Len(l) \in Nat /\ ToSet(l) = {l[i] : i \in 1 .. Len(l)}
  BY DEF Increasing, ToSet
<1>2. \A i, j \in 1 .. Len(l) : i < j => l[i] < l[j]
  BY <1>1, IncreasingFields
<1>3. \A i \in 1 .. Len(l) : l[i] \in Int /\ l[i] # k
  BY <1>1
<1>. DEFINE T == {i \in 0 .. Len(l) : i = 0 \/ l[i] < k}
<1>4. PICK i \in T : \A j \in T : j <= i
  <2>1. T \subseteq 0 .. Len(l) /\ T # {}
    BY <1>1
  <2>. HIDE DEF T
  <2>. QED  BY <1>1, <2>1, GreatestMember
<1>5. i + 1 \in 1 .. Len(l) + 1
  BY <1>1, <1>4
<1>6. ASSUME NEW j \in 1 .. (i + 1) - 1  PROVE l[j] < k
  <2>1. i \in 1 .. Len(l) /\ j \in 1 .. Len(l) /\ l[i] < k /\ (j = i \/ j < i)
    BY <1>1, <1>4
  <2>2. l[i] \in Int /\ l[j] \in Int
    BY <1>3, <2>1
  <2>3. CASE j = i
    BY <2>1, <2>3
  <2>4. CASE j < i
    BY <1>2, <2>1, <2>2, <2>4
  <2>. QED  BY <2>1, <2>3, <2>4
<1>7. ASSUME NEW j \in i + 1 .. Len(l)  PROVE l[j] > k
  <2>1. j \in 1 .. Len(l) /\ j \in 0 .. Len(l) /\ j > i
    BY <1>1, <1>4
  <2>2. j \notin T
    BY <1>4, <2>1
  <2>. QED  BY <1>3, <2>1, <2>2
<1>8. IsPlace(l, k, i + 1)
  BY <1>5, <1>6, <1>7 DEF IsPlace
<1>. QED  BY <1>8

\* Put there, it makes an increasing list of one more number.
LEMMA PlaceIncreasing ==
  ASSUME NEW l, Increasing(l), NEW k \in Int, NEW i, IsPlace(l, k, i),
         NEW m, m = InsertAt(l, i, k)
  PROVE  Increasing(m) /\ ToSet(m) = ToSet(l) \cup {k}
<1>1. l \in Seq(Int) /\ Len(l) \in Nat /\ ToSet(l) = {l[j] : j \in 1 .. Len(l)}
  BY DEF Increasing, ToSet
<1>2. \A r, j \in 1 .. Len(l) : r < j => l[r] < l[j]
  BY <1>1, IncreasingFields
<1>3. /\ i \in 1 .. Len(l) + 1
      /\ \A j \in 1 .. i - 1 : l[j] < k
      /\ \A j \in i .. Len(l) : l[j] > k
  BY DEF IsPlace
<1>0. PICK a, b : a = SubSeq(l, 1, i - 1) /\ b = SubSeq(l, i, Len(l))
  OBVIOUS
<1>4. /\ a \in Seq(Int) /\ Len(a) = i - 1
      /\ \A j \in 1 .. i - 1 : a[j] = l[j]
  <2>1. \A j \in 1 .. i - 1 : l[j] \in Int
    BY <1>1, <1>3
  <2>2. /\ SubSeq(l, 1, i - 1) \in Seq(Int)
        /\ Len(SubSeq(l, 1, i - 1)) = IF 1 <= i - 1 THEN (i - 1) - 1 + 1 ELSE 0
        /\ \A j \in 1 .. (i - 1) - 1 + 1 : SubSeq(l, 1, i - 1)[j] = l[1 + j - 1]
    BY <1>1, <1>3, <2>1, SubSeqProperties
  <2>. QED  BY <1>0, <1>1, <1>3, <2>2
<1>5. /\ b \in Seq(Int) /\ Len(b) = Len(l) - i + 1
      /\ \A j \in 1 .. Len(b) : b[j] = l[i + j - 1]
  <2>1. \A j \in i .. Len(l) : l[j] \in Int
    BY <1>1, <1>3
  <2>2. /\ SubSeq(l, i, Len(l)) \in Seq(Int)
        /\ Len(SubSeq(l, i, Len(l))) = IF i <= Len(l) THEN Len(l) - i + 1 ELSE 0
        /\ \A j \in 1 .. Len(l) - i + 1 : SubSeq(l, i, Len(l))[j] = l[i + j - 1]
    BY <1>1, <1>3, <2>1, SubSeqProperties
  <2>. QED  BY <1>0, <1>1, <1>3, <2>2
<1>6. Joined(m, a, k, b)
  <2>1. m = a \o <<k>> \o b
    BY <1>0 DEF InsertAt
  <2>2. Joined(a \o <<k>> \o b, a, k, b)
    BY <1>4, <1>5, JoinFields
  <2>. QED  BY <2>1, <2>2
<1>7. m \in Seq(Int)
  <2>1. <<k>> \in Seq(Int)
    OBVIOUS
  <2>. QED  BY <1>0, <1>4, <1>5, <2>1, ConcatProperties DEF InsertAt
<1>8. ToSet(a) \cup ToSet(b) = ToSet(l)
  <2>1. /\ ToSet(a) = {a[j] : j \in 1 .. Len(a)}
        /\ ToSet(b) = {b[j] : j \in 1 .. Len(b)}
    <3>1. DOMAIN a = 1 .. Len(a) /\ DOMAIN b = 1 .. Len(b)
      BY <1>4, <1>5
    <3>. QED  BY <3>1 DEF ToSet
  <2>2. ToSet(a) \subseteq ToSet(l)
    <3>. SUFFICES ASSUME NEW j \in 1 .. Len(a)  PROVE a[j] \in ToSet(l)
      BY <2>1
    <3>1. j \in 1 .. i - 1 /\ j \in 1 .. Len(l)
      BY <1>1, <1>3, <1>4
    <3>. QED  BY <1>1, <1>4, <3>1
  <2>3. ToSet(b) \subseteq ToSet(l)
    <3>. SUFFICES ASSUME NEW j \in 1 .. Len(b)  PROVE b[j] \in ToSet(l)
      BY <2>1
    <3>1. i + j - 1 \in 1 .. Len(l)
      BY <1>1, <1>3, <1>5
    <3>. QED  BY <1>1, <1>5, <3>1
  <2>4. ASSUME NEW j \in 1 .. Len(l)  PROVE l[j] \in ToSet(a) \cup ToSet(b)
    <3>1. CASE j <= i - 1
      <4>1. j \in 1 .. i - 1 /\ j \in 1 .. Len(a)
        BY <1>1, <1>3, <1>4, <3>1
      <4>. QED  BY <1>4, <2>1, <4>1
    <3>2. CASE j > i - 1
      <4>. PICK r : r = j - i + 1
        OBVIOUS
      <4>1. r \in 1 .. Len(b) /\ i + r - 1 = j
        BY <1>1, <1>3, <1>5, <3>2, SMTT(30)
      <4>. QED  BY <1>5, <2>1, <4>1
    <3>. QED  BY <1>1, <1>3, <3>1, <3>2
  <2>. QED  BY <1>1, <2>2, <2>3, <2>4
<1>9. ToSet(m) = ToSet(l) \cup {k}
  <2>1. ToSet(m) = ToSet(a) \cup {k} \cup ToSet(b)
    <3>1. a \in Seq(Int) /\ b \in Seq(Int)
      BY <1>4, <1>5
    <3>2. ASSUME NEW c, Joined(c, a, k, b)
          PROVE  ToSet(c) = ToSet(a) \cup {k} \cup ToSet(b)
      BY <3>1, <3>2, JoinSet
    <3>. QED  BY <1>6, <3>2
  <2>. QED  BY <1>8, <2>1
<1>10. \A x \in Int : Self[x] = x
  BY DEF Self
<1>11. Rising(a, Self, Part(Int, k, 0))
  <2>1. ASSUME NEW j \in 1 .. Len(a)  PROVE a[j] \in Int /\ a[j] = l[j] /\ a[j] < k
    BY <1>1, <1>3, <1>4, SMTT(60)
  <2>2. ASSUME NEW r \in 1 .. Len(a), NEW j \in 1 .. Len(a), r < j  PROVE a[r] < a[j]
    <3>1. r \in 1 .. Len(l) /\ j \in 1 .. Len(l)
      BY <1>1, <1>3, <1>4
    <3>2. l[r] < l[j]
      BY <1>2, <2>2, <3>1
    <3>. QED  BY <2>1, <3>2
  <2>3. \A j \in 1 .. Len(a) : Self[a[j]] = a[j] /\ a[j] \in Part(Int, k, 0)
    BY <1>10, <2>1 DEF Part
  <2>. QED  BY <2>2, <2>3 DEF Rising
<1>12. Rising(b, Self, Part(Int, k, 1))
  <2>1. ASSUME NEW j \in 1 .. Len(b)
        PROVE  b[j] \in Int /\ i + j - 1 \in 1 .. Len(l) /\ b[j] = l[i + j - 1] /\ b[j] > k
    <3>1. i + j - 1 \in 1 .. Len(l) /\ i + j - 1 \in i .. Len(l)
      BY <1>1, <1>3, <1>5
    <3>. QED  BY <1>1, <1>3, <1>5, <3>1, SMTT(30)
  <2>2. ASSUME NEW r \in 1 .. Len(b), NEW j \in 1 .. Len(b), r < j  PROVE b[r] < b[j]
    <3>1. i + r - 1 < i + j - 1
      BY <1>3, <1>5, <2>2
    <3>2. l[i + r - 1] < l[i + j - 1]
      BY <1>2, <2>1, <3>1
    <3>. QED  BY <2>1, <3>2
  <2>3. ASSUME NEW j \in 1 .. Len(b)
        PROVE  Self[b[j]] = b[j] /\ b[j] \in Part(Int, k, 1)
    <3>1. b[j] \in Int /\ b[j] > k
      BY <2>1
    <3>2. Part(Int, k, 1) = {x \in Int : x > k}
      BY DEF Part
    <3>. QED  BY <1>10, <3>1, <3>2
  <2>. QED  BY <2>2, <2>3 DEF Rising
<1>13. Rising(m, Self, Int)
  <2>1. Self[k] = k
    BY <1>10
  <2>2. Rising(a, Self, Part(Int, Self[k], 0)) /\ Rising(b, Self, Part(Int, Self[k], 1))
    BY <1>11, <1>12, <2>1
  <2>. QED  BY <1>4, <1>5, <1>6, <2>1, <2>2, JoinRising
<1>. QED  BY <1>7, <1>9, <1>13 DEF Increasing

-----------------------------------------------------------------------------
(* What a table hands down, and what a search for a member finds. *)

\* What holds of the root of a table and is handed on to children holds of every member.
LEMMA HandedDown ==
  ASSUME NEW t, NEW M, Sound(t, M), NEW T, t.root # NULL => t.root \in T,
         \A q \in M \cap T, s \in Sides : t.link[q][s] # NULL => t.link[q][s] \in T
  PROVE  M \subseteq T
<1>. DEFINE R == M \ T
<1>. SUFFICES ASSUME R # {}  PROVE FALSE
  OBVIOUS
<1>1. TableType(t) /\ Linked(t, M)
  BY DEF Sound
<1>2. PICK H, h : Balanceable(t, h, H)
  BY DEF Sound
<1>3. H \in Nat /\ \A n \in Node : h[n] \in 0 .. H /\ \A i \in Sides : h[t.link[n][i]] < h[n]
  <2>1. H \in Nat /\ HeightType(h, H)
    BY <1>2 DEF Balanceable, HeightType
  <2>. QED  BY <1>1, <1>2, <2>1, ChildrenLower DEF Balanceable
<1>4. M \subseteq Node /\ t.root \in M \cup {NULL} /\ (t.root = NULL => M = {})
  BY <1>1 DEF Linked
<1>5. PICK n \in R : \A m \in R : h[m] <= h[n]
  <2>1. \A n \in R : h[n] \in 0 .. H
    BY <1>3, <1>4
  <2>. HIDE DEF R
  <2>. QED  BY <1>3, <2>1, Highest
<1>6. n # t.root
  BY <1>4, <1>5
<1>7. t.up[n] \in M /\ \E s \in Sides : t.link[t.up[n]][s] = n
  BY <1>1, <1>5, <1>6 DEF Linked
<1>8. PICK i \in Sides : t.link[t.up[n]][i] = n
  BY <1>7
<1>9. h[n] < h[t.up[n]] /\ h[n] \in Int /\ h[t.up[n]] \in Int
  BY <1>3, <1>4, <1>5, <1>7, <1>8
<1>10. t.up[n] \in M \cap T
  BY <1>5, <1>7, <1>9
<1>11. n # NULL
  BY <1>4, <1>5, NullAssumption
<1>. QED  BY <1>5, <1>8, <1>10, <1>11

\* A search for the key of a member ends at a member of that key.
HitsKey(p, M, rank, n) ==
  p # <<>> /\ p \in Seq(M) /\ p[Len(p)] \in M /\ rank[p[Len(p)]] = rank[n]

LEMMA SearchReaches ==
  ASSUME NEW t, NEW M, NEW rank, Sound(t, M), Sorted(t, M, rank), NEW n \in M,
         NEW p, p = SearchPath(t, rank, rank[n])
  PROVE  HitsKey(p, M, rank, n)
<1>. PICK k : k = rank[n]
  OBVIOUS
<1>1. TableType(t) /\ Linked(t, M)
  BY DEF Sound
<1>2. PICK H, h : Balanceable(t, h, H)
  BY DEF Sound
<1>3. PICK span : Ordered(t, M, rank, span)
  BY DEF Sorted
<1>4. t.root # NULL
  BY <1>1 DEF Linked
<1>5. Searched(t, M, rank, k, t.root, p)
  BY <1>1, <1>2, SearchFrom
<1>6. Walked(t, M, h, rank, k, p)
  BY <1>1, <1>2, <1>4, <1>5, PathWalked
<1>7. p \in Seq(M) /\ Len(p) \in Nat \ {0} /\ p[1] = t.root /\ p # <<>>
      /\ \A i \in 1 .. Len(p) : p[i] \in M /\ p[i] \in Node
  BY <1>6 DEF Walked
<1>8. k \in Int /\ k \in span[n]
  <2>1. n \in Node
    BY <1>1 DEF Linked
  <2>. QED  BY <1>3, <2>1 DEF Ordered
<1>9. CASE rank[p[Len(p)]] = k
  <2>1. Len(p) \in 1 .. Len(p)
    BY <1>7
  <2>. QED  BY <1>7, <1>9, <2>1 DEF HitsKey
<1>10. CASE rank[p[Len(p)]] # k
  <2>1. t.link[p[Len(p)]][Turn(rank, k, p[Len(p)])] = NULL
    BY <1>5, <1>7, <1>10 DEF Searched
  <2>2. \A i \in 1 .. Len(p) : rank[p[i]] # k
    <3>. SUFFICES ASSUME NEW i \in 1 .. Len(p)  PROVE rank[p[i]] # k
      OBVIOUS
    <3>1. CASE i = Len(p)
      BY <1>10, <3>1
    <3>2. CASE i \in 1 .. Len(p) - 1
      BY <1>5, <3>2 DEF Searched
    <3>. QED  BY <1>7, <3>1, <3>2
  \* Every member whose span holds k is on the path.
  <2>. DEFINE T == {m \in Node : k \in span[m] => \E i \in 1 .. Len(p) : p[i] = m}
  <2>3. t.root \in T
    <3>1. 1 \in 1 .. Len(p)
      BY <1>7
    <3>. QED  BY <1>7, <3>1
  <2>4. ASSUME NEW q \in M \cap T, NEW s \in Sides, t.link[q][s] # NULL
        PROVE  t.link[q][s] \in T
    <3>. PICK c : c = t.link[q][s]
      OBVIOUS
    <3>1. c \in Node
      BY <1>1, <2>4 DEF Linked
    <3>. SUFFICES ASSUME k \in span[c]  PROVE \E i \in 1 .. Len(p) : p[i] = c
      BY <3>1
    <3>2. span[c] = Part(span[q], rank[q], s)
      BY <1>3, <2>4 DEF Ordered
    <3>3. k \in span[q] /\ IF s = 0 THEN k < rank[q] ELSE k > rank[q]
      BY <3>2 DEF Part
    <3>4. Turn(rank, k, q) = s
      <4>1. q \in Node /\ rank[q] \in Int
        BY <1>3 DEF Ordered
      <4>. QED  BY <1>8, <3>3, <4>1 DEF Turn, Sides
    <3>5. PICK i \in 1 .. Len(p) : p[i] = q
      BY <3>3
    <3>6. i # Len(p)
      BY <2>1, <2>4, <3>4, <3>5
    <3>7. i \in 1 .. Len(p) - 1 /\ i + 1 \in 1 .. Len(p)
      BY <1>7, <3>6
    <3>8. p[i + 1] = c
      BY <1>6, <3>4, <3>5, <3>7 DEF Walked
    <3>. QED  BY <3>7, <3>8
  <2>. HIDE DEF T
  <2>5. M \subseteq T
    BY <2>3, <2>4, HandedDown
  <2>6. \E i \in 1 .. Len(p) : p[i] = n
    BY <1>8, <2>5 DEF T
  <2>. QED  BY <2>2, <2>6
<1>. QED  BY <1>7, <1>9, <1>10 DEF HitsKey

\* An item that is in the table is not inserted again (pavl_probe_node).
LEMMA ProbeAgain ==
  ASSUME NEW t, NEW M, NEW rank, Sound(t, M), Sorted(t, M, rank), NEW n \in M
  PROVE  Probe(t, rank, n) = t
<1>. PICK p : p = SearchPath(t, rank, rank[n])
  OBVIOUS
<1>0. HitsKey(p, M, rank, n)
  BY SearchReaches
<1>1. rank[p[Len(p)]] = rank[n]
  BY <1>0 DEF HitsKey
<1>2. t.root # NULL
  BY DEF Sound, Linked
<1>. QED  BY <1>1, <1>2 DEF Probe
=============================================================================
