-------------------------- MODULE PavlTableProofs --------------------------
(***************************************************************************)
(* The pavl table under any insertions is a search tree in balance, and to *)
(* its clients a sorted list of its keys.                                  *)
(***************************************************************************)
EXTENDS PavlTable, PavlProofs

\* t is a sound, ordered table of the items M, and counts them.
Holds(t, M) ==
  /\ Sound(t, M) /\ Sorted(t, M, key)
  /\ IsFiniteSet(M) /\ t.count = Cardinality(M)

\* The table is one, of some items.
IInv == \E M : Holds(tbl, M)

\* The keys along s.
KeysOf(s) == [i \in DOMAIN s |-> key[s[i]]]

\* They increase when the sequence rises.
LEMMA KeysIncreasing ==
  ASSUME NEW s \in Seq(Node), Rising(s, key, Int)
  PROVE  Increasing(KeysOf(s)) /\ ToSet(KeysOf(s)) = {key[m] : m \in ToSet(s)}
<1>1. Len(s) \in Nat /\ DOMAIN s = 1 .. Len(s) /\ ToSet(s) = {s[i] : i \in 1 .. Len(s)}
  BY DEF ToSet
<1>2. /\ KeysOf(s) \in Seq(Int) /\ Len(KeysOf(s)) = Len(s) /\ DOMAIN KeysOf(s) = 1 .. Len(s)
      /\ \A i \in 1 .. Len(s) : KeysOf(s)[i] = key[s[i]]
  <2>1. \A i \in 1 .. Len(s) : key[s[i]] \in Int
    BY <1>1, KeyAssumption
  <2>2. KeysOf(s) = [i \in 1 .. Len(s) |-> key[s[i]]]
    BY <1>1 DEF KeysOf
  <2>. QED  BY <1>1, <2>1, <2>2
<1>3. Increasing(KeysOf(s))
  <2>1. \A i, j \in 1 .. Len(KeysOf(s)) : i < j => KeysOf(s)[i] < KeysOf(s)[j]
    BY <1>2 DEF Rising
  <2>. QED  BY <1>2, <2>1, IncreasingFields
<1>4. ToSet(KeysOf(s)) = {KeysOf(s)[i] : i \in 1 .. Len(s)}
  BY <1>2 DEF ToSet
<1>. QED  BY <1>1, <1>2, <1>3, <1>4

\* What a table of M shows.
Shows(t, M) ==
  /\ InOrder(t) \in Seq(Node) /\ ToSet(InOrder(t)) = M
  /\ Rising(InOrder(t), key, Int) /\ Len(InOrder(t)) = t.count
  /\ Increasing(KeysOf(InOrder(t))) /\ ToSet(KeysOf(InOrder(t))) = {key[m] : m \in M}
  /\ LinksMirror(t) /\ Balanced(t)

\* A sound and ordered table shows just that.
LEMMA HoldsShows ==
  ASSUME NEW t, NEW M, Holds(t, M)
  PROVE  Shows(t, M)
<1>1. Sound(t, M) /\ Sorted(t, M, key) /\ t.count = Cardinality(M)
  BY DEF Holds
<1>2. InOrderIs(t, M, key)
  BY <1>1, InOrderOf
<1>3. InOrder(t) \in Seq(Node) /\ ToSet(InOrder(t)) = M /\ Rising(InOrder(t), key, Int)
  BY <1>2 DEF InOrderIs
<1>4. LinksMirror(t) /\ Balanced(t)
  BY <1>1, <1>3, SoundShape
<1>5. Cardinality(ToSet(InOrder(t))) = Len(InOrder(t))
  BY <1>3, RisingCount
<1>6. /\ Increasing(KeysOf(InOrder(t)))
      /\ ToSet(KeysOf(InOrder(t))) = {key[m] : m \in ToSet(InOrder(t))}
  BY <1>3, KeysIncreasing
<1>. QED  BY <1>1, <1>3, <1>4, <1>5, <1>6 DEF Shows

\* The empty table.
LEMMA EmptyHolds == Holds(EmptyTable, {})
<1>. PICK t : t = EmptyTable
  OBVIOUS
<1>1. Sound(t, {}) /\ t.root = NULL /\ t.count = 0
  BY EmptySound
<1>2. Sorted(t, {}, key)
  <2>1. Ordered(t, {}, key, [n \in Node |-> {}])
    BY <1>1, KeyAssumption DEF Ordered
  <2>. QED  BY <2>1 DEF Sorted
<1>3. IsFiniteSet({}) /\ Cardinality({}) = 0
  BY FS_EmptySet
<1>. QED  BY <1>1, <1>2, <1>3 DEF Holds

\* An insertion adds its item, or changes nothing.
LEMMA InsertHolds ==
  ASSUME NEW t, NEW M, Holds(t, M), NEW n \in Node \ M, NEW u, u = Probe(t, key, n)
  PROVE  \/ u = t /\ \E m \in M : key[m] = key[n]
         \/ Holds(u, M \cup {n})
<1>1. TableType(t) /\ Linked(t, M) /\ Sorted(t, M, key) /\ IsFiniteSet(M)
      /\ t.count = Cardinality(M)
  BY DEF Holds, Sound
<1>2. PICK H, h : Balanceable(t, h, H)
  BY DEF Holds, Sound
<1>3. Probing(t, M, h, H, key, n)
  BY <1>1, <1>2 DEF Probing
<1>4. Probed(u, t, M, key, n)
  <2>1. Probed(Probe(t, key, n), t, M, key, n)
    BY <1>3, ProbeSound
  <2>. QED  BY <2>1
<1>5. CASE ~(u = t /\ \E m \in M : key[m] = key[n])
  <2>1. /\ TableType(u) /\ Linked(u, M \cup {n}) /\ u.count = t.count + 1
        /\ \E H2, h2 : Balanceable(u, h2, H2) /\ (Sorted(t, M, key) => Sorted(u, M \cup {n}, key))
    BY <1>4, <1>5 DEF Probed
  <2>2. Sound(u, M \cup {n}) /\ Sorted(u, M \cup {n}, key)
    BY <1>1, <2>1 DEF Sound
  <2>3. IsFiniteSet(M \cup {n}) /\ Cardinality(M \cup {n}) = Cardinality(M) + 1
    BY <1>1, FS_AddElement
  <2>. QED  BY <1>1, <2>1, <2>2, <2>3 DEF Holds
<1>. QED  BY <1>5

\* What the insertion of n shows to the clients: the list of keys changes as the
\* abstract one does.
AddsKey(l, k, m) ==
  /\ k \notin ToSet(l)
  /\ \E i : IsPlace(l, k, i)
  /\ \A i : IsPlace(l, k, i) => m = InsertAt(l, i, k)

\* Every insertion that adds an item adds its key.
LEMMA InsertAdds ==
  ASSUME NEW t, NEW M, Holds(t, M), NEW n \in Node \ M, NEW u, Holds(u, M \cup {n})
  PROVE  AddsKey(KeysOf(InOrder(t)), key[n], KeysOf(InOrder(u)))
<1>. PICK l, r : l = KeysOf(InOrder(t)) /\ r = KeysOf(InOrder(u))
  OBVIOUS
<1>1. Increasing(l) /\ ToSet(l) = {key[m] : m \in M}
  BY HoldsShows DEF Shows
<1>2. Increasing(r) /\ ToSet(r) = {key[m] : m \in M \cup {n}}
  BY HoldsShows DEF Shows
<1>3. key[n] \in Int
  BY KeyAssumption
<1>4. \A m \in M : key[m] # key[n]
  <2>. PICK s : s = InOrder(u)
    OBVIOUS
  <2>1. s \in Seq(Node) /\ ToSet(s) = M \cup {n} /\ Rising(s, key, Int)
    BY HoldsShows DEF Shows
  <2>2. DOMAIN s = 1 .. Len(s) /\ Len(s) \in Nat /\ ToSet(s) = {s[i] : i \in 1 .. Len(s)}
    BY <2>1 DEF ToSet
  <2>. SUFFICES ASSUME NEW m \in M, key[m] = key[n]  PROVE FALSE
    OBVIOUS
  <2>3. PICK i \in 1 .. Len(s) : s[i] = m
    BY <2>1, <2>2
  <2>4. PICK j \in 1 .. Len(s) : s[j] = n
    BY <2>1, <2>2
  <2>5. i # j
    BY <2>3, <2>4
  <2>6. ~(key[s[i]] < key[s[j]]) /\ ~(key[s[j]] < key[s[i]])
    BY <1>3, <2>3, <2>4
  <2>. QED  BY <2>1, <2>2, <2>5, <2>6 DEF Rising
<1>5. key[n] \notin ToSet(l)
  BY <1>1, <1>4
<1>6. \E i : IsPlace(l, key[n], i)
  BY <1>1, <1>3, <1>5, PlaceExists
<1>7. ASSUME NEW i, IsPlace(l, key[n], i)
      PROVE  r = InsertAt(l, i, key[n])
  <2>1. PICK k : k = key[n]
    OBVIOUS
  <2>2. PICK q : q = InsertAt(l, i, k)
    OBVIOUS
  <2>3. Increasing(q) /\ ToSet(q) = ToSet(l) \cup {k}
    BY <1>1, <1>3, <1>7, <2>1, <2>2, PlaceIncreasing
  <2>4. ToSet(q) = ToSet(r)
    BY <1>1, <1>2, <2>1, <2>3
  <2>5. q = r
    BY <1>2, <2>3, <2>4, IncreasingUnique
  <2>. QED  BY <2>1, <2>2, <2>5
<1>. QED  BY <1>5, <1>6, <1>7 DEF AddsKey

-----------------------------------------------------------------------------
(* The theorems. *)

\* The table of pavl_create is sound.
LEMMA InitHolds == Init => IInv
  BY EmptyHolds DEF Init, IInv

\* One step of the table, seen with and without its shape.
LEMMA NextHolds ==
  ASSUME IInv, [Next]_tbl
  PROVE  IInv' /\ [Abstract!Next]_StoredKeys
<1>1. PICK M : Holds(tbl, M)
  BY DEF IInv
<1>2. CASE tbl' = tbl
  <2>1. Holds(tbl', M)
    BY <1>1, <1>2
  <2>2. StoredKeys' = StoredKeys
    BY <1>2 DEF StoredKeys
  <2>3. IInv'
    BY <2>1 DEF IInv
  <2>. QED  BY <2>2, <2>3
<1>3. ASSUME NEW n \in Node, Insert(n), tbl' # tbl
      PROVE  IInv' /\ Abstract!Next
  <2>1. tbl' = Probe(tbl, key, n)
    BY <1>3 DEF Insert
  <2>2. n \in Node \ M
    <3>1. n \in M => Probe(tbl, key, n) = tbl
      BY <1>1, ProbeAgain DEF Holds
    <3>. QED  BY <1>3, <2>1, <3>1
  <2>3. Holds(tbl', M \cup {n})
    <3>. PICK u : u = tbl'
      OBVIOUS
    <3>1. Holds(u, M \cup {n})
      BY <1>1, <1>3, <2>1, <2>2, InsertHolds
    <3>. QED  BY <3>1
  <2>4. IInv'
    BY <2>3 DEF IInv
  <2>5. AddsKey(StoredKeys, key[n], StoredKeys')
    <3>. PICK u : u = tbl'
      OBVIOUS
    <3>1. AddsKey(KeysOf(InOrder(tbl)), key[n], KeysOf(InOrder(u)))
      BY <1>1, <2>2, <2>3, InsertAdds
    <3>2. StoredKeys = KeysOf(InOrder(tbl)) /\ StoredKeys' = KeysOf(InOrder(u))
      BY DEF StoredKeys, KeysOf
    <3>. QED  BY <3>1, <3>2
  <2>6. Abstract!Add(key[n])
    <3>. PICK k : k = key[n]
      OBVIOUS
    <3>1. /\ k \notin ToSet(StoredKeys)
          /\ \E i : IsPlace(StoredKeys, k, i)
          /\ \A i : IsPlace(StoredKeys, k, i) => StoredKeys' = InsertAt(StoredKeys, i, k)
      BY <2>5 DEF AddsKey
    <3>2. IsPlace(StoredKeys, k, Abstract!Place(k))
      BY <3>1 DEF IsPlace, Abstract!Place
    <3>3. StoredKeys' = InsertAt(StoredKeys, Abstract!Place(k), k)
      BY <3>1, <3>2
    <3>4. Abstract!ToSet(StoredKeys) = ToSet(StoredKeys)
      BY DEF ToSet, Abstract!ToSet
    <3>5. \A i : Abstract!InsertAt(StoredKeys, i, k) = InsertAt(StoredKeys, i, k)
      BY DEF InsertAt, Abstract!InsertAt
    <3>. QED  BY <3>1, <3>3, <3>4, <3>5 DEF Abstract!Add
  <2>. QED  BY <2>4, <2>6 DEF Abstract!Next
<1>. QED  BY <1>2, <1>3 DEF Next

\* Every table that insertions build is sound.
THEOREM TableSound == Spec => []IInv
<1>1. IInv /\ [Next]_tbl => IInv'
  BY NextHolds
<1>. QED  BY <1>1, InitHolds, PTL DEF Spec

\* Type correctness: pavl_count is never more than there are items.
THEOREM TypeCorrect == Spec => []TypeOK
<1>1. IInv => TypeOK
  <2>. SUFFICES ASSUME NEW M, Holds(tbl, M)  PROVE TypeOK
    BY DEF IInv
  <2>1. TableType(tbl) /\ Linked(tbl, M) /\ tbl.count = Cardinality(M)
    BY DEF Holds, Sound
  <2>2. PICK H, h : Balanceable(tbl, h, H)
    BY DEF Holds, Sound
  <2>3. tbl.bal \in [Node -> -1 .. 1]
    <3>1. tbl.bal \in [Node -> Int] /\ \A n \in Node : tbl.bal[n] \in -1 .. 1
      BY <2>1, <2>2 DEF TableType, Balanceable
    <3>. QED  BY <3>1
  <2>4. Cardinality(M) \in Nat /\ Cardinality(Node) \in Nat /\ Cardinality(M) <= Cardinality(Node)
    <3>1. M \subseteq Node
      BY <2>1 DEF Linked
    <3>. QED  BY <3>1, FiniteAssumption, FS_Subset, FS_CardinalityType
  <2>5. tbl.count \in 0 .. Cardinality(Node)
    BY <2>1, <2>4
  <2>. QED  BY <2>1, <2>3, <2>5 DEF TypeOK, TableType, Slot, Sides
<1>. QED  BY <1>1, TableSound, PTL

\* Links, parents and balances agree with the shape after every insertion, whichever
\* rotation it needed.
THEOREM ShapeStaysSound == Spec => []ShapeSound
<1>1. IInv => ShapeSound
  BY HoldsShows DEF IInv, Shows, ShapeSound
<1>. QED  BY <1>1, TableSound, PTL

\* pavl_count counts the nodes that can be reached, each of them once.
THEOREM CountStaysExact == Spec => []CountExact
<1>1. IInv => CountExact
  <2>. SUFFICES ASSUME NEW M, Holds(tbl, M)  PROVE CountExact
    BY DEF IInv
  <2>1. ToSet(InOrder(tbl)) = M /\ Len(InOrder(tbl)) = tbl.count
    BY HoldsShows DEF Shows
  <2>. QED  BY <2>1 DEF Holds, CountExact
<1>. QED  BY <1>1, TableSound, PTL

\* To its clients the table is the increasing list of its keys.
THEOREM TableIsSortedList == Spec => RefinesSortedList
<1>1. Init => Abstract!Init
  <2>. SUFFICES ASSUME Init  PROVE StoredKeys = <<>>
    BY DEF Abstract!Init
  <2>1. Holds(tbl, {})
    BY EmptyHolds DEF Init
  <2>2. InOrder(tbl) \in Seq(Node) /\ ToSet(InOrder(tbl)) = {}
    BY <2>1, HoldsShows DEF Shows
  <2>. PICK s : s = InOrder(tbl)
    OBVIOUS
  <2>3. s \in Seq(Node) /\ DOMAIN s = 1 .. Len(s) /\ Len(s) \in Nat /\ DOMAIN s = {}
    BY <2>2 DEF ToSet
  <2>4. StoredKeys = [i \in {} |-> key[s[i]]]
    BY <2>3 DEF StoredKeys
  <2>. QED  BY <2>4
<1>2. IInv /\ [Next]_tbl => [Abstract!Next]_StoredKeys
  BY NextHolds
<1>. QED  BY <1>1, <1>2, TableSound, PTL DEF Spec, RefinesSortedList, Abstract!Spec
=============================================================================
