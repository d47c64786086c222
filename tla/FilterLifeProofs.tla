-------------------------- MODULE FilterLifeProofs --------------------------
(***************************************************************************)
(* Proofs about FilterLife, for any number of trees and filters: a client  *)
(* that keeps to one filter per tree uses and frees nothing twice, and a   *)
(* filter that is gone has left nothing behind.                            *)
(***************************************************************************)
EXTENDS FilterLife, TLAPS

Types ==
  /\ tree \in [Tree -> {"none", "live", "freed"}]
  /\ dfilter \in [Tree -> Filter \cup {NULL}]
  /\ filter \in [Filter -> {"none", "live", "gone"}]
  /\ troot \in [Filter -> Tree \cup {NULL}]
  /\ tables \in [Filter -> {"none", "live", "freed"}]
  /\ dnodes \in [Filter -> {"none", "live", "freed"}]
  /\ misused \in BOOLEAN /\ fault \in BOOLEAN

\* A filter that is not made yet has nothing, and one without a tree never had.
Unmade ==
  \A f \in Filter :
    /\ filter[f] = "gone" => troot[f] = NULL
    /\ filter[f] = "none" => troot[f] = NULL /\ dnodes[f] = "none"
    /\ dnodes[f] = "none" => tables[f] # "freed" /\ \A t \in Tree : dfilter[t] # f

\* A live tree with DNodes belongs to a live filter over it, and a filter has one tree.
Owned ==
  \A t \in Tree :
    /\ dfilter[t] # NULL /\ tree[t] = "live" =>
         filter[dfilter[t]] = "live" /\ troot[dfilter[t]] = t
    /\ tree[t] = "none" => dfilter[t] = NULL
    /\ dfilter[t] # NULL => \A s \in Tree : dfilter[s] = dfilter[t] => s = t

IInv ==
  /\ Types
  /\ fault => misused
  /\ ~misused => Unmade /\ Owned /\ FilterWhole /\ NothingLeft

LEMMA InitIInv == Init => IInv
BY NullAssumption DEF Init, IInv, Types, Unmade, Owned, FilterWhole, NothingLeft

LEMMA BuildIInv == IInv /\ (\E t \in Tree : Build(t)) => IInv'
BY NullAssumption DEF Build, IInv, Types, Unmade, Owned, FilterWhole, NothingLeft

LEMMA MakeEmptyIInv == IInv /\ (\E f \in Filter : MakeEmpty(f)) => IInv'
BY NullAssumption DEF MakeEmpty, IInv, Types, Unmade, Owned, FilterWhole, NothingLeft

LEMMA QueryIInv == IInv /\ (\E f \in Filter : Query(f)) => IInv'
BY NullAssumption DEF Query, IInv, Types, Unmade, Owned, FilterWhole, NothingLeft

LEMMA MakeIInv == IInv /\ (\E f \in Filter, t \in Tree : Make(f, t)) => IInv'
<1> SUFFICES ASSUME IInv, NEW f \in Filter, NEW t \in Tree, Make(f, t) PROVE IInv'
  OBVIOUS
<1>1. Types' /\ (fault' => misused')
  BY DEF Make, UseFreed, IInv, Types
<1>2. ASSUME ~misused' PROVE Unmade' /\ Owned' /\ FilterWhole' /\ NothingLeft'
  <2>1. ~misused /\ tree[t] = "live" /\ LiveFilters(t) = {} /\ Unmade /\ Owned /\ FilterWhole /\ NothingLeft
    BY <1>2 DEF Make, IInv, Types
  <2>2. dfilter[t] = NULL
    BY <2>1 DEF Owned, LiveFilters, Types, IInv
  <2>3. /\ filter' = [filter EXCEPT ![f] = "live"] /\ troot' = [troot EXCEPT ![f] = t]
        /\ tables' = [tables EXCEPT ![f] = "live"] /\ dnodes' = [dnodes EXCEPT ![f] = "live"]
        /\ dfilter' = [dfilter EXCEPT ![t] = f] /\ tree' = tree
        /\ filter[f] = "none"
    BY <2>1 DEF Make
  <2>4. /\ filter \in [Filter -> {"none", "live", "gone"}] /\ troot \in [Filter -> Tree \cup {NULL}]
        /\ tables \in [Filter -> {"none", "live", "freed"}] /\ dnodes \in [Filter -> {"none", "live", "freed"}]
        /\ dfilter \in [Tree -> Filter \cup {NULL}] /\ \A s \in Tree : dfilter[s] # f
    BY <2>1, <2>3 DEF IInv, Types, Unmade
  <2>5. Unmade'
    BY <2>1, <2>3, <2>4, NullAssumption DEF Unmade
  <2>6. Owned'
    BY <2>1, <2>2, <2>3, <2>4, NullAssumption DEF Owned
  <2>7. FilterWhole'
    BY <2>1, <2>2, <2>3, <2>4, NullAssumption DEF FilterWhole
  <2>8. NothingLeft'
    BY <2>1, <2>2, <2>3, <2>4, NullAssumption DEF NothingLeft
  <2> QED BY <2>5, <2>6, <2>7, <2>8
<1> QED BY <1>1, <1>2 DEF IInv

\* What delete_tree does to a live tree: it and its filter's DNodes and tables go.
Freed(t) ==
  /\ tree' = [tree EXCEPT ![t] = "freed"]
  /\ dfilter' = dfilter
  /\ fault' = fault
  /\ \/ dfilter[t] = NULL /\ tables' = tables /\ dnodes' = dnodes
     \/ /\ dfilter[t] \in Filter
        /\ tables' = [tables EXCEPT ![dfilter[t]] = "freed"]
        /\ dnodes' = [dnodes EXCEPT ![dfilter[t]] = "freed"]

LEMMA DeleteFrees ==
  ASSUME Types, Owned, NEW t \in Tree, tree[t] = "live", DeleteTree(t)
  PROVE  Freed(t)
BY NullAssumption DEF Types, Owned, DeleteTree, Freed

LEMMA DeleteTypes ==
  ASSUME Types, NEW t \in Tree, DeleteTree(t)
  PROVE  /\ tree' \in [Tree -> {"none", "live", "freed"}] /\ dfilter' = dfilter
         /\ tables' \in [Filter -> {"none", "live", "freed"}]
         /\ dnodes' \in [Filter -> {"none", "live", "freed"}]
         /\ fault' \in BOOLEAN
BY DEF Types, DeleteTree, UseFreed

LEMMA ClientDeletesIInv == IInv /\ (\E t \in Tree : ClientDeletes(t)) => IInv'
<1> SUFFICES ASSUME IInv, NEW t \in Tree, ClientDeletes(t) PROVE IInv'
  OBVIOUS
<1>1. Types' 
  BY DeleteTypes DEF ClientDeletes, IInv, Types
<1>2. ASSUME ~misused' PROVE ~fault' /\ Unmade' /\ Owned' /\ FilterWhole' /\ NothingLeft'
  <2>1. ~misused /\ tree[t] = "live" /\ LiveFilters(t) = {} /\ Types /\ Unmade /\ Owned /\ FilterWhole /\ NothingLeft
    BY <1>2 DEF ClientDeletes, IInv, Types
  <2>2. dfilter[t] = NULL
    BY <2>1 DEF Owned, LiveFilters, Types
  <2>3. Freed(t)
    BY <2>1, DeleteFrees DEF ClientDeletes
  <2>4. /\ tree' = [tree EXCEPT ![t] = "freed"]
        /\ UNCHANGED <<dfilter, filter, troot, tables, dnodes, fault>> /\ ~fault
    BY <2>2, <2>3, NullAssumption DEF ClientDeletes, Freed
  <2>5. \A g \in Filter : filter[g] = "live" => troot[g] # t
    BY <2>1 DEF LiveFilters
  <2>6. Unmade' /\ Owned' /\ FilterWhole' /\ NothingLeft'
    BY <2>1, <2>2, <2>4, <2>5, NullAssumption DEF Types, Unmade, Owned, FilterWhole, NothingLeft
  <2> QED BY <2>4, <2>6
<1> QED BY <1>1, <1>2 DEF IInv, Types

\* The tree of the live filter f is freed, and f has it no longer.
LEMMA FilterFreed ==
  ASSUME Types, ~misused, ~misused', Unmade, Owned, FilterWhole, NothingLeft,
         NEW f \in Filter, filter[f] = "live", troot[f] # NULL,
         DeleteTree(troot[f]), troot' = [troot EXCEPT ![f] = NULL],
         NEW state \in {"live", "gone"}, filter' = [filter EXCEPT ![f] = state]
  PROVE  fault' = fault /\ Unmade' /\ Owned' /\ FilterWhole' /\ NothingLeft'
<1> DEFINE t == troot[f]
<1>1. t \in Tree /\ tree[t] = "live" /\ dfilter[t] = f
  BY DEF Types, FilterWhole
<1>2. Freed(t)
  BY <1>1, DeleteFrees
<1>3. /\ tree' = [tree EXCEPT ![t] = "freed"] /\ dfilter' = dfilter /\ fault' = fault
      /\ tables' = [tables EXCEPT ![f] = "freed"] /\ dnodes' = [dnodes EXCEPT ![f] = "freed"]
  BY <1>1, <1>2, NullAssumption DEF Freed
<1>4. \A s \in Tree : dfilter[s] = f => s = t
  BY <1>1, NullAssumption DEF Owned, Types
<1> HIDE DEF t
<1>5. Unmade'
  BY <1>3, <1>1, NullAssumption DEF Types, Unmade
<1>6. Owned'
  BY <1>1, <1>3, <1>4, NullAssumption DEF Types, Owned
<1>7. FilterWhole'
  BY <1>1, <1>3, <1>4, NullAssumption DEF Types, FilterWhole
<1>8. NothingLeft'
  BY <1>1, <1>3, <1>4, NullAssumption DEF Types, NothingLeft
<1> QED BY <1>3, <1>5, <1>6, <1>7, <1>8

LEMMA FilterDeletesIInv == IInv /\ (\E f \in Filter : FilterDeletes(f)) => IInv'
<1> SUFFICES ASSUME IInv, NEW f \in Filter, FilterDeletes(f) PROVE IInv'
  OBVIOUS
<1>1. Types'
  <2>1. troot[f] \in Tree
    BY DEF FilterDeletes, IInv, Types
  <2> QED BY <2>1, DeleteTypes DEF FilterDeletes, IInv, Types
<1>2. ASSUME ~misused' PROVE ~fault' /\ Unmade' /\ Owned' /\ FilterWhole' /\ NothingLeft'
  <2>1. ~misused /\ Types /\ Unmade /\ Owned /\ FilterWhole /\ NothingLeft
    BY <1>2 DEF FilterDeletes, IInv, Types
  <2>2. filter' = [filter EXCEPT ![f] = "live"]
    BY <2>1 DEF FilterDeletes, Types
  <2> QED BY <1>2, <2>1, <2>2, FilterFreed DEF FilterDeletes
<1> QED BY <1>1, <1>2 DEF IInv, Types

LEMMA DestroyIInv == IInv /\ (\E f \in Filter : Destroy(f)) => IInv'
<1> SUFFICES ASSUME IInv, NEW f \in Filter, Destroy(f) PROVE IInv'
  OBVIOUS
<1>1. CASE troot[f] = NULL
  BY <1>1, NullAssumption DEF Destroy, IInv, Types, Unmade, Owned, FilterWhole, NothingLeft
<1>2. CASE troot[f] # NULL
  <2>1. troot[f] \in Tree
    BY <1>2 DEF IInv, Types
  <2>2. Types'
    BY <1>2, <2>1, DeleteTypes DEF Destroy, IInv, Types
  <2>3. ASSUME ~misused' PROVE ~fault' /\ Unmade' /\ Owned' /\ FilterWhole' /\ NothingLeft'
    <3>1. ~misused /\ Types /\ Unmade /\ Owned /\ FilterWhole /\ NothingLeft
      BY <2>3 DEF Destroy, IInv, Types
    <3> QED BY <1>2, <2>3, <3>1, FilterFreed DEF Destroy
  <2> QED BY <2>2, <2>3 DEF IInv, Types
<1> QED BY <1>1, <1>2

LEMMA Invariance == Spec => []IInv
<1>1. IInv /\ [Next]_vars => IInv'
  <2> SUFFICES ASSUME IInv, [Next]_vars PROVE IInv'
    OBVIOUS
  <2>1. CASE Next
    BY <2>1, BuildIInv, ClientDeletesIInv, MakeIInv, MakeEmptyIInv, FilterDeletesIInv,
       DestroyIInv, QueryIInv DEF Next
  <2>2. CASE UNCHANGED vars
    BY <2>2 DEF vars, IInv, Types, Unmade, Owned, FilterWhole, NothingLeft
  <2> QED BY <2>1, <2>2
<1> QED BY InitIInv, <1>1, PTL DEF Spec

\* Nothing freed is used and nothing is freed twice as long as a tree has one filter
\* and, while that lives, is deleted by it only (the destructor and delete_tree,
\* dfilter.cpp:220-249, 628-631).
THEOREM Safety == Spec => []SafeUnlessMisused
<1>1. IInv => SafeUnlessMisused
  BY DEF IInv, SafeUnlessMisused
<1> QED BY Invariance, <1>1, PTL

\* A filter that is gone, or whose tree is, has left no tree, DNodes or tables behind;
\* a live one has all of them (dfilter.cpp:613-631).
THEOREM NoLeak == Spec => []NothingLeft /\ []FilterWhole
<1>1. IInv => NothingLeft /\ FilterWhole
  BY DEF IInv, NothingLeft, FilterWhole
<1> QED BY Invariance, <1>1, PTL
=============================================================================
