----------------------------- MODULE FilterLife -----------------------------
(***************************************************************************)
(* v1's memory: who frees a tree and what hangs on it.  A filter made over *)
(* a tree gives every TNode a DNode, which refers back to the filter, and  *)
(* has its tables of these DNodes.  delete_tree frees the nodes of a tree, *)
(* their DNodes and the tables of the filter these refer to; the           *)
(* destructor of a filter calls it on the filter's tree.                   *)
(*                                                                         *)
(* A tree's nodes are freed together, and so are the DNodes of a filter    *)
(* and its tables: each is one object here.  The client may do anything,   *)
(* and `misused` remembers whether it has ever done more than one filter   *)
(* and one owner per tree allow.                                           *)
(***************************************************************************)
CONSTANTS Tree, Filter, NULL

ASSUME NullAssumption == NULL \notin Tree \cup Filter

VARIABLES tree,     \* the TNodes of each tree: "none" yet, "live" or "freed"
          dfilter,  \* what the DNodes of each tree refer to, NULL if it has none
          filter,   \* each filter: "none" yet, "live" or "gone"
          troot,    \* DFilter::troot
          tables,   \* tbl and the type tables of each filter
          dnodes,   \* the DNodes each filter has made
          misused,
          fault     \* freed memory has been used

vars == <<tree, dfilter, filter, troot, tables, dnodes, misused, fault>>

LiveFilters(t) == {f \in Filter : filter[f] = "live" /\ troot[f] = t}

UseFreed ==
  /\ fault' = TRUE
  /\ UNCHANGED <<tree, dfilter, tables, dnodes>>

\* The client builds a tree.
Build(t) ==
  /\ ~fault /\ tree[t] = "none"
  /\ tree' = [tree EXCEPT ![t] = "live"]
  /\ UNCHANGED <<dfilter, filter, troot, tables, dnodes, misused, fault>>

\* DFilter()
MakeEmpty(f) ==
  /\ ~fault /\ filter[f] = "none"
  /\ filter' = [filter EXCEPT ![f] = "live"]
  /\ tables' = [tables EXCEPT ![f] = "live"]
  /\ UNCHANGED <<tree, dfilter, troot, dnodes, misused, fault>>

\* DFilter(root): every node of the tree gets a new DNode, whether it has one or not.
Make(f, t) ==
  /\ ~fault /\ filter[f] = "none" /\ tree[t] # "none"
  /\ filter' = [filter EXCEPT ![f] = "live"]
  /\ troot' = [troot EXCEPT ![f] = t]
  /\ misused' = (misused \/ tree[t] = "freed" \/ LiveFilters(t) # {})
  /\ IF tree[t] = "freed" THEN UseFreed
     ELSE /\ tables' = [tables EXCEPT ![f] = "live"]
          /\ dnodes' = [dnodes EXCEPT ![f] = "live"]
          /\ dfilter' = [dfilter EXCEPT ![t] = f]
          /\ UNCHANGED <<tree, fault>>

\* A mutant: the tables stay.
FreeNodes(t) ==
  IF tree[t] = "freed" THEN UseFreed
  ELSE IF dfilter[t] = NULL
       THEN tree' = [tree EXCEPT ![t] = "freed"] /\ UNCHANGED <<dfilter, tables, dnodes, fault>>
  ELSE IF filter[dfilter[t]] = "gone" THEN UseFreed
  ELSE /\ tree' = [tree EXCEPT ![t] = "freed"]
       /\ dnodes' = [dnodes EXCEPT ![dfilter[t]] = "freed"]
       /\ UNCHANGED <<dfilter, tables, fault>>

\* delete_tree: the filter to clean up is the one the root's DNode refers to.
DeleteTree(t) ==
  IF tree[t] = "freed" THEN UseFreed
  ELSE IF dfilter[t] = NULL
       THEN tree' = [tree EXCEPT ![t] = "freed"] /\ UNCHANGED <<dfilter, tables, dnodes, fault>>
  ELSE IF filter[dfilter[t]] = "gone" THEN UseFreed
  ELSE /\ tree' = [tree EXCEPT ![t] = "freed"]
       /\ dnodes' = [dnodes EXCEPT ![dfilter[t]] = "freed"]
       /\ tables' = [tables EXCEPT ![dfilter[t]] = "freed"]
       /\ UNCHANGED <<dfilter, fault>>

\* The client calls delete_tree(root), with a pointer of its own to the tree.
ClientDeletes(t) ==
  /\ ~fault /\ tree[t] # "none"
  /\ DeleteTree(t)
  /\ misused' = (misused \/ tree[t] = "freed" \/ LiveFilters(t) # {})
  /\ UNCHANGED <<filter, troot>>

\* A mutant: the caller's pointer to the root is not cleared.
FilterDeletesKept(f) ==
  /\ ~fault /\ filter[f] = "live" /\ troot[f] # NULL
  /\ DeleteTree(troot[f])
  /\ misused' = (misused \/ tree[troot[f]] = "freed" \/ LiveFilters(troot[f]) # {f})
  /\ UNCHANGED <<filter, troot>>

\* The client calls delete_tree(filter.troot), which clears troot.
FilterDeletes(f) ==
  /\ ~fault /\ filter[f] = "live" /\ troot[f] # NULL
  /\ DeleteTree(troot[f])
  /\ misused' = (misused \/ tree[troot[f]] = "freed" \/ LiveFilters(troot[f]) # {f})
  /\ troot' = [troot EXCEPT ![f] = NULL]
  /\ UNCHANGED filter

\* ~DFilter()
Destroy(f) ==
  /\ ~fault /\ filter[f] = "live"
  /\ filter' = [filter EXCEPT ![f] = "gone"]
  /\ IF troot[f] = NULL THEN UNCHANGED <<tree, dfilter, troot, tables, dnodes, fault>>
     ELSE DeleteTree(troot[f]) /\ troot' = [troot EXCEPT ![f] = NULL]
  /\ UNCHANGED misused

\* A query searches the filter's tables and reads the nodes it finds there.  The
\* client should not ask a filter whose tree it has deleted.
Query(f) ==
  /\ ~fault /\ filter[f] = "live"
  /\ misused' = (misused \/ (troot[f] = NULL /\ dnodes[f] # "none"))
  /\ fault' = (tables[f] = "freed")
  /\ UNCHANGED <<tree, dfilter, filter, troot, tables, dnodes>>

Init ==
  /\ tree = [t \in Tree |-> "none"]
  /\ dfilter = [t \in Tree |-> NULL]
  /\ filter = [f \in Filter |-> "none"]
  /\ troot = [f \in Filter |-> NULL]
  /\ tables = [f \in Filter |-> "none"]
  /\ dnodes = [f \in Filter |-> "none"]
  /\ misused = FALSE /\ fault = FALSE

Next ==
  \/ \E t \in Tree : Build(t) \/ ClientDeletes(t) \/ \E f \in Filter : Make(f, t)
  \/ \E f \in Filter : MakeEmpty(f) \/ FilterDeletes(f) \/ Destroy(f) \/ Query(f)

Spec == Init /\ [][Next]_vars

-----------------------------------------------------------------------------

\* Nothing is freed twice and nothing freed is used as long as a tree has one filter
\* and, while that lives, is deleted by it only (dfilter.cpp:220-249, 628-631; tests
\* leave their own call out, test.cpp:316).
SafeUnlessMisused == fault => misused

\* A filter that is gone, or whose tree is, has left nothing behind: the tree, the
\* DNodes and the tables are freed.  Only the tables of a filter that never had a tree
\* are lost.
NothingLeft ==
  ~misused =>
    \A f \in Filter : filter[f] = "gone" \/ troot[f] = NULL =>
      /\ dnodes[f] # "live"
      /\ dnodes[f] = "freed" => tables[f] = "freed"
      /\ \A t \in Tree : dfilter[t] = f => tree[t] = "freed"

\* A live filter's tree and everything the filter has made for it is there.
FilterWhole ==
  ~misused =>
    \A f \in Filter : filter[f] = "live" /\ troot[f] # NULL =>
      /\ tree[troot[f]] = "live" /\ dfilter[troot[f]] = f
      /\ dnodes[f] = "live" /\ tables[f] = "live"
=============================================================================
