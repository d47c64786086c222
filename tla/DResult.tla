------------------------------ MODULE DResult ------------------------------
(***************************************************************************)
(* The iterator a query answers with, over a DFilter that changes under    *)
(* it.  A DResult holds pointers into the table of its type and walks the  *)
(* table's links: next() refuses to go on (an assertion aborts) once an    *)
(* insertion has renumbered nodes, but a node appended at the end of the   *)
(* tree renumbers nothing, rebalances the very table being walked, and     *)
(* goes unnoticed.                                                         *)
(***************************************************************************)
EXTENDS DFilter

VARIABLES cursor,    \* the DResult the client iterates over
          given,     \* the nodes next() has returned (auxiliary): at most one more
                     \* than there can be
          promised   \* what the query enumerated when it was made (auxiliary)

resultVars == <<cursor, given, promised>>
allVars == <<vars, resultVars>>

NoResult == [first |-> NULL, last |-> NULL, node |-> NULL, type |-> NULL,
             base_mod |-> 0, type_mod |-> 0]

\* has_next(), which calls dfi() on the two nodes it compares.
HasNext == cursor.node # NULL /\ val[cursor.node] <= val[cursor.last]

\* A query and the DResult it constructs; the client has finished with the one before.
Begin(n, k) ==
  /\ ~HasNext
  /\ Query(n, k)
  /\ \E answer \in {Descendants(n, k)} :
       /\ cursor' = IF answer.first = NULL THEN NoResult
                    ELSE [first |-> answer.first, last |-> answer.last,
                          node |-> answer.first, type |-> k,
                          base_mod |-> idx.latest_mod,
                          type_mod |-> ty.latest_type_mods[k]]
       /\ given' = <<>>
       /\ promised' = Enumerated(answer, k)

\* A mutant: the climb stops at the first parent.
FollowingParent(t, n) ==
  LET leftmost[m \in Node] ==
        IF t.link[m][0] = NULL THEN m ELSE leftmost[t.link[m][0]]
  IN  IF t.link[n][1] # NULL THEN leftmost[t.link[n][1]] ELSE t.up[n]

\* The node after n in a table, found along its links: down to the right, or up to
\* the first node that is reached from the left.
Following(t, n) ==
  LET leftmost[m \in Node] ==
        IF t.link[m][0] = NULL THEN m ELSE leftmost[t.link[m][0]]
      climb[m \in Node] ==
        IF t.up[m] = NULL THEN NULL
        ELSE IF t.link[t.up[m]][0] = m THEN t.up[m]
        ELSE climb[t.up[m]]
  IN  IF t.link[n][1] # NULL THEN leftmost[t.link[n][1]] ELSE climb[n]

\* next() goes on only while nothing has been renumbered.
Current == /\ cursor.base_mod = idx.latest_mod
           /\ cursor.type_mod = ty.latest_type_mods[cursor.type]

\* One turn of the client's loop: has_next(), then next().
Advance ==
  /\ fault = 0
  /\ HasNext
  /\ IF Current
     THEN /\ Read({cursor.node, cursor.last})
          /\ given' = IF Len(given) > MaxNodes THEN given ELSE Append(given, cursor.node)
          /\ cursor' = [cursor EXCEPT
               !.node = IF cursor.first = cursor.last THEN NULL
                        ELSE Following(type_tables[cursor.type], cursor.node)]
          /\ UNCHANGED promised
     ELSE /\ fault' = 789
          /\ UNCHANGED <<tree, size, idx, suc, tbl, type, ty, type_tables, unread, resultVars>>

\* A mutant: the difference of the numbers.
ResultSizeShort ==
  IF cursor.first = NULL THEN 0
  ELSE IF cursor.first = cursor.last THEN 1
  ELSE CalledType(ty, cursor.last).type_base_index[cursor.last]
         - CalledType(CalledType(ty, cursor.last), cursor.first).type_base_index[cursor.first]

\* The number size() returns.
ResultSize ==
  IF cursor.first = NULL THEN 0
  ELSE IF cursor.first = cursor.last THEN 1
  ELSE CalledType(ty, cursor.last).type_base_index[cursor.last]
         - CalledType(CalledType(ty, cursor.last), cursor.first).type_base_index[cursor.first] + 1

ResultInit == Init /\ cursor = NoResult /\ given = <<>> /\ promised = <<>>

ResultNext ==
  \/ \E n \in Nodes, k \in Types : Begin(n, k)
  \/ Advance
  \/ /\ \/ \E p \in Nodes, pos \in 0 .. MaxNodes, k \in Types : Insert(p, pos, k)
        \/ Read(Nodes)
     /\ UNCHANGED resultVars

\* A client that has begun to iterate goes on until has_next() says no.
ResultSpec == ResultInit /\ [][ResultNext]_allVars /\ WF_allVars(Advance)

-----------------------------------------------------------------------------
(* What an iteration promises *)

\* next() returns what the query promised, in that order, and has_next() says no
\* only after the last of it, whatever is inserted in the meantime: an insertion it
\* survives neither hides nor repeats a node (DResult::has_next and next).
IterationExact ==
  /\ given = SubSeq(promised, 1, Len(given))
  /\ fault = 0 /\ ~HasNext => given = promised

\* On a tree that was indexed as it is, size() agrees with the number of nodes the
\* iteration returns (test.cpp:421).
SizeExact == Generated /\ cursor.first # NULL => ResultSize = Len(promised)
=============================================================================
