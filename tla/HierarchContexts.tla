-------------------------- MODULE HierarchContexts --------------------------
(***************************************************************************)
(* v2's registry of contexts: a hash map from identifiers to contexts held *)
(* by value, the pointer ctx to the current context in that map, and the   *)
(* cursor node_cursor in its tree.  An insertion or a removal in the map   *)
(* may move its entries.  A Context has a destructor and no move           *)
(* constructor, so that it is moved by copying it and destroying the       *)
(* original, which deletes its nodes: the copy keeps pointers to them.     *)
(*                                                                         *)
(* The client may call anything at any time, with contexts that hold nodes *)
(* or not; `careless` remembers whether it has ever left what the tests    *)
(* do.  Only a call that fails an assertion about its own arguments is     *)
(* left out: without a current context, or with an identifier that is not  *)
(* there (hierarch.cpp:29, 36, 45, 59, 60, 66).                            *)
(***************************************************************************)
EXTENDS FiniteSets, Functions, Integers

CONSTANTS CtxId, TypeId, NodeId,   \* context_id_t, type_id_t, node_id_t
          Addr,                    \* where an entry of the map may live
          Obj,                     \* the Node objects
          NULL

ASSUME RegistryAssumption ==
  /\ IsFiniteSet(CtxId) /\ IsFiniteSet(TypeId)
  /\ NULL \notin CtxId \cup Addr \cup Obj

VARIABLES at,       \* where the entry of each registered context lives, NULL for the others
          nodes,    \* Context::nodes of each context
          types,    \* Context::types of each context, its identifiers
          live,     \* the Node objects that are allocated
          ctx, node_cursor,
          drawing,  \* what create_context or create_type draws an identifier for, or "none"
          chosen,   \* the context the client has switched to, until it creates or deletes one
          careless, \* see CreateContext and Uses
          fault     \* the assertion that aborted the program, "stray" when it has used a ctx
                    \* that points to no context, "freed" when it has used or deleted a
                    \* deleted node, or "none"

vars == <<at, nodes, types, live, ctx, node_cursor, drawing, chosen, careless, fault>>

Contexts == {c \in CtxId : at[c] # NULL}

\* The context that lives where ctx points to, whichever it is, if there is one.
Stray   == \A c \in Contexts : at[c] # ctx
Current == CHOOSE c \in Contexts : at[c] = ctx

NoNodes == [i \in NodeId |-> NULL]
Objects(c) == Range(nodes[c]) \ {NULL}

\* Where the entries of the contexts S may live after the map has changed.
Placings(S) ==
  {p \in [CtxId -> Addr \cup {NULL}] :
     /\ \A c \in CtxId : p[c] = NULL <=> c \notin S
     /\ \A c, d \in S : p[c] = p[d] => c = d}

\* A mutant: the destructor forgets the nodes.
DeletedNever(c) == {}

\* What ~Context deletes.
Deleted(c) == Objects(c)

\* The map changes to p: the entries that it moves or removes are destroyed.
Remap(p) ==
  LET gone == UNION {Deleted(c) : c \in {d \in Contexts : p[d] # at[d]}}
  IN  /\ at' = p
      /\ live' = live \ gone
      /\ fault' = IF gone \subseteq live THEN fault ELSE "freed"

Idle == drawing = "none" /\ fault = "none"

\* A call that goes through ctx.  The client is careless unless it has switched to the
\* context it means since the registry was last changed.
Uses ==
  /\ Idle /\ ctx # NULL
  /\ careless' = (careless \/ chosen = NULL)

-----------------------------------------------------------------------------
(* create_context(), create_type() *)

\* A mutant: the identifiers are taken for one more than they are.
FullBeyond(used, Id) == Cardinality(used) > Cardinality(Id)

\* A mutant: the last identifier is never given out.
FullButOne(used, Id) == Cardinality(used) >= Cardinality(Id) - 1

\* Every identifier is taken: size() <= MAX_ID fails, as the smallest one is 0.
Full(used, Id) == Cardinality(used) > Cardinality(Id) - 1

\* The client starts to create a context: carelessly, if that may move nodes.
CreateContext ==
  /\ Idle
  /\ drawing' = "context"
  /\ chosen' = NULL
  /\ careless' = (careless \/ \E c \in Contexts : nodes[c] # NoNodes)
  /\ UNCHANGED <<at, nodes, types, live, ctx, node_cursor, fault>>

\* The client starts to create a type in the current context.
CreateType ==
  /\ Uses /\ ~Stray
  /\ drawing' = "type"
  /\ UNCHANGED <<at, nodes, types, live, ctx, node_cursor, chosen, fault>>

\* An identifier that is taken is drawn: the next one, unless all are taken.
Again(used, Id, line) ==
  /\ fault' = IF Full(used, Id) THEN line ELSE fault
  /\ UNCHANGED <<at, nodes, types, live, drawing>>

\* One turn of create_context's loop, which draws id.
DrawContext(id) ==
  /\ drawing = "context" /\ fault = "none"
  /\ IF id \in Contexts
     THEN Again(Contexts, CtxId, "hierarch.cpp:19")
     ELSE /\ \E p \in Placings(Contexts \cup {id}) : Remap(p)
          /\ nodes' = [nodes EXCEPT ![id] = NoNodes]
          /\ types' = [types EXCEPT ![id] = {}]
          /\ drawing' = "none"
  /\ UNCHANGED <<ctx, node_cursor, chosen, careless>>

\* One turn of create_type's loop, which draws id.
DrawType(id) ==
  /\ drawing = "type" /\ fault = "none"
  /\ IF id \in types[Current]
     THEN Again(types[Current], TypeId, "hierarch.cpp:54")
     ELSE /\ types' = [types EXCEPT ![Current] = @ \cup {id}]
          /\ drawing' = "none"
          /\ UNCHANGED <<at, nodes, live, fault>>
  /\ UNCHANGED <<ctx, node_cursor, chosen, careless>>

-----------------------------------------------------------------------------
(* switch_context(), delete_context() *)

\* A mutant: the cursor stays in the old context's tree.
SwitchContextKept(c) ==
  /\ Idle
  /\ c \in Contexts
  /\ ctx' = at[c]
  /\ chosen' = c
  /\ UNCHANGED <<at, nodes, types, live, node_cursor, drawing, careless, fault>>

\* A mutant: a context that is current stays current.
SwitchContextOnce(c) ==
  /\ Idle
  /\ c \in Contexts
  /\ ctx' = IF ctx = NULL THEN at[c] ELSE ctx
  /\ node_cursor' = NULL
  /\ chosen' = c
  /\ UNCHANGED <<at, nodes, types, live, drawing, careless, fault>>

SwitchContext(c) ==
  /\ Idle
  /\ c \in Contexts
  /\ ctx' = at[c]
  /\ node_cursor' = NULL
  /\ chosen' = c
  /\ UNCHANGED <<at, nodes, types, live, drawing, careless, fault>>

\* It is careless of the client to delete a context while another one has nodes.
DeleteContext ==
  /\ Idle /\ ~Stray
  /\ careless' = (\/ careless \/ chosen = NULL
                  \/ \E c \in Contexts \ {Current} : nodes[c] # NoNodes)
  /\ \E p \in Placings(Contexts \ {Current}) : Remap(p)
  /\ nodes' = [nodes EXCEPT ![Current] = NoNodes]
  /\ types' = [types EXCEPT ![Current] = {}]
  /\ ctx' = NULL
  /\ node_cursor' = NULL
  /\ chosen' = NULL
  /\ UNCHANGED drawing

\* delete_context(), create_type(), select_node() or add_leaf() reads the context at
\* ctx, and no context is there.
UseStray ==
  /\ Uses /\ Stray
  /\ fault' = "stray"
  /\ UNCHANGED <<at, nodes, types, live, ctx, node_cursor, drawing, chosen>>

-----------------------------------------------------------------------------
(* select_node(), and the start of add_leaf() *)

\* select_node reads the node it selects (hierarch.cpp:62).
SelectNode(i) ==
  /\ Uses /\ ~Stray
  /\ nodes[Current][i] # NULL
  /\ node_cursor' = nodes[Current][i]
  /\ fault' = IF nodes[Current][i] \in live THEN fault ELSE "freed"
  /\ UNCHANGED <<at, nodes, types, live, ctx, drawing, chosen>>

\* What is wrong with a leaf under the identifier i: it is taken; there is no parent in a
\* tree that has nodes; or the parent, which add_leaf reads, is deleted.
LeafFault(i) ==
  IF nodes[Current][i] # NULL THEN "hierarch.cpp:71"
  ELSE IF node_cursor = NULL
       THEN IF nodes[Current] = NoNodes THEN "none" ELSE "hierarch.cpp:102"
  ELSE IF node_cursor \in live THEN "none" ELSE "freed"

\* add_leaf draws the identifier i for the new object o, one that no pointer is left to;
\* what it does with the index is in HierarchIndex.
AddLeaf(i, o) ==
  /\ Uses /\ ~Stray
  /\ o \notin live \cup {node_cursor} \cup UNION {Objects(c) : c \in Contexts}
  /\ live' = live \cup {o}
  /\ nodes' = [nodes EXCEPT ![Current][i] = IF @ = NULL THEN o ELSE @]
  /\ fault' = LeafFault(i)
  /\ UNCHANGED <<at, types, ctx, node_cursor, drawing, chosen>>

-----------------------------------------------------------------------------

Init ==
  /\ at = [c \in CtxId |-> NULL]
  /\ nodes = [c \in CtxId |-> NoNodes]
  /\ types = [c \in CtxId |-> {}]
  /\ live = {}
  /\ ctx = NULL /\ node_cursor = NULL
  /\ drawing = "none" /\ chosen = NULL /\ careless = FALSE /\ fault = "none"

Draw == (\E c \in CtxId : DrawContext(c)) \/ (\E t \in TypeId : DrawType(t))

Next ==
  \/ CreateContext \/ CreateType \/ Draw
  \/ \E c \in CtxId : SwitchContext(c)
  \/ DeleteContext \/ UseStray
  \/ \E i \in NodeId : SelectNode(i) \/ \E o \in Obj : AddLeaf(i, o)

\* The draws are uniform: one that is not taken comes up in the end.
Spec == Init /\ [][Next]_vars /\ WF_vars(Draw)

-----------------------------------------------------------------------------

\* Whatever the client does, until something goes wrong no node is leaked or held twice,
\* and a context that still holds a deleted node holds no other: all of them went when it
\* was moved.  With a careful client what is held is what is allocated.
NodesOwned ==
  fault = "none" =>
    /\ live \subseteq UNION {Objects(c) : c \in Contexts}
    /\ \A c \in Contexts : Objects(c) \subseteq live \/ Objects(c) \cap live = {}
    /\ \A c, d \in Contexts, i, j \in NodeId :
         nodes[c][i] # NULL /\ nodes[c][i] = nodes[d][j] => c = d /\ i = j
    /\ ~careless => \A c \in Contexts : Objects(c) \subseteq live

\* No pointer to an entry or a node that has moved is followed, and nothing is deleted
\* twice, as long as the client creates and deletes contexts only while no other one has
\* nodes, and calls switch_context after that before it uses ctx (tests.cpp:26-44).
SafeUnlessCareless == fault \in {"stray", "freed"} => careless

\* The selected node, which becomes the parent of the next leaf, is a node of the current
\* context or deleted (hierarch.cpp:58-63, 74); with a careful client it is never deleted.
CursorInContext ==
  /\ node_cursor \in live => ~Stray /\ node_cursor \in Objects(Current)
  /\ ~careless /\ chosen # NULL /\ node_cursor # NULL =>
       node_cursor \in Objects(chosen) \cap live

\* A creation is aborted only when every identifier is taken (hierarch.cpp:19, 54).
AbortsWhenFull ==
  /\ fault = "hierarch.cpp:19" => Contexts = CtxId
  /\ fault = "hierarch.cpp:54" => types[Current] = TypeId
=============================================================================
