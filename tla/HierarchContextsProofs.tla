----------------------- MODULE HierarchContextsProofs -----------------------
(***************************************************************************)
(* Proofs about HierarchContexts, for any sets of identifiers, addresses   *)
(* and objects: what happens to the nodes when the map moves its entries,  *)
(* whatever the client does, and that a careful one never notices.         *)
(***************************************************************************)
EXTENDS HierarchContexts, FiniteSetTheorems, TLAPS

Types ==
  /\ at \in [CtxId -> Addr \cup {NULL}]
  /\ nodes \in [CtxId -> [NodeId -> Obj \cup {NULL}]]
  /\ types \in [CtxId -> SUBSET TypeId]
  /\ live \in SUBSET Obj
  /\ node_cursor \in Obj \cup {NULL}
  /\ drawing \in {"none", "context", "type"}
  /\ chosen \in CtxId \cup {NULL}
  /\ careless \in BOOLEAN

\* No two entries of the map are in one place, and what is not registered is empty.
Registered ==
  /\ \A c, d \in CtxId : at[c] # NULL /\ at[c] = at[d] => c = d
  /\ \A c \in CtxId : at[c] = NULL => nodes[c] = NoNodes

\* Every object is held at most once, what is allocated is held, and a context's nodes are
\* allocated together.
HeldOnce ==
  \A c, d \in CtxId, i, j \in NodeId :
    nodes[c][i] # NULL /\ nodes[c][i] = nodes[d][j] => c = d /\ i = j
NoneLost == fault = "none" => \A o \in live : \E c \in CtxId, i \in NodeId : nodes[c][i] = o
Together ==
  fault = "none" =>
    \A c \in CtxId, i, j \in NodeId :
      nodes[c][i] \in live /\ nodes[c][j] # NULL => nodes[c][j] \in live

\* A careful client has lost no node.
HeldLive == ~careless => \A c \in CtxId, i \in NodeId : nodes[c][i] # NULL => nodes[c][i] \in live

\* Nothing is chosen while create_context draws, and a careful client has no nodes then; a
\* type is drawn for a context that is there.
Drawing ==
  /\ drawing = "context" => /\ chosen = NULL
                            /\ ~careless => \A c \in CtxId : nodes[c] = NoNodes
  /\ drawing = "type" => ~Stray

\* Where the chosen context is.
ChosenThere == chosen # NULL => at[chosen] # NULL /\ at[chosen] = ctx

\* A cursor that is not deleted is a node of the context at ctx, and a careful client's
\* cursor is not deleted.
CursorHeld ==
  node_cursor \in live =>
    \E c \in CtxId, i \in NodeId : at[c] # NULL /\ at[c] = ctx /\ nodes[c][i] = node_cursor
CursorLive == ~careless /\ chosen # NULL /\ node_cursor # NULL => node_cursor \in live

\* Whatever the client does; what a careful one relies on.
AnyClient == Types /\ Registered /\ HeldOnce /\ NoneLost /\ Together /\ CursorHeld
Careful == HeldLive /\ Drawing /\ ChosenThere /\ CursorLive

IInv == AnyClient /\ Careful /\ AbortsWhenFull /\ SafeUnlessCareless

LEMMA InitIInv == Init => IInv
<1> SUFFICES ASSUME Init PROVE IInv
  OBVIOUS
<1>1. /\ \A c \in CtxId : at[c] = NULL /\ nodes[c] = NoNodes /\ types[c] = {}
      /\ \A i \in NodeId : NoNodes[i] = NULL
      /\ live = {} /\ chosen = NULL /\ drawing = "none" /\ careless = FALSE /\ fault = "none"
  BY DEF Init, NoNodes
<1>2. Types
  BY DEF Init, Types, NoNodes
<1>3. Registered /\ HeldOnce /\ NoneLost /\ Together /\ CursorHeld
  BY <1>1 DEF Registered, HeldOnce, NoneLost, Together, CursorHeld
<1>4. HeldLive /\ Drawing /\ ChosenThere
  BY <1>1 DEF HeldLive, Drawing, ChosenThere
<1>5. CursorLive /\ AbortsWhenFull /\ SafeUnlessCareless
  BY <1>1 DEF CursorLive, AbortsWhenFull, SafeUnlessCareless
<1> QED BY <1>2, <1>3, <1>4, <1>5 DEF IInv, AnyClient, Careful

\* The context at ctx is one, and only one.
LEMMA CurrentIs ==
  ASSUME Registered, ~Stray
  PROVE  Current \in CtxId /\ at[Current] = ctx /\ ctx # NULL
         /\ \A c \in CtxId : at[c] = ctx => c = Current
<1>1. \E c \in Contexts : at[c] = ctx
  BY DEF Stray
<1>2. Current \in Contexts /\ at[Current] = ctx
  BY <1>1 DEF Current
<1> QED BY <1>2 DEF Registered, Contexts

\* The chosen context is the one at ctx.
LEMMA ChosenCurrent ==
  ASSUME Types, Registered, ChosenThere, chosen # NULL
  PROVE  ~Stray /\ Current = chosen
<1>1. chosen \in CtxId /\ at[chosen] # NULL /\ at[chosen] = ctx
  BY DEF Types, ChosenThere
<1>2. ~Stray
  BY <1>1 DEF Stray, Contexts
<1> QED BY <1>1, <1>2, CurrentIs

LEMMA HoldsNodes ==
  ASSUME Types, NEW c \in CtxId
  PROVE  \A o : o \in Objects(c) <=> o # NULL /\ \E i \in NodeId : nodes[c][i] = o
<1>1. DOMAIN nodes[c] = NodeId
  BY DEF Types
<1> QED BY <1>1 DEF Objects, Range

\* What goes when the map changes to p.
Gone(p) == UNION {Deleted(c) : c \in {d \in Contexts : p[d] # at[d]}}

LEMMA GoneAre ==
  ASSUME Types, NEW p
  PROVE  \A o : o \in Gone(p) <=>
           /\ o # NULL
           /\ \E c \in CtxId, i \in NodeId : at[c] # NULL /\ p[c] # at[c] /\ nodes[c][i] = o
<1>1. \A c \in Contexts : \A o : o \in Deleted(c) <=> o # NULL /\ \E i \in NodeId : nodes[c][i] = o
  BY HoldsNodes DEF Contexts, Deleted
<1>2. \A o : o \in Gone(p) <=> \E c \in Contexts : p[c] # at[c] /\ o \in Deleted(c)
  BY DEF Gone
<1> QED BY <1>1, <1>2 DEF Contexts

\* The contexts that a placing of S puts somewhere are those of S.
LEMMA PlacingRegisters ==
  ASSUME NEW S, NEW p \in Placings(S)
  PROVE  /\ p \in [CtxId -> Addr \cup {NULL}]
         /\ \A c \in CtxId : p[c] = NULL <=> c \notin S
         /\ \A c, d \in CtxId : p[c] # NULL /\ p[c] = p[d] => c = d
BY DEF Placings

\* All of a finite set's elements are taken when not one less is.
LEMMA FullTakesAll ==
  ASSUME NEW Id, IsFiniteSet(Id), NEW used \in SUBSET Id, Full(used, Id)
  PROVE  used = Id
<1>1. IsFiniteSet(used) /\ Cardinality(used) <= Cardinality(Id)
  BY FS_Subset
<1>2. Cardinality(used) \in Nat /\ Cardinality(Id) \in Nat
  BY <1>1, FS_CardinalityType
<1>3. Cardinality(used) = Cardinality(Id)
  BY <1>1, <1>2 DEF Full
<1> QED BY <1>3, FS_Subset

-----------------------------------------------------------------------------
(* The map changes. *)

\* The map changes to p, which keeps the contexts S or adds one without nodes: x is empty
\* afterwards.
Changes(p, S, x) ==
  /\ p \in Placings(S) /\ x \in CtxId
  /\ at' = p /\ live' = live \ Gone(p)
  /\ nodes' = [nodes EXCEPT ![x] = NoNodes]
  /\ S \in {Contexts \cup {x}, Contexts \ {x}}
  /\ x \in S => x \notin Contexts

\* Whatever moves, what is left is held, once and together.
LEMMA ChangeKeeps ==
  ASSUME AnyClient, fault = "none", NEW p, NEW S, NEW x, Changes(p, S, x)
  PROVE  /\ at' \in [CtxId -> Addr \cup {NULL}]
         /\ nodes' \in [CtxId -> [NodeId -> Obj \cup {NULL}]] /\ live' \in SUBSET Obj
         /\ Registered' /\ HeldOnce' /\ NoneLost' /\ Together'
<1>1. /\ Types /\ Registered /\ HeldOnce /\ NoneLost /\ Together
      /\ p \in Placings(S) /\ x \in CtxId
      /\ at' = p /\ live' = live \ Gone(p)
      /\ S \in {Contexts \cup {x}, Contexts \ {x}}
      /\ nodes' = [nodes EXCEPT ![x] = NoNodes]
      /\ x \in S => x \notin Contexts
  BY DEF AnyClient, Changes
<1>2. \A c \in CtxId, i \in NodeId : nodes'[c][i] = IF c = x THEN NULL ELSE nodes[c][i]
  BY <1>1 DEF Types, NoNodes
<1>3. /\ p \in [CtxId -> Addr \cup {NULL}]
      /\ \A c \in CtxId : p[c] = NULL <=> c \notin S
      /\ \A c, d \in CtxId : p[c] # NULL /\ p[c] = p[d] => c = d
  BY <1>1, PlacingRegisters
<1>4. /\ nodes' \in [CtxId -> [NodeId -> Obj \cup {NULL}]]
      /\ live' \in SUBSET Obj
  BY <1>1 DEF Types, NoNodes
<1>5. Registered'
  <2>1. \A c \in CtxId : at'[c] = NULL => c = x \/ c \notin Contexts
    BY <1>1, <1>3
  <2>2. \A c \in CtxId : at'[c] = NULL => nodes'[c] = NoNodes
    BY <1>1, <2>1 DEF Types, Registered, Contexts, NoNodes
  <2> QED BY <1>1, <1>3, <2>2 DEF Registered
<1>6. HeldOnce'
  BY <1>1, <1>2 DEF HeldOnce
<1>7. \A o : o \in Gone(p) <=>
        /\ o # NULL
        /\ \E c \in CtxId, i \in NodeId : at[c] # NULL /\ p[c] # at[c] /\ nodes[c][i] = o
  BY <1>1, GoneAre
\* A node of the context x is gone, if it had any.
<1>8. \A i \in NodeId : nodes[x][i] # NULL => nodes[x][i] \in Gone(p)
  <2> SUFFICES ASSUME NEW i \in NodeId, nodes[x][i] # NULL PROVE nodes[x][i] \in Gone(p)
    OBVIOUS
  <2>1. at[x] # NULL
    BY <1>1 DEF Registered, NoNodes
  <2>2. p[x] = NULL
    BY <1>1, <1>3, <2>1 DEF Contexts
  <2> QED BY <1>1, <1>7, <2>1, <2>2
<1>9. NoneLost'
  <2> SUFFICES ASSUME NEW o \in live'
               PROVE  \E c \in CtxId, i \in NodeId : nodes'[c][i] = o
    BY DEF NoneLost
  <2>1. o \in live /\ o \notin Gone(p) /\ o # NULL
    BY <1>1, RegistryAssumption DEF Types
  <2>2. PICK c \in CtxId, i \in NodeId : nodes[c][i] = o
    BY <1>1, <2>1 DEF NoneLost
  <2>3. c # x
    BY <1>8, <2>1, <2>2
  <2> QED BY <1>2, <2>2, <2>3
<1>10. Together'
  <2> SUFFICES ASSUME NEW c \in CtxId, NEW i \in NodeId, NEW j \in NodeId,
                      nodes'[c][i] \in live', nodes'[c][j] # NULL
               PROVE  nodes'[c][j] \in live'
    BY DEF Together
  <2>1. c # x /\ nodes[c][i] = nodes'[c][i] /\ nodes[c][j] = nodes'[c][j]
    BY <1>2
  <2>2. nodes[c][i] \in live /\ nodes[c][i] \notin Gone(p) /\ nodes[c][i] # NULL
    BY <1>1, <2>1, RegistryAssumption DEF Types
  <2>3. nodes[c][j] \in live
    BY <1>1, <2>1, <2>2 DEF Together
  <2>4. at[c] = NULL \/ p[c] = at[c]
    BY <1>7, <2>2
  <2>5. nodes[c][j] \notin Gone(p)
    BY <1>1, <1>7, <2>1, <2>4 DEF HeldOnce
  <2> QED BY <1>1, <2>1, <2>3, <2>5
<1> QED BY <1>1, <1>3, <1>4, <1>5, <1>6, <1>9, <1>10

\* A cursor that is not gone is held by the same context, in the same place.
LEMMA ChangeKeepsCursor ==
  ASSUME AnyClient, NEW p, NEW S, NEW x, Changes(p, S, x), UNCHANGED <<ctx, node_cursor>>
  PROVE  CursorHeld'
<1>1. /\ Types /\ Registered /\ HeldOnce /\ CursorHeld
      /\ p \in Placings(S) /\ x \in CtxId
      /\ at' = p /\ live' = live \ Gone(p)
      /\ S \in {Contexts \cup {x}, Contexts \ {x}}
      /\ nodes' = [nodes EXCEPT ![x] = NoNodes]
      /\ x \in S => x \notin Contexts
  BY DEF AnyClient, Changes
<1> SUFFICES ASSUME node_cursor \in live'
             PROVE  \E c \in CtxId, i \in NodeId :
                      at'[c] # NULL /\ at'[c] = ctx /\ nodes'[c][i] = node_cursor
  BY DEF CursorHeld
<1>2. node_cursor \in live /\ node_cursor \notin Gone(p) /\ node_cursor # NULL
  BY <1>1, RegistryAssumption DEF Types
<1>3. PICK c \in CtxId, i \in NodeId : at[c] # NULL /\ at[c] = ctx /\ nodes[c][i] = node_cursor
  BY <1>1, <1>2 DEF CursorHeld
<1>4. p[c] = at[c]
  BY <1>1, <1>2, <1>3, GoneAre
<1>5. c # x
  <2>1. p[c] # NULL
    BY <1>3, <1>4
  <2>2. c \in S /\ c \in Contexts
    BY <1>1, <1>3, <2>1, PlacingRegisters DEF Contexts
  <2> QED BY <1>1, <2>2
<1>6. nodes'[c][i] = nodes[c][i]
  BY <1>1, <1>5 DEF Types
<1> QED BY <1>1, <1>3, <1>4, <1>6

\* A careful client's nodes are never deleted twice.
LEMMA GoneLive ==
  ASSUME Types, HeldLive, ~careless, NEW p
  PROVE  Gone(p) \subseteq live
BY GoneAre DEF HeldLive

-----------------------------------------------------------------------------

LEMMA CreateContextIInv == IInv /\ CreateContext => IInv'
<1> SUFFICES ASSUME IInv, CreateContext PROVE IInv'
  OBVIOUS
<1>1. ~careless' => ~careless /\ \A c \in CtxId : nodes[c] = NoNodes
  BY DEF IInv, AnyClient, CreateContext, Registered, Contexts, Types
<1>2. Stray' = Stray /\ Current' = Current /\ Contexts' = Contexts
  BY DEF CreateContext, Stray, Current, Contexts
<1>3. AnyClient'
  BY DEF IInv, AnyClient, CreateContext, Types, Registered, HeldOnce, NoneLost, Together, CursorHeld
<1>4. Careful'
  BY <1>1 DEF IInv, Careful, CreateContext, HeldLive, Drawing, ChosenThere, CursorLive
<1>5. fault' = "none"
  BY DEF CreateContext, Idle
<1> QED BY <1>3, <1>4, <1>5 DEF IInv, AbortsWhenFull, SafeUnlessCareless

\* A call through ctx is careful only when the client was, and has chosen a context.
LEMMA UsesCarefully ==
  ASSUME IInv, Uses
  PROVE  /\ careless' \in BOOLEAN
         /\ ~careless' => ~careless /\ chosen # NULL /\ ~Stray /\ Current = chosen
         /\ fault = "none" /\ drawing = "none"
<1>1. careless' = (careless \/ chosen = NULL) /\ careless \in BOOLEAN
  BY DEF Uses, IInv, AnyClient, Types
<1>2. chosen # NULL => ~Stray /\ Current = chosen
  BY ChosenCurrent DEF IInv, AnyClient, Careful
<1> QED BY <1>1, <1>2 DEF Uses, Idle

LEMMA CreateTypeIInv == IInv /\ CreateType => IInv'
<1> SUFFICES ASSUME IInv, CreateType PROVE IInv'
  OBVIOUS
<1>1. /\ careless' \in BOOLEAN
      /\ ~careless' => ~careless /\ chosen # NULL
      /\ fault' = "none" /\ ~Stray /\ drawing' = "type"
      /\ UNCHANGED <<at, nodes, types, live, ctx, node_cursor, chosen, fault>>
  BY UsesCarefully DEF CreateType
<1>2. ~Stray'
  BY <1>1 DEF Stray, Contexts
<1>3. AnyClient'
  BY <1>1 DEF IInv, AnyClient, Types, Registered, HeldOnce, NoneLost, Together, CursorHeld
<1>4. Careful'
  BY <1>1, <1>2 DEF IInv, Careful, HeldLive, Drawing, ChosenThere, CursorLive
<1> QED BY <1>1, <1>3, <1>4 DEF IInv, AbortsWhenFull, SafeUnlessCareless

LEMMA DrawContextIInv == IInv /\ (\E c \in CtxId : DrawContext(c)) => IInv'
<1> SUFFICES ASSUME IInv, NEW id \in CtxId, DrawContext(id) PROVE IInv'
  OBVIOUS
<1>0. /\ drawing = "context" /\ fault = "none" /\ chosen = NULL
      /\ UNCHANGED <<ctx, node_cursor, chosen, careless>> /\ AnyClient /\ Careful /\ Types
  BY DEF DrawContext, IInv, Careful, Drawing, AnyClient
<1>1. CASE id \in Contexts
  <2>1. /\ UNCHANGED <<at, nodes, types, live, drawing>>
        /\ fault' = IF Full(Contexts, CtxId) THEN "hierarch.cpp:19" ELSE fault
    BY <1>1 DEF DrawContext, Again
  <2>2. Full(Contexts, CtxId) => Contexts = CtxId
    BY FullTakesAll, RegistryAssumption DEF Contexts
  <2>3. AbortsWhenFull' /\ SafeUnlessCareless'
    BY <1>0, <2>1, <2>2 DEF AbortsWhenFull, SafeUnlessCareless, Contexts
  <2>4. AnyClient'
    BY <1>0, <2>1 DEF AnyClient, Types, Registered, HeldOnce, NoneLost, Together, CursorHeld
  <2>5. Careful'
    BY <1>0, <2>1 DEF Careful, HeldLive, Drawing, ChosenThere, CursorLive
  <2> QED BY <2>3, <2>4, <2>5 DEF IInv
<1>2. CASE id \notin Contexts
  <2>1. PICK p \in Placings(Contexts \cup {id}) : Remap(p)
    BY <1>2 DEF DrawContext
  <2>2. /\ Changes(p, Contexts \cup {id}, id)
        /\ types' = [types EXCEPT ![id] = {}] /\ drawing' = "none"
        /\ fault' = IF Gone(p) \subseteq live THEN fault ELSE "freed"
    BY <1>2, <2>1 DEF DrawContext, Changes, Remap, Gone
  <2>3. /\ at' \in [CtxId -> Addr \cup {NULL}]
        /\ nodes' \in [CtxId -> [NodeId -> Obj \cup {NULL}]] /\ live' \in SUBSET Obj
        /\ Registered' /\ HeldOnce' /\ NoneLost' /\ Together' /\ CursorHeld'
    BY <1>0, <2>2, ChangeKeeps, ChangeKeepsCursor
  <2>4. AnyClient'
    BY <1>0, <2>2, <2>3 DEF AnyClient, Types
  <2>5. Careful'
    <3>1. ~careless => \A c \in CtxId : nodes[c] = NoNodes
      BY <1>0 DEF Careful, Drawing
    <3>2. ~careless => \A c \in CtxId : nodes'[c] = NoNodes
      BY <1>0, <2>2, <3>1 DEF Changes, Types
    <3>3. HeldLive'
      BY <1>0, <3>2 DEF HeldLive, NoNodes
    <3> QED BY <1>0, <2>2, <3>3 DEF Careful, Drawing, ChosenThere, CursorLive
  <2>6. SafeUnlessCareless' /\ AbortsWhenFull'
    <3>1. ~careless => Gone(p) \subseteq live
      BY <1>0, GoneLive DEF Careful
    <3> QED BY <1>0, <2>2, <3>1 DEF SafeUnlessCareless, AbortsWhenFull
  <2> QED BY <2>4, <2>5, <2>6 DEF IInv
<1> QED BY <1>1, <1>2

LEMMA DrawTypeIInv == IInv /\ (\E t \in TypeId : DrawType(t)) => IInv'
<1> SUFFICES ASSUME IInv, NEW t \in TypeId, DrawType(t) PROVE IInv'
  OBVIOUS
<1>0. /\ drawing = "type" /\ fault = "none" /\ ~Stray /\ AnyClient /\ Careful
      /\ Types /\ Registered
      /\ UNCHANGED <<at, nodes, live, ctx, node_cursor, chosen, careless>>
  BY DEF DrawType, Again, IInv, Careful, Drawing, AnyClient
<1>1. Current \in CtxId /\ Current' = Current /\ (~Stray)'
  BY <1>0, CurrentIs DEF Current, Stray, Contexts
<1>2. /\ types' \in [CtxId -> SUBSET TypeId] /\ drawing' \in {"none", "type"}
      /\ fault' \in {"none", "hierarch.cpp:54"}
      /\ fault' = "hierarch.cpp:54" => types' = types /\ Full(types[Current], TypeId)
  BY <1>0, <1>1 DEF DrawType, Again, Types
<1>3. AbortsWhenFull' /\ SafeUnlessCareless'
  <2>1. Full(types[Current], TypeId) => types[Current] = TypeId
    BY <1>0, <1>1, FullTakesAll, RegistryAssumption DEF Types
  <2> QED BY <1>1, <1>2, <2>1 DEF AbortsWhenFull, SafeUnlessCareless
<1>4. AnyClient'
  BY <1>0, <1>2 DEF AnyClient, Types, Registered, HeldOnce, NoneLost, Together, CursorHeld
<1>5. Careful'
  BY <1>0, <1>1, <1>2 DEF Careful, HeldLive, Drawing, ChosenThere, CursorLive
<1> QED BY <1>3, <1>4, <1>5 DEF IInv

LEMMA SwitchContextIInv == IInv /\ (\E c \in CtxId : SwitchContext(c)) => IInv'
<1> SUFFICES ASSUME IInv, NEW c \in CtxId, SwitchContext(c) PROVE IInv'
  OBVIOUS
<1>1. /\ fault' = "none" /\ drawing' = "none" /\ at[c] # NULL
      /\ ctx' = at[c] /\ node_cursor' = NULL /\ chosen' = c
      /\ UNCHANGED <<at, nodes, types, live, drawing, careless, fault>>
  BY DEF SwitchContext, Idle, Contexts
<1>2. NULL \notin live
  BY RegistryAssumption DEF IInv, AnyClient, Types
<1>3. AnyClient'
  BY <1>1, <1>2 DEF IInv, AnyClient, Types, Registered, HeldOnce, NoneLost, Together, CursorHeld
<1>4. Careful'
  BY <1>1 DEF IInv, Careful, HeldLive, Drawing, ChosenThere, CursorLive
<1> QED BY <1>1, <1>3, <1>4 DEF IInv, AbortsWhenFull, SafeUnlessCareless

LEMMA DeleteContextIInv == IInv /\ DeleteContext => IInv'
<1> SUFFICES ASSUME IInv, DeleteContext PROVE IInv'
  OBVIOUS
<1>0. /\ AnyClient /\ Careful /\ Types /\ Registered /\ fault = "none" /\ ~Stray
      /\ drawing' = "none" /\ ctx' = NULL /\ node_cursor' = NULL /\ chosen' = NULL
      /\ careless' \in BOOLEAN
      /\ ~careless' => ~careless /\ \A c \in Contexts \ {Current} : nodes[c] = NoNodes
  BY DEF IInv, AnyClient, DeleteContext, Idle
<1>1. Current \in CtxId /\ Current \in Contexts
  BY <1>0, CurrentIs DEF Contexts
<1>2. PICK p \in Placings(Contexts \ {Current}) : Remap(p)
  BY DEF DeleteContext
<1>3. /\ Changes(p, Contexts \ {Current}, Current)
      /\ types' = [types EXCEPT ![Current] = {}]
      /\ fault' = IF Gone(p) \subseteq live THEN fault ELSE "freed"
  BY <1>1, <1>2 DEF DeleteContext, Changes, Remap, Gone
<1>4. /\ at' \in [CtxId -> Addr \cup {NULL}]
      /\ nodes' \in [CtxId -> [NodeId -> Obj \cup {NULL}]] /\ live' \in SUBSET Obj
      /\ Registered' /\ HeldOnce' /\ NoneLost' /\ Together'
  BY <1>0, <1>3, ChangeKeeps
<1>5. NULL \notin live'
  BY <1>4, RegistryAssumption
<1>6. AnyClient'
  <2>1. CursorHeld'
    BY <1>0, <1>5 DEF CursorHeld
  <2>2. Types'
    BY <1>0, <1>3, <1>4 DEF Types
  <2> QED BY <1>4, <2>1, <2>2 DEF AnyClient
<1>7. Careful'
  <2>1. ~careless' => \A c \in CtxId : nodes'[c] = NoNodes
    BY <1>0, <1>3 DEF Changes, Types, Registered, Contexts
  <2>2. HeldLive'
    BY <2>1 DEF HeldLive, NoNodes
  <2> QED BY <1>0, <2>2 DEF Careful, Drawing, ChosenThere, CursorLive
<1>8. SafeUnlessCareless' /\ AbortsWhenFull'
  <2>1. ~careless => Gone(p) \subseteq live
    BY <1>0, GoneLive DEF Careful
  <2> QED BY <1>0, <1>3, <2>1 DEF SafeUnlessCareless, AbortsWhenFull
<1> QED BY <1>6, <1>7, <1>8 DEF IInv

LEMMA UseStrayIInv == IInv /\ UseStray => IInv'
<1> SUFFICES ASSUME IInv, UseStray PROVE IInv'
  OBVIOUS
<1>1. /\ careless' /\ careless' \in BOOLEAN /\ fault' = "stray"
      /\ UNCHANGED <<at, nodes, types, live, ctx, node_cursor, drawing, chosen>>
      /\ drawing = "none"
  BY UsesCarefully DEF UseStray
<1>2. AnyClient'
  BY <1>1 DEF IInv, AnyClient, Types, Registered, HeldOnce, NoneLost, Together, CursorHeld
<1>3. Careful'
  BY <1>1 DEF IInv, Careful, HeldLive, Drawing, ChosenThere, CursorLive
<1> QED BY <1>1, <1>2, <1>3 DEF IInv, AbortsWhenFull, SafeUnlessCareless

LEMMA SelectNodeIInv == IInv /\ (\E i \in NodeId : SelectNode(i)) => IInv'
<1> SUFFICES ASSUME IInv, NEW i \in NodeId, SelectNode(i) PROVE IInv'
  OBVIOUS
<1>1. /\ careless' \in BOOLEAN
      /\ ~careless' => ~careless /\ chosen # NULL
      /\ fault = "none" /\ drawing = "none" /\ ~Stray
      /\ UNCHANGED <<at, nodes, types, live, ctx, drawing, chosen>>
      /\ nodes[Current][i] # NULL /\ node_cursor' = nodes[Current][i]
      /\ fault' = IF nodes[Current][i] \in live THEN fault ELSE "freed"
  BY UsesCarefully DEF SelectNode
<1>2. Current \in CtxId /\ at[Current] = ctx /\ ctx # NULL
  BY <1>1, CurrentIs DEF IInv, AnyClient
<1>3. ~careless => nodes[Current][i] \in live
  BY <1>1, <1>2 DEF IInv, Careful, HeldLive
<1>4. AnyClient'
  <2>1. node_cursor' \in Obj \cup {NULL}
    BY <1>1, <1>2 DEF IInv, AnyClient, Types
  <2>2. CursorHeld'
    BY <1>1, <1>2 DEF CursorHeld
  <2> QED BY <1>1, <2>1, <2>2 DEF IInv, AnyClient, Types, Registered, HeldOnce, NoneLost, Together
<1>5. Careful'
  BY <1>1, <1>3 DEF IInv, Careful, HeldLive, Drawing, ChosenThere, CursorLive
<1> QED BY <1>1, <1>3, <1>4, <1>5 DEF IInv, AbortsWhenFull, SafeUnlessCareless

LEMMA AddLeafIInv == IInv /\ (\E i \in NodeId, o \in Obj : AddLeaf(i, o)) => IInv'
<1> SUFFICES ASSUME IInv, NEW i \in NodeId, NEW o \in Obj, AddLeaf(i, o) PROVE IInv'
  OBVIOUS
<1>0. /\ Types /\ Registered /\ HeldOnce /\ NoneLost /\ Together /\ CursorHeld
      /\ HeldLive /\ Drawing /\ ChosenThere /\ CursorLive
  BY DEF IInv, AnyClient, Careful
<1>1. /\ careless' \in BOOLEAN
      /\ ~careless' => ~careless /\ chosen # NULL
      /\ fault = "none" /\ drawing = "none" /\ ~Stray
      /\ UNCHANGED <<at, types, ctx, node_cursor, drawing, chosen>>
      /\ live' = live \cup {o} /\ fault' = LeafFault(i)
      /\ nodes' = [nodes EXCEPT ![Current][i] = IF @ = NULL THEN o ELSE @]
  BY UsesCarefully DEF AddLeaf
<1> PICK c : c = Current
  OBVIOUS
<1>2. c \in CtxId /\ at[c] = ctx /\ ctx # NULL /\ \A d \in CtxId : at[d] = ctx => d = c
  BY <1>0, <1>1, CurrentIs
<1>3. \A d \in CtxId, j \in NodeId :
        nodes'[d][j] = IF d = c /\ j = i /\ nodes[c][i] = NULL THEN o ELSE nodes[d][j]
  BY <1>0, <1>1, <1>2 DEF Types
<1>4. o \notin live /\ o # node_cursor /\ o # NULL
      /\ \A d \in CtxId, j \in NodeId : nodes[d][j] # o
  <2>1. o # NULL
    BY RegistryAssumption
  <2>2. \A d \in Contexts : o \notin Objects(d)
    BY DEF AddLeaf
  <2>3. \A d \in CtxId, j \in NodeId : at[d] # NULL => nodes[d][j] # o
    BY <1>0, <2>1, <2>2, HoldsNodes DEF Contexts
  <2>4. \A d \in CtxId, j \in NodeId : at[d] = NULL => nodes[d][j] # o
    BY <1>0, <2>1 DEF Registered, NoNodes
  <2> QED BY <2>1, <2>3, <2>4 DEF AddLeaf
<1>5. Types'
  BY <1>0, <1>1, <1>2 DEF Types
<1>6. Registered'
  BY <1>0, <1>1, <1>2 DEF Registered, Types
<1>7. HeldOnce'
  BY <1>0, <1>3, <1>4 DEF HeldOnce
<1>8. fault' = "none" => nodes[c][i] = NULL
  BY <1>1 DEF LeafFault
<1>9. NoneLost'
  <2>1. \A x \in live : x # NULL /\ \E d \in CtxId, j \in NodeId : nodes[d][j] = x
    BY <1>0, <1>1, RegistryAssumption DEF NoneLost, Types
  <2>2. \A x \in live : \E d \in CtxId, j \in NodeId : nodes'[d][j] = x
    BY <1>3, <2>1
  <2> QED BY <1>1, <1>2, <1>3, <1>8, <2>2 DEF NoneLost
\* Either the tree is empty, or it has the parent, so that none of its nodes is deleted.
<1>10. fault' = "none" => \A j \in NodeId : nodes[c][j] # NULL => nodes[c][j] \in live
  <2>1. CASE node_cursor = NULL
    BY <1>1, <2>1 DEF LeafFault, NoNodes
  <2>2. CASE node_cursor \in live
    <3>1. \E j \in NodeId : nodes[c][j] = node_cursor
      BY <1>0, <1>2, <2>2 DEF CursorHeld
    <3> QED BY <1>0, <1>1, <1>2, <2>2, <3>1 DEF Together
  <2>3. CASE node_cursor # NULL /\ node_cursor \notin live
    BY <1>1, <2>3 DEF LeafFault
  <2> QED BY <2>1, <2>2, <2>3
<1>11. Together'
  <2> SUFFICES ASSUME fault' = "none", NEW d \in CtxId, NEW j \in NodeId, NEW k \in NodeId,
                      nodes'[d][j] \in live', nodes'[d][k] # NULL
               PROVE  nodes'[d][k] \in live'
    BY DEF Together
  <2>1. CASE d = c
    BY <1>1, <1>3, <1>10, <2>1
  <2>2. CASE d # c
    <3>1. nodes[d][j] \in live
      BY <1>1, <1>3, <1>4, <2>2
    <3> QED BY <1>0, <1>1, <1>3, <2>2, <3>1 DEF Together
  <2> QED BY <2>1, <2>2
<1>12. CursorHeld'
  <2> SUFFICES ASSUME node_cursor \in live
               PROVE  \E d \in CtxId, j \in NodeId :
                        at[d] # NULL /\ at[d] = ctx /\ nodes'[d][j] = node_cursor
    BY <1>1, <1>4 DEF CursorHeld
  <2>1. PICK d \in CtxId, j \in NodeId : at[d] # NULL /\ at[d] = ctx /\ nodes[d][j] = node_cursor
    BY <1>0 DEF CursorHeld
  <2>2. node_cursor # NULL
    BY <1>0, RegistryAssumption DEF Types
  <2>3. nodes'[d][j] = node_cursor
    BY <1>2, <1>3, <2>1, <2>2
  <2> QED BY <2>1, <2>3
<1>13. Careful'
  <2>1. HeldLive'
    BY <1>0, <1>1, <1>3 DEF HeldLive
  <2>2. CursorLive'
    BY <1>0, <1>1 DEF CursorLive
  <2> QED BY <1>0, <1>1, <2>1, <2>2 DEF Careful, Drawing, ChosenThere
<1>14. SafeUnlessCareless'
  <2>1. fault' = "freed" => node_cursor # NULL /\ node_cursor \notin live
    BY <1>1 DEF LeafFault
  <2>2. fault' # "stray"
    BY <1>1 DEF LeafFault
  <2> QED BY <1>0, <1>1, <2>1, <2>2 DEF SafeUnlessCareless, CursorLive
<1>15. AbortsWhenFull'
  BY <1>1 DEF AbortsWhenFull, LeafFault
<1> QED BY <1>5, <1>6, <1>7, <1>9, <1>11, <1>12, <1>13, <1>14, <1>15 DEF IInv, AnyClient

LEMMA Invariance == Spec => []IInv
<1>1. IInv /\ [Next]_vars => IInv'
  <2> SUFFICES ASSUME IInv, [Next]_vars PROVE IInv'
    OBVIOUS
  <2>1. CASE Next
    BY <2>1, CreateContextIInv, CreateTypeIInv, DrawContextIInv, DrawTypeIInv,
       SwitchContextIInv, DeleteContextIInv, UseStrayIInv, SelectNodeIInv, AddLeafIInv
       DEF Next, Draw
  <2>2. CASE UNCHANGED vars
    <3>1. Contexts' = Contexts /\ Stray' = Stray /\ Current' = Current
      BY <2>2 DEF vars, Contexts, Stray, Current
    <3>2. AnyClient'
      BY <2>2 DEF vars, IInv, AnyClient, Types, Registered, HeldOnce, NoneLost, Together,
                  CursorHeld
    <3>3. Careful'
      BY <2>2, <3>1 DEF vars, IInv, Careful, HeldLive, Drawing, ChosenThere, CursorLive
    <3> QED BY <2>2, <3>1, <3>2, <3>3 DEF vars, IInv, AbortsWhenFull, SafeUnlessCareless
  <2> QED BY <2>1, <2>2
<1> QED BY InitIInv, <1>1, PTL DEF Spec

-----------------------------------------------------------------------------

\* Whatever the client does, a context's nodes live and go together and none is leaked;
\* and for a careful client, no destructor that the map runs deletes a node that is held
\* (context.cpp:8-15, hierarch.cpp:10-40).
THEOREM NodesStayOwned == Spec => []NodesOwned
<1>1. IInv => NodesOwned
  <2> SUFFICES ASSUME IInv, fault = "none" PROVE NodesOwned
    BY DEF NodesOwned
  <2>0. Types /\ Registered /\ HeldOnce /\ NoneLost /\ Together /\ HeldLive
    BY DEF IInv, AnyClient, Careful
  <2>1. \A o \in live : \E c \in Contexts : o \in Objects(c)
    <3> SUFFICES ASSUME NEW o \in live PROVE \E c \in Contexts : o \in Objects(c)
      OBVIOUS
    <3>1. PICK c \in CtxId, i \in NodeId : nodes[c][i] = o
      BY <2>0 DEF NoneLost
    <3>2. o # NULL
      BY <2>0, RegistryAssumption DEF Types
    <3>3. c \in Contexts
      BY <2>0, <3>1, <3>2 DEF Registered, NoNodes, Contexts
    <3> QED BY <2>0, <3>1, <3>2, <3>3, HoldsNodes
  <2>2. \A c \in Contexts : Objects(c) \subseteq live \/ Objects(c) \cap live = {}
    <3> SUFFICES ASSUME NEW c \in Contexts, NEW o \in Objects(c) \cap live
                 PROVE  Objects(c) \subseteq live
      OBVIOUS
    <3>1. c \in CtxId
      BY DEF Contexts
    <3>2. \A x : x \in Objects(c) <=> x # NULL /\ \E i \in NodeId : nodes[c][i] = x
      BY <2>0, <3>1, HoldsNodes
    <3> QED BY <2>0, <3>1, <3>2 DEF Together
  <2>3. ~careless => \A c \in Contexts : Objects(c) \subseteq live
    <3>1. \A c \in Contexts : \A x : x \in Objects(c) => x # NULL /\ \E i \in NodeId : nodes[c][i] = x
      BY <2>0, HoldsNodes DEF Contexts
    <3> QED BY <2>0, <3>1 DEF HeldLive, Contexts
  <2>4. \A c, d \in Contexts, i, j \in NodeId :
          nodes[c][i] # NULL /\ nodes[c][i] = nodes[d][j] => c = d /\ i = j
    BY <2>0 DEF HeldOnce, Contexts
  <2>5. live \subseteq UNION {Objects(c) : c \in Contexts}
    BY <2>1
  <2> QED BY <2>2, <2>3, <2>4, <2>5 DEF NodesOwned
<1> QED BY Invariance, <1>1, PTL

\* A careful client never follows a pointer to an entry or a node that the map has moved or
\* deleted, and makes it delete nothing twice, for any identifiers, addresses and number of
\* contexts (hierarch.cpp:10-82).
THEOREM CarefulIsSafe == Spec => []SafeUnlessCareless
<1>1. IInv => SafeUnlessCareless
  BY DEF IInv
<1> QED BY Invariance, <1>1, PTL

\* node_cursor is a node of the context at ctx or deleted, whatever the client does, and a
\* careful client's is a live node of the context it has chosen (hierarch.cpp:23-63).
THEOREM CursorSound == Spec => []CursorInContext
<1>1. IInv => CursorInContext
  <2> SUFFICES ASSUME IInv PROVE CursorInContext
    OBVIOUS
  <2>0. Types /\ Registered /\ CursorHeld /\ CursorLive /\ ChosenThere
    BY DEF IInv, AnyClient, Careful
  <2>1. node_cursor \in live => ~Stray /\ node_cursor \in Objects(Current)
    <3> SUFFICES ASSUME node_cursor \in live
                 PROVE  ~Stray /\ node_cursor \in Objects(Current)
      OBVIOUS
    <3>1. PICK c \in CtxId, i \in NodeId :
            at[c] # NULL /\ at[c] = ctx /\ nodes[c][i] = node_cursor
      BY <2>0 DEF CursorHeld
    <3>2. ~Stray
      BY <3>1 DEF Stray, Contexts
    <3>3. Current = c
      BY <2>0, <3>1, <3>2, CurrentIs
    <3>4. node_cursor # NULL
      BY <2>0, RegistryAssumption DEF Types
    <3> QED BY <2>0, <3>1, <3>2, <3>3, <3>4, HoldsNodes
  <2>2. chosen # NULL => Current = chosen
    BY <2>0, ChosenCurrent
  <2> QED BY <2>0, <2>1, <2>2 DEF CursorInContext, CursorLive
<1> QED BY Invariance, <1>1, PTL

\* create_context and create_type give up only when no identifier is left, whatever the
\* client does (hierarch.cpp:19, 54).
THEOREM GivesUpWhenFull == Spec => []AbortsWhenFull
<1>1. IInv => AbortsWhenFull
  BY DEF IInv
<1> QED BY Invariance, <1>1, PTL
=============================================================================
