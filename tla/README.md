# hierarch: a TLA+ model of the depth-first indexes

hierarch keeps an ordered tree of typed nodes and an index over it that answers
"which descendants of this node have type t" in logarithmic time.  The repository
holds three programs, and all three are modelled:

* **v1** (`src/v1`) — `DFilter`, an index by depth-first number, over AVL tables
  derived from GNU libavl.
* **v2** (`src/v2`) — an unfinished rewrite with contexts, random identifiers and one
  intrusive AVL tree per context.
* **empirical study** (`src/empirical_study`) — a Ruby script that counts how often
  JavaScript code makes queries of this kind.

All three are sequential.  What is hard about the two indexes is not concurrency but
laziness: an insertion renumbers only a small part of the tree, every other node
catches up when somebody happens to read it, and caches of derived numbers are
corrected at times of their own.  What a caller sees depends on which nodes were read
between which insertions: on long sequences of legal calls, which a unit test hardly
enumerates.  Around the indexes it is ownership: who frees a tree, and which pointers
survive when a hash map moves its entries.  In the study it is a timeout that strikes
between any two statements.

## 1. Inventory

| part | state | operations | what makes it correct |
|---|---|---|---|
| v1 `TNode` tree | `parent`, `children`, `type`, `dnode` | `add_child`, `delete_tree`, grown by `DFilter::insert` | parents, child lists and ancestry agree |
| v1 `DFilter`, index | `size`, `latest_mod`, `tbl`; per node `base_index`, `base_mod`, `cached_parent_dfi`, `cached_successor(_dfi)` | `generate_index`, `insert`, `propagate_dfi_change`, `dfi`, `get_node`, `postorder_successor(_dfi)` | `dfi()` is the node's place in a depth-first walk; reading changes nothing a caller can see; an insertion reorders nothing; the table is in document order although its keys move |
| v1 `DFilter`, type index | `type_tables`, `latest_type_mods`, `min/max_type_bounds`; per node `type_base_index`, `type_mod`, `cached_type_parent_dfi` | the type half of `insert`, `type_dfi`, `get_closest_node`, `get_bound_node`, `get_descendants_by_type` | a query finds all descendants of a type, and nothing else |
| v1 `DResult` | `first`, `last`, `node`, `base_mod`, `type_mod` | the constructor, `has_next`, `next`, `size` | an iteration gives what the query promised, or stops, whatever is inserted meanwhile; it ends |
| v1 pavl tables | `root`, `count`, links, parents and balance factors | `pavl_create`, `pavl_probe_node`, `pavl_find_closest_node`, `pavl_destroy` (libavl fork, external); `pavl_probe_node_ex` (`src/`), which nothing calls | balanced, links and parents mirror each other, a sorted list without duplicates |
| v1 memory | the trees, the `DNode`s and tables of each filter, `TNode::dnode`, `DNode::dfilter`, `troot` | both constructors, `delete_tree`, `~DFilter` | nothing is freed twice or used after, nothing is left behind |
| v1 FULL variant | `lhs_offset`, `rhs_offset` | `propagate_ex`, lines 328-352 | dead code: `algv` is the constant `SIMPLE` |
| v2 contexts | `contexts`, `ctx`, `node_cursor`; `types`, `nodes` | `create_context`, `switch_context`, `delete_context`, `create_type`, `select_node` | every node has one owner; no pointer to an entry or node that has moved or gone is followed; a creation ends |
| v2 index | `atree`, `mod`, `max_index`, `imaginary_predecessors`; per node `base_index`, `offset`, `mod`, `successor`, `predecessors` | `index`, `displace`, `successor_index`, `add_leaf` | indexes are the depth-first numbers; successor and predecessor lists mirror each other |
| empirical study | counters, `StatsFinder`, `blacklist` | `parse_js_files`, `observe_value` | every file is counted once, as parsed or as failed; statistics agree with the counters |

How they interact: `DFilter` owns the tables and calls `pavl_probe_node`, which calls
back `compare_dnodes`, which calls `dfi()` on both nodes: **searching a table changes
the index**.  `insert` reads and renumbers the index, then the type index, and probes
both tables.  `get_descendants_by_type` reads both indexes and returns a `DResult`, which
keeps pointers into the type's table while the client goes on using the filter.  In v2
the comparison of the AVL tree calls `index()` in the same way, and `Node::context()`
answers with the registry's current context, whatever context the node is from.

The hazards of each part, at their lines, are the `hazards` of `PROJECT.json`.

## 2. Modules

| module | what it is |
|---|---|
| `Pavl` | the AVL table: search, leaf, balance factors, the four rotations, as operators on a record (`root`, `link`, `up`, `bal`, `count`) |
| `PavlTable` | a table into which items are probed, one action; what makes it well formed, and that it is a `SortedList` |
| `SortedList` | what a table promises: a sorted list without duplicate keys |
| `DfiIndex` | v1's tree, index, successor caches and table of all nodes: one action per operation |
| `DFilter` | `DfiIndex` with the type index, the type tables and queries; the specification of the whole filter, and what it promises |
| `DResult` | a client that iterates over a query's answer while the filter changes, and what an iteration promises it |
| `DocumentOrder` | what the index promises of insertions: a list that grows by one node at a time and is never reordered |
| `FilterLife` | v1's memory: trees, filters, and who frees what |
| `HierarchContexts` | v2's registry: contexts that move in their map, random identifiers, the pointer to the current context and the cursor |
| `HierarchIndex` | v2's index: the tree of one context, `index`, `displace` and `add_leaf` |
| `StudyRun` | the study's batch loop, its counters and statistics, and the timeout |
| `MCPavlTable`, `MCDFilter`, `MCDResult`, `MCFilterLife`, `MCHierarchContexts`, `MCHierarchIndex`, `MCStudyRun` | the instances for TLC, and the properties that are only model-checked |
| `DfiIndexProofs`, `DFilterProofs`, `FilterLifeProofs`, `HierarchContextsProofs`, `HierarchIndexProofs`, `PavlProofs`, `PavlTableProofs`, `StudyRunProofs` | theorems and their proofs |

`DFilter` extends `DfiIndex`, which extends `Pavl`; `DResult` extends `DFilter`;
`HierarchIndex` extends `Pavl`, as v2 uses an AVL tree of the same kind.  `PavlProofs` holds
the lemmas about one AVL tree, for whoever uses one, with induction on numbers stated about
sets; `PavlTableProofs`, `DfiIndexProofs` and `HierarchIndexProofs` extend it.

### v1: from the code to the model

*Nodes* are numbers in the order of their creation: `1 .. k` is the tree the filter is
built over, in depth-first order (`generate_index` numbers it so), and `k + 1`,
`k + 2`, … are inserted.  A `TNode` and its `DNode` are one node.  `tree` holds the
parent pointers and child lists, and an auxiliary `above`, the set of each node's
ancestors, which the parent pointers determine.

*`dfi()`* climbs recursively to the first up-to-date ancestor and updates the nodes on
the way back.  `DfiValues` is the value it returns for every node, a recursive function;
`Touched(S)` is the set of nodes on which it runs when it is called on the nodes of `S`,
and `Refresh` the index afterwards.  The order in which a set of nodes is read does not
matter (this is what `ReadsTransparent` and the invariant `ModsFresh` say), so an
operation that reads several nodes is one `Refresh` of their set.  Every reading the code
does is in the set, the comparisons of a table search included (`SearchPath`).

*`insert`* is one action, `DFilter!Insert`, from the look-up of the displaced node to the
last assertion: `Plan` is everything up to line 82, `Created` the new `DNode` and
`Propagate` the renumbering, `CreatedType` and `PropagateType` the same for the type
index, `InsertNode` the change of the tree, the second probe and the successor cache.
Assertions that can fail are modelled: `fault` is the line of the first one that does,
and the program is then over.  `get_closest_node` may answer with the neighbour on
either side, as the external search does not say which: a nondeterministic choice.

*`postorder_successor_dfi()`* is `PostorderSuccessor`: its cache, the two tests by
which it trusts it, and `SuccessorSearch` for `get_successor_manual`.

*The type index* mirrors the index, but `type_dfi()` also corrects the bounds of the
type, so the order of its calls matters: `CallTypeDfis` folds over a sequence.

*Tables* hold nodes as items.  Their keys are `dfi()` values at the time of the search
and move under the table; `Probe` takes the current keys and the table as it is.  What
`dfilter.cpp` calls is `pavl_probe_node` of the external libavl fork.  `Probe` translates
`pavl_probe_node_ex` (`pavl_extensions.cpp`), the repository's own copy of that function,
which nothing calls: but for the calls of `pavl_propagate_nearby_ex` added to it, it is the
library's algorithm as far as `src/` has it, and stands in for it.  A node that
displaces no other is probed twice into each table (lines 98-99 and 140-141), and the second
probe must find it there: `Tabled` is the table afterwards and `Met` the nodes that both
searches read.

*`generate_index`* walks the tree, and numbers each node with what `num_nodes_of_type`
counts at that moment: `NumberNode` is a step of the walk and `FreshTypes` the walk.  That
the number is the node's rank among the nodes of its type is not built in; `TypeDfiCorrect`
says so, and is proved.  After insertions it is no longer true: `insert` gives a new node
the number of whichever node of its type is close (line 106).  What is left is
`TypeNumbersOrdered`: while all nodes are of one type, numbers stay in document order and
never fall behind a node's place.  With two types not even the order is left.

*What a filter promises* is read off the tree alone: `Precedes` is document order (an
ancestor, or in the branch of an earlier child of the same parent) and `Place(n)` the number
of nodes before `n`.

*The client* is unconstrained in `Spec`: any operation, any order.  `Audit = TRUE`
restricts it to the discipline of `test_insertion_stability`: `dfi()` has been called on
every node since the last insertion before the next one (`unread` keeps track).  The
discipline is a parameter because the code needs it: without it the index goes wrong
(run `stale_index`).

*Memory* (`FilterLife`) is a model of its own.  The nodes of a tree are freed together,
and so are the `DNode`s and the tables of a filter, so each is one object that is
`"none"`, `"live"` or `"freed"`.  `delete_tree` finds the tables to destroy through the
root's `DNode`, which belongs to whichever filter was made last.  The client may do
anything; `misused` remembers whether it has ever put two filters over one tree, deleted
a tree under a live filter, or queried a filter whose tree it has deleted.  `fault` is
a use of freed memory.

### v2: from the code to the model

*The registry* (`HierarchContexts`).  `contexts` is an external hash map that stores
contexts by value; any change of it may move any entry (`Placings`).  `at` is where each
registered context lives and `ctx` an address, so that a stale pointer is a pointer to an
address that is now another's or nobody's.  `Context` has a destructor and no move
constructor, so that an entry is moved by copying it and destroying the original, which
deletes the nodes the copy still refers to (`Deleted`, `Remap`).  The client may call
anything: it may create and delete contexts while others hold nodes, and use a `ctx` that
points to a place where no context is any more (`UseStray`).  Only calls whose own
assertions about their arguments fail at once are left out.  `careless` remembers
whether the client has ever left what the tests do: created or deleted a context while
another one held nodes, or used `ctx` after a change of the registry without calling
`switch_context` (`chosen` is then null).  `fault` is the assertion that stopped the program,
`"stray"` when a `ctx` that points to nothing was used, or `"freed"` when a deleted
node was read or deleted again.  A careless client gets to both; `SafeUnlessCareless` says
that no other does.  `create_context` and `create_type` are modelled
draw by draw: `drawing` is the loop, each turn draws one identifier.

*The index* (`HierarchIndex`).  `Index(c, n)` is `index()`: the climb through the
out-of-date nodes of the AVL tree (`Climbed`), the offsets they take and hand to their
children, and the new modification an out-of-date root starts.  `Displace` is `displace`
with its helper: what is on the path to the AVL root moves at once, what is beside it
gets an offset.  `AddLeaf` is one action: `Displacing`, `Appending` and `First` are the
three branches of `add_leaf`, each with its assertions in their order; `Enter` inserts
into the AVL tree with the comparison of `avl_bridge.h`, whose calls of `index()` change
the offsets (`Compared`: the node met, then the new one).  `Consulted` are the calls of the
assertions behind it; `CallIndex` and `Relinked` are the loop over the successor's
predecessors.  Lists of predecessors are sets, since they are always in order of age.  A new
node whose index compares as equal to another's is left out of the AVL tree, as it is by
`avl_insert`; its own links, which nobody has initialised, are taken for null.

### The study: from the code to the model

Counting a file is a sequence of statements, one action each: `at` is the statement that
comes next and `Following` the order of the two branches.  `CountStep` executes one at a
time, so that `Timeout` can strike before, between and after them, and inside
`observe_value`, between the sum and the array (`half`).  What a content holds is chosen at
the start and is the same whenever the content is met: `path` maps files to contents,
which the code tells apart by SHA1.

## 3. Runs

| run | instance | question |
|---|---|---|
| `tests` | every typed tree of 6 nodes, only queried; and from one node to 6, the loop of `test_insertion_stability`; 2 types | are all answers right on a tree that was indexed as it is (`GeneratedQueryCorrect`, `SuccessorCorrect`)?  Does the index stay right in the loop (`DfiCorrect`, `LookUpCorrect`), and are queries then at least sound (`QuerySound`)? |
| `audited` | all trees of up to 5 nodes, insertions everywhere, single reads in between, every node read before the next insertion | does the index stay exact? `DfiCorrect`, `TablesInOrder`, `SuccessorNeverPast`, `IndexAssertionsHold`, and the refinement `RefinesDocumentOrder`.  Do the numbers within a type keep the order? `TypeNumbersOrdered` |
| `reads` | all typed trees of 4 nodes, one insertion, every operation, nothing forced up to date | is reading transparent? `ReadsTransparent`, `TypeModsFresh` |
| `iteration` | all trees of 4 and 5 nodes, up to two insertions, a query and its iteration interleaved | `IterationExact`, `SizeExact`, `IterationEnds`, and `ModsFresh` under reads of two nodes at a time |
| `pavl_table` | 9 items, 2 repeated keys, any order, any item probed again | `ShapeSound`, `CountExact`, `RefinesSortedList`, `TypeOK` |
| `filter_life` | 2 trees, 3 filters, any order of operations | `SafeUnlessMisused`, `NothingLeft` |
| `v2_contexts` | 3 contexts, 1 type, 2 node identifiers, 2 nodes, 3 addresses, a client that may call anything | what do the moves of entries do to pointers and nodes, and does a client like the tests ever notice? `SafeUnlessCareless`, `CursorInContext`, `NodesOwned`; do creations end as they should? `AbortsWhenFull`, `CreationEnds` |
| `v2_index` | up to 8 leaves anywhere, `index()` of any node in between | `IndexExact`, `SuccessorExact`, `AssertionsHold` up to 6 nodes; `UpToDateClean`, `OneModPerLeaf`, `SuccessorsMirror`, `IndexesShift` throughout |
| `study` | 3 files of 2 contents, up to 2 calls a file and 2 tokens a call | `EveryFileCounted`, `OneFailurePerContent`, `SamplesBounded`, `StatisticsAgree`, `RunEnds` |
| `stale_index` | from one node, 4 insertions, no discipline | violation of `DfiCorrect` |
| `missed_descendants` | from one node, every node read | violation of `QueryCorrect` |
| `v2_leaf_order` | leaves only, up to 8 | violation of `ParentBeforeChild` |

**Bounds.**  `MaxNodes` bounds the nodes; everything else is bounded by it (modification
counts, indexes, table sizes).  In v1 five nodes include every shape the insertion tells
apart: a displaced node with children, with left and right siblings, below the root, and
insertions that displace nothing; four insertions are what the shortest wrong index
needs.  Six nodes add a node that is stale below a stale parent off the insertion's path.
Nine items exercise every rotation of the tables on both sides, more than once.
Two types are enough for "same type" and "another type", the only distinction the
code makes.  They are exchangeable, which `tests` and `reads` use (`MCSymmetry`): their
properties are about safety and name no type.

Two trees and three filters let two filters be over one tree, or over one each, and a third
be made after one is gone; trees and filters are exchangeable too (`MCSymmetry`).

In v2 the index is exact up to six nodes (`Exact`) and may be wrong from seven: eight
nodes include the failure, what holds in spite of it, and the two rebalancings before it.
One case of the code is beyond this bound: that `index()` of an inner AVL node off the
path hands a pending offset to its children needs an AVL tree of about fifteen nodes,
since insertions always go leftmost.  Three contexts are the least for which a move can
involve an entry that is neither created nor current.  With three addresses an entry moves
to a free one, or two entries change places, so that `ctx` may come to point to
another context or to none.  The two node identifiers and two objects let a draw collide and
let two contexts hold a node each.  One type is enough, as the type identifiers of a
context have nothing to do with its nodes or its place.  In the study three files are
enough for a content to be parsed, fail, and be met again; two calls in a file are enough
for a timeout between the counting of one call and the next.

**Deadlock** is not checked: a program whose assertion failed has stopped, a full tree
(`MaxNodes`) can only be read, all filters may be gone, and the study's run ends.

**Fairness.**

* `DResult`: `WF(Advance)` says that a client that has begun an iteration goes on calling
  `has_next()` and `next()`; that is the loop of `test_result_iteration`
  (`test.cpp:412-420`).  Nothing is assumed of insertions or reads.  The iteration could
  be kept alive by nodes appended to the table it walks: `IterationEnds` says it is not.
* `HierarchContexts`: `WF(Draw)` is about the loop of a creation.  A turn that draws a
  taken identifier changes nothing and does not count as a step, so the condition says
  that a free one comes up in the end, if there is one: the draws are independent and
  uniform over all identifiers (`hierarch.h:27-29`), and it does with probability one.
* `StudyRun`: `WF(Loop)` and `WF(Timeout)`: the script goes on and the timer fires.  The
  parser has no fairness: it may never return.

**What the violations mean.**  Each is a disagreement of the code with what its comments
or its own assertions say; `findings` in `PROJECT.json` quotes the lines.  The tests of
the repository do not meet them: v1's read every node after every insertion, give every
inserted node a type of its own, and query and iterate only trees that are never inserted
into; v2's stop at five nodes, as the call that adds a thousand is commented out.

Related disagreements that have no run of their own: `insert` dereferences a NULL parent
(`dfilter.cpp:47`) before it compares it with NULL, so that `dfilter.hpp:132`'s root
insertion cannot happen; with two types the assertion at line 150 fails after
insertions, because only the displaced node's type is renumbered; a cached successor is
trusted (line 469) after it has become wrong, which is one of the two causes of
`missed_descendants`; and so `size()` (line 823) is off after insertions.  The properties
about these are therefore stated for trees that were indexed as they are (`Generated`), or for one type
(`TypeNumbersOrdered`).
In v2 the smallest identifier is 0 (`hierarch.h:21`), while `tests.cpp:27` asserts an
identifier greater than 0: it fails once in 65536 runs.

## 4. Proofs

| theorem | says |
|---|---|
| `DfiIndexProofs!TreeStaysSound` | `DfiSpec => []TreeSound`: parents, child lists and ancestry agree |
| `DfiIndexProofs!ModsStayFresh` | `DfiSpec => []ModsFresh`: no node is more up to date than its parent or the index |
| `DFilterProofs!FilterTreeSound`, `FilterModsFresh` | the same for the whole filter, `Spec` |
| `DfiIndexProofs!ReadsCommute`, `RefreshIsDfi` | `dfi()` on one set of nodes and then another is `dfi()` on their union; `Refresh` is the recursion of the code |
| `DFilterProofs!TypesStayFresh` | `Spec => []TypeModsFresh`: no node's `type_dfi` is more up to date than that of an ancestor of its type |
| `DFilterProofs!ReadsStayTransparent` | `Spec => ReadsTransparent`: no reading or query changes what `dfi()` or `type_dfi()` returns |
| `DFilterProofs!AuditHolds` | the inductive invariant of a filter under the audit, on which the theorems from here to `SizeStaysExact` rest |
| `DFilterProofs!DfiStaysCorrect`, `TablesStayInOrder`, `LookUpStaysCorrect`, `AssertionsStayTrue` | `Audit` implies `DfiCorrect`, `TablesInOrder`, `LookUpCorrect` and `IndexAssertionsHold`: numbers are places in document order, tables are sorted by them, look-ups are exact, no assertion about the index fails |
| `DFilterProofs!OrderIsRefined` | under the audit `Spec => RefinesDocumentOrder`: an insertion puts one node into the list of nodes and reorders nothing |
| `DFilterProofs!SuccessorStaysCorrect`, `TypeDfiStaysCorrect` | on a tree that was indexed as it is, `postorder_successor_dfi()` is the number after the last descendant, and `type_dfi()` the rank among the nodes of the type, which the walk of `generate_index` counted |
| `DFilterProofs!SuccessorStaysShort`, `QueriesStaySound` | under the audit, after any insertions, no successor reaches past a node's descendants, and a query returns only descendants of its type, each once, in document order |
| `DFilterProofs!GeneratedQueriesComplete` | on a tree that was indexed as it is, a query returns every descendant of its type |
| `DFilterProofs!IterationStaysExact` | under the audit `ResultSpec => []IterationExact`: whatever is inserted between two calls, `next()` gives the nodes the query promised, in that order, and `has_next()` ends after the last |
| `DFilterProofs!SizeStaysExact` | on a tree that was indexed as it is, `size()` is the length of the iteration |
| `PavlTableProofs!ShapeStaysSound`, `CountStaysExact`, `TypeCorrect` | whatever is inserted, links and parents mirror each other, every stored balance is the real difference in height and within -1 .. 1, and the count is the number of nodes |
| `PavlTableProofs!TableIsSortedList` | `Spec => RefinesSortedList`: the AVL table implements the abstract sorted list |
| `FilterLifeProofs!Safety`, `NoLeak` | with one filter per tree nothing freed is used, and nothing is left behind |
| `HierarchContextsProofs!CarefulIsSafe`, `CursorSound`, `NodesStayOwned`, `GivesUpWhenFull` | of a client that may call anything: only a careless one follows a stale `ctx` or meets a deleted node; the cursor is a node of the context at `ctx`, or deleted; every node has one owner; a creation aborts only on a full registry |
| `HierarchIndexProofs!ListsMirror` | successors and lists of predecessors are inverse to each other |
| `HierarchIndexProofs!UpToDateStaysClean` | `Spec => []UpToDateClean`: no offset is pending at an up-to-date node or above it |
| `HierarchIndexProofs!LeavesAreMods` | `Spec => []OneModPerLeaf`: an insertion is one modification, a read is none |
| `HierarchIndexProofs!IndexesShiftByOne` | `Spec => IndexesShift`: an insertion moves every index by one or not at all, a read none, even where the indexes are wrong |
| `HierarchIndexProofs!IndexesStayInRange` | every index is one of `0 .. size - 1`: no unsigned sum of offsets wraps |
| `HierarchIndexProofs!OthersNeverFail` | only two assertions of `add_leaf` can fail: line 88, which `v2_leaf_order` shows failing, and line 102, that a node is selected |
| `HierarchIndexProofs!TreeStaysSound` | for all its wrong order, the AVL tree is linked both ways, in balance and counted |
| `StudyRunProofs!FilesCounted`, `ContentFailsOnce` | every file is counted once; a content fails once |
| `StudyRunProofs!SamplesStayBounded`, `StatisticsStayTrue` | the statistics have a sample of every parsed file and at most one of each failed content; without an interrupted counting they agree with the counters |

They hold for every value of the constants that satisfies the named assumptions of the
modules: any `MaxNodes`, any well-formed initial trees (`InitTreesAssumption`), any types,
with or without the client's discipline; any finite set of items with any keys, equal
ones included (`KeyAssumption`, `FiniteAssumption`); any number of trees and filters; any finite
sets of identifiers, any addresses and objects (`RegistryAssumption`); any number of
files, of calls in a file and of tokens in a call.

**v1's index.**  `ModsFresh` is why `dfi()` may stop at the first up-to-date node, and why
its assertion `base_mod <= latest_mod` holds.  It is not inductive on its own: that the
nodes an insertion marks are closed under "parent of" needs the tree to be one.  The
inductive invariant is `TreeSound /\ ModsTyped /\ ModsFresh`.  The argument:

* `TreeSound` — the new node is hung below an existing one (`HungSound`), and enters
  exactly one child list at one place (`InsertAtFacts`, `GrownLists`).
* Reading — `Touched` is closed under parents up to the first up-to-date node
  (`TouchedParents`), so what `Refresh` marks never overtakes a parent (`RefreshFresh`).
* Inserting — `Propagate` marks the path to the root and children of the path; each of
  these has its parent on the path (`VisitedParents`, `PropagateFresh`); the new node
  itself is read together with its parent before `insert` returns (`CreatedFresh`).
* The filter — `DfiNext` leaves open which nodes the type index reads during an
  insertion and whether its assertion fails; every step of `DFilter!Next` is then a step
  of `DfiNext` or leaves the index alone (`SpecNextSound`).

* Transparency — `DfiValues` is a recursive function: a node takes its value from its
  parent, which is smaller.  `Climbs` is the form of such a definition,
  `ClimbDefined` says that it has a solution and `ClimbUnique` that two of them are equal
  when each node's values agree as soon as those of its parent do.  A reading moves the
  parent's number into `base_index` and the cache alike (`RefreshValues`), so nothing it
  returns changes; and reading twice is reading once (`ReadsCommute`).
* The type index — its invariant `TInv` is that of the index and `TypesFresh`, the range of
  its fields and `TypeModsFresh`.  A call brings up to date a set of nodes closed towards
  the root (`CallSteps`), keeps every value (`CallKeepsValues`) and every order of
  modifications (`CallKeepsFresh`).  `PropagateType` folds over a sequence of calls:
  `CallsCatchUp` is the induction over its length, and says that whatever is called is up to
  date after all of the calls, so that the marks of the insertion are closed under
  "ancestor of the same type" (`PropagateTypeFresh`).

**v1's index under the audit.**  Without the client's discipline the index goes wrong (run
`stale_index`), with it `dfi()` is exact for trees of any size.  The inductive invariant is
`AInv`: what is proved of any client (`TInv`), and

* `Exact` — `DfiValues` numbers the tree in document order (`Numbers`: a bijection onto
  `0 .. size - 1` that preserves `Precedes`); the table of all nodes is a sound AVL tree,
  sorted by these numbers; a node whose cached successor index is the number of nodes
  has nothing after it (`SuccessorsSound`), the one thing the caches are trusted for when
  a child is appended;
* `TypeTables` — the same of the table of every type;
* `Seen` — whatever the client has read since the last insertion is up to date: once
  everything is, `insert` starts from an index in which no update is pending
  (`UpToDate`).

`insert` is then followed statement by statement.  The number it looks up is the one after
the branches of the earlier children (`FitsAt`), which is where the new node goes
(`GrowthNumbers`); the path and the side that `Propagate` visits are moved when they are
not before the displaced node, and every node off them takes the move from its parent, as
the branch of a node is after the displaced node when the node is, except on the path
itself (`ParentFollows`): so exactly the numbers from the new node's on go up by one
(`MovedUp`).  A table is sorted by the old numbers and by the new ones alike
(`Alike`, `TableFollows`), so a search may even compute keys of both kinds on its way
(`MovedAlike`), and the lemmas of `PavlProofs`, which are about keys that stay, apply
before and after.  `generate_index` gives all of it at the start (`AuditInit`).

`Place` counts the nodes before a node, and a number of the interval from `0` to a node's
own is taken by one of these each (`NumberIsPlace`, `CountBetween`).  The refinement of
`DocumentOrder` maps the list of nodes to their numbers, read backwards; `MovedUp` is then
insertion at one place (`InsertMoves`).  For the successors a second invariant is needed,
`BInv`: by how far a cached successor is behind its descendants' end is told by how much
the node itself has moved since (`NotPast`), so that the shift by which
`postorder_successor_dfi` catches up never takes it past the end.  Bounds of types may be
stale in any way: a query compares numbers of nodes it really finds in the table, between
the node's own and an end that is not past, and these are descendants (`SpannedSound`).

On a tree as it was generated a query is also complete.  Each step of `get_bound_node` goes
to a node at which the searches for all numbers between the bound and the node found so
far still meet (`PathNarrows`), so that no member of the type can lie between
(`LaterNearer`), and the descent ends at the least member at or after a number, and at
the greatest before one (`BoundNodeBest`).  The walk from the one to the other through
the table meets all members in between (`RunReaches`), and the bounds of the types, which
`generate_index` took from the tree itself, exclude none (`CoveredEnumerated`).

**v1's iterations.**  `next()` does not search: it walks down to the left or up along the
links of a table that insertions rebalance meanwhile, and leads to the member with the next
number (`FollowingNext`): the way down ends at the first member of a subtree
(`LeftwardFirst`), the way up where the numbers of a subtree end (`UpwardEnds`).  The
invariant is `WInv`: what was promised is a list of members rising in number (`Listed`),
what was given is a prefix of it and the cursor stands at the node after that prefix
(`Reached`); and, while `latest_mod` is what it was at the query, the list has *every*
member between its ends (`ListsAll`).  An insertion either renumbers nothing and adds its
node behind all others, and so behind the list's last, or it advances `latest_mod`
(`InsertEnters`, `CreatedMod`); then the list keeps its order (`ListedKept`) but may be
incomplete, and it is the assertion of `next()` that stands between the client and a node
too many.  `IterationExact` alone is not inductive: without `ListsAll` the next node of the
table need not be the next of the list.  `RInv` keeps the audit's invariant only while that
assertion has not failed.  For `size()`, the numbers of a type are ranks on a tree as it was
indexed, and their difference counts the list (`RanksCount`, `ListCounts`).

**v1's AVL tables.**  The inductive invariant, `IInv`, says that the table is one of some
set `M` of items: `Sound`, `Sorted` and counting `M`.  Nothing of a table says how high a
subtree is or which keys it may hold, so both are carried as functions of the node that
are shown to exist: `Balanceable` heights `h`, from which every balance is read off, and
the `span` of a node, the set of keys its subtree may hold (`Ordered`).  They also take the
place of induction over a tree: a claim about subtrees is proved at the lowest node where
it fails (`Lowest`), and a function that recurs into subtrees is built height by height
(`ComputedExists`), which is how `SearchPath`, `InOrder` and `Height` get their values.
The argument follows `pavl_probe_node_ex`:

* the search meets a path of nodes, each a child of the one before (`SearchFrom`,
  `PathWalked`), and ends where the new key belongs;
* the leaf, and the balances from the last unbalanced node `y` down: exactly those nodes
  have risen by one (`ChildrenGrown`, `OthersStay`), so that the table is in balance again
  or `Lopsided` at `y` (`GrownSound`), whose heavy child then leans, as the assertions of
  lines 130 and 164 say;
* the rotation: each moves the pointers so that links and parents mirror each other
  (`SingleLinked`, `DoubleLinked`), the heights of the rotated nodes fall back to what they
  were before (`SingleBalanced`, `DoubleBalanced`), and the nodes exchange parts of their
  spans (`SingleOrdered`, `DoubleOrdered`); the sides are treated alike, with a variable
  for the side.

A table in order is walked by increasing keys and completely (`WalkRising`, `WalkAll`).
That it is a sorted list is then a matter of lists: the walk after an insertion increases
and has one key more, the list with that key at its place does too
(`PlaceIncreasing`), and two increasing lists of the same keys are equal
(`IncreasingUnique`).  So no rotation needs to be followed to see that it does not show.

**v1's memory.**  Safety needs to know that the `DNode`s `delete_tree` looks at belong to
a live filter over this very tree (`Owned`), and `NoLeak` that a filter that was never
made has nothing (`Unmade`).  Both, with `FilterWhole` and `NothingLeft`, are inductive as
long as the client has not misused the library.

**v2's registry.**  The invariant, `IInv`, has two parts.  `AnyClient` holds whatever is
called: entries live in different places (`Registered`), or an address would not name a
context (`CurrentIs`); every object is held once and none is lost (`HeldOnce`,
`NoneLost`); and a context's nodes are deleted all together (`Together`), since it is a
whole entry that moves (`GoneAre`).  `Careful` is what a client that has never been
careless relies on: whatever is held is allocated (`HeldLive`), `ctx` is where the chosen
context lives (`ChosenThere`), the cursor is not deleted (`CursorLive`), and no context has
nodes while `create_context` draws (`Drawing`), so that the entries it moves delete nothing.
`AbortsWhenFull` is a fact about
cardinalities of finite sets (`FullTakesAll`).

**v2's lists.**  `SuccessorsMirror` is inductive with the ranges of the lists.  The key
lemma, `RelinkMirrors`, is for *any* subset of the nodes waiting for the displaced node:
the lists agree although the indexes by which `add_leaf` chooses that subset go wrong
from seven nodes on.

**v2's index.**  The indexes go wrong from seven nodes on, but most of what the code relies
on does not, and is proved of trees of any size.  The inductive invariant (`Good`) is that
there is a set of nodes, closed towards the root of the AVL tree, that has no offset pending
and includes every up-to-date node (`Covers`); besides, a root has no offset, no node is
ahead of the context, and the tree is `Sound`, as v1's are.  `UpToDateClean` alone is not
inductive: a rotation may move a node below another that is out of date, and that this one
has no offset is because the search has read it.  The steps are those of the code:

* `index()` empties the offsets of the nodes it climbs through and adds them to that set
  (`IndexKeeps`); what it hands to a child is what the child no longer finds above it, so
  that no value changes.  `ClimbedIs`, `SummitIs`, `PendingIs` and `AvlPathIs` give the
  recursive functions their equations, by induction on the depth in the tree.
* `displace()` makes the path the set (`DisplaceGood`).
* The insertion reads the whole search path first (`AlongGood`), and changes the parents of
  nodes on that path only, or to nodes on that path (`ProbeParents`): the set stays closed.
* The indexes: nothing is pending on the path that `displace()` moves, and what is beside
  the path gets one offset at its top, so that every index moves by `delta` or not at all
  (`DisplaceDone`); the search of the insertion reads the nodes whose place in the AVL tree
  it changes, and so keeps all indexes (`EnterDone`).  So indexes stay in `0 .. size - 1`
  (`Intact`), and the assertions about the nodes just moved hold (`Placing`), whatever the
  order of the others.
* `LeavesAreMods` also needs the root to be up to date whenever `add_leaf` is done
  (`Ready`): then no later call of `index()` gets to an out-of-date root.
* `HonestTogether` and its like say of a sequence of assertions that the doubtful ones are
  the first to fail, if any do.

**The study.**  The file in hand is in neither count and its content is not blacklisted
(`InHand`); with that, both counts are inductive at every statement.  The statistics need
to know at which statement the counting is: `Place` says what holds of the file there
(`calls = Positive` once the loop over the calls has ended), `Samples` counts the sample
that the file in hand has already given (`Given`), and `Books` balances sums, arrays and
counters against what the statements still to come will add (`Coming`, `Half`, `Owed`).
`Books` is kept by every statement as long as no timeout has torn a counting apart; a
timeout breaks it for good, but `Samples` survives, because the content in hand is new
in the blacklist.

**Only model-checked.**  The library's induction theorems take an operator as a
parameter, which no installed prover can instantiate; `PavlProofs` states induction on
numbers about sets instead, enough for values that climb to smaller nodes and, with
heights, for the recursions over a table.  Not proved are v2's `IndexExact`,
`SuccessorExact` and `AssertionsHold`, which are true up to six nodes only, so that there is
no invariant of trees of any size behind them; and `TypeNumbersOrdered`.
`IterationEnds`, `CreationEnds` and `RunEnds` are liveness, which is out of the prover's
reach.

## 5. What is left

1. v2 trees of more than eight nodes, for the hand-down of offsets by `index()` in inner
   nodes: beyond exhaustive checking; a run on chosen sequences of insertions would do.
2. The composition of `HierarchIndex` and `HierarchContexts`: two contexts with nodes at a
   time, which only a careless client has today (`SafeUnlessCareless`).
3. The study's `UNIQUE_MODE` and the classification of calls.

## 6. Not modelled, and why

* The FULL variant of v1 is dead code.
* `postorder_predecessor` and the navigation helpers of `DNode` (519-611) change no state
  and are used by tests and drawing only, `type_avl_*` excepted, which are the links of
  `DResult!Following`.  The deleted-node branch of `postorder_successor_dfi` (458-468) is
  unreachable: nodes are deleted only together with their whole tree.
* v2's `TypeNode` and `apply_type` are declared and not defined; `Result` is an empty class.
  Removing nodes does not exist yet, except with a whole context.
* The study: `UNIQUE_MODE` is a constant `false`; the regular expressions of
  `pure_gdbt_call?`, the search for files, progress output and the printed averages are
  text processing; exceptions outside the list of `rescue` end the script.
* v2's `avl_touch` (`avl_bridge.h:17`), a hook that calls `index()` on a node and its
  children: the AVL library the build uses never calls it.
* Memory allocation: `pavl_probe_node_ex` returns NULL when it fails; `new` throws.
* `int` overflow of indexes and modification counts: not reached before memory ends.
* Drawing, timing, build scripts: no state.
