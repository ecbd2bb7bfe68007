# A TLA+ specification of pycodegraph

pycodegraph turns a source tree into a graph of symbols in a relational
database and answers questions about it. This directory holds TLA+ modules that
model it, TLC configurations that check them on small instances, and theorems
that the TLA+ proof system (TLAPS) proves for every instance. Paths such as
`codegraph.py` are relative to `src/pycodegraph/` of the repository.

    tlc -workers 2 -config IndexingSafety.cfg MCIndexing.tla
    tlapm IndexingProofs.tla

and likewise `tlapm` on `HandlesProofs`, `TraversalProofs`, `SearchProofs`,
`ExtractorProofs`, `ExploreProofs`, `ContextProofs` and `Induction`.

`PROJECT.json` lists the runs, the theorems, the mutants (a mutant is a
definition of the model changed the way a bug would change the code, under
which the property it names must fail), the lines each definition models, and
the hazards the properties are aimed at.

## 1. The system

| component | state it keeps | operations | what makes it correct |
|---|---|---|---|
| `CodeGraph` (`codegraph.py`) | one connection, one resolver with its caches | `init`, `open`, `close`, `index_all`, `index_file`, `delete_file`, `apply_delta`, queries | a refresh brings the index up to date with the tree |
| orchestrator (`extraction/orchestrator.py`) | none of its own; the `files` table | scan, read, parse, `_bulk_store`, `_store_result` | a recorded hash means that all rows of that version are stored, and no others |
| extractor (`extraction/extractor.py`, `languages/`, `frameworks/`) | a stack of scopes per file | one visit per syntax node | edges between its own nodes, one reference per mention |
| store (`db/queries.py`, `db/tables.py`, `utils/cache.py`) | the tables, an LRU cache of nodes | inserts, deletes, lookups, one commit per operation | foreign keys; the cache never serves a deleted node |
| backends (`db/backends/`) | dialect, full-text shadow tables | connect, pragmas, full-text search | the same results on all three |
| resolver (`resolution/`) | node index and import maps, loaded once per handle | `resolve_and_persist` | no reference is lost; edges agree with the symbols stored |
| synthesizer, test analyzer | derived edges, by provenance | delete all, insert all | derived edges are those of the current graph, once each |
| traversal (`graph/`) | a visited set per query | BFS, DFS, callers, callees, impact, hierarchy, path | what is within the bounds is found, nothing else |
| search (`search/`) | none | a chain of strategies, each tried when the one before finds nothing; rank, cut, filter | what is named exactly is found |
| context builder (`context/`) | one answer at a time: hits, nodes, edges, roots | search, merge, resolve imports, walk, cut, recover edges | the answer is a closed subgraph around its entry points |
| explore (`explore/`) | one answer at a time: budget, sections, files left out | seed, rank files, show each whole, as a skeleton or in clusters, cut to a ceiling | no file is lost, budgets are kept |
| claims (`claims/`) | two tables and a full-text index | insert, delete, overlay | no grounding without its claim |

Calls of `CodeGraph`: indexing goes through the orchestrator and the extractor
to the store, then through resolver, synthesizer and test analyzer, which read
and write the store only. `explore` seeds from search, asks the context builder
for a subgraph (which uses search and traversal), and reads files. Nothing calls
back, and the components share no memory but the handle's connection and caches.

Everything runs in one thread of one process. What makes it hard is not
concurrency inside it but what surrounds it:

- **the working tree** is edited by others while `index_all` reads it;
- **the process may die** between any two commits, and an operation has many:
  `_store_result` alone commits five times, a resolution five more;
- **an exception leaves an open transaction**: `insert_edges` may raise
  `IntegrityError` in the middle of an `executemany`; nobody rolls back, and the
  next commit of the handle, of whatever operation, makes the rows before the
  offending one durable;
- **the handle is stateful**: the resolver's node index is loaded by the first
  resolution of a handle and never again;
- **operations interleave over the life of an index**: `index_all`,
  `index_file`, `apply_delta` and `delete_file` store and delete files in
  different ways, and only two of them resolve;
- **several processes share one database file**: each has its own node cache and
  answers one question by many statements without a transaction around them;
- **files change between two reads** while an answer is put together;
- **syntax trees are arbitrary**: every construct may stand in every other, and
  the visitor's handlers give up at different points.

## 2. What is modelled

`GraphStore` holds the tables as a record of sets and bags and the write
operations of `QueryBuilder` as operators on it. `Resolution` holds the three
computations made in memory: matching references to nodes, dispatch synthesis
and test analysis. `Indexing` extends both with the state machine; its module
comment lists the variables. `IndexAbs` is the abstract index that readers may
rely on. `IndexingProps` states the properties, `IndexingClaims` and `DeltaClaim`
what the documentation says and the code does not do, `MCIndexing` (which `MCDelta`
takes over) and `MCDispatch` give two small projects for TLC, `IndexingProofs` holds
the theorems.

`Walk` holds what the graph queries have in common, `BreadthFirst` and
`DepthFirst` the walks, `Traversal` composes them into one sequence of queries
and states what the answers are; `MCTraversal` gives the graphs. The theorems are
in `TraversalProofs` (what is returned, and how far it may be) and in
`SearchProofs`, which extends it (that nothing is missed). `Induction` has the
principle of induction they rest on, and with it the lemmas about `Lists`.

`Extractor` is the visitor of syntax trees, `ExtractorProofs` has its theorems.
`Search` has the searches as operators
on a database; `Context` extends it with the state machine of the context builder.
`Lists` has what Python does with lists (comprehensions with a condition, sums,
stable sorts, collecting without duplicates) in a form that can be proved about;
`Search`, `Context`, `Clusters` and `Explore` are written with it.
`Clusters` has the clusters and skeletons of a file as operators, `Flow` is the
search for the call chain, and `Explore` composes the two into the engine;
`ExploreProofs` has the theorems about the call chain, the files and the texts,
`ContextProofs` those about the entry points and the answer of the builder. The
properties of each are in `ExtractorProps`, `ContextProps` and `ExploreProps`,
the instances in `MCExtractor`, `MCContext` and `MCExplore`. `Handles` has the node
cache and the summary claims for several handles on one database, with its
properties; `MCHandles` gives the instance and `HandlesProofs` the theorems.

### State of `Indexing`

| variable | in the code |
|---|---|
| `disk` | the contents of the working tree |
| `db` | the tables as the handle's connection sees them, uncommitted rows included |
| `saved` | the tables as committed: what `open()` finds after a crash |
| `ctx` | `ResolutionContext`: `_warmed` and the node index |
| `job` | the operation in progress, its local variables and how far it got |
| `crashes` | how often the process has died (bounds the crashes) |

`db # saved` only after an insert has raised. `Commit(d)` sets both. An action
ends where the code commits or raises, because neither another process nor a
later handle can see anything in between. Hence:

- `index_all` is `StartIndexAll` (the scan), a `ReadFile` per file in any order,
  `DeleteStale` (one transaction), a `StoreBatch` per `BatchSize` files (one
  transaction each, their records included), `FinishStore`;
- `index_file` is `StartIndexFile`, then `SkipFile` or the five transactions of
  `_store_result`: `DropStale`, `StoreNodes`, `StoreEdges`, `StoreRefs`,
  `StoreRecord`, and `FinishFiles`; `apply_delta` does this for each changed
  file and then a `RemoveFile` for each removed one;
- `resolve_and_persist` is `Link` (or `LinkRaises`), `ClearRefs`,
  `DropDispatch`, `AddDispatch`, or `NothingToResolve`, which, like the early
  return it models, skips synthesis; then `NoTests`, or `DropTests` and
  `AddTests`;
- `Edit`, `Crash` and `Reopen` are the environment's.

### Abstractions

- A node's id is a hash of file, kind, name and line, so a node is the record of
  these four. A content hash is the version it is the hash of.
- The extractor is the constant `Extract`: what it returns for each version a
  file may have, with the five outcomes the code tells apart. The routes of web
  frameworks are separate because `index_all` stores them and `index_file` does
  not. A reference carries `home`, the file its name is imported from, which is
  what import resolution finds out.
- `edges` and `unresolved_refs` are bags, since neither table has a unique key;
  multiplicities saturate at `MaxCopies`: 2 stands for "more than one".
- An `executemany` that raises has inserted an arbitrary part of the valid rows
  (the order of the rows is not modelled). This is SQLite's behaviour;
  PostgreSQL aborts the transaction instead, and every later statement raises.
  That is not modelled.
- The order of scanned files, and so what a batch contains, is arbitrary. The
  set of scanned files is what exists plus `Tracked`, the files git lists even
  when they have been deleted.
- Matching is that by exact name and by import. It keeps the tiers of the code
  (the import statement of the file itself, the file the name is imported from, the
  same file, any file) and leaves the choice inside a tier arbitrary: the scores that
  break ties (same directory, same language, camel-case parts) are not modelled, and
  neither are the strategies tried before and after it (`resolution/name_matcher.py:270-294`:
  file paths, qualified names, method calls, near names). The file a name is
  imported from is fixed per reference; the import maps and file contents that
  a handle caches and never drops (`resolution/_context.py:95-116`) are a second way in
  which an open handle resolves against the past, on top of the node index that is
  modelled.
- Which web frameworks a project uses is found out over the whole tree
  (`extraction/orchestrator.py:288-289`), so that in the code the routes of a file may
  come and go with another file. In `Extract` they depend on the file's version alone.
- Of two methods of one class with the same name the code keeps the last one
  for synthesis; the model links both.

### Traversal

A query reads a graph that does not change: `graph` is any of a set of graphs,
whose edges may lead to missing nodes, as they may on a backend without foreign
keys. A frame of `stack` is an activation of the recursive function with the
edges its loops have left; an entry of `queue` carries the edges that led to
its node. SQL returns edges in no particular order, so the next edge is any;
`traverse_bfs` sorts by kind first. `found` and `via` are the nodes and edges of
the answer. Node kinds matter in two ways, being a container and passing
`opts.node_kinds`, so a node is an id with these two attributes.

### Extractor

A position of the tree is a syntax node that the visitor treats in its own way,
with the class of grammar types it is in; what no handler looks at is `plain`.
`agenda` is the call stack of the visitor, what remains of the loops of the active
calls: the children of a position are a set, and `Listed` puts a set of positions
into source order. The pop of a scope and the clearing of the decorators are entries of the
agenda, as they are statements behind the loop in the code. `node_stack`, `nodes`,
`edges`, `refs` and `pending` are the fields of `TreeSitterExtractor`. Each
handler is an action; `Raise` is the exception that `extract` catches.
The tables of a language (`function_types`, ...) decide into which class a
grammar type falls and are inputs, as are names. A declaration with several
declarators is several positions. A type that `classify_class_node` calls a trait goes through the
handler of classes under another kind; the model has it as a class, and does not have modules as
scopes. Framework hooks, signatures, docstrings,
visibility and the dataflow of a language are left out: they add attributes to a
node and no node.

### Context builder and explore

`Context` takes one query or pass of `find_relevant_context` as one action:
`Seed` (done by the engine before), `SearchExact`, `SearchText`, `MergeHits`,
`ResolveImports`, `ExpandHierarchy` per hit, `WalkAround` per hit, `CapFiles`,
`CapTests`, `RecoverEdges`, and `InjectSeeds` (done by the engine after). Between
two of them another process may commit `delete_file`. The rows that LIKE,
full-text search and edit distance find, with their scores, are fields of the
database; the strategies, cuts, merges and boosts are the code's. The node cache
is left out here and is in `Handles`: a cached node of a deleted file may be
served longer than `Context` says. The lookup of types by prefix takes the best 30 rows
that begin with a symbol; the code takes 30 rows that contain it and then keeps those that
begin with it (`context/builder.py:128-155`), and goes through the symbols in the order
of a set.

`Explore` starts from the subgraph. A text counts by its length: a section is a
heading and a sequence of line numbers, so that "which lines are shown" is part
of the state. `ReadFile` is the first read of a file, `ShowWhole`, `ShowSkeleton`,
`ShowOversized` and `ShowClusters` are the four ways in which the loop goes on,
each with its two outcomes (shown or left out), `Finish` is the assembly and the
cut. `EditFile` shortens or removes the current file between the two reads. The
random walk's score of a file is an input; equal files come in any order, because
their scores are kept in a dict that is filled from a set. Blast radius,
relationships and wording are part of `Preface`. Lengths are those of the text: the flow is
put in front of the source after all budgets have been checked (`StructureSize`), and
each section is joined with a newline nobody counts (`Start`). An entry of the list of files
not shown has any length (`Item`), the ceiling reckons with `ItemEstimate`; the
list names `ListMax` files and counts the others. An answer is what it shows (`shown`), names (`named`)
and counts (`more`). `Blank` are the files whose path contains a blank: the regular
expression that collects the files that were cut off does not find them. Where no
section begins late enough, the code cuts at the last newline; the model cuts anywhere.

### Handles

`disk` is what is committed, `draft` what the one open write transaction has made
of it, `holder` the handle whose transaction it is: SQLite lets one connection
write, and a reader sees what is committed. The busy time-out of a second writer
leaves no trace and is not an action. `cache` and `older` are the LRU cache and
the order of its use. The operations of `QueryBuilder` that change nodes each
have an action in which they commit and one in which they raise: after the rows
but before the cache is told (`DeleteRaisesEarly`), or after it but before the
commit (`DeleteRaisesLate`). `load_claims`, `clear_claims` and the overlay's search
are two statements each, and each statement that writes may raise, as may the commit: an
`executemany` of `load_claims` leaves a part of its rows in the open transaction
(`ClaimsRaise`, `GroundingsRaise`), `clear_claims` the deletion of the groundings
(`DeleteClaimsRaises`). A load is a call, seen through one of its claims. `Reopen` ends a process at any moment and starts
another. `suspect` and `status` are history: which files changed behind a cache's
back, and what became of each load.

### Bounds

| constant | value | why it is enough |
|---|---|---|
| files and versions | two files with up to two versions each, or three files with one | one file that refers and one that is referred to; a version that moves a symbol gives it another id |
| `MaxCopies` | 2 | properties only ask whether a row is duplicated |
| `MaxCrashes` | 1 | a second crash starts from a state one crash has left, with the invariants intact; the theorems do not need the bound |
| `BatchSize` | 1 or 2 | with two files, 1 gives several batches and 2 a full one |
| `RefLimit` | 10 | above the number of mentions; see section 5 for what happens below |
| `Interruptible` | per run | keeps the runs apart that ask about a crash in `index_all` and in `apply_delta` |
| graphs of `Traversal` | 3 or 4 nodes | cycles, diamonds, containers in containers; each query starts at a fixed node, and every digraph over three nodes is among them |
| trees of `Extraction` | 4 to 7 positions in nine families | every two constructs in each other, directly and with a third between or beside them; names that are missing, anonymous or shared by two definitions in one line; decorators on nested definitions |
| databases of `Context` | 6 to 8 nodes in 3 files, 18 of them | a name with two to five definitions (the threshold is three), imports in code and in tests, a hierarchy, doubled edges; two deletions and more may happen |
| questions of `Context` | 24 | caps that bind and caps that do not, both ways of asking about tests |
| `MaxEdits` of `Explore` | 1 | a file may disappear or shrink between its two reads, which a second file's change does not touch |
| projects of `Explore` | 640 call graphs over 4 symbols, about 2400 layouts of 3 files | every layout the engine treats in its own way, with and without named symbols, budgets of about two files, so that each refusal, cap and cut happens; `ListMax` 1 of at most 3 files, entries shorter, as long as and longer than `ItemEstimate`, one path with a blank |
| `Handles` | 2 handles, 2 nodes in 2 files, `MaxSize` 1, one claim with two groundings | the second node evicts the first, a statement may raise between two groundings; the theorems have no bounds |

No definition is replaced and no constraint cuts the state space. Deadlock is
checked in every run but those of `MCExtractor` and `MCExplore`, where one walk and
one answer come to an end. Handles are symmetric in `Handles`, which checks no
liveness. TLC does not run the outcomes "failed" (no parser) and
"unsupported"; the theorems cover them.

## 3. What is checked

| run | question | properties |
|---|---|---|
| `IndexingSafety` | `index_all` and `apply_delta` in any order, edits at any moment, a crash between any two commits of `apply_delta`, resolutions that raise | `TypeOK`, `ReferentialIntegrity`, `RecordedFilesComplete`, `RecordedFilesExact`, `NoReferenceDropped` |
| `IndexingLive` | repeated `index_all` in batches of one, a crash, partial parses, an oversize file, a tracked file that is missing, no foreign keys (InferDB) | `AbsSpec`, `OperationsEnd`, `FilesConverge` |
| `IndexingSettle` | `index_file` and `index_all`, a crash during `index_all`, resolutions that raise, the handle reopened now and then | `RefsConverge`, `TestsConverge` |
| `Dispatch` | a class hierarchy over three files and a test, `apply_delta` of single files, a crash | `DerivedEdgesUnique`, `TestsJustified` |
| `Traversal` | each query at depths 0, 1, 2 and unbounded on 340 graphs | `WithinDepth`, `DepthFirstComplete`, `BreadthFirstComplete`, `BreadthFirstTree`, `PathShortest`, `EdgesOnce`, `QueriesEnd` |
| `Extraction` | every tree of the families, an exception at any moment | `TypeOK`, `Nesting`, `SelfContained`, `ReferencesOwned`, `BodyCallsFound`, `DecoratorsKept`, `WalkEnds` |
| `Context` | every question on every database, files deleted between its passes | `SeedsNamed`, `EntryPoints`, `RootsAnswered`, `AnswerClosed` |
| `Explore` | every project, a file changed between its two reads | `FlowSound`, `FlowFound`, `FilesAccounted`, `NecessaryShown`, `OptionalWithinBudget`, `OutputBounded`, `LinesOnce`, `SkeletonBounded` |
| `Handles` | two processes on one file, statements that raise, processes that end | `CacheCoherent`, `ClaimsGrounded` |

The runs `ClaimCallersLost`, `ClaimRefresh` and `ClaimDecorators` are violated; see
section 5.

`AbsSpec` is a refinement: with `index` mapped to the committed `files` table
and `symbols` to the committed nodes, every behaviour of `index_all` and
`delete_file` is one of `IndexAbs`: at any commit the index holds exactly the
symbols of one version of each recorded file. It does not hold of `index_file`,
which commits nodes before the record; `RecordedFilesComplete` and
`RecordedFilesExact` say what holds instead. `NoReferenceDropped` says that
resolution works at least once: the edge is committed before the reference is
deleted.

The properties of `Traversal` compare the answers with the neighbourhood of the
start node, defined by iteration. What the depth-first queries find depends on
the order of the edges as soon as a depth binds on some path but not on all;
`Exact` says from which depth on, and `DepthFirstComplete` that below it nothing
is missed. Of a type hierarchy it says this for the base classes; that the code finds no
derived ones (section 5) is `Fruitful`'s exception, and not what `Rules` says
the hierarchy is.

The properties of `Extraction` are stated over the tree instead of the visitor:
`Scope` is the definition a position stands in, found by going up the tree, and
`Nesting` says that the containment edges are just that. `BodyCallsFound` is the
contract of the two walkers together.

`Context` and `Explore` promise less than one would expect, and the properties
say how much. `RootsAnswered` excepts files with more entry points than the cap;
`AnswerClosed` holds until the seeds are injected, which come without edges.
Of an answer of `Explore`,

- `FilesAccounted` counts: each selected file is shown or named, and those that are
  neither are as many as the answer says there are more; it excepts files that were cut off
  and have a blank in their path, and answers without room for the source;
- `NecessaryShown` is about what is in the answer after the cut. It excepts files edited
  meanwhile, those in which the graph names a symbol or a call behind their end, and
  an answer beyond its ceiling in which no section behind the file's begins within the
  room: the code cuts at the last beginning of a section within it, so that the section
  that begins there is dropped even if it would fit;
- `OptionalWithinBudget` is about the text before the cut, as it is laid out; it allows the
  flow lines and newlines that `total_chars` leaves out;
- `OutputBounded` allows an answer whose source was cut to exceed the ceiling by as much as its list of
  files is longer than was reckoned;
- `LinesOnce` allows a line to be shown again only in a stretch that begins where an envelope (a
  container of more than half of the file, a FILE node included) does;
- `SkeletonBounded` allows as much as the longest callable that may keep its body, and one
  empty line for each body that begins behind the end of its file.

Each exception is something the code does.

`CacheCoherent` says that a cached node is stale only if another process committed
a change to its file or this handle's own delete raised half-way. `ClaimsGrounded`
says that a claim is stored with all its groundings or not at all, unless its load
raised, which may leave some of them, or a clear raised, which may leave none; and that a
search reports it so, or without groundings where a clear came between its two
statements.

### Fairness

`FairSpec` assumes

- weak fairness of `Step`: a synchronous call that has begun goes on;
- strong fairness of `StartIndexAll`: the README tells users to repeat
  `index_all()`; it is enabled only between operations, hence strong;
- strong fairness of `Reopen`: a handle does not live for ever.

For `Traversal`, a query that has begun goes on, and for `Extraction` a walk: both
are plain loops and recursions of one call. `WalkEnds` allows the exception.

The convergence properties assume in addition (`Settled`) that from some moment
on nobody edits and no process dies; nothing converges otherwise.
`RefsConverge` needs `Reopen`: see `ClaimRefresh` below.

## 4. What is proved

| module | theorem | says |
|---|---|---|
| `IndexingProofs` | `TypeCorrect` | `Spec => []TypeOK` |
| | `IntegrityKept` | `ForeignKeys => (Spec => []ReferentialIntegrity)` |
| | `RecordsComplete` | `Spec => []RecordedFilesComplete` |
| | `FilesExact` | `Spec => []RecordedFilesExact` |
| | `BulkRefines` | `BulkOnly => (Spec => AbsSpec)`, the refinement |
| | `DerivedOnce` | `Spec => []DerivedEdgesUnique` |
| | `TestsBacked` | `TestNamesInTests => (Spec => []TestsJustified)` |
| | `ReferencesKept` | `Spec /\ []WithinLimit => NoReferenceDropped` |
| `HandlesProofs` | `CacheCoherence` | `Spec => []CacheCoherent` |
| | `ClaimsKept` | `Spec => []ClaimsGrounded` |
| `TraversalProofs` | `NoEdgeTwice`, `SearchTree` | `Spec => []EdgesOnce`, `Spec => []BreadthFirstTree` |
| | `NothingTooFar` | `Spec => []WithinDepth` |
| `SearchProofs` | `SearchComplete`, `ShortestFound`, `WalksComplete` | `Spec => []BreadthFirstComplete`, `[]PathShortest`, `[]DepthFirstComplete` |
| `ExtractorProofs` | `Typed`, `Whole`, `Nested`, `Owned`, `EveryCall` | `Spec => []TypeOK`, `[]SelfContained`, `[]Nesting`, `[]ReferencesOwned`, `[]BodyCallsFound` |
| | `EveryDecorator` | `OneDefinition => (Spec => []DecoratorsKept)` |
| `ExploreProofs` | `ChainSound`, `NoFileLost` | `Spec => []FlowSound`, `Spec => []FilesAccounted` |
| | `ChainFound` | `FewSymbols => (Spec => []FlowFound)` |
| | `AskedShown`, `OptionalBounded` | `Spec => []NecessaryShown`, `Spec => []OptionalWithinBudget` |
| | `ClustersShowOnce`, `SkeletonsShort` | `Spec => []LinesOnce`, `Spec => []SkeletonBounded` |
| | `AnswerBounded` | `RoomForNote => (Spec => []OutputBounded)` |
| `ContextProofs` | `EntriesSound`, `RootsStay`, `AnswerWhole` | `Spec => []EntryPoints`, `[]RootsAnswered`, `[]AnswerClosed` |
| | `SeedsAre` | `FewNamesakes => (Spec => []SeedsNamed)` |

They hold for every project, extractor, batch size and number of crashes; for
every set of handles, nodes and claims and every cache size; for every graph and
depth; for every syntax tree; for every set of symbols and calls that a query
finds, every layout of files, every budget and however often the files change;
for every database and question, whatever scores its searches give and whichever
files are deleted between two of them.

### Assumptions and hypotheses

The constants' assumptions are named in the modules. `IndexingAssumption` says
what is used of the extractor: the nodes of a file are in that file, its edges
are marked as extracted, the mentions are finitely many. `HandlesAssumption`: each
node is in one file and the cache has room for one. `ExtractorAssumption`: a
parent comes before its children, and a position in a body has a parent that
has one. `ExploreAssumption`: a query finds finitely many edges, files and named
symbols, no id is empty and none is given twice, a symbol begins at line 1 or later and not behind its
last line; the note on a cut is shorter than the absolute ceiling. About the length of an entry of
the list of files nothing is assumed. `ClustersAssumption`: lines, estimates and limits are positive
(`_MAX_SIGNATURES` is 24, `_DENSITY_FALLBACK_THRESHOLD` 20), and a gap is at least
as wide as the padding on both its sides: `context_padding` is 3
(`explore/clustering.py:376`) and no budget has a `gap_threshold` below 7
(`types.py:335`). With a gap of 5 two of them could meet. `SearchAssumption` and the caps in
`ContextAssumption`: a limit is positive. The rest of `ContextAssumption` is about the
databases and questions: they have the fields read, a query returns its rows as a
list, an id is that of one row, and no import or export statement is the source of
an import or export edge (`Storable`), because the extractor makes the definition
around it the source. Seven theorems have a hypothesis
of their own:

- `BulkOnly`: only `index_all` and `delete_file` are called. `index_file` commits
  nodes before the record and does not implement the abstract index.
- `TestNamesInTests`: no function outside the test files bears the name of a
  test. A test that overrides a production method of its own name is reached by
  a dispatch edge; the TESTS edge it gets from that may be all that is left
  when the next pass has deleted the dispatch edges. `MCDispatch` assumes it too.
- `WithinLimit`: no more references than `RefLimit`. Below it the property is
  false (section 5).
- `OneDefinition`: below `decorated_definition` there is one function or class, as
  in Python's grammar. With two of them the first takes the decorators.
  `MCExtractor` assumes it too.
- `FewSymbols`: a query finds no more symbols than `ParentLimit` (1500), beyond which a
  search is given up. `MCExplore` assumes it too.
- `RoomForNote`: the note that an answer was cut is shorter than an answer may be.
  It is with every budget of `from_file_count`; a caller who passes a
  `max_output_chars` of a few dozen gets the note alone, and it is too long.
  `MCExplore` assumes it too.
- `FewNamesakes`: a name in a question has no more definitions than the lookup of
  a symbol returns, 40 with the default of `max_seeds`. The lookup is cut before the
  definitions in tests are dropped, so beyond that tests may crowd out production
  code. `MCContext` assumes it too.

### The inductive invariants

No property but the type invariants is inductive.

*Indexing.* `Inv` adds to the properties that `db` is as complete as `saved`: a raised
insert leaves them different, and the next commit makes `saved` what `db` is.
`Parsed`: whatever is about to be stored is a version the extractor has seen.
`Progress`: in `_store_result` the nodes are there when the edges are stored, and
both when the record is. The proof has one lemma per operation of the store,
then one per action. The second half of `IndexingProofs` goes on from `Inv`:

- `ExactInv`: an open transaction holds edges only (`Agree`), so what a crash
  forgets is no node and no record; what is stored in bulk has no record left
  (`Clean`), and `_store_result` begins without a row of its file (`Begun`).
- `BulkInv` adds that every node stored is of a recorded version; under it each
  action is a step of `IndexAbs` or a stutter.
- `DerivedInv`: there is no dispatch edge between `DropDispatch` and `AddDispatch`, no
  TESTS edge between `DropTests` and `AddTests`, in `db`; and every stored one is of
  the shape its pass generates, so that no other insert adds to it.
- `TestsInv`: the use and the import behind a TESTS edge are not derived
  themselves, so that only the deletion of one of their files takes them, and
  that takes the TESTS edge too.
- `ServedInv`: between `Link` and `ClearRefs` each reference has its edge or no target.

*Handles.* `IInv` is types, `LockHeld`, `Bounded` and `Fresh` of each handle. `LockHeld`
is what makes it go through: a handle between the two statements of a write holds
the write lock, so that the transaction it commits is its own. `CInv` relates
each load to its claims and groundings in the draft and on disk, and a search
between its statements to what it has read.

*Traversal.* The answer grows while `visited`, `stack` and `queue` change with it.
`OnceInv`: the edges that the active loops have left are distinct and none
of them has been returned, because it ends in a node not yet entered or is
entered from one only. `TreeInv`: each returned edge adds exactly one node to
those before it. `NearInv`: what is on the stack or in the queue lies within the
depth it has used up. `LayersInv`: the queue holds two adjacent layers around the
start node, in order. `GoalInv`: the path of an entry is one, and as long as the
layer it is in. `DepthInv`: what is visited and not waiting has its neighbours
visited, so that an empty stack means a closed set, which holds everything
reachable. The neighbourhoods are recursive functions of the depth; the proofs
unfold them by induction over a set of depths (`Induction`, from the
well-foundedness of `<`). `Chain` in `TraversalProofs` says that a growing chain of
subsets stops after as many steps as there are nodes, which is what makes
"unbounded" a depth.

*Extractor.* The state has no trace of what was visited. The invariant says that a
record of it exists: `did`, how each position was visited, if at all, with which

- `Stacked`: below each entry of the agenda there is a height of `node_stack`, and
  at that height the id of the definition the entry stands in;
- `Ahead`: what waits has not been visited, waits once, and what stands around it
  has been;
- `Behind`: nodes and references are of what has been visited;
- `Walked` and `CallsGiven`: a function's body is handed to `_walk_for_calls` or
  waits for it, and calls that were visited have their reference;
- `DecoratorsNext` and `DecoratorsGiven`: a decorated definition is visited next,
  with its decorators pending, and then has them.

Each handler's proof shows what it pushes and pops and extends `did` by the
position it has handled.

*Explore.* `FlowInv`:
`parent` is a tree, in which exactly one way (`Way`) leads from the seed to each
symbol found; that way is one of calls without a detour, and each entry of the
queue knows its length and how many symbols at its end are not named (`Knows`),
which is what bounds the detours when a callee is added. `Chain` follows `parent`
upwards by recursion; `ChainIsWay` shows by induction over the length of the way
that it ends and gives the way back. `FoundInv` follows a row of two calls through
the search that starts at its first symbol (`Underway`): all ahead, or the second
symbol waits one call away, or the third has been found, two calls away or more,
and waits or has counted. `Accounting`: the files that have a section,
those left out and those still to come are disjoint and together the selected
ones, no file has two sections, and there is no answer before the end; so the cut,
which moves the files of the sections it removes to the list, loses none but those
its search does not find. `ListCounts` says that what a list names and what it counts make up
its length.
`Texts` adds what the sections are. `total` is `Preface` and the lengths of the
sections so far, without the newlines between them, until the answer is assembled
(`Within`); `OptionalBounded` adds the flow, which is known to be a list from `FlowInv`
(`Chained`). `Kept` is the conjunction of these invariants. The lines
read last are those the file had then (`Reading`), so that a skeleton is
measured against the longest state of its file and no later one can make it look
too long. `Excused`: a necessary file is left out only when it has changed or has
symbols or calls behind its end; otherwise it has clusters, they show lines, and the
cap on a section leaves it some.
`Proper` is about the text of one section, and rests on the lemmas about `Clusters`.
After the sort by line, each range begins no earlier than the one before;
`Merge` closes a cluster only when the next range begins more than `Gap` lines
behind its end, so that of two clusters the later one begins behind the earlier by more than
`Gap` lines or at an envelope (`Apart`). Selecting some of them and sorting them
again keeps that, in any order (`Clear`), and padding on both sides cannot make two of
them meet unless the later begins at an envelope: then what is shown again is shown in a
stretch from there (`Beginnings`). In a skeleton, the characters
reckoned for the bodies are those of their lines, except for a body behind the
end of the file, which counts as nothing and shows an empty line (`Behind`).
Sorting, picking and adding up are recursive functions of a position; `Induction`
says once what they return, that a sorted list is a permutation in order
(`Arranged`), and the rest cites it.
`Ended` is about the answer. `Start` grows from section to section (`StartsRise`), so what
begins before a position is a first part of the sections (`StartsAre`), and what is cut is
the rest (`CutTail`). From that follow where the files of the answer are (`Settled`, for
`NecessaryShown`) and how long it is (`Limited`, for `OutputBounded`), by cases of where the
boundary lies (`SourceIsCut`, `AllIsCut`); an answer once given stays.

*Context.* `Listed`: hits, nodes, edges and roots are lists without duplicates, which
every query and pass keeps: that is what the lemmas on `Matching`, `FindByExactName`,
`SearchNodes`, the two walks and `Extended` are for. `AnsweredOnce`: while the graph
is walked, no edge is there twice. `RootsKept`: until the files are capped, the roots are
the hits and among the nodes, and after it a root without its node is `Crowded`, in a
file with more hits than the cap. A file's nodes are ranked by a weight that is
at least 10 for an entry point and at most 3 for any other node, so before one that
is cut there are only entry points; cutting tests takes what it cuts from both
lists. Deleting rows meanwhile changes neither, as what is known of a node
(`db.of`) stays.
`SeedsNamed` speaks of one state, and its proof is about one call. `Tells` relates a list of
results to the set of ids in it; ranking keeps it, and a cut does if the list is not too long, so
`Candidates` are the definitions. By induction over the symbols (`SeedStep`), what a
symbol was given is in the end result. Below `MaxSeeds`, the loop has come to the symbol,
because each earlier seed is a definition of an earlier symbol; and no other symbol
can have added one of its definitions, because a definition has one name. `Shrunk`
carries `FewNamesakes` from the databases at the start to the present one.

### Left to TLC

- liveness, which is out of the prover's reach: `OperationsEnd`, `FilesConverge`,
  `RefsConverge`, `TestsConverge`, `QueriesEnd`, `WalkEnds`.

Every invariant that a passing run checks is proved.

## 5. Where the code does something else

Each of these runs checks one property that a document, a comment or a test
states, and TLC finds it violated.

- `ClaimCallersLost`: `apply_delta` is documented to resolve "to rebuild cross-file
  reference edges" (`codegraph.py:330`). Re-indexing a changed file deletes the edges from
  unchanged files into it, and their references were deleted by the resolution
  before, so there is nothing to rebuild them from. `DeltaClaim` remembers the references that
  had an edge when `apply_delta` began; in the trace the project is indexed and linked, and
  then one file is edited and re-indexed.
- `ClaimRefresh`: on a handle that stays open, resolution matches against the
  nodes of its first pass. Once a referenced symbol has moved, `insert_edges`
  raises in every later `index_all`, and the references stay unresolved.
- `ClaimDecorators`: the pending decorators are cleared after the whole decorated
  definition has been visited, so the methods of a decorated class are recorded
  with the class's decorators, until an inner decorated definition clears them.
  A class decorated with a name that counts as a property makes its methods
  properties.

The following were found on the way and have no run, either because no document
says otherwise or because another run covers the ground.

Indexing:

- A crash between inserting the edges and deleting the references makes the next
  pass insert the same edges again; `edges` has no unique key.
- A crash in `index_file` before the record leaves nodes without a record; if the
  file is then edited, both versions' nodes stay. The committed states that
  `RecordedFilesComplete` allows are exactly these.
- Without unresolved references, as after the removal of a file, resolution
  returns before synthesis, and dispatch edges remain that nothing justifies.
- A failed `insert_claims` leaves its claims, and some of their groundings or none, in the open
  transaction with the write lock held. The next commit of the handle stores them so, and a
  repeated `load_claims` stores them again, under new ids.
- When `delete_all_claims` raises behind its first statement, the next commit of the handle
  makes the deletion of the groundings durable and leaves the claims. `status` marks such
  claims as torn.

Traversal and search:

- A caller first met on a long way is not followed again on a short one, so
  callers within `max_depth` hops are missed (`Exact` in `Traversal`).
- `get_type_hierarchy` walks the descendants with the visited set of the
  ancestors, in which the start node is (`graph/traversal.py:156-157`); it finds no derived class.
  `src/tests/test_graph_traversal.py:337` says "Hierarchy of User should include Admin (derived
  class)", and then accepts an answer without it. `Rules` has both walks, and
  `DepthFirstComplete` excepts the second.
- `find_exact_name_files` joins nodes and files on nothing and returns every
  indexed file as soon as one node has the name: the boost for distinctive names
  is the same for all files.
- Nodes of exactly the name searched join the results whatever kinds and languages
  were asked for; the filters on path and name are applied after the cut to the
  limit, so a filtered search may come up short.

Context and explore:

- The cap on a file's nodes leaves the entry points it cuts among the roots; the
  cap on tests does not. `max_nodes` is not a hard bound on
  the answer. Injected seeds have no edges.
- `_resolve_imports_to_definitions` follows the import edges that leave an import
  node, but the extractor draws them from the definition around the statement to
  what it imports. A hit on an import yields nothing; the definition is in the answer
  only if it was hit itself.
- The lookup of a symbol to seed is cut to 40 definitions before those in tests
  are dropped, so in a project with many test doubles of a name the one production
  definition may not be seeded.
- The hard ceiling can be exceeded: the paths that are cut off join the list of
  files not shown after its room was reckoned, and an entry of a path and up to five symbols
  may be longer than the 120 characters reckoned for it.
- The cut to the ceiling removes sections of files that were asked for, and, unless it begins in the
  first three tenths of the room, the last one that begins within the room, even if it fits.
- The list of files not shown names ten and counts the rest. A file that was cut off and has a
  blank in its path joins no list, as `^#### (\S+)` reads half of its path.
- The nine tenths that optional files may fill are counted without the flow and without the newlines
  that join the sections, so in the text they may end later.
- Skeletons bypass the cap on sections and never count as trimmed; the note
  "complete source" is added even when a section was trimmed.
- `find_flow_chain` calls its result the longest chain; it is the farthest one by
  shortest ways. A symbol first reached after an unnamed one is not reached
  again, so a chain may be missed that `MaxBridge` allows.
- Extending clusters to their envelope can make two of them overlap, and lines are shown
  twice. Where the FILE node is in the subgraph, it is such an envelope.

Two more show up as preconditions of properties that hold. With `RefLimit`
below the number of references, `NoReferenceDropped` fails: the query is
limited, the deletion is not. With a tracked file that is missing and
`index_file` in use, `RefsConverge` fails: an `index_all` that stores nothing and
has a read error is not a success and skips resolution.

## 6. Not modelled, and the plan

Left out for good, with the reason:

- the tables of the five languages and the regular expressions of the framework
  extractors: functions from text without state, whose results are inputs
  (`Position`, `Extract`);
- SQL, full-text ranking and the dialects of the backends: the databases' own;
  PostgreSQL's aborted transactions are not modelled either;
- parsing a question into terms, symbols and stems, name and path scores: string
  processing, whose results are inputs of `Context`;
- the random walk of `explore/rwr.py`: real arithmetic;
- the formatters and the blast radius: text that no decision rests on;
- the strategies of name matching beside the exact name, the scores inside its tiers, and the
  search for the path of an import with its re-exports: `Resolution` leaves the choice inside a tier to
  chance, so no property rests on the scores;
- `graph/queries.py`: filters over single lookups; `find_circular_dependencies` is
  the exception and no part of the program calls it on the way to an answer;
- dataflow edges, configuration files, the example script.

What is left is liveness, and what the model's recursive functions compute where
no invariant depends on it, such as the rows a text search returns.
