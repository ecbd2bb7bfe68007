------------------------------ MODULE Indexing ------------------------------
(***************************************************************************)
(* The indexing pipeline behind one CodeGraph handle: index_all,           *)
(* index_file, delete_file and apply_delta (codegraph.py), the             *)
(* ExtractionOrchestrator (extraction/orchestrator.py), resolve_and_persist*)
(* (resolution/resolver.py) and TestAnalyzer (test_analysis/analyzer.py),  *)
(* over a working tree that is edited meanwhile and a process that may die *)
(* between any two commits.  Each action ends where the code commits (or   *)
(* raises): what happens in between is invisible to a later open().        *)
(***************************************************************************)
EXTENDS Resolution

CONSTANTS
    Source,         \* the (file, version) pairs the working tree may hold
    Extract,        \* what the extractor returns for each of them
    Tracked,        \* files "git ls-files -c" lists even when they are gone
    BatchSize,      \* _BATCH_SIZE
    RefLimit,       \* limit of get_all_unresolved_refs in resolve_and_persist
    ForeignKeys,    \* the backend enforces edges.source/target (not InferDB)
    Ops,            \* the operations callers use
    Deltas,         \* the (changed, removed) sets they pass to apply_delta
    Interruptible,  \* the operations during which the process may die
    MaxCrashes      \* how often it does

Smaller(m, n) == IF m < n THEN m ELSE n

Missing == "missing"

\* status: "ok"; "partial" (an exception in the visitor, nodes kept, one
\* error); "failed" (no parser: no nodes, one error); "oversize" (above
\* max_file_size); "unsupported" (no language).
Extraction == [status : {"ok", "partial", "failed", "oversize", "unsupported"},
               nodes : SUBSET Node, edges : SUBSET Edge, refs : SUBSET Reference,
               routes : SUBSET Node, routeRefs : SUBSET Reference]

\* The references the extractor finds in any version of any file.
Mentions == UNION {Extract[s].refs \cup Extract[s].routeRefs : s \in Source}

ASSUME IndexingAssumption ==
    /\ Source \subseteq File \X Version
    /\ Missing \notin Version
    /\ NoFile \notin File
    /\ Extract \in [Source -> Extraction]
    /\ \A s \in Source : \A n \in Extract[s].nodes \cup Extract[s].routes : n.file = s[1]
    /\ \A s \in Source : \A e \in Extract[s].edges : e.prov = "extraction"
    /\ IsFiniteSet(Mentions)
    /\ \A s \in Source : Extract[s].status \in {"ok", "partial"} <=> Extract[s].nodes # {}
    /\ Tracked \subseteq File
    /\ BatchSize \in Nat \ {0}
    /\ RefLimit \in Nat \ {0}
    /\ ForeignKeys \in BOOLEAN
    /\ Ops \subseteq {"index_all", "index_file", "delete_file", "apply_delta"}
    /\ Deltas \subseteq (SUBSET File) \X (SUBSET File)
    /\ Interruptible \subseteq {"index_all", "index_file", "apply_delta"}
    /\ MaxCrashes \in Nat

VARIABLES
    disk,   \* the working tree: file -> version or Missing
    db,     \* the tables as the handle's connection sees them
    saved,  \* the tables as committed
    ctx,    \* ResolutionContext: warmed, and the nodes it indexes
    job,    \* the operation in progress and how far it got
    crashes \* how often the process has died

vars == <<disk, db, saved, ctx, job, crashes>>

NoParse == [f \in File |-> NoRecord]

Idle == [op |-> "none", pc |-> "idle", todo |-> {}, removed |-> {},
         cur |-> NoFile, parsed |-> NoParse, fatal |-> FALSE, stored |-> FALSE]

Cold == [warm |-> FALSE, nodes |-> {}]

Init ==
    /\ disk \in [File -> Version \cup {Missing}]
    /\ \A f \in File : disk[f] = Missing \/ <<f, disk[f]>> \in Source
    /\ db = EmptyStore
    /\ saved = EmptyStore
    /\ ctx = Cold
    /\ job = Idle
    /\ crashes = 0

-----------------------------------------------------------------------------
(* What extraction contributes to the tables. *)

\* _prepare_for_storage: edges and references hanging on nodes that are not
\* stored are left out.
Prepare(nodes, edges, refs) ==
    [nodes |-> nodes,
     edges |-> {e \in edges : e.source \in nodes /\ e.target \in nodes},
     refs  |-> {r \in refs : r.from \in nodes}]

\* index_file stores the extractor's result, index_all also the routes of the
\* web frameworks it detected.
FileRows(f, c) ==
    LET x == Extract[<<f, c>>] IN Prepare(x.nodes, x.edges, x.refs)

BulkRows(f, c) ==
    LET x == Extract[<<f, c>>]
    IN  Prepare(x.nodes \cup x.routes, x.edges, x.refs \cup x.routeRefs)

Readable(f) ==
    /\ disk[f] # Missing
    /\ Extract[<<f, disk[f]>>].status \notin {"oversize", "unsupported"}

\* Reading or parsing f leaves an ExtractionError of severity "error".
Fatal(f) ==
    \/ disk[f] = Missing
    \/ Extract[<<f, disk[f]>>].status \in {"partial", "failed"}

Commit(d) == db' = d /\ saved' = d

-----------------------------------------------------------------------------
(* The working tree, and the life of the handle. *)

Edit(f) ==
    /\ \E c \in Version \cup {Missing} :
         /\ c # disk[f]
         /\ c = Missing \/ <<f, c>> \in Source
         /\ disk' = [disk EXCEPT ![f] = c]
    /\ UNCHANGED <<db, saved, ctx, job, crashes>>

\* open() starts a new handle: whatever the old one had not committed is rolled
\* back, and the resolver's caches are cold.
Restart ==
    /\ db' = saved
    /\ ctx' = Cold
    /\ job' = Idle
    /\ UNCHANGED <<disk, saved>>

\* The handle is closed between two operations and opened again.
Reopen ==
    /\ job.pc = "idle"
    /\ ctx # Cold
    /\ Restart
    /\ UNCHANGED crashes

\* The process dies during an operation.
Crash ==
    /\ job.op \in Interruptible
    /\ crashes < MaxCrashes
    /\ crashes' = crashes + 1
    /\ Restart

-----------------------------------------------------------------------------
(* index_all: scan, read and parse, then store in bulk. *)

StartIndexAll ==
    /\ "index_all" \in Ops
    /\ job.pc = "idle"
    /\ job' = [Idle EXCEPT !.op = "index_all", !.pc = "read",
                           !.todo = {f \in File : disk[f] # Missing} \cup Tracked]
    /\ UNCHANGED <<disk, db, saved, ctx, crashes>>

\* Mutant: a file that cannot be read is tried again, for ever.
BugReadAgain(f) ==
    /\ job.pc = "read"
    /\ f \in job.todo
    /\ job' = [job EXCEPT !.todo = IF disk[f] = Missing THEN @ ELSE @ \ {f},
                          !.parsed[f] = IF Readable(f) THEN disk[f] ELSE NoRecord,
                          !.fatal = @ \/ Fatal(f)]
    /\ UNCHANGED <<disk, db, saved, ctx, crashes>>

ReadFile(f) ==
    /\ job.pc = "read"
    /\ f \in job.todo
    /\ job' = [job EXCEPT !.todo = @ \ {f},
                          !.parsed[f] = IF Readable(f) THEN disk[f] ELSE NoRecord,
                          !.fatal = @ \/ Fatal(f)]
    /\ UNCHANGED <<disk, db, saved, ctx, crashes>>

\* Mutant: a recorded file is taken for unchanged.
BugStoreNew ==
    {f \in File : /\ job.parsed[f] # NoRecord
                  /\ BulkRows(f, job.parsed[f]).nodes # {}
                  /\ db.files[f] = NoRecord}

\* The first half of _bulk_store: skip what has no nodes, routes included, or is
\* unchanged, delete what is stale.
ToStore ==
    {f \in File : /\ job.parsed[f] # NoRecord
                  /\ BulkRows(f, job.parsed[f]).nodes # {}
                  /\ db.files[f] # job.parsed[f]}

\* Mutant: the rows of the version before stay.
BugNothingStale == {}

Stale == {f \in ToStore : db.files[f] # NoRecord}

DeleteStale ==
    /\ job.pc = "read"
    /\ job.todo = {}
    /\ job' = [job EXCEPT !.pc = "store", !.todo = ToStore]
    /\ IF Stale # {} THEN Commit(DeleteFiles(db, Stale)) ELSE UNCHANGED <<db, saved>>
    /\ UNCHANGED <<disk, ctx, crashes>>

StoreBatch ==
    /\ job.pc = "store"
    /\ job.todo # {}
    /\ \E batch \in SUBSET job.todo :
         LET Rows(f) == BulkRows(f, job.parsed[f])
         IN  /\ Cardinality(batch) = Smaller(BatchSize, Cardinality(job.todo))
             /\ Commit(BulkInsert(db, UNION {Rows(f).nodes : f \in batch},
                                      UNION {Rows(f).edges : f \in batch},
                                      UNION {Rows(f).refs : f \in batch},
                                      Keep(job.parsed, batch)))
             /\ job' = [job EXCEPT !.todo = @ \ batch, !.stored = TRUE]
    /\ UNCHANGED <<disk, ctx, crashes>>

\* Mutant: resolution only follows when something was stored.
BugFinishUnstored ==
    /\ job.pc = "store"
    /\ job.todo = {}
    /\ job' = IF job.stored THEN [job EXCEPT !.pc = "link"] ELSE Idle
    /\ UNCHANGED <<disk, db, saved, ctx, crashes>>

\* IndexResult.success decides whether resolution follows.
FinishStore ==
    /\ job.pc = "store"
    /\ job.todo = {}
    /\ job' = IF job.stored \/ ~job.fatal THEN [job EXCEPT !.pc = "link"] ELSE Idle
    /\ UNCHANGED <<disk, db, saved, ctx, crashes>>

-----------------------------------------------------------------------------
(* index_file, delete_file and apply_delta: one file at a time. *)

StartIndexFile(f) ==
    /\ "index_file" \in Ops
    /\ job.pc = "idle"
    /\ job' = [Idle EXCEPT !.op = "index_file", !.pc = "next", !.todo = {f}]
    /\ UNCHANGED <<disk, db, saved, ctx, crashes>>

StartApplyDelta(changed, removed) ==
    /\ "apply_delta" \in Ops
    /\ job.pc = "idle"
    /\ job' = [Idle EXCEPT !.op = "apply_delta", !.pc = "next",
                           !.todo = changed, !.removed = removed]
    /\ UNCHANGED <<disk, db, saved, ctx, crashes>>

DeleteFile(f) ==
    /\ "delete_file" \in Ops
    /\ job.pc = "idle"
    /\ Commit(DeleteFiles(db, {f}))
    /\ UNCHANGED <<disk, ctx, job, crashes>>

\* index_file has something to store: the file was read, it has nodes, and the
\* recorded hash differs.
Storable(f) ==
    /\ Readable(f)
    /\ Extract[<<f, disk[f]>>].status # "failed"
    /\ db.files[f] # disk[f]

SkipFile(f) ==
    /\ job.pc = "next"
    /\ f \in job.todo
    /\ ~Storable(f)
    /\ job' = [job EXCEPT !.todo = @ \ {f}, !.fatal = @ \/ Fatal(f)]
    /\ UNCHANGED <<disk, db, saved, ctx, crashes>>

\* Mutant: the rows of the version before are not deleted.
BugKeepStale(f) ==
    /\ job.pc = "next"
    /\ f \in job.todo
    /\ Storable(f)
    /\ job' = [job EXCEPT !.pc = "nodes", !.cur = f, !.parsed[f] = disk[f],
                          !.todo = @ \ {f}, !.fatal = @ \/ Fatal(f)]
    /\ UNCHANGED <<disk, db, saved, ctx, crashes>>

\* _store_result: five transactions, the file record in the last one.
DropStale(f) ==
    /\ job.pc = "next"
    /\ f \in job.todo
    /\ Storable(f)
    /\ job' = [job EXCEPT !.pc = "nodes", !.cur = f, !.parsed[f] = disk[f],
                          !.todo = @ \ {f}, !.fatal = @ \/ Fatal(f)]
    /\ IF db.files[f] # NoRecord
       THEN Commit(DeleteFiles(db, {f}))
       ELSE UNCHANGED <<db, saved>>
    /\ UNCHANGED <<disk, ctx, crashes>>

Current == FileRows(job.cur, job.parsed[job.cur])

\* Mutant: the file record is written first.
BugRecordFirst ==
    /\ job.pc = "nodes"
    /\ Commit(UpsertFile(InsertNodes(db, Current.nodes), job.cur, job.parsed[job.cur]))
    /\ job' = [job EXCEPT !.pc = "edges"]
    /\ UNCHANGED <<disk, ctx, crashes>>

StoreNodes ==
    /\ job.pc = "nodes"
    /\ Commit(InsertNodes(db, Current.nodes))
    /\ job' = [job EXCEPT !.pc = "edges"]
    /\ UNCHANGED <<disk, ctx, crashes>>

StoreEdges ==
    /\ job.pc = "edges"
    /\ IF Current.edges # {}
       THEN Commit(InsertEdges(db, SetToBag(Current.edges)))
       ELSE UNCHANGED <<db, saved>>
    /\ job' = [job EXCEPT !.pc = "refs"]
    /\ UNCHANGED <<disk, ctx, crashes>>

StoreRefs ==
    /\ job.pc = "refs"
    /\ IF Current.refs # {}
       THEN Commit(InsertUnresolvedRefs(db, SetToBag(Current.refs)))
       ELSE UNCHANGED <<db, saved>>
    /\ job' = [job EXCEPT !.pc = "record"]
    /\ UNCHANGED <<disk, ctx, crashes>>

\* Mutant: the file stays the current one after its record.
BugKeepCurrent ==
    /\ job.pc = "record"
    /\ Commit(UpsertFile(db, job.cur, job.parsed[job.cur]))
    /\ job' = [job EXCEPT !.pc = "next"]
    /\ UNCHANGED <<disk, ctx, crashes>>

StoreRecord ==
    /\ job.pc = "record"
    /\ Commit(UpsertFile(db, job.cur, job.parsed[job.cur]))
    /\ job' = [job EXCEPT !.pc = "next", !.cur = NoFile, !.parsed = NoParse]
    /\ UNCHANGED <<disk, ctx, crashes>>

RemoveFile(f) ==
    /\ job.pc = "next"
    /\ job.todo = {}
    /\ f \in job.removed
    /\ Commit(DeleteFiles(db, {f}))
    /\ job' = [job EXCEPT !.removed = @ \ {f}]
    /\ UNCHANGED <<disk, ctx, crashes>>

\* Only apply_delta goes on to resolution, and only without fatal errors.
FinishFiles ==
    /\ job.pc = "next"
    /\ job.todo = {}
    /\ job.removed = {}
    /\ job' = IF job.op = "apply_delta" /\ ~job.fatal
              THEN [job EXCEPT !.pc = "link"]
              ELSE Idle
    /\ UNCHANGED <<disk, db, saved, ctx, crashes>>

-----------------------------------------------------------------------------
(* resolve_and_persist. *)

\* warm_caches: the node index is loaded once in the life of the handle.
Warmed == IF ctx.warm THEN ctx ELSE [warm |-> TRUE, nodes |-> db.nodes]

\* The rows of "es" that satisfy the foreign keys.
Linkable(es) == {e \in DOMAIN es : e.source \in db.nodes /\ e.target \in db.nodes}

\* Mutant: without references the whole pass ends.
BugNothingLeft ==
    /\ job.pc = "link"
    /\ db.refs = EmptyBag
    /\ ctx' = Warmed
    /\ job' = Idle
    /\ UNCHANGED <<disk, db, saved, crashes>>

NothingToResolve ==
    /\ job.pc = "link"
    /\ db.refs = EmptyBag
    /\ ctx' = Warmed
    /\ job' = [job EXCEPT !.pc = "tests"]
    /\ UNCHANGED <<disk, db, saved, crashes>>

Link ==
    /\ job.pc = "link"
    /\ db.refs # EmptyBag
    /\ ctx' = Warmed
    /\ \E refs \in Limited(db.refs, RefLimit) :
       \E pick \in Resolutions(Warmed.nodes, DOMAIN refs) :
         LET new == CreateEdges(refs, pick)
         IN  /\ ForeignKeys => Linkable(new) = DOMAIN new
             /\ IF new # EmptyBag THEN Commit(InsertEdges(db, new))
                                  ELSE UNCHANGED <<db, saved>>
    /\ job' = [job EXCEPT !.pc = "clear"]
    /\ UNCHANGED <<disk, crashes>>

\* Mutant: the IntegrityError is swallowed and resolution goes on.
BugSwallowError ==
    /\ job.pc = "link"
    /\ ForeignKeys
    /\ ctx' = Warmed
    /\ \E refs \in Limited(db.refs, RefLimit) :
       \E pick \in Resolutions(Warmed.nodes, DOMAIN refs) :
         LET new == CreateEdges(refs, pick)
         IN  /\ Linkable(new) # DOMAIN new
             /\ \E before \in SUBSET Linkable(new) :
                  db' = InsertEdges(db, Keep(new, before))
    /\ job' = [job EXCEPT !.pc = "clear"]
    /\ UNCHANGED <<disk, saved, crashes>>

\* IntegrityError in insert_edges: it leaves the operation, nobody rolls back,
\* and the rows inserted before the offending one stay in the transaction.
LinkRaises ==
    /\ job.pc = "link"
    /\ ForeignKeys
    /\ ctx' = Warmed
    /\ \E refs \in Limited(db.refs, RefLimit) :
       \E pick \in Resolutions(Warmed.nodes, DOMAIN refs) :
         LET new == CreateEdges(refs, pick)
         IN  /\ Linkable(new) # DOMAIN new
             /\ \E before \in SUBSET Linkable(new) :
                  db' = InsertEdges(db, Keep(new, before))
    /\ job' = Idle
    /\ UNCHANGED <<disk, saved, crashes>>

ClearRefs ==
    /\ job.pc = "clear"
    /\ Commit(DeleteAllUnresolvedRefs(db))
    /\ job' = [job EXCEPT !.pc = "drop-dispatch"]
    /\ UNCHANGED <<disk, ctx, crashes>>

\* Mutant: the edges of the pass before are not deleted.
BugKeepDerived(prov) == UNCHANGED <<db, saved>>

\* Deleting or inserting no row commits nothing.
DropDerived(prov) ==
    IF WithProvenance(db, prov) # {}
    THEN Commit(DeleteByProvenance(db, prov))
    ELSE UNCHANGED <<db, saved>>

AddDerived(es) ==
    IF es # {} THEN Commit(InsertEdges(db, SetToBag(es))) ELSE UNCHANGED <<db, saved>>

DropDispatch ==
    /\ job.pc = "drop-dispatch"
    /\ DropDerived("heuristic:synthesis")
    /\ job' = [job EXCEPT !.pc = "add-dispatch"]
    /\ UNCHANGED <<disk, ctx, crashes>>

AddDispatch ==
    /\ job.pc = "add-dispatch"
    /\ AddDerived(Synthesize(db, ctx.nodes))
    /\ job' = [job EXCEPT !.pc = "tests"]
    /\ UNCHANGED <<disk, ctx, crashes>>

-----------------------------------------------------------------------------
(* analyze_and_persist. *)

NoTests ==
    /\ job.pc = "tests"
    /\ TestNodes(db) = {}
    /\ job' = Idle
    /\ UNCHANGED <<disk, db, saved, ctx, crashes>>

DropTests ==
    /\ job.pc = "tests"
    /\ TestNodes(db) # {}
    /\ DropDerived("test-analysis")
    /\ job' = [job EXCEPT !.pc = "add-tests"]
    /\ UNCHANGED <<disk, ctx, crashes>>

AddTests ==
    /\ job.pc = "add-tests"
    /\ AddDerived(AnalyzeTests(db))
    /\ job' = Idle
    /\ UNCHANGED <<disk, ctx, crashes>>

-----------------------------------------------------------------------------

BulkStep == (\E f \in File : ReadFile(f)) \/ DeleteStale \/ StoreBatch \/ FinishStore

FileStep ==
    \/ \E f \in File : SkipFile(f) \/ DropStale(f) \/ RemoveFile(f)
    \/ StoreNodes \/ StoreEdges \/ StoreRefs \/ StoreRecord \/ FinishFiles

ResolveStep ==
    NothingToResolve \/ Link \/ LinkRaises \/ ClearRefs \/ DropDispatch \/ AddDispatch

TestStep == NoTests \/ DropTests \/ AddTests

\* The process at work on the operation in progress.
Step == BulkStep \/ FileStep \/ ResolveStep \/ TestStep

\* The calls of its user.
Call ==
    \/ StartIndexAll
    \/ \E f \in File : StartIndexFile(f) \/ DeleteFile(f)
    \/ \E delta \in Deltas : StartApplyDelta(delta[1], delta[2])

Next == Step \/ Call \/ (\E f \in File : Edit(f)) \/ Reopen \/ Crash

Spec == Init /\ [][Next]_vars
=============================================================================
