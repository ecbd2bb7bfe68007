---------------------------- MODULE IndexingProps ----------------------------
(***************************************************************************)
(* What the indexing pipeline must keep true, whatever happens to the      *)
(* working tree and to the process.                                        *)
(***************************************************************************)
EXTENDS Indexing

-----------------------------------------------------------------------------
(* Types. *)

PcOf ==
    [none        |-> {"idle"},
     index_all   |-> {"read", "store"},
     index_file  |-> {"next", "nodes", "edges", "refs", "record"},
     apply_delta |-> {"next", "nodes", "edges", "refs", "record"}]

Resolving == {"link", "clear", "drop-dispatch", "add-dispatch", "tests", "add-tests"}

Storing == {"nodes", "edges", "refs", "record"}

Pcs == {"idle", "read", "store", "next"} \cup Storing \cup Resolving

Job == [op : {"none", "index_all", "index_file", "apply_delta"}, pc : Pcs,
        todo : SUBSET File, removed : SUBSET File, cur : File \cup {NoFile},
        parsed : [File -> Version \cup {NoRecord}], fatal : BOOLEAN, stored : BOOLEAN]

JobOK ==
    /\ job \in Job
    /\ job.pc \in PcOf[job.op] \/ (job.op \in {"index_all", "apply_delta"} /\ job.pc \in Resolving)
    /\ job.pc \in Storing <=> job.cur # NoFile

\* Every variable keeps its type, and the control state of an operation is one
\* the operation has: a file is being stored exactly in the four steps of
\* _store_result.
TypeOK ==
    /\ disk \in [File -> Version \cup {Missing}]
    /\ IsStore(db)
    /\ IsStore(saved)
    /\ ctx.warm \in BOOLEAN
    /\ ctx.nodes \subseteq Node
    /\ JobOK
    /\ crashes \in 0 .. MaxCrashes

-----------------------------------------------------------------------------
(* Safety. *)

Linked(d) == EdgesLinked(d) /\ RefsLinked(d)

\* No edge and no unresolved reference hangs on a node that is not stored,
\* neither in what a crash leaves behind nor in what the handle's own queries
\* see, even after a failed insert left an open transaction.
ReferentialIntegrity == Linked(db) /\ Linked(saved)

Complete(d) ==
    \A f \in File : d.files[f] # NoRecord =>
        LET rows == FileRows(f, d.files[f])
        IN  rows.nodes \subseteq d.nodes /\ rows.edges \subseteq DOMAIN d.edges

\* A hash in "files" makes every later index_all and index_file skip the file,
\* so it may be recorded only when all the file's symbols and structural edges
\* are: the file record is written last by _store_result, and in the same
\* transaction by bulk_insert.
RecordedFilesComplete == Complete(saved)

\* Indexing replaces a file's symbols as a whole: as long as no call died in
\* the middle of index_file, what is stored for a file is what one version of
\* it contains and nothing else, whichever of index_all and index_file stored
\* it (the routes of web frameworks apart, which only index_all extracts).
RecordedFilesExact ==
    crashes = 0 =>
        \A f \in File \ {job.cur} :
            IF saved.files[f] = NoRecord
            THEN NodesOf(saved, {f}) = {}
            ELSE /\ FileRows(f, saved.files[f]).nodes \subseteq NodesOf(saved, {f})
                 /\ NodesOf(saved, {f}) \subseteq BulkRows(f, saved.files[f]).nodes

\* Dispatch and TESTS edges are regenerated by every pass, in two transactions
\* that a crash may separate; there is never a second copy of one.
DerivedEdgesUnique ==
    \A e \in DOMAIN saved.edges :
        e.prov \in {"heuristic:synthesis", "test-analysis"} => saved.edges[e] = 1

\* The nodes of all versions of all files.
Symbols == UNION {Extract[s].nodes \cup Extract[s].routes : s \in Source}

\* No function or method outside the test files bears the name of a test. (A
\* test that overrides a method of production code of the same name would be
\* reached by a dispatch edge, and so would owe its TESTS edge to an edge the
\* next pass deletes.)
TestNamesInTests ==
    \A n \in Symbols : n.kind \in {"function", "method"} /\ n.name \in TestName => n.file \in TestFile

\* A TESTS edge is backed by a use of its target in the test and by an import
\* of the target's file in the test's file, also between passes, when files
\* have been replaced or deleted and no test analysis has run yet.
TestsJustified ==
    \A e \in WithProvenance(saved, "test-analysis") :
        /\ \E use \in DOMAIN saved.edges :
              /\ use.source = e.source /\ use.target = e.target
              /\ use.kind \in {"calls", "instantiates", "references"}
        /\ \E imp \in DOMAIN saved.edges :
              /\ imp.kind = "imports"
              /\ imp.source.file = e.source.file
              /\ imp.target.file = e.target.file

-----------------------------------------------------------------------------
(* What a step may never do. *)

HasEdge(d, r) ==
    \E e \in DOMAIN d.edges :
        /\ e.source = r.from
        /\ e.target.name = r.name
        /\ e.at = r.at
        /\ e.prov = "resolution"

\* "r" leaves the committed table although its file stays.
Dropped(r) == r \in DOMAIN saved.refs \ DOMAIN saved'.refs /\ r.from \in saved'.nodes

\* Resolution forgets a reference of a file that is still indexed only when
\* the edge that replaces it is committed, or when no node it indexes matches:
\* resolution is at least once, a crash between its steps loses nothing.
NoReferenceDropped ==
    [][\A r \in DOMAIN saved.refs :
         Dropped(r) => HasEdge(saved', r) \/ Targets(ctx.nodes, r) = {}]_vars

-----------------------------------------------------------------------------
(* The abstract index. *)

Abs == INSTANCE IndexAbs WITH
    Symbols <- [s \in Source |-> BulkRows(s[1], s[2]).nodes],
    index   <- saved.files,
    symbols <- saved.nodes

\* What index_all and delete_file commit, step by step and across crashes, is
\* a behaviour of the abstract index.
AbsSpec == Abs!Spec

-----------------------------------------------------------------------------
(* Liveness. *)

\* The process works on the operation it has started; its user keeps calling
\* index_all, the documented way to refresh, and opens a new handle now and
\* then.
FairSpec == Spec /\ WF_vars(Step) /\ SF_vars(StartIndexAll) /\ SF_vars(Reopen)

\* From some moment on nobody edits a file and no process dies.
Settled == <>[][Step \/ StartIndexAll \/ Reopen]_vars

\* Every operation ends, by return, by exception or by a crash.
OperationsEnd == job.pc # "idle" ~> job.pc = "idle"

\* Once the tree has settled, refreshing records the current version of every
\* file that can be indexed, for good.
FilesConverge ==
    Settled => <>[](\A f \in File :
        disk[f] # Missing /\ Extract[<<f, disk[f]>>].status \in {"ok", "partial"}
            => saved.files[f] = disk[f])

\* Once the tree has settled no reference stays unresolved: a pass that raised,
\* or that a crash cut short, is made up for by a later one.
RefsConverge == Settled => <>[](saved.refs = EmptyBag)

\* Once the tree has settled the TESTS edges are, between passes, those of the
\* graph as it is: also when a crash came between their deletion and insertion.
TestsConverge ==
    Settled => <>[](job.pc = "idle" =>
        WithProvenance(saved, "test-analysis") = AnalyzeTests(saved))
=============================================================================
