----------------------------- MODULE GraphStore -----------------------------
(***************************************************************************)
(* The relational store of pycodegraph (db/tables.py) and the write        *)
(* operations of QueryBuilder (db/queries.py), as operators from one value *)
(* of the tables to the next.  A transaction's commit is not modelled      *)
(* here: the state machines that use these operators decide when a value   *)
(* becomes durable.                                                        *)
(*                                                                         *)
(* A store d is a record                                                   *)
(*   d.nodes  the rows of "nodes"; the primary key is a hash of (file,     *)
(*            kind, name, line), so a row is identified with those four    *)
(*   d.files  the "files" table: file -> version whose hash is stored      *)
(*   d.edges  the rows of "edges", a bag: the table has no unique key      *)
(*   d.refs   the rows of "unresolved_refs", a bag for the same reason     *)
(***************************************************************************)
EXTENDS Naturals, FiniteSets, Bags

CONSTANTS
    File,       \* relative paths
    Version,    \* file contents, identified with their SHA-256 hashes
    Name,       \* symbol names
    NoRecord,   \* "files" has no row for this path
    MaxCopies   \* a row's multiplicity saturates here (2 means "duplicated")

ASSUME StoreAssumption ==
    /\ NoRecord \notin Version
    /\ MaxCopies \in Nat \ {0, 1}

NodeKind == {"file", "import", "class", "protocol", "function", "method", "route"}

EdgeKind == {"contains", "imports", "calls", "extends", "implements",
             "instantiates", "references", "tests"}

Provenance == {"extraction", "resolution", "heuristic:synthesis", "test-analysis"}

Node == [file : File, kind : NodeKind, name : Name, line : Nat]

\* "at" is the position (line:col) of the mention; home is the file to which
\* the import mappings of the referring file resolve the name, if any.
NoFile == "no-file"

Reference == [from : Node, name : Name, kind : EdgeKind, at : Nat,
              home : File \cup {NoFile}]

Edge == [source : Node, target : Node, kind : EdgeKind, at : Nat,
         prov : Provenance]

\* A bag of rows drawn from S, multiplicities saturated.
IsRows(b, S) ==
    /\ DOMAIN b \subseteq S
    /\ \A x \in DOMAIN b : b[x] \in 1 .. MaxCopies

IsStore(d) ==
    /\ DOMAIN d = {"nodes", "files", "edges", "refs"}
    /\ d.nodes \subseteq Node
    /\ d.files \in [File -> Version \cup {NoRecord}]
    /\ IsRows(d.edges, Edge)
    /\ IsRows(d.refs, Reference)

EmptyStore == [nodes |-> {},
               files |-> [f \in File |-> NoRecord],
               edges |-> EmptyBag,
               refs  |-> EmptyBag]

-----------------------------------------------------------------------------
(* Reading. *)

NodesOf(d, fs) == {n \in d.nodes : n.file \in fs}

Touches(e, ns) == e.source \in ns \/ e.target \in ns

\* The rows a query with LIMIT returns: all of them, or some "limit" of them.
Limited(b, limit) ==
    IF BagCardinality(b) <= limit
    THEN {b}
    ELSE {s \in UNION {[T -> 1 .. MaxCopies] : T \in SUBSET DOMAIN b} :
            /\ \A x \in DOMAIN s : s[x] <= b[x]
            /\ BagCardinality(s) = limit}

-----------------------------------------------------------------------------
(* Writing. *)

Saturate(n) == IF n > MaxCopies THEN MaxCopies ELSE n

\* An INSERT of the rows of c: (+) with saturating multiplicities.
Add(b, c) == [x \in DOMAIN b \cup DOMAIN c |-> Saturate((b (+) c)[x])]

Keep(b, S) == [x \in S |-> b[x]]

\* INSERT OR IGNORE: the primary key is a function of the row.
InsertNodes(d, ns) == [d EXCEPT !.nodes = @ \cup ns]

InsertEdges(d, es) == [d EXCEPT !.edges = Add(@, es)]

InsertUnresolvedRefs(d, rs) == [d EXCEPT !.refs = Add(@, rs)]

UpsertFile(d, f, c) == [d EXCEPT !.files[f] = c]

\* bulk_insert: rows of several files and their records in one transaction.
BulkInsert(d, nodes, edges, refs, records) ==
    [nodes |-> d.nodes \cup nodes,
     files |-> [f \in File |-> IF f \in DOMAIN records THEN records[f] ELSE d.files[f]],
     edges |-> Add(d.edges, SetToBag(edges)),
     refs  |-> Add(d.refs, SetToBag(refs))]

\* Mutant: the edges that lead into the deleted nodes stay.
BugDeleteKeepsIncoming(d, fs) ==
    LET gone == NodesOf(d, fs)
    IN  [nodes |-> d.nodes \ gone,
         files |-> [f \in File |-> IF f \in fs THEN NoRecord ELSE d.files[f]],
         edges |-> Keep(d.edges, {e \in DOMAIN d.edges : e.source \notin gone}),
         refs  |-> Keep(d.refs, {r \in DOMAIN d.refs : r.from \notin gone})]

\* delete_file and delete_files_batch: the rows of the files in fs, and every
\* edge or reference hanging on their nodes.
DeleteFiles(d, fs) ==
    LET gone == NodesOf(d, fs)
    IN  [nodes |-> d.nodes \ gone,
         files |-> [f \in File |-> IF f \in fs THEN NoRecord ELSE d.files[f]],
         edges |-> Keep(d.edges, {e \in DOMAIN d.edges : ~Touches(e, gone)}),
         refs  |-> Keep(d.refs, {r \in DOMAIN d.refs : r.from \notin gone})]

WithProvenance(d, p) == {e \in DOMAIN d.edges : e.prov = p}

DeleteByProvenance(d, p) ==
    [d EXCEPT !.edges = Keep(@, DOMAIN @ \ WithProvenance(d, p))]

DeleteAllUnresolvedRefs(d) == [d EXCEPT !.refs = EmptyBag]

-----------------------------------------------------------------------------
(* Referential integrity, the foreign keys of db/tables.py. *)

EdgesLinked(d) ==
    \A e \in DOMAIN d.edges : e.source \in d.nodes /\ e.target \in d.nodes

RefsLinked(d) == \A r \in DOMAIN d.refs : r.from \in d.nodes
=============================================================================
