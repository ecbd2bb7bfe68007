---------------------------- MODULE IndexingProofs ----------------------------
(***************************************************************************)
(* What holds of the indexing pipeline for every project, every extractor, *)
(* every batch size and any number of crashes.  First its type invariant,  *)
(* the referential integrity of the tables (with foreign keys) and the     *)
(* completeness of the recorded files.  Then what the tables hold: of a    *)
(* file the symbols of one version (index_all, index_file), of a reference *)
(* the edge it became (resolve_and_persist), of a derived edge one copy,   *)
(* and of a TESTS edge its justification (test_analysis); and that the     *)
(* bulk operations implement the abstract index.                           *)
(***************************************************************************)
EXTENDS IndexingProps, TLAPS, FiniteSetTheorems

-----------------------------------------------------------------------------
(* The inductive invariant. *)

\* A store whose recorded versions are versions of their files, whose
\* references were found in them, and which is complete.
Sound(d) ==
    /\ IsStore(d)
    /\ \A f \in File : d.files[f] # NoRecord => <<f, d.files[f]>> \in Source
    /\ DOMAIN d.refs \subseteq Mentions
    /\ Complete(d)

\* What was read or is to be stored is a version the extractor has seen.
Parsed ==
    /\ \A f \in File : disk[f] # Missing => <<f, disk[f]>> \in Source
    /\ \A f \in File : job.parsed[f] # NoRecord => <<f, job.parsed[f]>> \in Source
    /\ job.pc = "store" => \A f \in job.todo : job.parsed[f] # NoRecord
    /\ job.pc \in Storing => job.parsed[job.cur] # NoRecord

\* How far _store_result got with the current file.
Progress ==
    /\ job.pc \in {"edges", "refs", "record"} => Current.nodes \subseteq db.nodes
    /\ job.pc \in {"refs", "record"} => Current.edges \subseteq DOMAIN db.edges

Inv ==
    /\ disk \in [File -> Version \cup {Missing}]
    /\ ctx.warm \in BOOLEAN
    /\ ctx.nodes \subseteq Node
    /\ crashes \in 0 .. MaxCrashes
    /\ JobOK
    /\ Sound(db)
    /\ Sound(saved)
    /\ ForeignKeys => ReferentialIntegrity
    /\ Parsed
    /\ Progress

-----------------------------------------------------------------------------
(* Bags of rows. *)

\* Inserting rows of a type keeps the type, and adds exactly the new rows.
LEMMA AddRows ==
    ASSUME NEW S, NEW b, NEW c, IsRows(b, S), IsRows(c, S)
    PROVE  IsRows(Add(b, c), S) /\ DOMAIN Add(b, c) = DOMAIN b \cup DOMAIN c
  <1>1. DOMAIN Add(b, c) = DOMAIN b \cup DOMAIN c
    BY DEF Add
  <1>2. ASSUME NEW x \in DOMAIN b \cup DOMAIN c
        PROVE  Add(b, c)[x] \in 1 .. MaxCopies
    <2>1. Add(b, c)[x] = Saturate((b (+) c)[x])
      BY DEF Add
    <2>2. (b (+) c)[x] = (IF x \in DOMAIN b THEN b[x] ELSE 0)
                           + (IF x \in DOMAIN c THEN c[x] ELSE 0)
      BY DEF (+)
    <2>3. (b (+) c)[x] \in Nat \ {0}
      BY <2>2, StoreAssumption DEF IsRows
    <2> QED
      BY <2>1, <2>3, StoreAssumption DEF Saturate
  <1> QED
    BY <1>1, <1>2 DEF IsRows

\* Deleting rows keeps the type.
LEMMA KeepRows ==
    ASSUME NEW S, NEW b, IsRows(b, S), NEW T \in SUBSET DOMAIN b
    PROVE  IsRows(Keep(b, T), S) /\ DOMAIN Keep(b, T) = T
  BY DEF IsRows, Keep

\* A set of rows, each inserted once.
LEMMA SetRows ==
    ASSUME NEW S, NEW T \in SUBSET S
    PROVE  IsRows(SetToBag(T), S) /\ DOMAIN SetToBag(T) = T
  BY StoreAssumption DEF IsRows, SetToBag

-----------------------------------------------------------------------------
(* What the extractor returns. *)

\* The rows of a version of f are rows, on nodes of f; both ways to index a
\* file store what index_file stores of it.
LEMMA Extracted ==
    ASSUME NEW f, NEW c, <<f, c>> \in Source
    PROVE  LET x == FileRows(f, c)
               y == BulkRows(f, c)
           IN  /\ f \in File /\ c \in Version
               /\ x.nodes \subseteq y.nodes /\ x.edges \subseteq y.edges
               /\ y.nodes \subseteq Node /\ y.edges \subseteq Edge
               /\ x.refs \subseteq Mentions /\ y.refs \subseteq Mentions
               /\ x.refs \subseteq Reference /\ y.refs \subseteq Reference
               /\ \A n \in y.nodes : n.file = f
               /\ \A e \in y.edges : /\ e.source \in y.nodes /\ e.target \in y.nodes
                                     /\ e.prov = "extraction"
               /\ \A e \in x.edges : e.source \in x.nodes /\ e.target \in x.nodes
               /\ \A r \in x.refs : r.from \in x.nodes
               /\ \A r \in y.refs : r.from \in y.nodes
  <1>1. Extract[<<f, c>>] \in Extraction
    BY IndexingAssumption
  <1>2. \A n \in Extract[<<f, c>>].nodes \cup Extract[<<f, c>>].routes : n.file = f
    BY IndexingAssumption
  <1>3. \A e \in Extract[<<f, c>>].edges : e.prov = "extraction"
    BY IndexingAssumption
  <1>4. f \in File /\ c \in Version
    BY IndexingAssumption
  <1>5. Extract[<<f, c>>].refs \cup Extract[<<f, c>>].routeRefs \subseteq Mentions
    BY DEF Mentions
  <1> QED
    BY <1>1, <1>2, <1>3, <1>4, <1>5 DEF FileRows, BulkRows, Prepare, Extraction
-----------------------------------------------------------------------------
(* What the write operations of the store preserve. *)

\* The empty store of a new project.
LEMMA SoundEmpty == Sound(EmptyStore) /\ Linked(EmptyStore)
  BY SetRows DEF Sound, Linked, EdgesLinked, RefsLinked, EmptyStore, EmptyBag,
                 SetToBag, IsStore, IsRows, Complete

\* Deleting files takes their records, their nodes and all that hangs on them,
\* and nothing of a file that stays recorded.
LEMMA SoundDelete ==
    ASSUME NEW d, Sound(d), NEW fs \in SUBSET File
    PROVE  /\ Sound(DeleteFiles(d, fs))
           /\ Linked(d) => Linked(DeleteFiles(d, fs))
  <1> DEFINE e == DeleteFiles(d, fs)
             gone == NodesOf(d, fs)
             edges == {x \in DOMAIN d.edges : ~Touches(x, gone)}
             refs == {r \in DOMAIN d.refs : r.from \notin gone}
  <1>1. /\ DOMAIN e = {"nodes", "files", "edges", "refs"}
        /\ e.nodes = d.nodes \ gone
        /\ e.files = [f \in File |-> IF f \in fs THEN NoRecord ELSE d.files[f]]
        /\ e.edges = Keep(d.edges, edges)
        /\ e.refs = Keep(d.refs, refs)
    BY DEF DeleteFiles
  <1>2. /\ IsRows(e.edges, Edge) /\ DOMAIN e.edges = edges
        /\ IsRows(e.refs, Reference) /\ DOMAIN e.refs = refs
    <2>1. IsRows(d.edges, Edge) /\ IsRows(d.refs, Reference)
      BY DEF Sound, IsStore
    <2> QED
      BY <1>1, <2>1, KeepRows
  <1>3. IsStore(e)
    BY <1>1, <1>2 DEF Sound, IsStore
  <1>4. \A f \in File : e.files[f] # NoRecord => f \notin fs /\ e.files[f] = d.files[f]
    BY <1>1
  <1>5. Complete(e)
    <2> SUFFICES ASSUME NEW f \in File, e.files[f] # NoRecord
                 PROVE  LET rows == FileRows(f, d.files[f])
                        IN  rows.nodes \subseteq e.nodes /\ rows.edges \subseteq DOMAIN e.edges
      BY <1>4 DEF Complete
    <2> DEFINE rows == FileRows(f, d.files[f])
    <2>1. /\ f \notin fs
          /\ <<f, d.files[f]>> \in Source
          /\ rows.nodes \subseteq d.nodes
          /\ rows.edges \subseteq DOMAIN d.edges
      BY <1>4 DEF Sound, Complete
    <2>2. /\ \A n \in rows.nodes : n.file = f
          /\ \A x \in rows.edges : x.source \in rows.nodes /\ x.target \in rows.nodes
      BY <2>1, Extracted
    <2>3. \A n \in rows.nodes : n \notin gone
      BY <2>1, <2>2 DEF NodesOf
    <2> QED
      BY <1>1, <1>2, <2>1, <2>2, <2>3 DEF Touches
  <1>6. Sound(e)
    BY <1>2, <1>3, <1>4, <1>5 DEF Sound
  <1>7. Linked(d) => Linked(e)
    BY <1>1, <1>2 DEF Linked, EdgesLinked, RefsLinked, Touches
  <1> QED
    BY <1>6, <1>7

\* Inserting edges.
LEMMA SoundInsertEdges ==
    ASSUME NEW d, Sound(d), NEW es, IsRows(es, Edge)
    PROVE  LET e == InsertEdges(d, es)
           IN  /\ Sound(e)
               /\ e.nodes = d.nodes
               /\ DOMAIN e.edges = DOMAIN d.edges \cup DOMAIN es
               /\ Linked(d) /\ (\A x \in DOMAIN es : x.source \in d.nodes /\ x.target \in d.nodes)
                    => Linked(e)
  <1> DEFINE e == InsertEdges(d, es)
  <1>1. IsRows(d.edges, Edge) /\ DOMAIN d = {"nodes", "files", "edges", "refs"}
    BY DEF Sound, IsStore
  <1>2. /\ DOMAIN e = DOMAIN d
        /\ e.nodes = d.nodes /\ e.files = d.files /\ e.refs = d.refs
        /\ e.edges = Add(d.edges, es)
    BY <1>1 DEF InsertEdges
  <1>3. IsRows(e.edges, Edge) /\ DOMAIN e.edges = DOMAIN d.edges \cup DOMAIN es
    BY <1>1, <1>2, AddRows
  <1>4. Sound(e)
    BY <1>2, <1>3 DEF Sound, IsStore, Complete
  <1> QED
    BY <1>2, <1>3, <1>4 DEF Linked, EdgesLinked, RefsLinked

\* Inserting references.
LEMMA SoundInsertRefs ==
    ASSUME NEW d, Sound(d), NEW rs, IsRows(rs, Reference), DOMAIN rs \subseteq Mentions
    PROVE  LET e == InsertUnresolvedRefs(d, rs)
           IN  /\ Sound(e)
               /\ e.nodes = d.nodes
               /\ e.edges = d.edges
               /\ Linked(d) /\ (\A r \in DOMAIN rs : r.from \in d.nodes) => Linked(e)
  <1> DEFINE e == InsertUnresolvedRefs(d, rs)
             all == Add(d.refs, rs)
  <1>1. /\ DOMAIN e = DOMAIN d
        /\ e.nodes = d.nodes /\ e.files = d.files /\ e.edges = d.edges
        /\ e.refs = all
    BY DEF InsertUnresolvedRefs, Sound, IsStore
  <1>2. IsRows(d.refs, Reference)
    BY DEF Sound, IsStore
  <1>3. IsRows(all, Reference) /\ DOMAIN all = DOMAIN d.refs \cup DOMAIN rs
    BY <1>2, AddRows, ZenonT(40)
  <1>4. Sound(e)
    BY <1>1, <1>3 DEF Sound, IsStore, Complete
  <1> QED
    BY <1>1, <1>3, <1>4 DEF Linked, EdgesLinked, RefsLinked

\* Inserting nodes.
LEMMA SoundInsertNodes ==
    ASSUME NEW d, Sound(d), NEW ns \in SUBSET Node
    PROVE  LET e == InsertNodes(d, ns)
           IN  /\ Sound(e)
               /\ e.nodes = d.nodes \cup ns
               /\ e.edges = d.edges
               /\ Linked(d) => Linked(e)
  <1> DEFINE e == InsertNodes(d, ns)
  <1>1. DOMAIN d = {"nodes", "files", "edges", "refs"} /\ d.nodes \subseteq Node
    BY DEF Sound, IsStore
  <1>2. /\ DOMAIN e = DOMAIN d
        /\ e.nodes = d.nodes \cup ns
        /\ e.files = d.files /\ e.edges = d.edges /\ e.refs = d.refs
    BY <1>1 DEF InsertNodes
  <1>3. Sound(e)
    BY <1>1, <1>2 DEF Sound, IsStore, Complete
  <1> QED
    BY <1>2, <1>3 DEF Linked, EdgesLinked, RefsLinked

\* Recording a file whose rows are stored.
LEMMA SoundUpsertFile ==
    ASSUME NEW d, Sound(d), NEW f \in File, NEW c \in Version, <<f, c>> \in Source,
           FileRows(f, c).nodes \subseteq d.nodes,
           FileRows(f, c).edges \subseteq DOMAIN d.edges
    PROVE  /\ Sound(UpsertFile(d, f, c))
           /\ Linked(d) => Linked(UpsertFile(d, f, c))
  <1> DEFINE e == UpsertFile(d, f, c)
  <1>1. /\ DOMAIN d = {"nodes", "files", "edges", "refs"}
        /\ d.files \in [File -> Version \cup {NoRecord}]
    BY DEF Sound, IsStore
  <1>2. /\ DOMAIN e = DOMAIN d
        /\ e.files = [d.files EXCEPT ![f] = c]
        /\ e.nodes = d.nodes /\ e.edges = d.edges /\ e.refs = d.refs
    BY <1>1 DEF UpsertFile
  <1>3. Sound(e)
    BY <1>1, <1>2 DEF Sound, IsStore, Complete
  <1> QED
    BY <1>2, <1>3 DEF Linked, EdgesLinked, RefsLinked

\* Deleting what synthesis or test analysis derived leaves structural edges.
LEMMA SoundDeleteDerived ==
    ASSUME NEW d, Sound(d), NEW p, p # "extraction"
    PROVE  /\ Sound(DeleteByProvenance(d, p))
           /\ Linked(d) => Linked(DeleteByProvenance(d, p))
  <1> DEFINE e == DeleteByProvenance(d, p)
             rest == DOMAIN d.edges \ WithProvenance(d, p)
  <1>1. DOMAIN d = {"nodes", "files", "edges", "refs"} /\ IsRows(d.edges, Edge)
    BY DEF Sound, IsStore
  <1>2. /\ DOMAIN e = DOMAIN d
        /\ e.nodes = d.nodes /\ e.files = d.files /\ e.refs = d.refs
        /\ e.edges = Keep(d.edges, rest)
    BY <1>1 DEF DeleteByProvenance
  <1>3. IsRows(e.edges, Edge) /\ DOMAIN e.edges = rest
    BY <1>1, <1>2, KeepRows
  <1>4. Complete(e)
    <2> SUFFICES ASSUME NEW f \in File, d.files[f] # NoRecord,
                        NEW x \in FileRows(f, d.files[f]).edges
                 PROVE  x \in rest
      BY <1>2, <1>3 DEF Complete, Sound
    <2>1. x \in DOMAIN d.edges /\ <<f, d.files[f]>> \in Source
      BY DEF Sound, Complete
    <2>2. x.prov = "extraction"
      BY <2>1, Extracted
    <2> QED
      BY <2>1, <2>2 DEF WithProvenance
  <1>5. Sound(e)
    BY <1>2, <1>3, <1>4 DEF Sound, IsStore
  <1> QED
    BY <1>2, <1>3, <1>5 DEF Linked, EdgesLinked, RefsLinked

\* Emptying unresolved_refs.
LEMMA SoundDeleteRefs ==
    ASSUME NEW d, Sound(d)
    PROVE  /\ Sound(DeleteAllUnresolvedRefs(d))
           /\ Linked(d) => Linked(DeleteAllUnresolvedRefs(d))
  <1> DEFINE e == DeleteAllUnresolvedRefs(d)
  <1>1. DOMAIN d = {"nodes", "files", "edges", "refs"}
    BY DEF Sound, IsStore
  <1>2. /\ DOMAIN e = DOMAIN d
        /\ e.nodes = d.nodes /\ e.files = d.files /\ e.edges = d.edges
        /\ e.refs = SetToBag({})
    BY <1>1 DEF DeleteAllUnresolvedRefs, EmptyBag
  <1>3. IsRows(e.refs, Reference) /\ DOMAIN e.refs = {}
    BY <1>2, SetRows
  <1>4. Sound(e)
    BY <1>2, <1>3 DEF Sound, IsStore, Complete
  <1> QED
    BY <1>2, <1>3, <1>4 DEF Linked, EdgesLinked, RefsLinked
\* bulk_insert: the rows of the files of a batch, with their records.
LEMMA SoundBulkInsert ==
    ASSUME NEW d, Sound(d),
           NEW batch \in SUBSET File, NEW parsed \in [File -> Version \cup {NoRecord}],
           \A f \in batch : <<f, parsed[f]>> \in Source
    PROVE  LET Rows(f) == BulkRows(f, parsed[f])
               e == BulkInsert(d, UNION {Rows(f).nodes : f \in batch},
                                  UNION {Rows(f).edges : f \in batch},
                                  UNION {Rows(f).refs : f \in batch},
                                  Keep(parsed, batch))
           IN  Sound(e) /\ (Linked(d) => Linked(e))
  <1> DEFINE Rows(f) == BulkRows(f, parsed[f])
             ns == UNION {Rows(f).nodes : f \in batch}
             es == UNION {Rows(f).edges : f \in batch}
             rs == UNION {Rows(f).refs : f \in batch}
             e == BulkInsert(d, ns, es, rs, Keep(parsed, batch))
  <1>1. /\ ns \subseteq Node /\ es \subseteq Edge /\ rs \subseteq Reference /\ rs \subseteq Mentions
        /\ \A x \in es : x.source \in ns /\ x.target \in ns
        /\ \A r \in rs : r.from \in ns
        /\ \A f \in batch : /\ FileRows(f, parsed[f]).nodes \subseteq ns
                            /\ FileRows(f, parsed[f]).edges \subseteq es
    <2>1. ASSUME NEW f \in batch
          PROVE  /\ FileRows(f, parsed[f]).nodes \subseteq Rows(f).nodes
                 /\ FileRows(f, parsed[f]).edges \subseteq Rows(f).edges
                 /\ Rows(f).nodes \subseteq Node /\ Rows(f).edges \subseteq Edge
                 /\ Rows(f).refs \subseteq Mentions /\ Rows(f).refs \subseteq Reference
                 /\ \A x \in Rows(f).edges : x.source \in Rows(f).nodes /\ x.target \in Rows(f).nodes
                 /\ \A r \in Rows(f).refs : r.from \in Rows(f).nodes
      <3>1. <<f, parsed[f]>> \in Source
        OBVIOUS
      <3> QED
        BY <3>1, Extracted
    <2> HIDE DEF Rows
    <2> QED
      BY <2>1
  <1>2. IsRows(d.edges, Edge) /\ IsRows(d.refs, Reference)
    BY DEF Sound, IsStore
  <1>3. IsRows(SetToBag(es), Edge) /\ DOMAIN SetToBag(es) = es
    BY <1>1, SetRows
  <1>4. IsRows(SetToBag(rs), Reference) /\ DOMAIN SetToBag(rs) = rs
    BY <1>1, SetRows
  <1>5. /\ DOMAIN e = {"nodes", "files", "edges", "refs"}
        /\ e.nodes = d.nodes \cup ns
        /\ e.files = [f \in File |-> IF f \in batch THEN parsed[f] ELSE d.files[f]]
        /\ e.edges = Add(d.edges, SetToBag(es))
        /\ e.refs = Add(d.refs, SetToBag(rs))
    BY DEF BulkInsert, Keep
  <1> HIDE DEF ns, es, rs, e
  <1>6. IsRows(e.edges, Edge) /\ DOMAIN e.edges = DOMAIN d.edges \cup es
    <2>1. IsRows(d.edges, Edge)
      BY <1>2
    <2>2. IsRows(Add(d.edges, SetToBag(es)), Edge)
      BY <2>1, <1>3, AddRows
    <2> QED
      BY <1>2, <1>3, <1>5, <2>2 DEF Add
  <1>7. IsRows(e.refs, Reference) /\ DOMAIN e.refs = DOMAIN d.refs \cup rs
    <2>1. IsRows(d.refs, Reference)
      BY <1>2
    <2>2. IsRows(Add(d.refs, SetToBag(rs)), Reference)
      BY <2>1, <1>4, AddRows
    <2> QED
      BY <1>2, <1>4, <1>5, <2>2 DEF Add
  <1>8. IsStore(e)
    <2>1. \A f \in batch : parsed[f] \in Version
      BY Extracted
    <2> QED
      BY <1>1, <1>5, <1>6, <1>7, <2>1 DEF Sound, IsStore
  <1>9. Sound(e)
    BY <1>1, <1>5, <1>6, <1>7, <1>8 DEF Sound, Complete
  <1>10. Linked(d) => Linked(e)
    BY <1>1, <1>5, <1>6, <1>7 DEF Linked, EdgesLinked, RefsLinked
  <1> QED
    BY <1>9, <1>10 DEF e, ns, es, rs

-----------------------------------------------------------------------------
(* What resolution, synthesis and test analysis contribute. *)

\* A reference becomes an edge from where it stands to a node of the index.
LEMMA CreateEdgeType ==
    ASSUME NEW r \in Reference, NEW n \in Node
    PROVE  CreateEdge(r, n) \in Edge
  <1>1. PromoteEdgeKind(r.kind, n) \in EdgeKind
    BY DEF PromoteEdgeKind, Reference, EdgeKind
  <1> QED
    BY <1>1 DEF CreateEdge, Edge, Reference, Provenance

\* The rows of references the extractor found become rows of edges; each edge
\* has at least one row because its reference has one.
LEMMA CreateEdgesType ==
    ASSUME NEW refs, IsRows(refs, Reference), DOMAIN refs \subseteq Mentions,
           NEW seen \in SUBSET Node, NEW pick \in Resolutions(seen, DOMAIN refs)
    PROVE  IsRows(CreateEdges(refs, pick), Edge)
  <1> DEFINE new == CreateEdges(refs, pick)
             Rows(e) == {row \in (DOMAIN pick) \X (1 .. MaxCopies) :
                            CreateEdge(row[1], pick[row[1]]) = e /\ row[2] <= refs[row[1]]}
  <1>1. /\ DOMAIN pick \subseteq DOMAIN refs
        /\ \A r \in DOMAIN pick : pick[r] \in Node
    BY DEF Resolutions, Resolvable, Targets, FirstNonEmpty, ImportNodes, Named
  <1>2. DOMAIN new = {CreateEdge(r, pick[r]) : r \in DOMAIN pick}
    BY DEF CreateEdges
  <1>3. DOMAIN new \subseteq Edge
    BY <1>1, <1>2, CreateEdgeType DEF IsRows
  <1>4. ASSUME NEW e \in DOMAIN new
        PROVE  new[e] \in 1 .. MaxCopies
    <2>1. new[e] = Saturate(Cardinality(Rows(e)))
      BY <1>2 DEF CreateEdges
    <2>2. PICK r \in DOMAIN pick : CreateEdge(r, pick[r]) = e
      BY <1>2
    <2>3. IsFiniteSet(Rows(e))
      <3>1. IsFiniteSet(DOMAIN pick)
        BY <1>1, IndexingAssumption, FS_Subset
      <3>2. IsFiniteSet(1 .. MaxCopies)
        BY StoreAssumption, FS_Interval
      <3>3. IsFiniteSet((DOMAIN pick) \X (1 .. MaxCopies))
        BY <3>1, <3>2, FS_Product
      <3> QED
        BY <3>3, FS_Subset
    <2>4. Rows(e) # {}
      <3>1. refs[r] \in 1 .. MaxCopies
        BY <1>1, <2>2 DEF IsRows
      <3>2. <<r, 1>> \in Rows(e)
        BY <2>2, <3>1, StoreAssumption
      <3> QED
        BY <3>2
    <2>5. Cardinality(Rows(e)) \in Nat \ {0}
      BY <2>3, <2>4, FS_CardinalityType, FS_EmptySet
    <2> QED
      BY <2>1, <2>5, StoreAssumption DEF Saturate
  <1> QED
    BY <1>3, <1>4 DEF IsRows

\* A dispatch edge joins two methods that are contained in stored classes.
LEMMA SynthesizeType ==
    ASSUME NEW d, Sound(d), NEW seen \in SUBSET Node
    PROVE  /\ Synthesize(d, seen) \subseteq Edge
           /\ EdgesLinked(d) => \A e \in Synthesize(d, seen) :
                                    e.source \in d.nodes /\ e.target \in d.nodes
  <1>1. ASSUME NEW c, NEW m \in Methods(d, seen, c)
        PROVE  m \in Node /\ (EdgesLinked(d) => m \in d.nodes)
    BY DEF Methods, EdgesLinked
  <1>2. ASSUME NEW m \in Node, NEW i \in Node
        PROVE  SynthEdge(m, i) \in Edge
    BY DEF SynthEdge, Edge, EdgeKind, Provenance
  <1>3. ASSUME NEW e \in Synthesize(d, seen)
        PROVE  \E c, b : \E m \in Methods(d, seen, b), i \in Methods(d, seen, c) :
                   e = SynthEdge(m, i)
    BY DEF Synthesize
  <1> QED
    BY <1>1, <1>2, <1>3 DEF SynthEdge

\* A TESTS edge runs along an edge that is stored.
LEMMA AnalyzeTestsType ==
    ASSUME NEW d, Sound(d)
    PROVE  /\ AnalyzeTests(d) \subseteq Edge
           /\ EdgesLinked(d) => \A e \in AnalyzeTests(d) :
                                    e.source \in d.nodes /\ e.target \in d.nodes
  <1>1. DOMAIN d.edges \subseteq Edge
    BY DEF Sound, IsStore, IsRows
  <1> QED
    BY <1>1 DEF AnalyzeTests, TestEdge, Edge, EdgeKind, Provenance, EdgesLinked
-----------------------------------------------------------------------------
(* Init, the working tree and the life of the handle. *)

\* The empty index satisfies the invariant.
LEMMA InitInv == Init => Inv
  <1> SUFFICES ASSUME Init PROVE Inv
    OBVIOUS
  <1>1. disk \in [File -> Version \cup {Missing}] /\ crashes \in 0 .. MaxCrashes
    BY IndexingAssumption DEF Init
  <1>2. ctx.warm \in BOOLEAN /\ ctx.nodes \subseteq Node
    BY DEF Init, Cold
  <1>3. JobOK
    BY IndexingAssumption DEF Init, Idle, NoParse, JobOK, Job, PcOf, Pcs, Resolving, Storing
  <1>4. Sound(db) /\ Sound(saved) /\ (ForeignKeys => ReferentialIntegrity)
    BY SoundEmpty DEF Init, ReferentialIntegrity
  <1>5. Parsed /\ Progress
    BY IndexingAssumption DEF Init, Idle, NoParse, Parsed, Progress, Storing
  <1> QED
    BY <1>1, <1>2, <1>3, <1>4, <1>5 DEF Inv

\* Nothing of the store, of the handle or of its job depends on the tree, and
\* the tree only ever holds versions the extractor has seen.
LEMMA EditStep == ASSUME Inv, NEW f \in File, Edit(f) PROVE Inv'
  <1>1. disk' \in [File -> Version \cup {Missing}]
    BY DEF Inv, Edit
  <1>2. \A g \in File : disk'[g] # Missing => <<g, disk'[g]>> \in Source
    BY DEF Inv, Parsed, Edit
  <1>3. /\ UNCHANGED <<db, saved, ctx, job, crashes>>
        /\ Current' = Current
    BY DEF Edit, Current, FileRows, Prepare
  <1> QED
    BY <1>1, <1>2, <1>3 DEF Inv, Parsed, Progress, ReferentialIntegrity, JobOK
\* A step that only moves the job on, to where no file is being stored.
LEMMA JobStep ==
    ASSUME Inv, UNCHANGED <<disk, db, saved, crashes>>,
           ctx'.warm \in BOOLEAN, ctx'.nodes \subseteq Node,
           JobOK', Parsed', job'.pc \notin Storing
    PROVE  Inv'
  <1>1. Progress'
    BY DEF Progress, Storing
  <1> QED
    BY <1>1 DEF Inv, Sound, IsStore, Complete, ReferentialIntegrity

\* A step that commits a sound store, outside _store_result.
LEMMA CommitStep ==
    ASSUME Inv, UNCHANGED <<disk, crashes>>,
           ctx'.warm \in BOOLEAN, ctx'.nodes \subseteq Node,
           JobOK', Parsed', job'.pc \notin Storing,
           Sound(db'), saved' = db', ForeignKeys => Linked(db')
    PROVE  Inv'
  <1>1. Progress'
    BY DEF Progress, Storing
  <1> QED
    BY <1>1 DEF Inv, ReferentialIntegrity

\* The job an operation starts with, and the idle job.
LEMMA NewJob ==
    ASSUME Inv, UNCHANGED disk,
           NEW op \in {"none", "index_all", "index_file", "apply_delta"},
           NEW pc \in {"idle", "read", "next"}, pc \in PcOf[op],
           NEW todo \in SUBSET File, NEW removed \in SUBSET File,
           job' = [op |-> op, pc |-> pc, todo |-> todo, removed |-> removed, cur |-> NoFile,
                   parsed |-> NoParse, fatal |-> FALSE, stored |-> FALSE]
    PROVE  JobOK' /\ Parsed' /\ job'.pc \notin Storing
  <1>1. NoParse \in [File -> Version \cup {NoRecord}] /\ \A f \in File : NoParse[f] = NoRecord
    BY DEF NoParse
  <1>2. pc \in Pcs /\ pc \notin Storing
    BY DEF Pcs, Storing
  <1>3. job' \in Job
    BY <1>1, <1>2 DEF Job
  <1>4. job'.pc = pc /\ job'.op = op /\ job'.cur = NoFile /\ job'.parsed = NoParse
    OBVIOUS
  <1>5. JobOK'
    BY <1>2, <1>3, <1>4 DEF JobOK
  <1>6. Parsed'
    BY <1>1, <1>2, <1>4 DEF Inv, Parsed
  <1> QED
    BY <1>2, <1>4, <1>5, <1>6

\* The idle job is a job, whatever happened before.
LEMMA IdleJob ==
    ASSUME Inv, UNCHANGED disk, job' = Idle
    PROVE  JobOK' /\ Parsed' /\ job'.pc \notin Storing
  <1>1. "idle" \in PcOf["none"]
    BY DEF PcOf
  <1> QED
    BY <1>1, NewJob DEF Idle

\* A new handle sees what was committed, which satisfies the invariant.
LEMMA ReopenCrashStep == ASSUME Inv, Reopen \/ Crash PROVE Inv'
  <1>1. /\ db' = saved /\ saved' = saved /\ UNCHANGED disk
        /\ job' = Idle /\ ctx' = Cold
    BY DEF Reopen, Crash, Restart
  <1>2. crashes' \in 0 .. MaxCrashes
    BY IndexingAssumption DEF Reopen, Crash, Inv
  <1>3. JobOK' /\ Parsed' /\ job'.pc \notin Storing
    BY <1>1, IdleJob
  <1>4. Progress'
    BY <1>3 DEF Progress, Storing
  <1>5. ctx'.warm \in BOOLEAN /\ ctx'.nodes \subseteq Node
    BY <1>1 DEF Cold
  <1> QED
    BY <1>1, <1>2, <1>3, <1>4, <1>5 DEF Inv, ReferentialIntegrity

\* Starting an operation only changes the job.
LEMMA StartStep ==
    ASSUME Inv,
           \/ StartIndexAll
           \/ \E f \in File : StartIndexFile(f)
           \/ \E delta \in Deltas : StartApplyDelta(delta[1], delta[2])
    PROVE  Inv'
  <1>1. UNCHANGED <<disk, db, saved, ctx, crashes>>
    BY DEF StartIndexAll, StartIndexFile, StartApplyDelta
  <1> DEFINE Start(op, pc, todo, removed) ==
                 [op |-> op, pc |-> pc, todo |-> todo, removed |-> removed, cur |-> NoFile,
                  parsed |-> NoParse, fatal |-> FALSE, stored |-> FALSE]
  <1>2. CASE StartIndexAll
    <2> DEFINE scanned == {f \in File : disk[f] # Missing} \cup Tracked
    <2>1. job' = Start("index_all", "read", scanned, {})
      BY <1>2 DEF StartIndexAll, Idle
    <2>2. scanned \in SUBSET File /\ "read" \in PcOf["index_all"]
      BY IndexingAssumption DEF PcOf
    <2>3. JobOK' /\ Parsed' /\ job'.pc \notin Storing
      BY <1>1, <2>1, <2>2, NewJob
    <2> QED
      BY <1>1, <2>3, JobStep DEF Inv
  <1>3. CASE \E f \in File : StartIndexFile(f)
    <2>1. PICK f \in File : job' = Start("index_file", "next", {f}, {})
      BY <1>3 DEF StartIndexFile, Idle
    <2>2. "next" \in PcOf["index_file"]
      BY DEF PcOf
    <2>3. JobOK' /\ Parsed' /\ job'.pc \notin Storing
      BY <1>1, <2>1, <2>2, NewJob
    <2> QED
      BY <1>1, <2>3, JobStep DEF Inv
  <1>4. CASE \E delta \in Deltas : StartApplyDelta(delta[1], delta[2])
    <2>1. PICK delta \in Deltas : job' = Start("apply_delta", "next", delta[1], delta[2])
      BY <1>4 DEF StartApplyDelta, Idle
    <2>2. /\ delta[1] \in SUBSET File /\ delta[2] \in SUBSET File
          /\ "next" \in PcOf["apply_delta"]
      BY IndexingAssumption DEF PcOf
    <2>3. JobOK' /\ Parsed' /\ job'.pc \notin Storing
      BY <1>1, <2>1, <2>2, NewJob
    <2> QED
      BY <1>1, <2>3, JobStep DEF Inv
  <1> QED
    BY <1>2, <1>3, <1>4

-----------------------------------------------------------------------------
(* index_all. *)

\* Reading remembers a version the extractor knows.
LEMMA ReadFileStep == ASSUME Inv, NEW f \in File, ReadFile(f) PROVE Inv'
  <1>1. UNCHANGED <<disk, db, saved, ctx, crashes>>
    BY DEF ReadFile
  <1>2. JobOK' /\ job'.pc = "read"
    BY IndexingAssumption
       DEF Inv, ReadFile, Readable, Fatal, JobOK, Job, PcOf, Pcs, Resolving, Storing
  <1>3. Parsed'
    BY <1>1, <1>2 DEF Inv, Parsed, ReadFile, Readable, JobOK, Job, Storing
  <1> QED
    BY <1>1, <1>2, <1>3, JobStep DEF Inv, Storing

\* The bulk deletion takes whole files, records included.
LEMMA DeleteStaleStep == ASSUME Inv, DeleteStale PROVE Inv'
  <1>1. UNCHANGED <<disk, ctx, crashes>>
    BY DEF DeleteStale
  <1>2. JobOK' /\ job'.pc = "store" /\ job'.todo = ToStore /\ job'.parsed = job.parsed
    <2>1. ToStore \in SUBSET File
      BY DEF ToStore
    <2>2. job' = [job EXCEPT !.pc = "store", !.todo = ToStore] /\ job.pc = "read"
      BY DEF DeleteStale
    <2>3. job \in Job /\ job.op = "index_all" /\ job.cur = NoFile
      BY <2>2 DEF Inv, JobOK, PcOf, Resolving, Storing, Job
    <2>4. /\ job' \in Job /\ job'.pc = "store" /\ job'.todo = ToStore
          /\ job'.parsed = job.parsed /\ job'.op = job.op /\ job'.cur = job.cur
      BY <2>1, <2>2, <2>3 DEF Job, Pcs
    <2> QED
      BY <2>3, <2>4 DEF JobOK, PcOf, Storing
  <1>3. Parsed'
    BY <1>1, <1>2 DEF Inv, Parsed, ToStore, Storing
  <1>4. CASE Stale # {}
    <2>1. db' = DeleteFiles(db, Stale) /\ saved' = db'
      BY <1>4 DEF DeleteStale, Commit
    <2>2. Stale \in SUBSET File
      BY DEF Stale, ToStore
    <2>3. Sound(db') /\ (ForeignKeys => Linked(db'))
      BY <2>1, <2>2, SoundDelete DEF Inv, ReferentialIntegrity
    <2> QED
      BY <1>1, <1>2, <1>3, <2>1, <2>3, CommitStep DEF Inv, Storing
  <1>5. CASE Stale = {}
    BY <1>1, <1>2, <1>3, <1>5, JobStep DEF Inv, DeleteStale, Storing
  <1> QED
    BY <1>4, <1>5

\* A batch stores the rows of its files together with their records.
LEMMA StoreBatchStep == ASSUME Inv, StoreBatch PROVE Inv'
  <1> DEFINE Rows(f) == BulkRows(f, job.parsed[f])
  <1>1. PICK batch \in SUBSET job.todo :
           /\ db' = BulkInsert(db, UNION {Rows(f).nodes : f \in batch},
                                   UNION {Rows(f).edges : f \in batch},
                                   UNION {Rows(f).refs : f \in batch},
                                   Keep(job.parsed, batch))
           /\ saved' = db'
           /\ job' = [job EXCEPT !.todo = @ \ batch, !.stored = TRUE]
    BY DEF StoreBatch, Commit
  <1>2. UNCHANGED <<disk, ctx, crashes>> /\ job.pc = "store"
    BY DEF StoreBatch
  <1>3. /\ batch \in SUBSET File
        /\ job.parsed \in [File -> Version \cup {NoRecord}]
        /\ \A f \in batch : <<f, job.parsed[f]>> \in Source
    BY <1>2 DEF Inv, Parsed, JobOK, Job
  <1>4. Sound(db') /\ (Linked(db) => Linked(db'))
    BY <1>1, <1>3, SoundBulkInsert DEF Inv
  <1>5. JobOK' /\ Parsed' /\ job'.pc = "store"
    BY <1>1, <1>2 DEF Inv, Parsed, JobOK, Job, PcOf, Pcs, Resolving, Storing
  <1> QED
    BY <1>1, <1>2, <1>4, <1>5, CommitStep DEF Inv, ReferentialIntegrity, Storing

\* The end of the bulk store only changes the job.
LEMMA FinishStoreStep == ASSUME Inv, FinishStore PROVE Inv'
  <1>1. UNCHANGED <<disk, db, saved, ctx, crashes>>
    BY DEF FinishStore
  <1>2. CASE job' = Idle
    BY <1>1, <1>2, IdleJob, JobStep DEF Inv
  <1>3. CASE job' = [job EXCEPT !.pc = "link"]
    <2>1. JobOK' /\ Parsed' /\ job'.pc \notin Storing
      BY <1>1, <1>3 DEF FinishStore, Inv, Parsed, JobOK, Job, PcOf, Pcs, Resolving, Storing
    <2> QED
      BY <1>1, <2>1, JobStep DEF Inv
  <1> QED
    BY <1>2, <1>3 DEF FinishStore
-----------------------------------------------------------------------------
(* index_file, delete_file and apply_delta. *)

\* delete_file takes a whole file, record included.
LEMMA DeleteFileStep == ASSUME Inv, NEW f \in File, DeleteFile(f) PROVE Inv'
  <1>1. /\ db' = DeleteFiles(db, {f}) /\ saved' = db'
        /\ UNCHANGED <<disk, ctx, job, crashes>> /\ job.pc = "idle"
    BY DEF DeleteFile, Commit
  <1>2. Sound(db') /\ (ForeignKeys => Linked(db'))
    BY <1>1, SoundDelete DEF Inv, ReferentialIntegrity
  <1>3. JobOK' /\ Parsed' /\ job'.pc \notin Storing
    BY <1>1 DEF Inv, JobOK, Parsed, Storing
  <1> QED
    BY <1>1, <1>2, <1>3, CommitStep DEF Inv

\* Skipping a file only changes the job.
LEMMA SkipFileStep == ASSUME Inv, NEW f \in File, SkipFile(f) PROVE Inv'
  <1>1. UNCHANGED <<disk, db, saved, ctx, crashes>> /\ job.pc = "next"
    BY DEF SkipFile
  <1>2. /\ job' = [job EXCEPT !.todo = @ \ {f}, !.fatal = @ \/ Fatal(f)]
        /\ job \in Job
    BY DEF SkipFile, Inv, JobOK
  <1>3. job' \in Job
    BY <1>2 DEF Job, Fatal
  <1>4. JobOK' /\ Parsed' /\ job'.pc \notin Storing
    BY <1>1, <1>2, <1>3 DEF Inv, Job, JobOK, Parsed, Storing
  <1> QED
    BY <1>1, <1>4, JobStep DEF Inv

\* The file that is being stored, in a version the extractor has seen.
LEMMA CurrentRows ==
    ASSUME Inv, job.pc \in Storing
    PROVE  /\ <<job.cur, job.parsed[job.cur]>> \in Source
           /\ job.cur \in File /\ job.parsed[job.cur] \in Version
           /\ Current.nodes \subseteq Node
           /\ Current.edges \subseteq Edge
           /\ Current.refs \subseteq Reference /\ Current.refs \subseteq Mentions
           /\ \A e \in Current.edges : e.source \in Current.nodes /\ e.target \in Current.nodes
           /\ \A r \in Current.refs : r.from \in Current.nodes
  <1>1. job.cur \in File /\ job.parsed[job.cur] # NoRecord
    BY DEF Inv, JobOK, Job, Parsed
  <1>2. <<job.cur, job.parsed[job.cur]>> \in Source
    BY <1>1 DEF Inv, Parsed
  <1> QED
    BY <1>1, <1>2, Extracted DEF Current

\* _store_result first deletes the file it is about to store, so it has no record
\* until the last step.
LEMMA DropStaleStep == ASSUME Inv, NEW f \in File, DropStale(f) PROVE Inv'
  <1>1. /\ UNCHANGED <<disk, ctx, crashes>>
        /\ job.pc = "next" /\ job \in Job
        /\ job' = [job EXCEPT !.pc = "nodes", !.cur = f, !.parsed[f] = disk[f],
                              !.todo = @ \ {f}, !.fatal = @ \/ Fatal(f)]
    BY DEF DropStale, Inv, JobOK
  <1>2. disk[f] \in Version /\ <<f, disk[f]>> \in Source
    BY DEF DropStale, Storable, Readable, Inv, Parsed
  <1>3. /\ job' \in Job /\ job'.pc = "nodes" /\ job'.cur = f /\ job'.op = job.op
        /\ job'.parsed = [job.parsed EXCEPT ![f] = disk[f]]
    BY <1>1, <1>2 DEF Job, Pcs, Storing, Fatal
  <1>4. JobOK'
    <2>1. job.op \in {"index_file", "apply_delta"}
      BY <1>1 DEF Inv, JobOK, Job, PcOf, Resolving
    <2> QED
      BY <1>3, <2>1, IndexingAssumption DEF JobOK, PcOf, Storing
  <1>5. Parsed'
    <2>1. job.parsed \in [File -> Version \cup {NoRecord}]
      BY <1>1 DEF Job
    <2> QED
      BY <1>1, <1>2, <1>3, <2>1, StoreAssumption DEF Inv, Parsed
  <1>6. Progress'
    BY <1>3 DEF Progress
  <1>7. Sound(db') /\ Sound(saved') /\ (ForeignKeys => ReferentialIntegrity')
    <2>1. CASE db' = DeleteFiles(db, {f}) /\ saved' = db'
      BY <2>1, SoundDelete DEF Inv, ReferentialIntegrity
    <2>2. CASE UNCHANGED <<db, saved>>
      BY <2>2 DEF Inv, ReferentialIntegrity
    <2> QED
      BY <2>1, <2>2 DEF DropStale, Commit
  <1> QED
    BY <1>1, <1>4, <1>5, <1>6, <1>7 DEF Inv

\* The next transaction of _store_result, with the same file and parse.
LEMMA NextPart ==
    ASSUME Inv, job.pc \in Storing, UNCHANGED <<disk, ctx, crashes>>,
           NEW pc \in Storing, job' = [job EXCEPT !.pc = pc]
    PROVE  /\ JobOK' /\ Parsed' /\ Current' = Current /\ job'.pc = pc
           /\ ctx'.warm \in BOOLEAN /\ ctx'.nodes \subseteq Node
  <1>1. job \in Job /\ job.op \in {"index_file", "apply_delta"} /\ job.cur # NoFile
    BY DEF Inv, JobOK, Job, PcOf, Resolving, Storing
  <1>2. /\ job' \in Job /\ job'.pc = pc /\ job'.cur = job.cur /\ job'.op = job.op
        /\ job'.parsed = job.parsed
    BY <1>1 DEF Job, Pcs
  <1>3. JobOK'
    BY <1>1, <1>2 DEF JobOK, PcOf, Storing
  <1>4. Parsed'
    BY <1>2 DEF Inv, Parsed, Storing
  <1>5. Current' = Current
    BY <1>2 DEF Current, FileRows, Prepare
  <1> QED
    BY <1>2, <1>3, <1>4, <1>5 DEF Inv

\* The nodes of the file being stored are all there after this step.
LEMMA StoreNodesStep == ASSUME Inv, StoreNodes PROVE Inv'
  <1>1. /\ db' = InsertNodes(db, Current.nodes) /\ saved' = db'
        /\ UNCHANGED <<disk, ctx, crashes>>
        /\ job.pc = "nodes" /\ job' = [job EXCEPT !.pc = "edges"]
    BY DEF StoreNodes, Commit
  <1>2. /\ JobOK' /\ Parsed' /\ Current' = Current /\ job'.pc = "edges"
        /\ ctx'.warm \in BOOLEAN /\ ctx'.nodes \subseteq Node
    BY <1>1, NextPart DEF Storing
  <1>3. Current.nodes \in SUBSET Node
    BY <1>1, CurrentRows DEF Storing
  <1>4. /\ Sound(db') /\ (Linked(db) => Linked(db'))
        /\ db'.nodes = db.nodes \cup Current.nodes
    BY <1>1, <1>3, SoundInsertNodes DEF Inv
  <1>5. Progress'
    BY <1>2, <1>4 DEF Progress
  <1> QED
    BY <1>1, <1>2, <1>4, <1>5 DEF Inv, ReferentialIntegrity

\* The structural edges of the file being stored hang on the nodes stored before.
LEMMA StoreEdgesStep == ASSUME Inv, StoreEdges PROVE Inv'
  <1>1. /\ UNCHANGED <<disk, ctx, crashes>>
        /\ job.pc = "edges" /\ job' = [job EXCEPT !.pc = "refs"]
    BY DEF StoreEdges
  <1>2. /\ JobOK' /\ Parsed' /\ Current' = Current /\ job'.pc = "refs"
        /\ ctx'.warm \in BOOLEAN /\ ctx'.nodes \subseteq Node
    BY <1>1, NextPart DEF Storing
  <1>3. /\ Current.nodes \subseteq db.nodes /\ Current.edges \subseteq Edge
        /\ \A e \in Current.edges : e.source \in Current.nodes /\ e.target \in Current.nodes
    BY <1>1, CurrentRows DEF Storing, Inv, Progress
  <1>4. CASE Current.edges # {}
    <2>1. db' = InsertEdges(db, SetToBag(Current.edges)) /\ saved' = db'
      BY <1>4 DEF StoreEdges, Commit
    <2>2. /\ IsRows(SetToBag(Current.edges), Edge)
          /\ DOMAIN SetToBag(Current.edges) = Current.edges
      BY <1>3, SetRows
    <2>3. /\ Sound(db') /\ (Linked(db) => Linked(db'))
          /\ db'.nodes = db.nodes
          /\ DOMAIN db'.edges = DOMAIN db.edges \cup Current.edges
      BY <1>3, <2>1, <2>2, SoundInsertEdges DEF Inv
    <2>4. Progress'
      BY <1>2, <1>3, <2>3 DEF Progress
    <2> QED
      BY <1>1, <1>2, <2>1, <2>3, <2>4 DEF Inv, ReferentialIntegrity
  <1>5. CASE Current.edges = {}
    <2>1. UNCHANGED <<db, saved>>
      BY <1>5 DEF StoreEdges
    <2>2. Progress'
      BY <1>2, <1>3, <1>5, <2>1 DEF Progress
    <2> QED
      BY <1>1, <1>2, <2>1, <2>2 DEF Inv, ReferentialIntegrity
  <1> QED
    BY <1>4, <1>5

\* The references of the file being stored hang on the nodes stored before.
LEMMA StoreRefsStep == ASSUME Inv, StoreRefs PROVE Inv'
  <1>1. /\ UNCHANGED <<disk, ctx, crashes>>
        /\ job.pc = "refs" /\ job' = [job EXCEPT !.pc = "record"]
    BY DEF StoreRefs
  <1>2. /\ JobOK' /\ Parsed' /\ Current' = Current /\ job'.pc = "record"
        /\ ctx'.warm \in BOOLEAN /\ ctx'.nodes \subseteq Node
    BY <1>1, NextPart DEF Storing
  <1>3. /\ Current.nodes \subseteq db.nodes /\ Current.edges \subseteq DOMAIN db.edges
        /\ Current.refs \subseteq Reference /\ Current.refs \subseteq Mentions
        /\ \A r \in Current.refs : r.from \in Current.nodes
    BY <1>1, CurrentRows DEF Storing, Inv, Progress
  <1>4. CASE Current.refs # {}
    <2>1. db' = InsertUnresolvedRefs(db, SetToBag(Current.refs)) /\ saved' = db'
      BY <1>4 DEF StoreRefs, Commit
    <2>2. /\ IsRows(SetToBag(Current.refs), Reference)
          /\ DOMAIN SetToBag(Current.refs) = Current.refs
      BY <1>3, SetRows
    <2>3. /\ Sound(db') /\ (Linked(db) => Linked(db'))
          /\ db'.nodes = db.nodes /\ db'.edges = db.edges
      BY <1>3, <2>1, <2>2, SoundInsertRefs DEF Inv
    <2>4. Progress'
      BY <1>2, <1>3, <2>3 DEF Progress
    <2> QED
      BY <1>1, <1>2, <2>1, <2>3, <2>4 DEF Inv, ReferentialIntegrity
  <1>5. CASE Current.refs = {}
    <2>1. UNCHANGED <<db, saved>>
      BY <1>5 DEF StoreRefs
    <2>2. Progress'
      BY <1>2, <1>3, <2>1 DEF Progress
    <2> QED
      BY <1>1, <1>2, <2>1, <2>2 DEF Inv, ReferentialIntegrity
  <1> QED
    BY <1>4, <1>5

\* The record comes when the nodes and the edges of the file are committed.
LEMMA StoreRecordStep == ASSUME Inv, StoreRecord PROVE Inv'
  <1>1. /\ db' = UpsertFile(db, job.cur, job.parsed[job.cur]) /\ saved' = db'
        /\ UNCHANGED <<disk, ctx, crashes>>
        /\ job.pc = "record" /\ job \in Job
        /\ job' = [job EXCEPT !.pc = "next", !.cur = NoFile, !.parsed = NoParse]
    BY DEF StoreRecord, Commit, Inv, JobOK
  <1>2. Current.nodes \subseteq db.nodes /\ Current.edges \subseteq DOMAIN db.edges
    BY <1>1 DEF Inv, Progress
  <1>3. /\ <<job.cur, job.parsed[job.cur]>> \in Source
        /\ job.cur \in File /\ job.parsed[job.cur] \in Version
    BY <1>1, CurrentRows DEF Storing
  <1>4. Sound(db') /\ (Linked(db) => Linked(db'))
    BY <1>1, <1>2, <1>3, SoundUpsertFile DEF Inv, Current
  <1>5. /\ NoParse \in [File -> Version \cup {NoRecord}]
        /\ \A f \in File : NoParse[f] = NoRecord
    BY DEF NoParse
  <1>6. /\ job' \in Job /\ job'.pc = "next" /\ job'.cur = NoFile /\ job'.op = job.op
        /\ job'.parsed = NoParse
    BY <1>1, <1>5 DEF Job, Pcs
  <1>7. job.op \in {"index_file", "apply_delta"}
    BY <1>1 DEF Inv, JobOK, Job, PcOf, Resolving
  <1>8. JobOK' /\ job'.pc \notin Storing
    BY <1>6, <1>7 DEF JobOK, PcOf, Storing
  <1>9. Parsed'
    BY <1>1, <1>5, <1>6 DEF Inv, Parsed, Storing
  <1> QED
    BY <1>1, <1>4, <1>8, <1>9, CommitStep DEF Inv, ReferentialIntegrity

\* A removed file goes as a whole.
LEMMA RemoveFileStep == ASSUME Inv, NEW f \in File, RemoveFile(f) PROVE Inv'
  <1>1. /\ db' = DeleteFiles(db, {f}) /\ saved' = db'
        /\ UNCHANGED <<disk, ctx, crashes>>
        /\ job.pc = "next" /\ job \in Job
        /\ job' = [job EXCEPT !.removed = @ \ {f}]
    BY DEF RemoveFile, Commit, Inv, JobOK
  <1>2. Sound(db') /\ (ForeignKeys => Linked(db'))
    BY <1>1, SoundDelete DEF Inv, ReferentialIntegrity
  <1>3. /\ job' \in Job /\ job'.pc = "next" /\ job'.cur = job.cur /\ job'.op = job.op
        /\ job'.parsed = job.parsed
    BY <1>1 DEF Job
  <1>4. JobOK' /\ Parsed' /\ job'.pc \notin Storing
    BY <1>1, <1>3 DEF Inv, JobOK, Parsed, Storing
  <1> QED
    BY <1>1, <1>2, <1>4, CommitStep DEF Inv

\* The end of the file loop only changes the job.
LEMMA FinishFilesStep == ASSUME Inv, FinishFiles PROVE Inv'
  <1>1. UNCHANGED <<disk, db, saved, ctx, crashes>>
    BY DEF FinishFiles
  <1>2. CASE job' = Idle
    BY <1>1, <1>2, IdleJob, JobStep DEF Inv
  <1>3. CASE job.op = "apply_delta" /\ job' = [job EXCEPT !.pc = "link"]
    <2>1. JobOK' /\ Parsed' /\ job'.pc \notin Storing
      BY <1>1, <1>3 DEF FinishFiles, Inv, Parsed, JobOK, Job, PcOf, Pcs, Resolving, Storing
    <2> QED
      BY <1>1, <2>1, JobStep DEF Inv
  <1> QED
    BY <1>2, <1>3 DEF FinishFiles
-----------------------------------------------------------------------------
(* Resolution and test analysis. *)

\* The job moves to the next step of the pass, which stores no file.
LEMMA NextResolving ==
    ASSUME Inv, job.pc \in Resolving, UNCHANGED disk,
           \/ job' = Idle
           \/ \E pc \in Resolving : job' = [job EXCEPT !.pc = pc]
    PROVE  JobOK' /\ Parsed' /\ job'.pc \notin Storing
  <1>1. CASE job' = Idle
    BY <1>1, IdleJob
  <1>2. CASE \E pc \in Resolving : job' = [job EXCEPT !.pc = pc]
    <2>1. PICK pc \in Resolving : job' = [job EXCEPT !.pc = pc]
      BY <1>2
    <2>2. job \in Job /\ job.op \in {"index_all", "apply_delta"} /\ job.cur = NoFile
      BY DEF Inv, JobOK, Job, PcOf, Resolving, Storing
    <2>3. /\ job' \in Job /\ job'.pc = pc /\ job'.cur = NoFile /\ job'.op = job.op
          /\ job'.parsed = job.parsed
      BY <2>1, <2>2 DEF Job, Pcs
    <2>4. JobOK' /\ job'.pc \notin Storing
      BY <2>2, <2>3 DEF JobOK, Resolving, Storing
    <2>5. Parsed'
      BY <2>3 DEF Inv, Parsed, Resolving, Storing
    <2> QED
      BY <2>4, <2>5
  <1> QED
    BY <1>1, <1>2

\* Warming the caches copies nodes.
LEMMA WarmedType == Inv => Warmed.warm \in BOOLEAN /\ Warmed.nodes \subseteq Node
  BY DEF Inv, Warmed, Sound, IsStore

\* The edges a pass creates from some of the references.
LEMMA NewEdges ==
    ASSUME Inv, NEW refs \in Limited(db.refs, RefLimit),
           NEW pick \in Resolutions(Warmed.nodes, DOMAIN refs)
    PROVE  IsRows(CreateEdges(refs, pick), Edge)
  <1>1. IsRows(db.refs, Reference) /\ DOMAIN db.refs \subseteq Mentions
    BY DEF Inv, Sound, IsStore
  <1>2. IsRows(refs, Reference) /\ DOMAIN refs \subseteq Mentions
    BY <1>1 DEF Limited, IsRows
  <1>3. Warmed.nodes \in SUBSET Node
    BY WarmedType
  <1> QED
    BY <1>2, <1>3, CreateEdgesType

\* The edges of a committed resolution satisfy the foreign keys.
LEMMA LinkStep == ASSUME Inv, Link PROVE Inv'
  <1>1. /\ UNCHANGED <<disk, crashes>> /\ ctx' = Warmed
        /\ job.pc = "link" /\ job' = [job EXCEPT !.pc = "clear"]
    BY DEF Link
  <1>a. PICK refs \in Limited(db.refs, RefLimit) :
           \E pick \in Resolutions(Warmed.nodes, DOMAIN refs) :
             LET new == CreateEdges(refs, pick)
             IN  /\ ForeignKeys => Linkable(new) = DOMAIN new
                 /\ IF new # EmptyBag THEN Commit(InsertEdges(db, new))
                                      ELSE UNCHANGED <<db, saved>>
    BY DEF Link
  <1>2. PICK pick \in Resolutions(Warmed.nodes, DOMAIN refs) :
           LET new == CreateEdges(refs, pick)
           IN  /\ ForeignKeys => Linkable(new) = DOMAIN new
               /\ IF new # EmptyBag THEN Commit(InsertEdges(db, new))
                                    ELSE UNCHANGED <<db, saved>>
    BY <1>a
  <1> DEFINE new == CreateEdges(refs, pick)
  <1>3. JobOK' /\ Parsed' /\ job'.pc \notin Storing
    BY <1>1, NextResolving DEF Resolving
  <1>4. IsRows(new, Edge)
    BY NewEdges
  <1>5. ctx'.warm \in BOOLEAN /\ ctx'.nodes \subseteq Node
    BY <1>1, WarmedType
  <1>6. ForeignKeys => \A e \in DOMAIN new : e.source \in db.nodes /\ e.target \in db.nodes
    BY <1>2 DEF Linkable
  <1> HIDE DEF new
  <1>7. CASE db' = InsertEdges(db, new) /\ saved' = db'
    <2>1. Sound(db') /\ (ForeignKeys => Linked(db'))
      BY <1>4, <1>6, <1>7, SoundInsertEdges DEF Inv, ReferentialIntegrity
    <2> QED
      BY <1>1, <1>3, <1>5, <1>7, <2>1, CommitStep
  <1>8. CASE UNCHANGED <<db, saved>>
    BY <1>1, <1>3, <1>5, <1>8, JobStep
  <1> QED
    BY <1>2, <1>7, <1>8 DEF Commit, new

\* Only rows that satisfy the foreign keys got into the open transaction.
LEMMA LinkRaisesStep == ASSUME Inv, LinkRaises PROVE Inv'
  <1>1. /\ UNCHANGED <<disk, saved, crashes>> /\ ctx' = Warmed
        /\ job.pc = "link" /\ job' = Idle
    BY DEF LinkRaises
  <1>a. PICK refs \in Limited(db.refs, RefLimit) :
           \E pick \in Resolutions(Warmed.nodes, DOMAIN refs) :
             LET new == CreateEdges(refs, pick)
             IN  \E before \in SUBSET Linkable(new) :
                    db' = InsertEdges(db, Keep(new, before))
    BY DEF LinkRaises
  <1>2. PICK pick \in Resolutions(Warmed.nodes, DOMAIN refs) :
           LET new == CreateEdges(refs, pick)
           IN  \E before \in SUBSET Linkable(new) :
                  db' = InsertEdges(db, Keep(new, before))
    BY <1>a
  <1> DEFINE new == CreateEdges(refs, pick)
  <1>3. PICK before \in SUBSET Linkable(new) : db' = InsertEdges(db, Keep(new, before))
    BY <1>2
  <1>4. IsRows(new, Edge)
    BY NewEdges
  <1> HIDE DEF new
  <1>5. /\ before \in SUBSET DOMAIN new
        /\ \A e \in before : e.source \in db.nodes /\ e.target \in db.nodes
    BY DEF Linkable
  <1>6. IsRows(Keep(new, before), Edge) /\ DOMAIN Keep(new, before) = before
    BY <1>4, <1>5, KeepRows
  <1>7. Sound(db') /\ (Linked(db) => Linked(db'))
    BY <1>3, <1>5, <1>6, SoundInsertEdges DEF Inv
  <1>8. JobOK' /\ Parsed' /\ job'.pc \notin Storing
    BY <1>1, IdleJob
  <1>9. ctx'.warm \in BOOLEAN /\ ctx'.nodes \subseteq Node
    BY <1>1, WarmedType
  <1>10. Progress'
    BY <1>8 DEF Progress, Storing
  <1> QED
    BY <1>1, <1>7, <1>8, <1>9, <1>10 DEF Inv, ReferentialIntegrity

\* A pass without references only warms the caches.
LEMMA NothingToResolveStep == ASSUME Inv, NothingToResolve PROVE Inv'
  <1>1. /\ UNCHANGED <<disk, db, saved, crashes>> /\ ctx' = Warmed
        /\ job.pc = "link" /\ job' = [job EXCEPT !.pc = "tests"]
    BY DEF NothingToResolve
  <1>2. JobOK' /\ Parsed' /\ job'.pc \notin Storing
    BY <1>1, NextResolving DEF Resolving
  <1>3. ctx'.warm \in BOOLEAN /\ ctx'.nodes \subseteq Node
    BY <1>1, WarmedType
  <1> QED
    BY <1>1, <1>2, <1>3, JobStep

\* Deleting every reference leaves none to hang on anything.
LEMMA ClearRefsStep == ASSUME Inv, ClearRefs PROVE Inv'
  <1>1. /\ UNCHANGED <<disk, ctx, crashes>>
        /\ db' = DeleteAllUnresolvedRefs(db) /\ saved' = db'
        /\ job.pc = "clear" /\ job' = [job EXCEPT !.pc = "drop-dispatch"]
    BY DEF ClearRefs, Commit
  <1>2. JobOK' /\ Parsed' /\ job'.pc \notin Storing
    BY <1>1, NextResolving DEF Resolving
  <1>3. Sound(db') /\ (ForeignKeys => Linked(db'))
    BY <1>1, SoundDeleteRefs DEF Inv, ReferentialIntegrity
  <1> QED
    BY <1>1, <1>2, <1>3, CommitStep DEF Inv

\* A step of the pass that deletes the edges of one derivation.
LEMMA DropDerivedStep ==
    ASSUME Inv, UNCHANGED <<disk, ctx, crashes>>,
           NEW prov, prov # "extraction", DropDerived(prov),
           JobOK', Parsed', job'.pc \notin Storing
    PROVE  Inv'
  <1>1. CASE db' = DeleteByProvenance(db, prov) /\ saved' = db'
    <2>1. Sound(db') /\ (ForeignKeys => Linked(db'))
      BY <1>1, SoundDeleteDerived DEF Inv, ReferentialIntegrity
    <2> QED
      BY <1>1, <2>1, CommitStep DEF Inv
  <1>2. CASE UNCHANGED <<db, saved>>
    BY <1>2, JobStep DEF Inv
  <1> QED
    BY <1>1, <1>2 DEF DropDerived, Commit

\* A step of the pass that inserts the edges of one derivation.
LEMMA AddDerivedStep ==
    ASSUME Inv, UNCHANGED <<disk, ctx, crashes>>,
           NEW es \in SUBSET Edge, AddDerived(es),
           EdgesLinked(db) => \A e \in es : e.source \in db.nodes /\ e.target \in db.nodes,
           JobOK', Parsed', job'.pc \notin Storing
    PROVE  Inv'
  <1>1. CASE db' = InsertEdges(db, SetToBag(es)) /\ saved' = db'
    <2>1. IsRows(SetToBag(es), Edge) /\ DOMAIN SetToBag(es) = es
      BY SetRows
    <2>2. Sound(db') /\ (Linked(db) => Linked(db'))
      BY <1>1, <2>1, SoundInsertEdges DEF Inv, Linked
    <2> QED
      BY <1>1, <2>2, CommitStep DEF Inv, ReferentialIntegrity
  <1>2. CASE UNCHANGED <<db, saved>>
    BY <1>2, JobStep DEF Inv
  <1> QED
    BY <1>1, <1>2 DEF AddDerived, Commit

\* Synthesis deletes and inserts derived edges between stored methods.
LEMMA DispatchStep == ASSUME Inv, DropDispatch \/ AddDispatch PROVE Inv'
  <1>1. CASE DropDispatch
    <2>1. JobOK' /\ Parsed' /\ job'.pc \notin Storing
      BY <1>1, NextResolving DEF DropDispatch, Resolving
    <2> QED
      BY <1>1, <2>1, DropDerivedStep DEF DropDispatch
  <1>2. CASE AddDispatch
    <2>1. JobOK' /\ Parsed' /\ job'.pc \notin Storing
      BY <1>2, NextResolving DEF AddDispatch, Resolving
    <2>2. /\ Synthesize(db, ctx.nodes) \in SUBSET Edge
          /\ EdgesLinked(db) => \A e \in Synthesize(db, ctx.nodes) :
                                    e.source \in db.nodes /\ e.target \in db.nodes
      BY SynthesizeType DEF Inv
    <2> QED
      BY <1>2, <2>1, <2>2, AddDerivedStep DEF AddDispatch
  <1> QED
    BY <1>1, <1>2

\* Test analysis deletes and inserts TESTS edges between stored nodes.
LEMMA TestsStep == ASSUME Inv, TestStep PROVE Inv'
  <1>1. CASE NoTests
    <2>1. JobOK' /\ Parsed' /\ job'.pc \notin Storing
      BY <1>1, NextResolving DEF NoTests, Resolving
    <2> QED
      BY <1>1, <2>1, JobStep DEF Inv, NoTests
  <1>2. CASE DropTests
    <2>1. JobOK' /\ Parsed' /\ job'.pc \notin Storing
      BY <1>2, NextResolving DEF DropTests, Resolving
    <2> QED
      BY <1>2, <2>1, DropDerivedStep DEF DropTests
  <1>3. CASE AddTests
    <2>1. JobOK' /\ Parsed' /\ job'.pc \notin Storing
      BY <1>3, NextResolving DEF AddTests, Resolving
    <2>2. /\ AnalyzeTests(db) \in SUBSET Edge
          /\ EdgesLinked(db) => \A e \in AnalyzeTests(db) :
                                    e.source \in db.nodes /\ e.target \in db.nodes
      BY AnalyzeTestsType DEF Inv
    <2> QED
      BY <1>3, <2>1, <2>2, AddDerivedStep DEF AddTests
  <1> QED
    BY <1>1, <1>2, <1>3 DEF TestStep

-----------------------------------------------------------------------------
(* The theorems. *)

\* Every step keeps the invariant.
LEMMA NextInv == Inv /\ [Next]_vars => Inv'
  <1> SUFFICES ASSUME Inv, [Next]_vars PROVE Inv'
    OBVIOUS
  <1>1. CASE BulkStep
    BY <1>1, ReadFileStep, DeleteStaleStep, StoreBatchStep, FinishStoreStep DEF BulkStep
  <1>2. CASE FileStep
    BY <1>2, SkipFileStep, DropStaleStep, RemoveFileStep, StoreNodesStep, StoreEdgesStep,
       StoreRefsStep, StoreRecordStep, FinishFilesStep DEF FileStep
  <1>3. CASE ResolveStep
    BY <1>3, NothingToResolveStep, LinkStep, LinkRaisesStep, ClearRefsStep, DispatchStep
       DEF ResolveStep
  <1>4. CASE TestStep
    BY <1>4, TestsStep
  <1>5. CASE Call
    BY <1>5, StartStep, DeleteFileStep DEF Call
  <1>6. CASE \E f \in File : Edit(f)
    BY <1>6, EditStep
  <1>7. CASE Reopen \/ Crash
    BY <1>7, ReopenCrashStep
  <1>8. CASE UNCHANGED vars
    BY <1>8 DEF vars, Inv, Sound, IsStore, Complete, Parsed, Progress, JobOK, Current,
                FileRows, Prepare, ReferentialIntegrity
  <1> QED
    BY <1>1, <1>2, <1>3, <1>4, <1>5, <1>6, <1>7, <1>8 DEF Next, Step

\* The invariant holds in every reachable state.
LEMMA Invariance == Spec => []Inv
  BY InitInv, NextInv, PTL DEF Spec

\* Every variable of the pipeline keeps its type, and a file is being stored
\* exactly in the four steps of _store_result.
THEOREM TypeCorrect == Spec => []TypeOK
  <1>1. Inv => TypeOK
    BY DEF Inv, TypeOK, Sound
  <1> QED
    BY <1>1, Invariance, PTL

\* On a backend with foreign keys no edge and no reference is ever left
\* without its nodes, in the committed tables and in the open transaction.
THEOREM IntegrityKept == ForeignKeys => (Spec => []ReferentialIntegrity)
  <1> SUFFICES ASSUME ForeignKeys PROVE Spec => []ReferentialIntegrity
    OBVIOUS
  <1>1. Inv => ReferentialIntegrity
    BY DEF Inv
  <1> QED
    BY <1>1, Invariance, PTL

\* Whatever crashes, no recorded file lacks a symbol or a structural edge of
\* the version its record names: skipping it as unchanged is safe.
THEOREM RecordsComplete == Spec => []RecordedFilesComplete
  <1>1. Inv => RecordedFilesComplete
    BY DEF Inv, Sound, RecordedFilesComplete
  <1> QED
    BY <1>1, Invariance, PTL

-----------------------------------------------------------------------------
(* Steps. *)

\* The steps that store or delete nodes or file records.
NodeStep ==
    \/ DeleteStale \/ StoreBatch \/ StoreNodes \/ StoreRecord
    \/ \E f \in File : DropStale(f) \/ RemoveFile(f) \/ DeleteFile(f)

\* The steps that insert or delete edges only.
EdgeStep == StoreEdges \/ Link \/ LinkRaises \/ DropDispatch \/ AddDispatch \/ DropTests \/ AddTests

\* The steps that leave the tables alone.
JobOnly ==
    \/ (\E f \in File : ReadFile(f) \/ SkipFile(f)) \/ FinishStore \/ FinishFiles
    \/ NothingToResolve \/ NoTests
    \/ StartIndexAll \/ \E f \in File : StartIndexFile(f)
    \/ \E delta \in Deltas : StartApplyDelta(delta[1], delta[2])

LEMMA StepKinds ==
    ASSUME [Next]_vars
    PROVE  \/ NodeStep \/ EdgeStep \/ JobOnly \/ StoreRefs \/ ClearRefs
           \/ Reopen \/ Crash
           \/ UNCHANGED <<db, saved, ctx, job, crashes>>
BY DEF Next, Step, BulkStep, FileStep, ResolveStep, TestStep, Call, Edit, vars,
       NodeStep, EdgeStep, JobOnly

\* Where the job may be after a step: it is not in the midst of a file, of a
\* pass or of a bulk store unless it was, or the step led there.
LEMMA JobMoves ==
    ASSUME Inv, [Next]_vars
    PROVE  \/ UNCHANGED <<job, ctx>>
           \/ job' = Idle
           \/ \E f \in File : DropStale(f) \/ ReadFile(f) \/ SkipFile(f)
           \/ StoreNodes \/ StoreEdges \/ StoreRefs
           \/ StoreBatch \/ DeleteStale \/ Link \/ DropDispatch \/ DropTests
           \/ job'.pc \in {"read", "next", "link", "drop-dispatch", "tests"} /\ job'.cur = NoFile
<1> USE DEF Inv, JobOK, Job
<1>1. CASE NodeStep
  BY <1>1 DEF NodeStep, StoreRecord, RemoveFile, DeleteFile, Storing
<1>2. CASE EdgeStep
  BY <1>2 DEF EdgeStep, LinkRaises, AddDispatch, AddTests, Storing
<1>3. CASE JobOnly
  BY <1>3, ZenonT(40) DEF JobOnly, FinishStore, FinishFiles, NothingToResolve, NoTests, StartIndexAll,
              StartIndexFile, StartApplyDelta, Idle, Storing
<1>4. CASE StoreRefs \/ ClearRefs
  BY <1>4 DEF ClearRefs, Storing
<1>5. CASE Reopen \/ Crash
  BY <1>5 DEF Reopen, Crash, Restart
<1>6. CASE UNCHANGED <<db, saved, ctx, job, crashes>>
  BY <1>6
<1> QED
  BY <1>1, <1>2, <1>3, <1>4, <1>5, <1>6, StepKinds

\* A crash is counted, and nothing else is.
LEMMA CrashCounts ==
    ASSUME [Next]_vars
    PROVE  Crash \/ crashes' = crashes
<1>1. CASE NodeStep
  BY <1>1 DEF NodeStep, DeleteStale, StoreBatch, StoreNodes, StoreRecord, DropStale, RemoveFile, DeleteFile
<1>2. CASE EdgeStep
  BY <1>2 DEF EdgeStep, StoreEdges, Link, LinkRaises, DropDispatch, AddDispatch, DropTests, AddTests
<1>3. CASE JobOnly
  BY <1>3 DEF JobOnly, ReadFile, SkipFile, FinishStore, FinishFiles, NothingToResolve, NoTests,
              StartIndexAll, StartIndexFile, StartApplyDelta
<1>4. CASE StoreRefs \/ ClearRefs \/ Reopen
  BY <1>4 DEF StoreRefs, ClearRefs, Reopen
<1> QED
  BY <1>1, <1>2, <1>3, <1>4, StepKinds

-----------------------------------------------------------------------------
(* The open transaction differs from the committed tables in edges alone: only *)
(* an insert of edges is ever left behind without a commit. *)

SameNodes(d, e) == d.nodes = e.nodes /\ d.files = e.files

Agree == SameNodes(db, saved) /\ db.refs = saved.refs

\* Inserting and deleting edges leaves the other tables alone.
LEMMA OtherTables ==
    ASSUME NEW d, IsStore(d)
    PROVE  /\ \A es : SameNodes(InsertEdges(d, es), d) /\ InsertEdges(d, es).refs = d.refs
           /\ \A p : SameNodes(DeleteByProvenance(d, p), d) /\ DeleteByProvenance(d, p).refs = d.refs
           /\ \A rs : SameNodes(InsertUnresolvedRefs(d, rs), d)
           /\ SameNodes(DeleteAllUnresolvedRefs(d), d)
BY DEF IsStore, SameNodes, InsertEdges, DeleteByProvenance, InsertUnresolvedRefs,
       DeleteAllUnresolvedRefs

\* A step on edges commits, or leaves the edges it inserted in the transaction.
LEMMA EdgeStepTables ==
    ASSUME Inv, EdgeStep
    PROVE  /\ SameNodes(db', db) /\ db'.refs = db.refs
           /\ saved' = db' \/ saved' = saved
<1>1. IsStore(db)
  BY DEF Inv, Sound
<1>2. CASE StoreEdges
  BY <1>1, <1>2, OtherTables DEF StoreEdges, Commit, SameNodes
<1>3. CASE Link
  BY <1>1, <1>3, OtherTables DEF Link, Commit, SameNodes
<1>4. CASE LinkRaises
  BY <1>1, <1>4, OtherTables DEF LinkRaises, SameNodes
<1>5. CASE DropDispatch \/ DropTests
  BY <1>1, <1>5, OtherTables DEF DropDispatch, DropTests, DropDerived, Commit, SameNodes
<1>6. CASE AddDispatch \/ AddTests
  BY <1>1, <1>6, OtherTables DEF AddDispatch, AddTests, AddDerived, Commit, SameNodes
<1> QED
  BY <1>2, <1>3, <1>4, <1>5, <1>6 DEF EdgeStep

\* Every other step commits all it did.
LEMMA Committed ==
    ASSUME Inv, [Next]_vars, ~EdgeStep
    PROVE  saved' = db' \/ UNCHANGED <<db, saved>>
<1>1. CASE NodeStep
  BY <1>1 DEF NodeStep, DeleteStale, StoreBatch, StoreNodes, StoreRecord, DropStale,
              RemoveFile, DeleteFile, Commit
<1>2. CASE StoreRefs \/ ClearRefs
  BY <1>2, SMTT(30) DEF StoreRefs, ClearRefs, Commit
<1>3. CASE JobOnly
  BY <1>3 DEF JobOnly, ReadFile, SkipFile, FinishStore, FinishFiles, NothingToResolve, NoTests,
              StartIndexAll, StartIndexFile, StartApplyDelta
<1>4. CASE Reopen \/ Crash
  BY <1>4 DEF Reopen, Crash, Restart
<1> QED
  BY <1>1, <1>2, <1>3, <1>4, StepKinds, SMTT(30)

LEMMA AgreeStep == Inv /\ Agree /\ [Next]_vars => Agree'
<1> SUFFICES ASSUME Inv, Agree, [Next]_vars PROVE Agree'
  OBVIOUS
<1>1. CASE EdgeStep
  BY <1>1, EdgeStepTables DEF Agree, SameNodes
<1>2. CASE ~EdgeStep
  BY <1>2, Committed DEF Agree, SameNodes
<1> QED
  BY <1>1, <1>2

\* Nodes and records change in the node steps alone.
LEMMA NodesKept ==
    ASSUME Inv, Agree, [Next]_vars, ~NodeStep
    PROVE  SameNodes(db', db)
<1>1. IsStore(db)
  BY DEF Inv, Sound
<1>2. CASE EdgeStep
  BY <1>2, EdgeStepTables
<1>3. CASE StoreRefs \/ ClearRefs
  BY <1>1, <1>3, OtherTables, SMTT(30) DEF StoreRefs, ClearRefs, Commit, SameNodes
<1>4. CASE JobOnly
  BY <1>4 DEF JobOnly, ReadFile, SkipFile, FinishStore, FinishFiles, NothingToResolve, NoTests,
              StartIndexAll, StartIndexFile, StartApplyDelta, SameNodes
<1>5. CASE Reopen \/ Crash
  BY <1>5 DEF Reopen, Crash, Restart, Agree, SameNodes
<1> QED
  BY <1>2, <1>3, <1>4, <1>5, StepKinds DEF SameNodes

-----------------------------------------------------------------------------
(* What is stored for a file. *)

RowsOf(f, c) == IF c = NoRecord THEN {} ELSE BulkRows(f, c).nodes

\* The nodes of a file are those of the version recorded for it.
Owned(d, f) == NodesOf(d, {f}) \subseteq RowsOf(f, d.files[f])

\* What is about to be stored in bulk has no record left.
Clean == job.pc = "store" => \A f \in job.todo : db.files[f] = NoRecord

\* _store_result begins without a row of the file and goes on with the rows of
\* the version it stores.
Begun == job.pc \in Storing =>
    /\ db.files[job.cur] = NoRecord
    /\ NodesOf(db, {job.cur}) \subseteq IF job.pc = "nodes" THEN {} ELSE Current.nodes

Exact == (\A f \in File \ {job.cur} : Owned(db, f)) /\ Begun

ExactInv == Agree /\ Clean /\ (crashes = 0 => Exact)

\* Deleting files: nothing is left of them, and all of the others.
LEMMA DeletedNodes ==
    ASSUME NEW d, NEW fs \in SUBSET File
    PROVE  /\ \A f \in fs : DeleteFiles(d, fs).files[f] = NoRecord /\ NodesOf(DeleteFiles(d, fs), {f}) = {}
           /\ \A f \in File \ fs : /\ DeleteFiles(d, fs).files[f] = d.files[f]
                                   /\ NodesOf(DeleteFiles(d, fs), {f}) = NodesOf(d, {f})
BY DEF DeleteFiles, NodesOf

LEMMA DeletedOwned ==
    ASSUME NEW d, NEW fs \in SUBSET File, NEW f \in File, f \in fs \/ Owned(d, f)
    PROVE  Owned(DeleteFiles(d, fs), f)
BY DeletedNodes DEF Owned, RowsOf

\* The same nodes are owned the same.
LEMMA SameOwned ==
    ASSUME NEW d, NEW e, SameNodes(d, e), NEW f
    PROVE  /\ d.files[f] = e.files[f] /\ NodesOf(d, {f}) = NodesOf(e, {f})
           /\ Owned(d, f) <=> Owned(e, f)
BY DEF SameNodes, NodesOf, Owned

\* The tables with a batch stored.
Stored(batch) ==
    BulkInsert(db, UNION {BulkRows(f, job.parsed[f]).nodes : f \in batch},
                   UNION {BulkRows(f, job.parsed[f]).edges : f \in batch},
                   UNION {BulkRows(f, job.parsed[f]).refs : f \in batch},
                   Keep(job.parsed, batch))

LEMMA StoreBatchIs ==
    ASSUME StoreBatch
    PROVE  /\ job.pc = "store"
           /\ \E batch \in SUBSET job.todo :
                 /\ db' = Stored(batch) /\ saved' = Stored(batch)
                 /\ job' = [job EXCEPT !.todo = @ \ batch, !.stored = TRUE]
BY DEF StoreBatch, Stored, Commit

\* A batch leaves the records of its versions, and their nodes.
LEMMA BatchNodes ==
    ASSUME Inv, NEW batch \in SUBSET job.todo, job.pc = "store"
    PROVE  LET e == Stored(batch)
           IN  /\ e.nodes = db.nodes \cup UNION {BulkRows(f, job.parsed[f]).nodes : f \in batch}
               /\ \A f \in batch : /\ f \in File /\ <<f, job.parsed[f]>> \in Source
                                   /\ e.files[f] = job.parsed[f] /\ job.parsed[f] # NoRecord
                                   /\ NodesOf(e, {f}) = NodesOf(db, {f}) \cup BulkRows(f, job.parsed[f]).nodes
               /\ \A f \in File \ batch : /\ e.files[f] = db.files[f]
                                          /\ NodesOf(e, {f}) = NodesOf(db, {f})
<1> DEFINE Rows(f) == BulkRows(f, job.parsed[f]).nodes
           ns == UNION {Rows(f) : f \in batch}
           e == Stored(batch)
<1>1. /\ batch \in SUBSET File
      /\ \A f \in batch : job.parsed[f] # NoRecord /\ <<f, job.parsed[f]>> \in Source
  BY DEF Inv, Parsed, JobOK, Job
<1>2. \A f \in batch : \A n \in Rows(f) : n.file = f
  BY <1>1, Extracted
<1>3. /\ e.nodes = db.nodes \cup ns
      /\ e.files = [f \in File |-> IF f \in batch THEN job.parsed[f] ELSE db.files[f]]
  BY DEF Stored, BulkInsert, Keep
<1>4. \A f \in batch : Rows(f) \subseteq ns
  OBVIOUS
<1>5. \A n \in ns : n.file \in batch /\ n \in Rows(n.file)
  BY <1>2
<1> HIDE DEF ns, Rows, e
<1>6. ASSUME NEW f \in batch PROVE NodesOf(e, {f}) = NodesOf(db, {f}) \cup Rows(f)
  BY <1>2, <1>3, <1>4, <1>5 DEF NodesOf
<1>7. ASSUME NEW f \in File \ batch PROVE NodesOf(e, {f}) = NodesOf(db, {f})
  BY <1>3, <1>5 DEF NodesOf
<1>8. \A f \in batch : e.files[f] = job.parsed[f]
  BY <1>1, <1>3
<1>9. \A f \in File \ batch : e.files[f] = db.files[f]
  BY <1>3
<1> USE DEF ns, Rows, e
<1> QED
  BY <1>1, <1>3, <1>6, <1>7, <1>8, <1>9

\* A step that is not one of index_file's begins and ends between two files.
LEMMA CurrentMoves ==
    ASSUME Inv, [Next]_vars, ~Crash
    PROVE  \/ \E f \in File : DropStale(f)
           \/ StoreNodes \/ StoreEdges \/ StoreRefs \/ StoreRecord
           \/ UNCHANGED job
           \/ job.cur = NoFile /\ job'.cur = NoFile
<1> USE DEF Inv, JobOK, Job
<1>1. CASE NodeStep
  BY <1>1 DEF NodeStep, DeleteStale, StoreBatch, RemoveFile, DeleteFile, Storing
<1>2. CASE EdgeStep
  BY <1>2 DEF EdgeStep, Link, LinkRaises, DropDispatch, AddDispatch, DropTests, AddTests, Idle, Storing
<1>3. CASE JobOnly
  <2>1. job.pc \notin Storing
    BY <1>3 DEF JobOnly, ReadFile, SkipFile, FinishStore, FinishFiles, NothingToResolve, NoTests,
                StartIndexAll, StartIndexFile, StartApplyDelta, Storing
  <2>2. ASSUME \/ StartIndexAll \/ \E f \in File : StartIndexFile(f)
               \/ \E delta \in Deltas : StartApplyDelta(delta[1], delta[2])
        PROVE  job'.cur = NoFile
    BY <2>2 DEF StartIndexAll, StartIndexFile, StartApplyDelta, Idle
  <2>3. ASSUME FinishStore \/ FinishFiles \/ NoTests
        PROVE  job'.cur = job.cur \/ job'.cur = NoFile
    BY <2>3 DEF FinishStore, FinishFiles, NoTests, Idle
  <2>4. ASSUME NothingToResolve \/ \E f \in File : ReadFile(f) \/ SkipFile(f)
        PROVE  job'.cur = job.cur
    BY <2>4 DEF NothingToResolve, ReadFile, SkipFile
  <2> QED
    BY <1>3, <2>1, <2>2, <2>3, <2>4 DEF JobOnly
<1>4. CASE StoreRefs \/ ClearRefs
  BY <1>4 DEF ClearRefs, Storing
<1>5. CASE Reopen
  BY <1>5 DEF Reopen, Restart, Idle, Storing
<1>6. CASE UNCHANGED <<db, saved, ctx, job, crashes>>
  BY <1>6
<1> QED
  BY <1>1, <1>2, <1>3, <1>4, <1>5, <1>6, StepKinds

\* What index_all stores has no record left when it does.
LEMMA CleanStep == Inv /\ Agree /\ Clean /\ [Next]_vars => Clean'
<1> SUFFICES ASSUME Inv, Agree, Clean, [Next]_vars, job'.pc = "store",
                    NEW f \in job'.todo
             PROVE  db'.files[f] = NoRecord
  BY DEF Clean
<1>1. CASE DeleteStale
  <2>1. job'.todo = ToStore /\ ToStore \in SUBSET File /\ Stale \in SUBSET File
    BY <1>1 DEF DeleteStale, ToStore, Stale, Inv, JobOK, Job
  <2>2. db' = DeleteFiles(db, Stale) \/ db' = db
    BY <1>1 DEF DeleteStale, Commit
  <2>3. db' = DeleteFiles(db, Stale) \/ Stale = {}
    BY <1>1 DEF DeleteStale, Commit
  <2> DEFINE e == DeleteFiles(db, Stale)
  <2>6. e.files = [g \in File |-> IF g \in Stale THEN NoRecord ELSE db.files[g]]
    BY DEF DeleteFiles
  <2> HIDE DEF e
  <2>4. CASE f \in Stale
    BY <2>1, <2>3, <2>4, <2>6 DEF e
  <2>5. CASE f \notin Stale
    <3>1. f \in File \ Stale /\ db.files[f] = NoRecord
      BY <2>1, <2>5 DEF Stale
    <3> QED
      BY <2>2, <2>6, <3>1 DEF e
  <2> QED
    BY <2>4, <2>5
<1>2. CASE StoreBatch
  <2>1. job.pc = "store"
    BY <1>2, StoreBatchIs
  <2>2. PICK batch \in SUBSET job.todo :
           db' = Stored(batch) /\ job' = [job EXCEPT !.todo = @ \ batch, !.stored = TRUE]
    BY <1>2, StoreBatchIs
  <2>3. job'.todo = job.todo \ batch
    BY <2>2 DEF Inv, JobOK, Job
  <2>4. f \in File \ batch /\ db.files[f] = NoRecord
    BY <2>1, <2>3 DEF Clean, Inv, JobOK, Job
  <2>5. \A g \in File \ batch : Stored(batch).files[g] = db.files[g]
    BY <2>1, BatchNodes
  <2> QED
    BY <2>2, <2>4, <2>5
<1> USE DEF Inv, JobOK, Job
<1>3. CASE NodeStep /\ ~DeleteStale /\ ~StoreBatch
  BY <1>3 DEF NodeStep, StoreNodes, StoreRecord, DropStale, RemoveFile, DeleteFile
<1>4. CASE ~NodeStep
  <2>1. ASSUME StoreEdges \/ StoreRefs \/ Link \/ DropDispatch \/ DropTests
                 \/ \E g \in File : ReadFile(g) \/ SkipFile(g)
        PROVE  job'.pc # "store"
    BY <2>1 DEF ReadFile, SkipFile, StoreEdges, StoreRefs, Link, DropDispatch, DropTests
  <2>2. UNCHANGED job
    BY <1>4, <2>1, JobMoves DEF NodeStep, Idle
  <2> QED
    BY <1>4, <2>2, NodesKept, SMTT(30) DEF Clean, SameNodes
<1> QED
  BY <1>1, <1>3, <1>2, <1>4

\* Between two files, deleting some of them keeps the others exact.
LEMMA DeleteExact ==
    ASSUME Inv, Exact, job.cur = NoFile, NEW fs \in SUBSET File, db' = DeleteFiles(db, fs)
    PROVE  /\ \A f \in File : Owned(db', f)
           /\ \A f \in fs : db'.files[f] = NoRecord /\ NodesOf(db', {f}) = {}
<1>1. ASSUME NEW f \in File PROVE Owned(db', f)
  <2>1. f # NoFile
    BY IndexingAssumption
  <2> QED
    BY <2>1, DeletedOwned DEF Exact
<1>2. ASSUME NEW f \in fs PROVE db'.files[f] = NoRecord /\ NodesOf(db', {f}) = {}
  BY DeletedNodes
<1> QED
  BY <1>1, <1>2

\* DropStale leaves nothing of the file it is about to store.
LEMMA DropStaleExact ==
    ASSUME Inv, Exact, NEW f \in File, DropStale(f)
    PROVE  Exact'
<1>1. /\ job.cur = NoFile /\ job'.cur = f /\ job'.pc = "nodes"
      /\ db' = DeleteFiles(db, {f}) \/ (db' = db /\ db.files[f] = NoRecord)
  BY DEF DropStale, Commit, Inv, JobOK, Job, Storing
<1>2. CASE db' = DeleteFiles(db, {f})
  BY <1>1, <1>2, DeleteExact DEF Exact, Begun
<1>3. CASE db' = db /\ db.files[f] = NoRecord
  <2>1. f # NoFile
    BY IndexingAssumption
  <2>2. NodesOf(db, {f}) = {}
    BY <1>1, <1>3, <2>1 DEF Exact, Owned, RowsOf
  <2> QED
    BY <1>1, <1>3, <2>2, IndexingAssumption DEF Exact, Begun
<1> QED
  BY <1>1, <1>2, <1>3

\* Storing a batch: its files had no record, hence no nodes.
LEMMA StoreBatchExact ==
    ASSUME Inv, Clean, Exact, StoreBatch
    PROVE  Exact'
<1>1. job.pc = "store" /\ job.todo \in SUBSET File /\ job.cur = NoFile
  BY StoreBatchIs DEF Inv, JobOK, Job, Storing
<1>2. PICK batch \in SUBSET job.todo :
         db' = Stored(batch) /\ job' = [job EXCEPT !.todo = @ \ batch, !.stored = TRUE]
  BY StoreBatchIs
<1>3. job'.pc = "store"
  BY <1>1, <1>2 DEF Inv, JobOK, Job
<1>4. ASSUME NEW f \in batch PROVE Owned(db', f)
  <2>1. f \in File /\ f # NoFile /\ db.files[f] = NoRecord
    BY <1>1, IndexingAssumption DEF Clean
  <2>2. NodesOf(db, {f}) = {}
    BY <1>1, <2>1 DEF Exact, Owned, RowsOf
  <2>3. /\ Stored(batch).files[f] = job.parsed[f] /\ job.parsed[f] # NoRecord
        /\ NodesOf(Stored(batch), {f}) = NodesOf(db, {f}) \cup BulkRows(f, job.parsed[f]).nodes
    BY <1>1, BatchNodes
  <2> QED
    BY <1>2, <2>2, <2>3 DEF Owned, RowsOf
<1>5. ASSUME NEW f \in File \ batch PROVE Owned(db', f)
  <2>1. Owned(db, f)
    BY <1>1, IndexingAssumption DEF Exact
  <2>2. Stored(batch).files[f] = db.files[f] /\ NodesOf(Stored(batch), {f}) = NodesOf(db, {f})
    BY <1>1, BatchNodes
  <2> QED
    BY <1>2, <2>1, <2>2 DEF Owned
<1> QED
  BY <1>3, <1>4, <1>5 DEF Exact, Begun, Storing

\* The steps of _store_result after the first.
LEMMA StoreResultExact ==
    ASSUME Inv, Exact, Agree, [Next]_vars, StoreNodes \/ StoreEdges \/ StoreRefs \/ StoreRecord
    PROVE  Exact'
<1> DEFINE cur == job.cur
<1>1. /\ job.pc \in Storing /\ cur \in File
      /\ job.parsed[cur] # NoRecord /\ <<cur, job.parsed[cur]>> \in Source
  BY DEF Inv, Parsed, JobOK, Job, Storing, StoreNodes, StoreEdges, StoreRefs, StoreRecord
<1>2. /\ Current.nodes \subseteq BulkRows(cur, job.parsed[cur]).nodes
      /\ \A n \in Current.nodes : n.file = cur
  BY <1>1, Extracted DEF Current
<1>3. CASE StoreNodes
  <2>1. /\ job'.cur = cur /\ job'.pc = "edges" /\ Current' = Current
        /\ db'.files = db.files /\ db'.nodes = db.nodes \cup Current.nodes
    BY <1>3 DEF StoreNodes, Commit, InsertNodes, Current, Inv, Sound, IsStore, JobOK, Job
  <2>2. ASSUME NEW f \in File \ {cur} PROVE NodesOf(db', {f}) = NodesOf(db, {f})
    BY <1>2, <2>1 DEF NodesOf
  <2>3. NodesOf(db, {cur}) \subseteq {} /\ db.files[cur] = NoRecord
    BY <1>1, <1>3 DEF Exact, Begun, StoreNodes
  <2>4. NodesOf(db', {cur}) \subseteq Current.nodes
    BY <2>1, <2>3 DEF NodesOf
  <2> HIDE DEF cur
  <2> QED
    BY <2>1, <2>2, <2>3, <2>4 DEF Exact, Begun, Owned, cur
<1>4. CASE StoreEdges \/ StoreRefs
  <2>1. /\ job'.cur = cur /\ job'.pc \in {"refs", "record"} /\ Current' = Current
        /\ job.pc # "nodes"
    BY <1>4 DEF StoreEdges, StoreRefs, Current, Inv, JobOK, Job
  <2>2. ~NodeStep
    BY <1>4 DEF NodeStep, DeleteStale, StoreBatch, StoreNodes, StoreRecord, DropStale,
                RemoveFile, DeleteFile, StoreEdges, StoreRefs
  <2>3. SameNodes(db', db)
    BY <2>2, NodesKept
  <2>4. \A f \in File : Owned(db', f) <=> Owned(db, f)
    BY <2>3, SameOwned
  <2>5. db'.files = db.files /\ NodesOf(db', {cur}) = NodesOf(db, {cur})
    BY <2>3, SameOwned DEF SameNodes
  <2> QED
    BY <1>1, <2>1, <2>4, <2>5 DEF Exact, Begun
<1>5. CASE StoreRecord
  <2>1. /\ job'.cur = NoFile /\ job'.pc = "next" /\ job.pc = "record"
        /\ db'.nodes = db.nodes
        /\ db'.files = [db.files EXCEPT ![cur] = job.parsed[cur]]
    BY <1>5 DEF StoreRecord, Commit, UpsertFile, Inv, Sound, IsStore, JobOK, Job
  <2>2. db.files \in [File -> Version \cup {NoRecord}]
    BY DEF Inv, Sound, IsStore
  <2>3. NodesOf(db, {cur}) \subseteq Current.nodes
    BY <1>1, <2>1 DEF Exact, Begun
  <2>4. \A f : NodesOf(db', {f}) = NodesOf(db, {f})
    BY <2>1 DEF NodesOf
  <2>5. ASSUME NEW f \in File PROVE Owned(db', f)
    <3>1. CASE f = cur
      BY <1>1, <1>2, <2>1, <2>2, <2>3, <2>4, <3>1 DEF Owned, RowsOf
    <3>2. CASE f # cur
      BY <2>1, <2>2, <2>4, <3>2 DEF Owned, Exact
    <3> QED
      BY <3>1, <3>2
  <2> QED
    BY <2>1, <2>5 DEF Exact, Begun, Storing
<1> QED
  BY <1>3, <1>4, <1>5

LEMMA ExactStep ==
    ASSUME Inv, Clean, Agree, Exact, [Next]_vars, ~Crash
    PROVE  Exact'
<1>1. ASSUME NEW f \in File, DropStale(f) PROVE Exact'
  BY <1>1, DropStaleExact
<1>2. CASE StoreBatch
  BY <1>2, StoreBatchExact
<1>3. CASE StoreNodes \/ StoreEdges \/ StoreRefs \/ StoreRecord
  BY <1>3, StoreResultExact
<1>4. CASE DeleteStale
  <2>1. job.cur = NoFile /\ job'.pc = "store" /\ Stale \in SUBSET File
    BY <1>4 DEF DeleteStale, Stale, ToStore, Inv, JobOK, Job, Storing
  <2>2. db' = DeleteFiles(db, Stale) \/ db' = db
    BY <1>4 DEF DeleteStale, Commit
  <2>3. \A f \in File : Owned(db', f)
    <3>1. CASE db' = DeleteFiles(db, Stale)
      BY <2>1, <3>1, DeleteExact
    <3>2. CASE db' = db
      BY <2>1, <3>2, IndexingAssumption DEF Exact
    <3> QED
      BY <2>2, <3>1, <3>2
  <2> QED
    BY <2>1, <2>3 DEF Exact, Begun, Storing
<1>5. ASSUME NEW f \in File, RemoveFile(f) \/ DeleteFile(f) PROVE Exact'
  <2>1. job.cur = NoFile /\ job'.pc \notin Storing /\ db' = DeleteFiles(db, {f})
    BY <1>5 DEF RemoveFile, DeleteFile, Commit, Inv, JobOK, Job, Storing
  <2>2. \A g \in File : Owned(db', g)
    BY <2>1, DeleteExact
  <2> QED
    BY <2>1, <2>2 DEF Exact, Begun
<1>6. CASE ~NodeStep /\ ~StoreEdges /\ ~StoreRefs
  <2>1. SameNodes(db', db)
    BY <1>6, NodesKept
  <2>2. /\ \A f : Owned(db', f) <=> Owned(db, f)
        /\ \A f : db'.files[f] = db.files[f] /\ NodesOf(db', {f}) = NodesOf(db, {f})
    BY <2>1, SameOwned
  <2>3. CASE UNCHANGED job
    BY <2>2, <2>3 DEF Exact, Begun, Current
  <2>4. CASE job.cur = NoFile /\ job'.cur = NoFile
    <3>1. job'.pc \notin Storing
      BY <2>4, NextInv DEF Inv, JobOK
    <3> QED
      BY <2>2, <2>4, <3>1, IndexingAssumption DEF Exact, Begun
  <2> QED
    BY <1>6, <2>3, <2>4, CurrentMoves DEF NodeStep
<1> QED
  BY <1>1, <1>2, <1>3, <1>4, <1>5, <1>6 DEF NodeStep

LEMMA ExactInvariant == Spec => []ExactInv
<1>1. Init => ExactInv
  BY IndexingAssumption DEF Init, ExactInv, Agree, SameNodes, Clean, Exact, Begun, Owned, RowsOf,
     EmptyStore, NodesOf, Idle, Storing
<1>2. Inv /\ ExactInv /\ [Next]_vars => ExactInv'
  <2> SUFFICES ASSUME Inv, ExactInv, [Next]_vars PROVE ExactInv'
    OBVIOUS
  <2>1. Agree' /\ Clean'
    BY AgreeStep, CleanStep DEF ExactInv
  <2>2. ASSUME crashes' = 0 PROVE Exact'
    <3>1. crashes = 0 /\ ~Crash
      BY <2>2, CrashCounts DEF Inv, Crash
    <3> QED
      BY <3>1, ExactStep DEF ExactInv
  <2> QED
    BY <2>1, <2>2 DEF ExactInv
<1> QED
  BY <1>1, <1>2, Invariance, PTL DEF Spec

\* Unless a call died in the midst of a file, a recorded file has the symbols
\* of its version and no others, and a file without a record has none: every
\* way to index a file replaces what was stored of it.
THEOREM FilesExact == Spec => []RecordedFilesExact
<1>1. Inv /\ ExactInv => RecordedFilesExact
  <2> SUFFICES ASSUME Inv, ExactInv, crashes = 0, NEW f \in File \ {job.cur}
               PROVE  IF saved.files[f] = NoRecord
                      THEN NodesOf(saved, {f}) = {}
                      ELSE /\ FileRows(f, saved.files[f]).nodes \subseteq NodesOf(saved, {f})
                           /\ NodesOf(saved, {f}) \subseteq BulkRows(f, saved.files[f]).nodes
    BY DEF RecordedFilesExact
  <2>1. NodesOf(saved, {f}) \subseteq RowsOf(f, saved.files[f])
    <3>1. Owned(db, f)
      BY DEF ExactInv, Exact
    <3> QED
      BY <3>1, SameOwned DEF ExactInv, Agree, Owned
  <2>2. CASE saved.files[f] = NoRecord
    BY <2>1, <2>2 DEF RowsOf
  <2>3. CASE saved.files[f] # NoRecord
    <3>1. /\ <<f, saved.files[f]>> \in Source
          /\ FileRows(f, saved.files[f]).nodes \subseteq saved.nodes
      BY <2>3 DEF Inv, Sound, Complete
    <3>2. \A n \in FileRows(f, saved.files[f]).nodes : n.file = f
      BY <3>1, Extracted
    <3> QED
      BY <2>1, <2>3, <3>1, <3>2 DEF RowsOf, NodesOf
  <2> QED
    BY <2>2, <2>3
<1> QED
  BY <1>1, Invariance, ExactInvariant, PTL

-----------------------------------------------------------------------------
(* index_all and delete_file implement the abstract index. *)

BulkOnly == Ops \subseteq {"index_all", "delete_file"}

\* The nodes stored are those of the recorded versions.
Only(d) == \A f \in File : NodesOf(d, {f}) = RowsOf(f, d.files[f])

BulkInv == Agree /\ Clean /\ Only(db) /\ job.op \in {"none", "index_all"}

\* The store in the terms of the abstract index.
LEMMA SymbolsAre ==
    ASSUME NEW d, Sound(d), Only(d)
    PROVE  d.nodes = Abs!SymbolsOf(d.files)
<1> DEFINE recorded == {f \in File : d.files[f] # NoRecord}
           rows(f) == BulkRows(f, d.files[f]).nodes
           symbols(f) == [s \in Source |-> BulkRows(s[1], s[2]).nodes][<<f, d.files[f]>>]
<1>1. \A f \in recorded : <<f, d.files[f]>> \in Source
  BY DEF Sound
<1>2. Abs!SymbolsOf(d.files) = UNION {symbols(f) : f \in recorded}
  BY DEF Abs!SymbolsOf
<1>3. \A f \in recorded : symbols(f) = rows(f)
  BY <1>1
<1>4. \A f \in recorded : NodesOf(d, {f}) = rows(f)
  BY DEF Only, RowsOf
<1>5. \A f \in File \ recorded : NodesOf(d, {f}) = {}
  BY DEF Only, RowsOf
<1>6. \A n \in d.nodes : n.file \in File
  BY DEF Sound, IsStore, Node
<1> HIDE DEF recorded, rows, symbols
<1>7. ASSUME NEW n \in d.nodes PROVE n.file \in recorded /\ n \in rows(n.file)
  BY <1>4, <1>5, <1>6 DEF NodesOf
<1>8. \A f \in recorded : rows(f) \subseteq d.nodes
  BY <1>4 DEF NodesOf
<1>9. d.nodes = UNION {rows(f) : f \in recorded}
  BY <1>7, <1>8
<1>10. UNION {symbols(f) : f \in recorded} = UNION {rows(f) : f \in recorded}
  BY <1>3
<1> QED
  BY <1>2, <1>9, <1>10

\* With these operations alone, no file is indexed by itself.
LEMMA BulkSteps ==
    ASSUME BulkOnly, Inv, BulkInv, [Next]_vars
    PROVE  /\ job'.op \in {"none", "index_all"}
           /\ \/ DeleteStale \/ StoreBatch \/ \E f \in File : DeleteFile(f)
              \/ ~NodeStep
<1>1. job.pc \notin {"next"} \cup Storing
  BY DEF BulkInv, Inv, JobOK, PcOf, Resolving, Storing
<1>2. ~NodeStep \/ DeleteStale \/ StoreBatch \/ \E f \in File : DeleteFile(f)
  BY <1>1 DEF NodeStep, StoreNodes, StoreRecord, DropStale, RemoveFile, Storing
<1>3. job'.op \in {"none", "index_all"}
  <2> USE DEF BulkInv, Inv, JobOK, Job
  <2>1. CASE NodeStep
    BY <1>2, <2>1 DEF DeleteStale, StoreBatch, DeleteFile
  <2>2. CASE EdgeStep
    BY <1>1, <2>2 DEF EdgeStep, StoreEdges, Link, LinkRaises, DropDispatch, AddDispatch, DropTests,
                      AddTests, Idle
  <2>3. CASE JobOnly
    <3>1. \A f \in File : ~SkipFile(f) /\ ~StartIndexFile(f)
      BY <1>1 DEF SkipFile, StartIndexFile, BulkOnly
    <3>2. \A delta \in Deltas : ~StartApplyDelta(delta[1], delta[2])
      BY DEF StartApplyDelta, BulkOnly
    <3>3. ~FinishFiles
      BY <1>1 DEF FinishFiles
    <3>4. CASE StartIndexAll
      BY <3>4 DEF StartIndexAll, Idle
    <3>5. CASE FinishStore \/ NoTests
      BY <3>5 DEF FinishStore, NoTests, Idle
    <3>6. CASE NothingToResolve \/ \E f \in File : ReadFile(f)
      BY <3>6 DEF NothingToResolve, ReadFile
    <3> QED
      BY <2>3, <3>1, <3>2, <3>3, <3>4, <3>5, <3>6 DEF JobOnly
  <2>4. CASE StoreRefs \/ ClearRefs
    BY <1>1, <2>4 DEF StoreRefs, ClearRefs
  <2>5. CASE Reopen \/ Crash
    BY <2>5 DEF Reopen, Crash, Restart, Idle
  <2> QED
    BY <2>1, <2>2, <2>3, <2>4, <2>5, StepKinds
<1> QED
  BY <1>2, <1>3

\* Deleting files is forgetting them.
LEMMA DeleteForgets ==
    ASSUME Inv, Inv', Agree, Only(db), NEW fs \in SUBSET File, Commit(DeleteFiles(db, fs))
    PROVE  Only(db') /\ Abs!Forget(fs)
<1>1. db' = DeleteFiles(db, fs) /\ saved' = db'
  BY DEF Commit
<1>2. Only(db')
  <2> SUFFICES ASSUME NEW f \in File PROVE NodesOf(db', {f}) = RowsOf(f, db'.files[f])
    BY DEF Only
  <2>1. CASE f \in fs
    BY <1>1, <2>1, DeletedNodes DEF RowsOf
  <2>2. CASE f \notin fs
    <3>1. NodesOf(db', {f}) = NodesOf(db, {f}) /\ db'.files[f] = db.files[f]
      BY <1>1, <2>2, DeletedNodes, SMTT(30)
    <3> QED
      BY <3>1 DEF Only
  <2> QED
    BY <2>1, <2>2
<1>3. db'.nodes = Abs!SymbolsOf(db'.files)
  BY <1>2, SymbolsAre DEF Inv
<1>4. db'.files = [f \in File |-> IF f \in fs THEN NoRecord ELSE saved.files[f]]
  BY <1>1 DEF DeleteFiles, Agree, SameNodes
<1> QED
  BY <1>1, <1>2, <1>3, <1>4 DEF Abs!Forget, Abs!Change

\* Storing a batch is learning its files.
LEMMA BatchLearns ==
    ASSUME Inv, Inv', Agree, Clean, Only(db), StoreBatch
    PROVE  Only(db') /\ \E fs \in SUBSET File : Abs!Learn(fs)
<1>1. job.pc = "store" /\ job.todo \in SUBSET File
  BY StoreBatchIs DEF Inv, JobOK, Job
<1>2. PICK batch \in SUBSET job.todo : db' = Stored(batch) /\ saved' = Stored(batch)
  BY StoreBatchIs
<1>3. /\ \A f \in batch : /\ f \in File /\ <<f, job.parsed[f]>> \in Source
                           /\ db'.files[f] = job.parsed[f] /\ job.parsed[f] # NoRecord
                           /\ NodesOf(db', {f}) = NodesOf(db, {f}) \cup BulkRows(f, job.parsed[f]).nodes
      /\ \A f \in File \ batch : db'.files[f] = db.files[f] /\ NodesOf(db', {f}) = NodesOf(db, {f})
  BY <1>1, <1>2, BatchNodes
<1>4. \A f \in batch : db.files[f] = NoRecord
  BY <1>1 DEF Clean
<1>5. Only(db')
  <2> SUFFICES ASSUME NEW f \in File PROVE NodesOf(db', {f}) = RowsOf(f, db'.files[f])
    BY DEF Only
  <2>1. CASE f \in batch
    <3>1. NodesOf(db, {f}) = {}
      BY <1>4, <2>1 DEF Only, RowsOf
    <3> QED
      BY <1>3, <2>1, <3>1 DEF RowsOf
  <2>2. CASE f \notin batch
    BY <1>3, <2>2 DEF Only
  <2> QED
    BY <2>1, <2>2
<1>6. db'.nodes = Abs!SymbolsOf(db'.files)
  BY <1>5, SymbolsAre DEF Inv
<1>7. db'.files \in [File -> Version \cup {NoRecord}] /\ saved.files = db.files
  BY DEF Inv, Sound, IsStore, Agree, SameNodes
<1> DEFINE versions == [f \in batch |-> job.parsed[f]]
           new == [f \in File |-> IF f \in batch THEN versions[f] ELSE saved.files[f]]
<1>8. versions \in [batch -> Version]
  BY <1>3, Extracted
<1>9. db'.files = new
  BY <1>3, <1>7
<1>10. Abs!Change(batch, new)
  BY <1>2, <1>6, <1>9 DEF Abs!Change
<1>11. batch \in SUBSET File /\ \A f \in batch : saved.files[f] = NoRecord
  BY <1>3, <1>4, <1>7
<1>12. Abs!Learn(batch)
  <2> HIDE DEF versions
  <2> QED
    BY <1>8, <1>10, <1>11 DEF Abs!Learn
<1> QED
  BY <1>5, <1>11, <1>12

LEMMA BulkStepRefines ==
    ASSUME BulkOnly, Inv, Inv', BulkInv, [Next]_vars
    PROVE  BulkInv' /\ [Abs!Next]_(Abs!avars)
<1>1. Agree' /\ Clean' /\ job'.op \in {"none", "index_all"}
  BY AgreeStep, CleanStep, BulkSteps DEF BulkInv
<1>2. Only(db') /\ [Abs!Next]_(Abs!avars)
  <2>1. CASE DeleteStale
    <3>1. Stale \in SUBSET File
      BY DEF Stale, ToStore
    <3>2. CASE Commit(DeleteFiles(db, Stale))
      BY <3>1, <3>2, DeleteForgets DEF BulkInv, Abs!Next
    <3>3. CASE UNCHANGED <<db, saved>>
      BY <3>3 DEF BulkInv, Abs!avars
    <3> QED
      BY <2>1, <3>2, <3>3 DEF DeleteStale
  <2>2. CASE StoreBatch
    BY <2>2, BatchLearns DEF BulkInv, Abs!Next
  <2>3. ASSUME NEW f \in File, DeleteFile(f) PROVE Only(db') /\ Abs!Next
    <3>1. {f} \in SUBSET File /\ Commit(DeleteFiles(db, {f}))
      BY <2>3 DEF DeleteFile
    <3> QED
      BY <3>1, DeleteForgets DEF BulkInv, Abs!Next
  <2>4. CASE ~NodeStep
    <3>1. SameNodes(db', db)
      BY <2>4, NodesKept DEF BulkInv
    <3>2. SameNodes(saved', saved)
      BY <1>1, <3>1 DEF BulkInv, Agree, SameNodes
    <3> QED
      BY <3>1, <3>2, SameOwned DEF BulkInv, Only, SameNodes, Abs!avars
  <2> QED
    BY <2>1, <2>2, <2>3, <2>4, BulkSteps
<1> QED
  BY <1>1, <1>2 DEF BulkInv

\* Whatever the batches and the crashes, what index_all and delete_file commit is
\* a behaviour of the abstract index: files are forgotten and learnt as a whole.
THEOREM BulkRefines == BulkOnly => (Spec => AbsSpec)
<1> SUFFICES ASSUME BulkOnly PROVE Spec => AbsSpec
  OBVIOUS
<1>1. Init => BulkInv /\ Abs!Init
  <2> SUFFICES ASSUME Init PROVE BulkInv /\ Abs!Init
    OBVIOUS
  <2>1. Agree /\ Clean /\ job.op = "none"
    BY DEF Init, Agree, SameNodes, Clean, Idle
  <2>2. Only(db)
    BY DEF Init, Only, EmptyStore, NodesOf, RowsOf
  <2>3. Abs!Init
    BY DEF Init, EmptyStore, Abs!Init
  <2> QED
    BY <2>1, <2>2, <2>3 DEF BulkInv
<1>2. Inv /\ Inv' /\ BulkInv /\ [Next]_vars => BulkInv' /\ [Abs!Next]_(Abs!avars)
  BY BulkStepRefines
<1> QED
  BY <1>1, <1>2, Invariance, PTL DEF Spec, AbsSpec, Abs!Spec

-----------------------------------------------------------------------------
(* How the edges change. *)

\* Rows of edges that were extracted or resolved.
Direct(es) == IsRows(es, Edge) /\ \A e \in DOMAIN es : e.prov \in {"extraction", "resolution"}

\* The rows of a resolution pass.
LEMMA NewDirect ==
    ASSUME Inv, NEW refs \in Limited(db.refs, RefLimit),
           NEW pick \in Resolutions(Warmed.nodes, DOMAIN refs)
    PROVE  /\ Direct(CreateEdges(refs, pick))
           /\ \A before \in SUBSET DOMAIN CreateEdges(refs, pick) :
                 Direct(Keep(CreateEdges(refs, pick), before))
<1>1. IsRows(CreateEdges(refs, pick), Edge)
  BY NewEdges
<1>2. \A e \in DOMAIN CreateEdges(refs, pick) : e.prov = "resolution"
  BY DEF CreateEdges, CreateEdge
<1> QED
  BY <1>1, <1>2, KeepRows DEF Direct

\* The rows of extracted versions.
LEMMA ExtractedDirect ==
    ASSUME NEW es \in SUBSET Edge, \A e \in es : e.prov = "extraction"
    PROVE  Direct(SetToBag(es))
BY SetRows DEF Direct

LEMMA EdgeMoves ==
    ASSUME Inv, [Next]_vars
    PROVE  \/ db'.edges = db.edges /\ db.nodes \subseteq db'.nodes
           \/ Reopen \/ Crash
           \/ \E fs \in SUBSET File : db' = DeleteFiles(db, fs)
           \/ \E es : Direct(es) /\ db'.edges = Add(db.edges, es) /\ db.nodes \subseteq db'.nodes
           \/ DropDispatch \/ AddDispatch \/ DropTests \/ AddTests
<1>0. IsStore(db)
  BY DEF Inv, Sound
<1>1. CASE DeleteStale
  <2>1. Stale \in SUBSET File
    BY DEF Stale, ToStore
  <2> QED
    BY <1>1, <2>1 DEF DeleteStale, Commit
<1>2. CASE StoreBatch
  <2>1. job.pc = "store"
    BY <1>2, StoreBatchIs
  <2>2. PICK batch \in SUBSET job.todo : db' = Stored(batch)
    BY <1>2, StoreBatchIs
  <2> DEFINE rows(f) == BulkRows(f, job.parsed[f]).edges
             es == UNION {rows(f) : f \in batch}
  <2>3. \A f \in batch : <<f, job.parsed[f]>> \in Source
    BY <2>1, BatchNodes
  <2>4. ASSUME NEW f \in batch
        PROVE  rows(f) \subseteq Edge /\ \A e \in rows(f) : e.prov = "extraction"
    <3>1. <<f, job.parsed[f]>> \in Source
      BY <2>3
    <3> QED
      BY <3>1, Extracted
  <2> HIDE DEF rows
  <2>5. es \in SUBSET Edge /\ \A e \in es : e.prov = "extraction"
    BY <2>4
  <2>6. db'.edges = Add(db.edges, SetToBag(es)) /\ db.nodes \subseteq db'.nodes
    BY <2>2 DEF Stored, BulkInsert, rows
  <2> HIDE DEF es
  <2> QED
    BY <2>5, <2>6, ExtractedDirect
<1>3. CASE StoreNodes \/ StoreRecord
  BY <1>0, <1>3 DEF StoreNodes, StoreRecord, Commit, InsertNodes, UpsertFile, IsStore
<1>4. ASSUME NEW f \in File, DropStale(f) \/ RemoveFile(f) \/ DeleteFile(f)
      PROVE  db' = db \/ db' = DeleteFiles(db, {f})
  BY <1>4 DEF DropStale, RemoveFile, DeleteFile, Commit
<1>5. CASE StoreEdges
  <2>1. Current.edges \in SUBSET Edge /\ \A e \in Current.edges : e.prov = "extraction"
    <3>1. job.pc \in Storing
      BY <1>5 DEF StoreEdges, Storing
    <3>2. <<job.cur, job.parsed[job.cur]>> \in Source
      BY <3>1, CurrentRows
    <3>3. Current.edges \subseteq BulkRows(job.cur, job.parsed[job.cur]).edges
      BY <3>2, Extracted DEF Current
    <3> QED
      BY <3>2, <3>3, Extracted
  <2>2. Direct(SetToBag(Current.edges))
    BY <2>1, ExtractedDirect
  <2>3. db' = InsertEdges(db, SetToBag(Current.edges)) \/ db' = db
    BY <1>5 DEF StoreEdges, Commit
  <2> QED
    BY <1>0, <2>2, <2>3, OtherTables DEF InsertEdges, IsStore, SameNodes
<1>6. CASE Link
  <2>1. PICK refs \in Limited(db.refs, RefLimit) :
           \E pick \in Resolutions(Warmed.nodes, DOMAIN refs) :
             db' = db \/ db' = InsertEdges(db, CreateEdges(refs, pick))
    BY <1>6 DEF Link, Commit
  <2>2. PICK pick \in Resolutions(Warmed.nodes, DOMAIN refs) :
           db' = db \/ db' = InsertEdges(db, CreateEdges(refs, pick))
    BY <2>1
  <2>3. Direct(CreateEdges(refs, pick))
    BY NewDirect
  <2> QED
    BY <1>0, <2>2, <2>3 DEF InsertEdges, IsStore
<1>7. CASE LinkRaises
  <2>1. PICK refs \in Limited(db.refs, RefLimit) :
           \E pick \in Resolutions(Warmed.nodes, DOMAIN refs) :
             \E before \in SUBSET Linkable(CreateEdges(refs, pick)) :
               db' = InsertEdges(db, Keep(CreateEdges(refs, pick), before))
    BY <1>7 DEF LinkRaises
  <2>2. PICK pick \in Resolutions(Warmed.nodes, DOMAIN refs) :
           \E before \in SUBSET Linkable(CreateEdges(refs, pick)) :
             db' = InsertEdges(db, Keep(CreateEdges(refs, pick), before))
    BY <2>1
  <2>3. PICK before \in SUBSET Linkable(CreateEdges(refs, pick)) :
           db' = InsertEdges(db, Keep(CreateEdges(refs, pick), before))
    BY <2>2
  <2>4. before \in SUBSET DOMAIN CreateEdges(refs, pick)
    BY DEF Linkable
  <2>5. Direct(Keep(CreateEdges(refs, pick), before))
    BY <2>4, NewDirect
  <2> QED
    BY <1>0, <2>3, <2>5 DEF InsertEdges, IsStore
<1>8. CASE StoreRefs \/ ClearRefs
  <2>1. db' = db \/ db' = InsertUnresolvedRefs(db, SetToBag(Current.refs))
                 \/ db' = DeleteAllUnresolvedRefs(db)
    BY <1>8, SMTT(30) DEF StoreRefs, ClearRefs, Commit
  <2> QED
    BY <1>0, <2>1 DEF InsertUnresolvedRefs, DeleteAllUnresolvedRefs, IsStore
<1>9. CASE JobOnly
  BY <1>9 DEF JobOnly, ReadFile, SkipFile, FinishStore, FinishFiles, NothingToResolve, NoTests,
              StartIndexAll, StartIndexFile, StartApplyDelta
<1>10. CASE NodeStep
  BY <1>1, <1>2, <1>3, <1>4, <1>10 DEF NodeStep
<1>11. CASE EdgeStep
  BY <1>5, <1>6, <1>7, <1>11 DEF EdgeStep
<1> QED
  BY <1>8, <1>9, <1>10, <1>11, StepKinds

-----------------------------------------------------------------------------
(* Derived edges. *)

Derivation == {"heuristic:synthesis", "test-analysis"}

\* What the edges of either derivation look like.
WellDerived(e) ==
    /\ e.prov = "heuristic:synthesis" => /\ e.kind = "calls"
                                         /\ e.source.name = e.target.name
                                         /\ e.target.kind \in {"method", "function"}
    /\ e.prov = "test-analysis" => e.kind = "tests"

\* There is one copy of each derived edge, and it is the edge synthesis or test
\* analysis makes.
Derived(d) == \A e \in DOMAIN d.edges :
    /\ e.prov \in Derivation => d.edges[e] = 1
    /\ WellDerived(e)

\* Between the deletion and the insertion there is none.
DerivedInv ==
    /\ Derived(db) /\ Derived(saved)
    /\ job.pc = "add-dispatch" => WithProvenance(db, "heuristic:synthesis") = {}
    /\ job.pc = "add-tests" => WithProvenance(db, "test-analysis") = {}

\* What was not stored before is added once.
LEMMA AddOnce ==
    ASSUME NEW b, NEW c, IsRows(b, Edge), IsRows(c, Edge), NEW e
    PROVE  /\ e \in DOMAIN b \ DOMAIN c => Add(b, c)[e] = b[e]
           /\ e \in DOMAIN c \ DOMAIN b /\ c[e] = 1 => Add(b, c)[e] = 1
<1>1. ASSUME NEW x \in DOMAIN b \cup DOMAIN c
      PROVE  Add(b, c)[x] = Saturate((IF x \in DOMAIN b THEN b[x] ELSE 0)
                                      + (IF x \in DOMAIN c THEN c[x] ELSE 0))
  BY DEF Add, (+)
<1>2. ASSUME e \in DOMAIN b \ DOMAIN c PROVE Add(b, c)[e] = b[e]
  <2>1. b[e] \in 1 .. MaxCopies
    BY <1>2 DEF IsRows
  <2> QED
    BY <1>1, <1>2, <2>1, StoreAssumption DEF Saturate
<1>3. ASSUME e \in DOMAIN c \ DOMAIN b, c[e] = 1 PROVE Add(b, c)[e] = 1
  BY <1>1, <1>3, StoreAssumption DEF Saturate
<1> QED
  BY <1>2, <1>3

\* Direct rows touch no derived edge.
LEMMA DerivedDirect ==
    ASSUME NEW d, NEW d2, Sound(d), Derived(d), NEW es, Direct(es), d2.edges = Add(d.edges, es)
    PROVE  Derived(d2)
<1>1. IsRows(d.edges, Edge) /\ IsRows(es, Edge)
  BY DEF Sound, IsStore, Direct
<1>2. DOMAIN d2.edges = DOMAIN d.edges \cup DOMAIN es
  BY DEF Add
<1>3. ASSUME NEW e \in DOMAIN d2.edges, e.prov \in Derivation
      PROVE  e \in DOMAIN d.edges /\ d2.edges[e] = d.edges[e]
  <2>1. e \notin DOMAIN es
    BY <1>3 DEF Direct, Derivation
  <2> QED
    BY <1>1, <1>2, <2>1, AddOnce
<1> QED
  BY <1>2, <1>3 DEF Derived, Derivation, WellDerived, Direct

\* A derivation is inserted where there is none of it.
LEMMA DerivedAdd ==
    ASSUME NEW d, NEW d2, Sound(d), Derived(d), NEW p \in Derivation, WithProvenance(d, p) = {},
           NEW es \in SUBSET Edge, d2.edges = Add(d.edges, SetToBag(es)),
           \A e \in es : e.prov = p /\ WellDerived(e)
    PROVE  Derived(d2)
<1>1. /\ IsRows(d.edges, Edge) /\ IsRows(SetToBag(es), Edge)
      /\ DOMAIN SetToBag(es) = es
  BY SetRows DEF Sound, IsStore
<1>2. DOMAIN d2.edges = DOMAIN d.edges \cup es
  BY <1>1 DEF Add
<1>3. \A e \in es : SetToBag(es)[e] = 1 /\ e \notin DOMAIN d.edges
  BY DEF SetToBag, WithProvenance
<1>4. \A e \in es : d2.edges[e] = 1
  BY <1>1, <1>3, AddOnce
<1>5. \A e \in DOMAIN d.edges : e \notin es /\ d2.edges[e] = d.edges[e]
  BY <1>1, <1>3, AddOnce
<1> QED
  BY <1>2, <1>4, <1>5 DEF Derived, Derivation

\* What synthesis makes.
LEMMA Synthesized ==
    ASSUME NEW d, NEW seen, NEW e \in Synthesize(d, seen)
    PROVE  e.prov = "heuristic:synthesis" /\ WellDerived(e)
<1>1. \E c, b : \E m \in Methods(d, seen, b), i \in Methods(d, seen, c) :
         e = SynthEdge(m, i) /\ m.name = i.name
  BY DEF Synthesize
<1> QED
  BY <1>1 DEF SynthEdge, Methods, WellDerived

LEMMA DerivedStep == Inv /\ DerivedInv /\ [Next]_vars => DerivedInv'
<1> SUFFICES ASSUME Inv, DerivedInv, [Next]_vars PROVE DerivedInv'
  OBVIOUS
<1>0. Sound(db) /\ IsStore(db)
  BY DEF Inv, Sound
<1>1. ASSUME db'.edges = db.edges PROVE Derived(db')
  BY <1>1 DEF DerivedInv, Derived
<1>2. ASSUME Reopen \/ Crash PROVE Derived(db')
  BY <1>2 DEF Reopen, Crash, Restart, DerivedInv
<1>3. ASSUME NEW fs \in SUBSET File, db' = DeleteFiles(db, fs)
      PROVE  Derived(db')
  <2>1. /\ DOMAIN db'.edges \subseteq DOMAIN db.edges
        /\ \A e \in DOMAIN db'.edges : db'.edges[e] = db.edges[e]
    BY <1>3 DEF DeleteFiles, Keep
  <2> QED
    BY <2>1 DEF DerivedInv, Derived
<1>4. ASSUME NEW es, Direct(es), db'.edges = Add(db.edges, es)
      PROVE  Derived(db')
  BY <1>0, <1>4, DerivedDirect DEF DerivedInv
<1>5. ASSUME NEW p, DropDerived(p)
      PROVE  Derived(db') /\ WithProvenance(db', p) = {}
  <2>1. CASE db' = DeleteByProvenance(db, p)
    <3>1. db'.edges = Keep(db.edges, DOMAIN db.edges \ WithProvenance(db, p))
      BY <1>0, <2>1 DEF DeleteByProvenance, IsStore
    <3> QED
      BY <3>1 DEF DerivedInv, Derived, Keep, WithProvenance
  <2>2. CASE db' = db /\ WithProvenance(db, p) = {}
    BY <2>2 DEF DerivedInv
  <2> QED
    BY <1>5, <2>1, <2>2 DEF DropDerived, Commit
<1>6. ASSUME AddDispatch PROVE Derived(db')
  <2>1. Synthesize(db, ctx.nodes) \in SUBSET Edge
    BY <1>0, SynthesizeType DEF Inv
  <2>2. /\ WithProvenance(db, "heuristic:synthesis") = {}
        /\ db' = db \/ db' = InsertEdges(db, SetToBag(Synthesize(db, ctx.nodes)))
    BY <1>6 DEF AddDispatch, AddDerived, Commit, DerivedInv
  <2>3. \A e \in Synthesize(db, ctx.nodes) : e.prov = "heuristic:synthesis" /\ WellDerived(e)
    BY Synthesized
  <2>4. CASE db' = InsertEdges(db, SetToBag(Synthesize(db, ctx.nodes)))
    <3>1. db'.edges = Add(db.edges, SetToBag(Synthesize(db, ctx.nodes)))
      BY <1>0, <2>4 DEF InsertEdges, IsStore
    <3> QED
      BY <1>0, <2>1, <2>2, <2>3, <3>1, DerivedAdd DEF DerivedInv, Derivation
  <2> QED
    BY <2>2, <2>4 DEF DerivedInv
<1>7. ASSUME AddTests PROVE Derived(db')
  <2>1. AnalyzeTests(db) \in SUBSET Edge
    BY <1>0, AnalyzeTestsType
  <2>2. /\ WithProvenance(db, "test-analysis") = {}
        /\ db' = db \/ db' = InsertEdges(db, SetToBag(AnalyzeTests(db)))
    BY <1>7 DEF AddTests, AddDerived, Commit, DerivedInv
  <2>3. \A e \in AnalyzeTests(db) : e.prov = "test-analysis" /\ WellDerived(e)
    BY DEF AnalyzeTests, TestEdge, WellDerived
  <2>4. CASE db' = InsertEdges(db, SetToBag(AnalyzeTests(db)))
    <3>1. db'.edges = Add(db.edges, SetToBag(AnalyzeTests(db)))
      BY <1>0, <2>4 DEF InsertEdges, IsStore
    <3> QED
      BY <1>0, <2>1, <2>2, <2>3, <3>1, DerivedAdd DEF DerivedInv, Derivation
  <2> QED
    BY <2>2, <2>4 DEF DerivedInv
<1>8. Derived(db')
  <2>1. DropDispatch \/ DropTests => \E p : DropDerived(p)
    BY DEF DropDispatch, DropTests
  <2> QED
    BY <1>1, <1>2, <1>3, <1>4, <1>5, <1>6, <1>7, <2>1, EdgeMoves DEF DerivedInv
<1>9. ASSUME job'.pc \in {"add-dispatch", "add-tests"}
      PROVE  DropDispatch \/ DropTests \/ UNCHANGED <<db, job>>
  <2>1. ASSUME ~DropDispatch, ~DropTests PROVE UNCHANGED job
    <3>1. ASSUME StoreBatch PROVE job'.pc = "store"
      BY <3>1, StoreBatchIs DEF Inv, JobOK, Job
    <3>2. ASSUME \/ \E f \in File : DropStale(f) \/ ReadFile(f) \/ SkipFile(f)
                 \/ StoreNodes \/ StoreEdges \/ StoreRefs \/ DeleteStale \/ Link
          PROVE  job'.pc \notin {"add-dispatch", "add-tests"}
      BY <3>2 DEF DropStale, ReadFile, SkipFile, StoreNodes, StoreEdges, StoreRefs, DeleteStale, Link,
                  Inv, JobOK, Job
    <3> QED
      BY <1>9, <2>1, <3>1, <3>2, JobMoves DEF Idle
  <2>2. ASSUME UNCHANGED job PROVE UNCHANGED db
    <3>1. job.pc \in {"add-dispatch", "add-tests"}
      BY <1>9, <2>2
    <3>2. ~NodeStep
      BY <3>1 DEF NodeStep, DeleteStale, StoreBatch, StoreNodes, StoreRecord, DropStale, RemoveFile,
                  DeleteFile
    <3>3. ~EdgeStep
      BY <2>2, <3>1 DEF EdgeStep, StoreEdges, Link, LinkRaises, DropDispatch, AddDispatch, DropTests,
                        AddTests, Idle, Inv, JobOK, Job
    <3>4. ~StoreRefs /\ ~ClearRefs /\ ~Reopen /\ ~Crash
      BY <2>2, <3>1, SMTT(30) DEF StoreRefs, ClearRefs, Reopen, Crash, Restart, Idle
    <3>5. JobOnly => UNCHANGED db
      BY DEF JobOnly, ReadFile, SkipFile, FinishStore, FinishFiles, NothingToResolve, NoTests,
             StartIndexAll, StartIndexFile, StartApplyDelta
    <3> QED
      BY <3>2, <3>3, <3>4, <3>5, StepKinds
  <2> QED
    BY <2>1, <2>2
<1>10. /\ job'.pc = "add-dispatch" => WithProvenance(db', "heuristic:synthesis") = {}
       /\ job'.pc = "add-tests" => WithProvenance(db', "test-analysis") = {}
  <2>1. DropDispatch => /\ job'.pc = "add-dispatch"
                        /\ WithProvenance(db', "heuristic:synthesis") = {}
    BY <1>5 DEF DropDispatch, Inv, JobOK, Job
  <2>2. DropTests => job'.pc = "add-tests" /\ WithProvenance(db', "test-analysis") = {}
    BY <1>5 DEF DropTests, Inv, JobOK, Job
  <2> QED
    BY <1>9, <2>1, <2>2 DEF DerivedInv
<1>11. saved' = db' \/ saved' = saved
  BY EdgeStepTables, Committed
<1> QED
  BY <1>8, <1>10, <1>11 DEF DerivedInv

LEMMA DerivedInvariant == Spec => []DerivedInv
<1>1. Init => DerivedInv
  BY DEF Init, DerivedInv, Derived, EmptyStore, EmptyBag, SetToBag, Idle
<1> QED
  BY <1>1, DerivedStep, Invariance, PTL DEF Spec

\* A crash between the deletion and the insertion of the derived edges, a pass
\* that starts over, an exception: none leaves a second copy of a derived edge.
THEOREM DerivedOnce == Spec => []DerivedEdgesUnique
<1>1. DerivedInv => DerivedEdgesUnique
  BY DEF DerivedInv, Derived, Derivation, DerivedEdgesUnique
<1> QED
  BY <1>1, DerivedInvariant, PTL

-----------------------------------------------------------------------------
(* TESTS edges. *)

Uses == {"calls", "instantiates", "references"}

\* What backs a TESTS edge, apart from other derived edges.
Justified(d, e) ==
    /\ e.source \in d.nodes /\ e.target \in d.nodes
    /\ \E use \in DOMAIN d.edges : /\ use.source = e.source /\ use.target = e.target
                                  /\ use.kind \in Uses /\ use.prov \notin Derivation
    /\ \E imp \in DOMAIN d.edges : /\ imp.kind = "imports" /\ imp.prov \notin Derivation
                                  /\ imp.source.file = e.source.file
                                  /\ imp.target.file = e.target.file

Tested(d) == d.nodes \subseteq Symbols /\ \A e \in WithProvenance(d, "test-analysis") : Justified(d, e)

TestsInv == Tested(db) /\ Tested(saved)

LEMMA TestedGrows ==
    ASSUME NEW d, NEW d2, Tested(d), d2.nodes \subseteq Symbols, d.nodes \subseteq d2.nodes,
           DOMAIN d.edges \subseteq DOMAIN d2.edges,
           \A e \in WithProvenance(d2, "test-analysis") :
               e \in DOMAIN d.edges \/ Justified(d2, e)
    PROVE  Tested(d2)
<1> SUFFICES ASSUME NEW e \in WithProvenance(d2, "test-analysis"), e \in DOMAIN d.edges
             PROVE  Justified(d2, e)
  BY DEF Tested
<1>1. Justified(d, e)
  BY DEF Tested, WithProvenance
<1> QED
  BY <1>1 DEF Justified

LEMMA TestedDelete ==
    ASSUME NEW d, Tested(d), NEW fs \in SUBSET File
    PROVE  Tested(DeleteFiles(d, fs))
<1> DEFINE d2 == DeleteFiles(d, fs)
           gone == NodesOf(d, fs)
<1>1. /\ d2.nodes = d.nodes \ gone
      /\ DOMAIN d2.edges = {e \in DOMAIN d.edges : ~Touches(e, gone)}
  BY DEF DeleteFiles, Keep
<1> HIDE DEF d2
<1>2. ASSUME NEW e \in WithProvenance(d2, "test-analysis") PROVE Justified(d2, e)
  <2>1. /\ Justified(d, e) /\ e.source \notin gone /\ e.target \notin gone
    BY <1>1 DEF WithProvenance, Tested, Touches
  <2>2. e.source.file \notin fs /\ e.target.file \notin fs
    BY <2>1 DEF Justified, NodesOf
  <2>3. e.source \in d2.nodes /\ e.target \in d2.nodes
    BY <1>1, <2>1 DEF Justified
  <2>4. \E use \in DOMAIN d2.edges : /\ use.source = e.source /\ use.target = e.target
                                   /\ use.kind \in Uses /\ use.prov \notin Derivation
    BY <1>1, <2>1 DEF Justified, Touches
  <2>5. \E imp \in DOMAIN d2.edges : /\ imp.kind = "imports" /\ imp.prov \notin Derivation
                                   /\ imp.source.file = e.source.file
                                   /\ imp.target.file = e.target.file
    BY <1>1, <2>1, <2>2 DEF Justified, Touches, NodesOf
  <2> QED
    BY <2>3, <2>4, <2>5 DEF Justified
<1>3. d2.nodes \subseteq Symbols
  BY <1>1 DEF Tested
<1> QED
  BY <1>2, <1>3 DEF Tested, d2

\* Deleting derived edges takes no justification.
LEMMA TestedDrop ==
    ASSUME NEW d, IsStore(d), Tested(d), NEW p \in Derivation
    PROVE  Tested(DeleteByProvenance(d, p))
<1> DEFINE d2 == DeleteByProvenance(d, p)
<1>1. d2.nodes = d.nodes /\ DOMAIN d2.edges = {e \in DOMAIN d.edges : e.prov # p}
  BY DEF DeleteByProvenance, Keep, WithProvenance, IsStore
<1> HIDE DEF d2
<1>2. ASSUME NEW e \in WithProvenance(d2, "test-analysis") PROVE Justified(d2, e)
  <2>1. Justified(d, e)
    BY <1>1 DEF WithProvenance, Tested
  <2> QED
    BY <1>1, <2>1 DEF Justified
<1> QED
  BY <1>1, <1>2 DEF Tested, d2

\* Test analysis finds a use and an import.
LEMMA AnalyzedJustified ==
    ASSUME TestNamesInTests, NEW d, Tested(d), Derived(d), WithProvenance(d, "test-analysis") = {},
           NEW e \in AnalyzeTests(d)
    PROVE  Justified(d, e)
<1>1. PICK g \in DOMAIN d.edges : Exercises(d, g) /\ e = TestEdge(g.source, g.target)
  BY DEF AnalyzeTests
<1>2. /\ e.source = g.source /\ e.target = g.target
      /\ g.source \in TestNodes(d) /\ g.kind \in Uses /\ g.target \in d.nodes
      /\ g.target.file \in ImportedFiles(d, g.source.file)
  BY <1>1 DEF TestEdge, Exercises, Uses
<1>3. PICK i \in DOMAIN d.edges :
         /\ i.kind = "imports" /\ i.source \in NodesOf(d, {g.source.file})
         /\ i.target.file \notin TestFile /\ i.target.file = g.target.file
  BY <1>2 DEF ImportedFiles
<1>4. g.prov \notin Derivation
  <2>1. g.prov # "test-analysis"
    BY DEF WithProvenance
  <2>2. ASSUME g.prov = "heuristic:synthesis" PROVE FALSE
    <3>1. g.source.name = g.target.name /\ g.target.kind \in {"method", "function"}
      BY <2>2 DEF Derived, WellDerived
    <3>2. g.target \in Symbols /\ g.target.name \in TestName
      BY <1>2, <3>1 DEF Tested, TestNodes
    <3> QED
      BY <1>3, <3>1, <3>2 DEF TestNamesInTests
  <2> QED
    BY <2>1, <2>2 DEF Derivation
<1>5. i.prov \notin Derivation
  BY <1>3 DEF Derived, WellDerived, Derivation
<1> QED
  BY <1>2, <1>3, <1>4, <1>5 DEF Justified, TestNodes, NodesOf

\* Nothing but what was extracted is ever stored as a node.
LEMMA SymbolsKept ==
    ASSUME Inv, Agree, [Next]_vars, db.nodes \subseteq Symbols
    PROVE  db'.nodes \subseteq Symbols
<1>1. ASSUME NEW f, NEW c, <<f, c>> \in Source
      PROVE  FileRows(f, c).nodes \subseteq Symbols /\ BulkRows(f, c).nodes \subseteq Symbols
  <2>1. FileRows(f, c).nodes = Extract[<<f, c>>].nodes
    BY DEF FileRows, Prepare
  <2>2. BulkRows(f, c).nodes = Extract[<<f, c>>].nodes \cup Extract[<<f, c>>].routes
    BY DEF BulkRows, Prepare
  <2>3. Extract[<<f, c>>].nodes \cup Extract[<<f, c>>].routes \subseteq Symbols
    BY <1>1 DEF Symbols
  <2> QED
    BY <2>1, <2>2, <2>3
<1>2. CASE StoreBatch
  <2>1. job.pc = "store"
    BY <1>2, StoreBatchIs
  <2>2. PICK batch \in SUBSET job.todo : db' = Stored(batch)
    BY <1>2, StoreBatchIs
  <2> DEFINE rows(f) == BulkRows(f, job.parsed[f]).nodes
  <2>3. \A f \in batch : <<f, job.parsed[f]>> \in Source
    BY <2>1, BatchNodes
  <2>4. \A f \in batch : rows(f) \subseteq Symbols
    BY <1>1, <2>3
  <2>5. db'.nodes = db.nodes \cup UNION {rows(f) : f \in batch}
    BY <2>1, <2>2, BatchNodes
  <2> HIDE DEF rows
  <2> QED
    BY <2>4, <2>5
<1>3. CASE StoreNodes
  <2>1. <<job.cur, job.parsed[job.cur]>> \in Source
    BY <1>3, CurrentRows DEF StoreNodes, Storing
  <2>2. db'.nodes = db.nodes \cup Current.nodes
    BY <1>3 DEF StoreNodes, Commit, InsertNodes, Inv, Sound, IsStore
  <2> QED
    BY <1>1, <2>1, <2>2 DEF Current
<1>4. CASE StoreRecord
  BY <1>4 DEF StoreRecord, Commit, UpsertFile, Inv, Sound, IsStore
<1>5. CASE DeleteStale \/ \E f \in File : DropStale(f) \/ RemoveFile(f) \/ DeleteFile(f)
  <2>1. \A fs : DeleteFiles(db, fs).nodes \subseteq db.nodes
    BY DEF DeleteFiles
  <2> QED
    BY <1>5, <2>1 DEF DeleteStale, DropStale, RemoveFile, DeleteFile, Commit
<1>6. CASE ~NodeStep
  BY <1>6, NodesKept DEF SameNodes
<1> QED
  BY <1>2, <1>3, <1>4, <1>5, <1>6 DEF NodeStep

LEMMA TestsInvStep ==
    TestNamesInTests /\ Inv /\ Agree /\ DerivedInv /\ TestsInv /\ [Next]_vars => TestsInv'
<1> SUFFICES ASSUME TestNamesInTests, Inv, Agree, DerivedInv, TestsInv, [Next]_vars
             PROVE  TestsInv'
  OBVIOUS
<1>0. Sound(db) /\ IsStore(db) /\ Tested(db) /\ db.nodes \subseteq Symbols
  BY DEF Inv, Sound, TestsInv, Tested
<1>1. db'.nodes \subseteq Symbols
  BY <1>0, SymbolsKept
<1>2. ASSUME db'.edges = db.edges, db.nodes \subseteq db'.nodes PROVE Tested(db')
  BY <1>0, <1>1, <1>2, TestedGrows DEF WithProvenance
<1>3. ASSUME Reopen \/ Crash PROVE Tested(db')
  BY <1>3 DEF Reopen, Crash, Restart, TestsInv
<1>4. ASSUME NEW fs \in SUBSET File, db' = DeleteFiles(db, fs) PROVE Tested(db')
  BY <1>0, <1>4, TestedDelete
<1>5. ASSUME NEW es, Direct(es), db'.edges = Add(db.edges, es), db.nodes \subseteq db'.nodes
      PROVE  Tested(db')
  <2>1. DOMAIN db'.edges = DOMAIN db.edges \cup DOMAIN es
    BY <1>5 DEF Add
  <2>2. \A e \in WithProvenance(db', "test-analysis") : e \in DOMAIN db.edges
    BY <1>5, <2>1 DEF WithProvenance, Direct
  <2> QED
    BY <1>0, <1>1, <1>5, <2>1, <2>2, TestedGrows
<1>6. ASSUME DropDispatch \/ DropTests PROVE Tested(db')
  <2>1. \E p \in Derivation : DropDerived(p)
    BY <1>6 DEF DropDispatch, DropTests, Derivation
  <2>2. PICK p \in Derivation : db' = db \/ db' = DeleteByProvenance(db, p)
    BY <2>1 DEF DropDerived, Commit
  <2> QED
    BY <1>0, <2>2, TestedDrop
<1>7. ASSUME NEW es \in SUBSET Edge, AddDerived(es),
             \A e \in es : e.prov = "test-analysis" => Justified(db, e)
      PROVE  Tested(db')
  <2>1. CASE db' = db
    BY <1>0, <2>1
  <2>2. CASE db' = InsertEdges(db, SetToBag(es))
    <3>1. db'.nodes = db.nodes /\ DOMAIN db'.edges = DOMAIN db.edges \cup es
      BY <1>0, <2>2, SetRows DEF InsertEdges, Add, IsStore
    <3>2. ASSUME NEW e, Justified(db, e) PROVE Justified(db', e)
      BY <3>1, <3>2 DEF Justified
    <3>3. \A e \in WithProvenance(db', "test-analysis") : e \in DOMAIN db.edges \/ Justified(db', e)
      BY <1>7, <3>1, <3>2 DEF WithProvenance
    <3> QED
      BY <1>0, <1>1, <3>1, <3>3, TestedGrows
  <2> QED
    BY <1>7, <2>1, <2>2 DEF AddDerived, Commit
<1>8. ASSUME AddDispatch PROVE Tested(db')
  <2>1. Synthesize(db, ctx.nodes) \in SUBSET Edge
    BY <1>0, SynthesizeType DEF Inv
  <2>2. \A e \in Synthesize(db, ctx.nodes) : e.prov # "test-analysis"
    BY Synthesized
  <2> QED
    BY <1>7, <1>8, <2>1, <2>2 DEF AddDispatch
<1>9. ASSUME AddTests PROVE Tested(db')
  <2>1. AnalyzeTests(db) \in SUBSET Edge
    BY <1>0, AnalyzeTestsType
  <2>2. \A e \in AnalyzeTests(db) : Justified(db, e)
    BY <1>0, <1>9, AnalyzedJustified DEF DerivedInv, AddTests
  <2> QED
    BY <1>7, <1>9, <2>1, <2>2 DEF AddTests
<1>10. Tested(db')
  BY <1>2, <1>3, <1>4, <1>5, <1>6, <1>8, <1>9, EdgeMoves
<1>11. saved' = db' \/ saved' = saved
  BY EdgeStepTables, Committed
<1> QED
  BY <1>10, <1>11 DEF TestsInv

\* A TESTS edge is backed by a use and by an import in every committed state,
\* whatever was replaced or deleted since the analysis, if no production symbol
\* bears the name of a test.
THEOREM TestsBacked == TestNamesInTests => (Spec => []TestsJustified)
<1> SUFFICES ASSUME TestNamesInTests PROVE Spec => []TestsJustified
  OBVIOUS
<1>1. Init => TestsInv
  BY DEF Init, TestsInv, Tested, EmptyStore, EmptyBag, SetToBag, WithProvenance
<1>2. TestsInv => TestsJustified
  BY DEF TestsInv, Tested, Justified, Uses, TestsJustified
<1>3. Inv /\ ExactInv /\ DerivedInv /\ TestsInv /\ [Next]_vars => TestsInv'
  BY TestsInvStep DEF ExactInv
<1> QED
  BY <1>1, <1>2, <1>3, Invariance, ExactInvariant, DerivedInvariant, PTL DEF Spec

-----------------------------------------------------------------------------
(* References. *)

\* resolve_and_persist loads all the references there are.
WithinLimit == BagCardinality(db.refs) <= RefLimit

\* What became of a reference when the pass has linked.
Served(d, seen, r) == HasEdge(d, r) \/ Targets(seen, r) = {}

ServedInv == job.pc = "clear" => \A r \in DOMAIN db.refs : Served(db, ctx.nodes, r)

\* The target of a reference bears its name.
LEMMA TargetNamed ==
    ASSUME NEW seen, NEW r, NEW n \in Targets(seen, r)
    PROVE  n.name = r.name
BY DEF Targets, FirstNonEmpty, ImportNodes, Named

\* Every reference that has a target gets an edge.
LEMMA LinkServes ==
    ASSUME Inv, WithinLimit, Link
    PROVE  \A r \in DOMAIN db'.refs : Served(db', ctx'.nodes, r)
<1>1. ctx' = Warmed /\ IsStore(db)
  BY DEF Link, Inv, Sound
<1>2. Limited(db.refs, RefLimit) = {db.refs}
  BY DEF Limited, WithinLimit
<1>3. PICK pick \in Resolutions(Warmed.nodes, DOMAIN db.refs) :
         LET new == CreateEdges(db.refs, pick)
         IN  IF new # EmptyBag THEN db' = InsertEdges(db, new) ELSE db' = db
  <2>1. PICK refs \in Limited(db.refs, RefLimit) :
           \E pick \in Resolutions(Warmed.nodes, DOMAIN refs) :
             LET new == CreateEdges(refs, pick)
             IN  IF new # EmptyBag THEN db' = InsertEdges(db, new) ELSE db' = db
    BY DEF Link, Commit
  <2> QED
    BY <1>2, <2>1
<1> DEFINE new == CreateEdges(db.refs, pick)
<1>4. /\ db'.refs = db.refs
      /\ DOMAIN db.edges \cup DOMAIN new \subseteq DOMAIN db'.edges
  <2>1. new = EmptyBag => DOMAIN new = {}
    BY DEF EmptyBag, SetToBag
  <2> QED
    BY <1>1, <1>3, <2>1 DEF InsertEdges, Add, IsStore
<1> SUFFICES ASSUME NEW r \in DOMAIN db.refs, Targets(Warmed.nodes, r) # {}
             PROVE  HasEdge(db', r)
  BY <1>1, <1>4 DEF Served
<1>5. r \in DOMAIN pick /\ pick[r] \in Targets(Warmed.nodes, r)
  BY <1>3 DEF Resolutions, Resolvable
<1>6. CreateEdge(r, pick[r]) \in DOMAIN new
  BY <1>5 DEF CreateEdges
<1>7. /\ CreateEdge(r, pick[r]).source = r.from
      /\ CreateEdge(r, pick[r]).target.name = r.name
      /\ CreateEdge(r, pick[r]).at = r.at
      /\ CreateEdge(r, pick[r]).prov = "resolution"
  BY <1>5, TargetNamed DEF CreateEdge
<1> QED
  BY <1>4, <1>6, <1>7 DEF HasEdge

LEMMA ServedStep == Inv /\ WithinLimit /\ ServedInv /\ [Next]_vars => ServedInv'
<1> SUFFICES ASSUME Inv, WithinLimit, ServedInv, [Next]_vars, job'.pc = "clear"
             PROVE  \A r \in DOMAIN db'.refs : Served(db', ctx'.nodes, r)
  BY DEF ServedInv
<1>1. CASE Link
  BY <1>1, LinkServes
<1>2. CASE ~Link
  <2>1. UNCHANGED <<job, ctx>>
    <3>1. ASSUME StoreBatch PROVE job'.pc = "store"
      BY <3>1, StoreBatchIs DEF Inv, JobOK, Job
    <3>2. ASSUME \/ \E f \in File : DropStale(f) \/ ReadFile(f) \/ SkipFile(f)
                 \/ StoreNodes \/ StoreEdges \/ StoreRefs \/ DeleteStale \/ DropDispatch \/ DropTests
          PROVE  job'.pc # "clear"
      BY <3>2 DEF DropStale, ReadFile, SkipFile, StoreNodes, StoreEdges, StoreRefs, DeleteStale,
                  DropDispatch, DropTests, Inv, JobOK, Job
    <3> QED
      BY <1>2, <3>1, <3>2, JobMoves DEF Idle
  <2>2. job.pc = "clear"
    BY <2>1
  <2>3. UNCHANGED db
    <3>1. ~NodeStep
      BY <2>2 DEF NodeStep, DeleteStale, StoreBatch, StoreNodes, StoreRecord, DropStale, RemoveFile,
                  DeleteFile
    <3>2. ~EdgeStep
      BY <2>2 DEF EdgeStep, StoreEdges, Link, LinkRaises, DropDispatch, AddDispatch, DropTests, AddTests
    <3>3. ~StoreRefs /\ ~ClearRefs /\ ~Reopen /\ ~Crash
      BY <2>1, <2>2 DEF StoreRefs, ClearRefs, Reopen, Crash, Restart, Idle, Inv, JobOK, Job
    <3>4. JobOnly => UNCHANGED db
      BY DEF JobOnly, ReadFile, SkipFile, FinishStore, FinishFiles, NothingToResolve, NoTests,
             StartIndexAll, StartIndexFile, StartApplyDelta
    <3> QED
      BY <3>1, <3>2, <3>3, <3>4, StepKinds
  <2> QED
    BY <2>1, <2>2, <2>3 DEF ServedInv
<1> QED
  BY <1>1, <1>2

\* Only the deletion of its file and delete_all_unresolved_refs take a reference.
LEMMA RefsMove ==
    ASSUME Inv, Agree, [Next]_vars
    PROVE  \/ DOMAIN saved.refs \subseteq DOMAIN saved'.refs
           \/ \E fs \in SUBSET File : saved' = DeleteFiles(db, fs)
           \/ ClearRefs
<1>0. IsStore(db) /\ saved.refs = db.refs
  BY DEF Inv, Sound, Agree
<1>1. CASE DeleteStale
  <2>1. Stale \in SUBSET File
    BY DEF Stale, ToStore
  <2> QED
    BY <1>1, <2>1 DEF DeleteStale, Commit
<1>2. CASE StoreBatch
  <2>1. PICK batch \in SUBSET job.todo : saved' = Stored(batch)
    BY <1>2, StoreBatchIs
  <2>2. saved'.refs = Add(db.refs, SetToBag(UNION {BulkRows(f, job.parsed[f]).refs : f \in batch}))
    BY <2>1 DEF Stored, BulkInsert
  <2> QED
    BY <1>0, <2>2 DEF Add
<1>3. CASE StoreNodes \/ StoreRecord
  BY <1>0, <1>3 DEF StoreNodes, StoreRecord, Commit, InsertNodes, UpsertFile, IsStore
<1>4. ASSUME NEW f \in File, DropStale(f) \/ RemoveFile(f) \/ DeleteFile(f)
      PROVE  saved' = saved \/ saved' = DeleteFiles(db, {f})
  BY <1>4 DEF DropStale, RemoveFile, DeleteFile, Commit
<1>5. CASE EdgeStep
  BY <1>0, <1>5, EdgeStepTables
<1>6. CASE StoreRefs
  BY <1>0, <1>6, SMTT(30) DEF StoreRefs, Commit, InsertUnresolvedRefs, Add, IsStore
<1>7. CASE JobOnly
  BY <1>7 DEF JobOnly, ReadFile, SkipFile, FinishStore, FinishFiles, NothingToResolve, NoTests,
              StartIndexAll, StartIndexFile, StartApplyDelta
<1>8. CASE Reopen \/ Crash
  BY <1>8 DEF Reopen, Crash, Restart
<1>9. CASE NodeStep
  BY <1>1, <1>2, <1>3, <1>4, <1>9 DEF NodeStep
<1> QED
  BY <1>5, <1>6, <1>7, <1>8, <1>9, StepKinds

\* While a pass loads all the references there are, none is forgotten whose edge
\* is not committed: not when the process dies in the midst of the pass, not when
\* an insert raises and leaves its transaction open.
THEOREM ReferencesKept == Spec /\ []WithinLimit => NoReferenceDropped
<1>1. Init => ServedInv
  BY DEF Init, ServedInv, Idle
<1>2. ASSUME Inv, Agree, ServedInv, [Next]_vars
      PROVE  \A r \in DOMAIN saved.refs :
                Dropped(r) => HasEdge(saved', r) \/ Targets(ctx.nodes, r) = {}
  <2> SUFFICES ASSUME NEW r \in DOMAIN saved.refs, r \notin DOMAIN saved'.refs,
                      r.from \in saved'.nodes
               PROVE  HasEdge(saved', r) \/ Targets(ctx.nodes, r) = {}
    BY DEF Dropped
  <2>1. r \in DOMAIN db.refs /\ IsStore(db)
    BY <1>2 DEF Agree, Inv, Sound
  <2>2. ASSUME NEW fs \in SUBSET File, saved' = DeleteFiles(db, fs) PROVE FALSE
    <3>1. /\ saved'.nodes = db.nodes \ NodesOf(db, fs)
          /\ DOMAIN saved'.refs = {s \in DOMAIN db.refs : s.from \notin NodesOf(db, fs)}
      BY <2>2 DEF DeleteFiles, Keep
    <3> QED
      BY <2>1, <3>1
  <2>3. CASE ClearRefs
    <3>1. HasEdge(db, r) \/ Targets(ctx.nodes, r) = {}
      BY <1>2, <2>1, <2>3 DEF ClearRefs, ServedInv, Served
    <3>2. saved'.edges = db.edges
      BY <2>1, <2>3 DEF ClearRefs, Commit, DeleteAllUnresolvedRefs, IsStore
    <3> QED
      BY <3>1, <3>2 DEF HasEdge
  <2> QED
    BY <1>2, <2>2, <2>3, RefsMove
<1>3. Inv /\ ExactInv /\ ServedInv /\ [Next]_vars =>
        [\A r \in DOMAIN saved.refs :
           Dropped(r) => HasEdge(saved', r) \/ Targets(ctx.nodes, r) = {}]_vars
  BY <1>2 DEF ExactInv
<1> QED
  BY <1>1, <1>3, ServedStep, Invariance, ExactInvariant, PTL DEF Spec, NoReferenceDropped
=============================================================================
