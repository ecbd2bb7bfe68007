----------------------------- MODULE Resolution -----------------------------
(***************************************************************************)
(* The three in-memory computations of the indexing pipeline, as           *)
(* operators: matching references to nodes (resolution/resolver.py with    *)
(* name_matcher.py and import_resolver.py), interface-dispatch synthesis   *)
(* (resolution/synthesizer.py) and test analysis (test_analysis/).         *)
(*                                                                         *)
(* "seen" is the node index of ResolutionContext, which is not always the  *)
(* "nodes" table.  One language is modelled, so the language bonus of the  *)
(* matcher is the same for all candidates.  What is left of the ranking    *)
(* are its tiers; a tie inside a tier is broken arbitrarily.               *)
(***************************************************************************)
EXTENDS GraphStore, Relation

CONSTANTS
    Builtin,    \* names resolution never looks up: built-in, stdlib, 1 letter
    TestFile,   \* files is_test_file() accepts
    TestName    \* names that make a function of a test file a test

ASSUME ResolutionAssumption == Builtin \subseteq Name /\ TestFile \subseteq File

-----------------------------------------------------------------------------
(* Matching. *)

Named(seen, r) == {n \in seen : n.name = r.name}

\* An IMPORTS reference goes to the import statement of its own file first.
ImportNodes(seen, r) ==
    IF r.kind = "imports"
    THEN {n \in Named(seen, r) : n.kind = "import" /\ n.file = r.from.file}
    ELSE {}

FirstNonEmpty(A, B) == IF A # {} THEN A ELSE B

\* resolve_one: the nodes the reference may be resolved to.
Targets(seen, r) ==
    LET named    == Named(seen, r)
        imported == {n \in named : n.file = r.home}
        local    == {n \in named : n.file = r.from.file}
        matched  == IF r.name \in Builtin
                    THEN {}
                    ELSE FirstNonEmpty(imported, FirstNonEmpty(local, named))
    IN  FirstNonEmpty(ImportNodes(seen, r), matched)

Resolvable(seen, rs) == {r \in rs : Targets(seen, r) # {}}

\* resolve_all: every choice of a target for every resolvable reference.
Resolutions(seen, rs) ==
    LET R == Resolvable(seen, rs)
    IN  {pick \in [R -> UNION {Targets(seen, r) : r \in R}] :
            \A r \in R : pick[r] \in Targets(seen, r)}

PromoteEdgeKind(kind, target) ==
    CASE kind = "calls" /\ target.kind = "class" -> "instantiates"
      [] kind = "extends" /\ target.kind = "protocol" -> "implements"
      [] OTHER -> kind

CreateEdge(r, target) ==
    [source |-> r.from, target |-> target,
     kind |-> PromoteEdgeKind(r.kind, target),
     at |-> r.at, prov |-> "resolution"]

\* create_edges: one row of "edges" for each row of refs that was resolved.
CreateEdges(refs, pick) ==
    LET EdgeOf(r) == CreateEdge(r, pick[r])
        Rows(e)   == {row \in (DOMAIN pick) \X (1 .. MaxCopies) :
                         EdgeOf(row[1]) = e /\ row[2] <= refs[row[1]]}
    IN  [e \in {EdgeOf(r) : r \in DOMAIN pick} |-> Saturate(Cardinality(Rows(e)))]

-----------------------------------------------------------------------------
(* Interface-dispatch synthesis. *)

Derivations(d) == {e \in DOMAIN d.edges : e.kind \in {"extends", "implements"}}

\* _all_bases: every class reached from c over direct bases.
AllBases(d) ==
    LET D == Derivations(d)
        C == {e.source : e \in D} \cup {e.target : e \in D}
    IN  TransitiveClosure([x, y \in C |-> \E e \in D : e.source = x /\ e.target = y], C)

Methods(d, seen, c) ==
    {e.target : e \in {g \in DOMAIN d.edges :
        /\ g.kind = "contains"
        /\ g.source = c
        /\ g.target \in seen
        /\ g.target.kind \in {"method", "function"}}}

SynthEdge(m, i) == [source |-> m, target |-> i, kind |-> "calls", at |-> 0,
                    prov |-> "heuristic:synthesis"]

\* synthesize_interface_dispatch: from each method of a base type to the method
\* of the same name in each concrete class below it.
Synthesize(d, seen) ==
    LET bases    == AllBases(d)
        classes  == {e.source : e \in Derivations(d)}
        parents  == {e.target : e \in Derivations(d)}
        derived  == {p \in classes \X parents :
                        /\ bases[p]
                        /\ p[1] \in seen /\ p[1].kind = "class"
                        /\ p[2] \in seen /\ p[2].kind \in {"class", "protocol"}}
        dispatch == UNION {Methods(d, seen, p[2]) \X Methods(d, seen, p[1]) : p \in derived}
    IN  {SynthEdge(m[1], m[2]) : m \in {q \in dispatch : q[1].name = q[2].name}}

-----------------------------------------------------------------------------
(* Test analysis. *)

TestNodes(d) ==
    {n \in d.nodes : /\ n.kind \in {"function", "method"}
                     /\ n.file \in TestFile
                     /\ n.name \in TestName}

\* _build_import_index: the production files a test file imports from. (The
\* analysis loads the nodes with a limit of its own, taken to cover them all.)
ImportedFiles(d, f) ==
    {e.target.file : e \in {g \in DOMAIN d.edges :
        /\ g.kind = "imports"
        /\ g.source \in NodesOf(d, {f})
        /\ g.target \in d.nodes
        /\ g.target.file \notin TestFile}}

\* Mutant: whatever a test calls counts as tested.
BugExercisesAnything(d, e) ==
    /\ e.source \in TestNodes(d)
    /\ e.kind \in {"calls", "instantiates", "references"}
    /\ e.target \in d.nodes
    /\ e.target.file \notin TestFile

Exercises(d, e) ==
    /\ e.source \in TestNodes(d)
    /\ e.kind \in {"calls", "instantiates", "references"}
    /\ e.target \in d.nodes
    /\ e.target.file \in ImportedFiles(d, e.source.file)

TestEdge(t, p) == [source |-> t, target |-> p, kind |-> "tests", at |-> 0,
                   prov |-> "test-analysis"]

AnalyzeTests(d) ==
    {TestEdge(e.source, e.target) : e \in {g \in DOMAIN d.edges : Exercises(d, g)}}
=============================================================================
