----------------------------- MODULE MCDispatch -----------------------------
(***************************************************************************)
(* A class hierarchy over three files for Indexing: class A with method m  *)
(* in base.py, class B(A) without methods in mid.py, and test_leaf.py with *)
(* a test double, class C(B) that overrides m, and a test that makes an A  *)
(* and a B, of which it imports B alone.                                   *)
(***************************************************************************)
EXTENDS IndexingClaims

N(f, k, n, l) == [file |-> f, kind |-> k, name |-> n, line |-> l]

Contains(p, c) == [source |-> p, target |-> c, kind |-> "contains", at |-> 0,
                   prov |-> "extraction"]

Class(f, name) == N(f, "class", name, 1)
Method(f) == N(f, "method", "m", 2)

Mention(n, name, k, h) == [from |-> n, name |-> name, kind |-> k, at |-> 1, home |-> h]

\* A module with one class, its base class if it has one, and its methods.
Module(f, name, base, methods) ==
    LET file == N(f, "file", f, 1)
    IN  [status |-> "ok",
         nodes |-> {file, Class(f, name)} \cup methods,
         edges |-> {Contains(file, Class(f, name))}
                     \cup {Contains(Class(f, name), m) : m \in methods},
         refs |-> {Mention(Class(f, name), b, "extends", NoFile) : b \in base},
         routes |-> {}, routeRefs |-> {}]

LeafFile == N("leaf", "file", "leaf", 1)
TestIt == N("leaf", "function", "test_it", 4)

\* The test is one more function of the module.
WithTest(x) ==
    [x EXCEPT !.nodes = @ \cup {TestIt},
              !.edges = @ \cup {Contains(LeafFile, TestIt)},
              !.refs = @ \cup {Mention(LeafFile, "B", "imports", "mid"),
                               Mention(TestIt, "A", "calls", NoFile),
                               Mention(TestIt, "B", "calls", "mid")}]

MCFile == {"base", "mid", "leaf"}
MCVersion == {"v"}
MCName == {"base", "mid", "leaf", "A", "B", "C", "m", "test_it"}

MCSource == MCFile \X MCVersion

MCExtract ==
    [s \in MCSource |->
        CASE s[1] = "base" -> Module("base", "A", {}, {Method("base")})
          [] s[1] = "mid"  -> Module("mid", "B", {"A"}, {})
          [] s[1] = "leaf" -> WithTest(Module("leaf", "C", {"B"}, {Method("leaf")}))]

\* apply_delta with one file that changed or was removed, or with all of them
\* changed.
MCDeltas == {<<{f}, {}>> : f \in MCFile} \cup {<<{}, {f}>> : f \in MCFile}
              \cup {<<MCFile, {}>>}

ASSUME MCDispatchAssumption == TestNamesInTests
=============================================================================
