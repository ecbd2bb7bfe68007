----------------------------- MODULE MCIndexing -----------------------------
(***************************************************************************)
(* A project of two files for Indexing: lib.py, whose function helper      *)
(* moves to another line (and so to another node id) from one version to   *)
(* the next, and test_lib.py, which imports and calls it.                  *)
(***************************************************************************)
EXTENDS IndexingClaims

N(f, k, n, l) == [file |-> f, kind |-> k, name |-> n, line |-> l]

Contains(p, c) == [source |-> p, target |-> c, kind |-> "contains", at |-> 0,
                   prov |-> "extraction"]

Mention(n, name, k, l, h) == [from |-> n, name |-> name, kind |-> k, at |-> l, home |-> h]

MCFile == {"lib", "tst"}
MCVersion == {"lib1", "lib2", "torn", "tst1", "tst2", "huge"}
MCName == {"lib", "tst", "helper", "test_it", "len", "GET /"}

LibFile == N("lib", "file", "lib", 1)
Helper(l) == N("lib", "function", "helper", l)
Route == N("lib", "route", "GET /", 1)

Lib(status, l) ==
    [status |-> status, nodes |-> {LibFile, Helper(l)},
     edges |-> {Contains(LibFile, Helper(l))}, refs |-> {},
     routes |-> {}, routeRefs |-> {}]

\* A version with a web route whose handler is helper, found only by index_all.
Routed(x, l) ==
    [x EXCEPT !.routes = {Route},
              !.routeRefs = {Mention(Route, "helper", "references", l, NoFile)}]

TstFile == N("tst", "file", "tst", 1)
ImportLib == N("tst", "import", "lib", 1)
TestIt(l) == N("tst", "function", "test_it", l)

\* test_it calls helper and a built-in; "imports" are the names it imports.
Tst(l, imports) ==
    [status |-> "ok", nodes |-> {TstFile, ImportLib, TestIt(l)},
     edges |-> {Contains(TstFile, ImportLib), Contains(TstFile, TestIt(l))},
     refs |-> {Mention(TstFile, n, "imports", 1, "lib") : n \in imports} \cup
              {Mention(TestIt(l), "helper", "calls", l, NoFile),
               Mention(TestIt(l), "len", "calls", l, NoFile)},
     routes |-> {}, routeRefs |-> {}]

Nothing(status) == [status |-> status, nodes |-> {}, edges |-> {}, refs |-> {},
                    routes |-> {}, routeRefs |-> {}]

Versions ==
    ("lib1" :> Lib("ok", 2)) @@ ("lib2" :> Routed(Lib("ok", 5), 5)) @@ ("torn" :> Lib("partial", 7))
      @@ ("tst1" :> Tst(3, {"lib", "helper"}))
      @@ ("tst2" :> Tst(8, {"lib"})) @@ ("huge" :> Nothing("oversize"))

SourceOf(lib, tst) == ({"lib"} \X lib) \cup ({"tst"} \X tst)

TwoVersions == SourceOf({"lib1", "lib2"}, {"tst1"})
TwoByTwo == SourceOf({"lib1", "lib2"}, {"tst1", "tst2"})
WithErrors == SourceOf({"lib1", "torn"}, {"tst1", "huge"})

ExtractTwoVersions == [s \in TwoVersions |-> Versions[s[2]]]
ExtractTwoByTwo == [s \in TwoByTwo |-> Versions[s[2]]]
ExtractWithErrors == [s \in WithErrors |-> Versions[s[2]]]

\* apply_delta with one file that changed or was removed, or with all of them
\* changed.
MCDeltas == {<<{f}, {}>> : f \in MCFile} \cup {<<{}, {f}>> : f \in MCFile}
              \cup {<<MCFile, {}>>}
=============================================================================
