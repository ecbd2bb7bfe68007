------------------------------ MODULE MCExplore ------------------------------
(***************************************************************************)
(* Small projects for TLC: call graphs among four symbols, and pairs of    *)
(* files in every layout that the engine treats in its own way.            *)
(***************************************************************************)
EXTENDS ExploreProps

Sym(id, file, kind, first, last) ==
    [id |-> id, name |-> id, file |-> file, kind |-> kind, first |-> first, last |-> last]
Use(source, target, line, kind) == [source |-> source, target |-> target, line |-> line, kind |-> kind]

(* Call graphs *)

Pairs == {<<"a", "b">>, <<"b", "c">>, <<"c", "d">>, <<"a", "c">>, <<"b", "d">>, <<"d", "b">>, <<"c", "a">>}
SymbolsOf == <<Sym("a", "f", "callable", 1, 1), Sym("b", "f", "callable", 2, 2),
               Sym("c", "f", "callable", 3, 3), Sym("d", "f", "callable", 4, 4)>>

CallGraph(pairs, seen) ==
    LET s == SetToSeq(pairs)
    IN  [nodes |-> SymbolsOf, edges |-> [i \in DOMAIN s |-> Use(s[i][1], s[i][2], 1, "calls")],
         roots |-> {}, named |-> seen, importance |-> [id \in {"a", "b", "c", "d"} |-> 1],
         rwr |-> [f \in {"f"} |-> 0], lines |-> [f \in {"f"} |-> 4], testQuery |-> FALSE]

CallGraphs ==
    {CallGraph(pairs, seen) : pairs \in SUBSET Pairs,
        seen \in {{"a"}, {"a", "d"}, {"a", "b", "c"}, {"a", "c", "d"}, {"a", "b", "c", "d"}}}

(* Layouts *)

Layouts(f, x, y, z, w) ==
    [small |-> [lines |-> 4, nodes |-> <<Sym(x, f, "callable", 1, 3), Sym(y, f, "import", 1, 1)>>],
     imports |-> [lines |-> 4, nodes |-> <<Sym(x, f, "import", 1, 1)>>],
     spread |-> [lines |-> 12, nodes |-> <<Sym(x, f, "callable", 1, 2), Sym(y, f, "callable", 5, 6),
                                           Sym(z, f, "other", 10, 11)>>],
     near |-> [lines |-> 9, nodes |-> <<Sym(x, f, "callable", 1, 2), Sym(y, f, "callable", 4, 5)>>],
     class |-> [lines |-> 12, nodes |-> <<Sym(x, f, "container", 1, 11), Sym(y, f, "callable", 2, 3),
                                          Sym(z, f, "callable", 8, 9)>>],
     file |-> [lines |-> 14, nodes |-> <<Sym(w, f, "container", 1, 14), Sym(x, f, "callable", 1, 1),
                                         Sym(y, f, "callable", 4, 4), Sym(z, f, "other", 13, 13)>>],
     thing |-> [lines |-> 14, nodes |-> <<Sym(w, f, "container", 1, 14), Sym(x, f, "callable", 1, 5),
                                          Sym(y, f, "callable", 6, 10), Sym(z, f, "container", 11, 14)>>],
     hull |-> [lines |-> 12, nodes |-> <<Sym(x, f, "container", 1, 11)>>],
     god |-> [lines |-> 12, nodes |-> <<Sym(x, f, "callable", 1, 4), Sym(y, f, "callable", 5, 8),
                                        Sym(z, f, "callable", 9, 12)>>],
     long |-> [lines |-> 14, nodes |-> <<Sym(x, f, "callable", 1, 12)>>],
     stale |-> [lines |-> 7, nodes |-> <<Sym(x, f, "callable", 9, 10)>>]]

FLayout == Layouts("f", "f1", "f2", "f3", "f4")
GLayout == Layouts("g", "g1", "g2", "g3", "g4")
TLayout == Layouts("t", "t1", "t2", "t3", "t4")

FileIds == {"f1", "f2", "f3", "f4", "g1", "g2", "g3", "g4", "t1", "t2", "t3", "t4"}

Project(l, m, k, roots, seen, rwr, testQuery) ==
    LET nodes == FLayout[l].nodes \o GLayout[m].nodes \o TLayout[k].nodes
        ids == {nodes[i].id : i \in DOMAIN nodes}
    IN  [nodes |-> nodes,
         edges |-> <<Use("f1", "g1", 2, "calls"), Use("g1", "f2", 1, "calls"),
                   Use("f2", "f1", 9, "references"), Use("f1", "f2", 2, "contains")>>,
         roots |-> roots, named |-> seen \cap ids,
         importance |-> [id \in FileIds |-> IF id \in seen THEN 6 ELSE IF id \in roots THEN 3 ELSE 1],
         rwr |-> rwr,
         lines |-> [f \in {"f", "g", "t"} |-> CASE f = "f" -> FLayout[l].lines [] f = "g" -> GLayout[m].lines
                                                [] f = "t" -> TLayout[k].lines],
         testQuery |-> testQuery]

Scores == {[f |-> 90, g |-> 9, t |-> 1], [f |-> 0, g |-> 0, t |-> 0], [f |-> 2, g |-> 49, t |-> 49]}

Files ==
    {Project(l, m, k, roots, seen, rwr, FALSE) :
        l \in DOMAIN FLayout, m \in {"small", "spread", "god", "long", "hull", "file"}, k \in {"small", "near"},
        roots \in {{}, {"g1"}, {"f1", "gone"}}, seen \in {{}, {"f1"}, {"f1", "f2", "g1"}}, rwr \in Scores}
    \cup {Project("small", "small", "god", {}, {}, rwr, query) : rwr \in Scores, query \in BOOLEAN}
    \cup {Project("imports", "imports", "imports", {}, {}, [f |-> 0, g |-> 0, t |-> 0], FALSE)}

\* The path of g is long, and longer than the engine reckons with.
ItemOf(f) == IF f = "g" THEN 3 ELSE 1

AllProjects == CallGraphs \cup Files

ASSUME MCExploreAssumption == FewSymbols /\ RoomForNote
==============================================================================
