----------------------------- MODULE MCTraversal -----------------------------
(***************************************************************************)
(* Small graphs and queries for Traversal: every call graph of a container *)
(* and two functions, and graphs of four nodes with a diamond, a cycle,    *)
(* parallel edges and a missing node.                                      *)
(***************************************************************************)
EXTENDS Traversal

MCId == {"a", "b", "c", "d", "e"}

E(s, t, k) == [source |-> s, target |-> t, kind |-> k]

Over(pairs, kind) == {{E(p[1], p[2], kind) : p \in S} : S \in SUBSET pairs}

Three == {"a", "b", "c"}
Pairs == {p \in Three \X Three : p[1] # p[2]}

\* a is a container of b, and b or nothing of c.
ContainerGraphs ==
    {[nodes |-> Three, edges |-> x \cup y] :
        x \in Over(Pairs, "calls"),
        y \in {{}, {E("a", "b", "contains")}, {E("a", "b", "contains"), E("b", "c", "contains")}}}

Four == {"a", "b", "c", "d"}

Diamond == {<<"a", "b">>, <<"a", "c">>, <<"b", "c">>, <<"b", "d">>, <<"c", "d">>, <<"d", "a">>}

DiamondGraphs ==
    {[nodes |-> n, edges |-> x \cup {E("a", "c", "references")}] :
        x \in Over(Diamond, "calls"), n \in {Four, Four \ {"c"}}}

TypeGraphs ==
    {[nodes |-> Four, edges |-> x] :
        x \in Over({<<"a", "b">>, <<"a", "c">>, <<"b", "d">>, <<"c", "d">>}, "extends")}

TestGraphs ==
    {[nodes |-> Four, edges |-> x] :
        x \in Over({<<"b", "a">>, <<"c", "a">>, <<"c", "b">>}, "tests")}

MCGraphs == ContainerGraphs \cup DiamondGraphs \cup TypeGraphs \cup TestGraphs

Q(op, depth) ==
    [op |-> op, start |-> "a", to |-> "d", max_depth |-> depth, limit |-> 9,
     kinds |-> EdgeKind, direction |-> "outgoing", accept |-> MCId, include_start |-> TRUE]

MCQueries ==
    {Q(op, depth) : op \in {"callers", "impact"}, depth \in {0, 1, 2, 5}}
      \cup {Q(op, depth) : op \in {"callees", "testers", "tested", "call_graph"}, depth \in {1, 2, 5}}
      \cup {Q(op, depth) : op \in {"bfs", "dfs"}, depth \in {1, 2, 5}}
      \cup {[Q(op, 5) EXCEPT !.direction = "both", !.limit = 2] : op \in {"bfs", "dfs"}}
      \cup {[Q(op, 5) EXCEPT !.direction = "incoming", !.accept = {"b", "d"},
                             !.include_start = FALSE] : op \in {"bfs", "dfs"}}
      \cup {Q("path", 0), [Q("path", 0) EXCEPT !.to = "c"], [Q("path", 0) EXCEPT !.to = "a"]}
      \cup {Q("hierarchy", 0), [Q("hierarchy", 0) EXCEPT !.start = "b"]}
      \cup {[Q("ancestors", 0) EXCEPT !.start = n] : n \in {"b", "c"}}

=============================================================================
