------------------------------ MODULE Traversal ------------------------------
(***************************************************************************)
(* The graph queries of one handle, one after another, and what their      *)
(* answers are.                                                            *)
(***************************************************************************)
EXTENDS BreadthFirst, DepthFirst

Ask == \E q \in Queries :
    AskUnknown(q) \/ StartBreadthFirst(q) \/ StartDepthFirst(q) \/ StartClimb(q)

Next == Ask \/ BreadthFirstStep \/ DepthFirstStep \/ Return

Spec == Init /\ [][Next]_wvars

FairSpec == Spec /\ WF_wvars(BreadthFirstStep \/ DepthFirstStep \/ Return)

-----------------------------------------------------------------------------
(* The neighbourhood of the start node, by definition. *)

\* The recursive functions whose results the answer is said to hold.
Rules(q) ==
    CASE q.op = "call_graph" -> {"callers", "callees"}
      [] q.op = "hierarchy"  -> {"type_ancestors", "type_descendants"}
      [] q.op = "bfs"        -> {"dfs"}
      [] OTHER               -> {q.op}

Accepted(q) == IF q.op \in {"bfs", "dfs"} THEN graph.nodes \cap q.accept ELSE graph.nodes

\* The nodes one hop away from those in S.
Around(rule, q, S) ==
    (UNION {{Other(e, n) : e \in Hops(rule, q, n)} : n \in S}) \cap Accepted(q)

\* S with everything its containers contain.
Spread(rule, S) ==
    LET Grow[i \in 0 .. Cardinality(Id)] ==
          IF i = 0
          THEN S
          ELSE Grow[i - 1] \cup
               ((UNION {{e.target : e \in Children(rule, n)} : n \in Grow[i - 1]}) \cap graph.nodes)
    IN  Grow[Cardinality(Id)]

Depth(q) == IF q.op = "hierarchy" \/ q.max_depth > Cardinality(Id)
            THEN Cardinality(Id)
            ELSE q.max_depth

\* The nodes within k hops of the start node.
Within(rule, q, k) ==
    LET Ball[i \in 0 .. k] ==
          IF i = 0
          THEN {q.start}
          ELSE LET inner == Spread(rule, Ball[i - 1])
               IN  inner \cup Around(rule, q, inner)
    IN  Ball[k]

Neighbourhood(q) ==
    StartFound(q) \cup ((UNION {Within(rule, q, Depth(q)) : rule \in Rules(q)}) \ {q.start})

-----------------------------------------------------------------------------
(* Safety. *)

Bounded == Recursive \cup {"bfs"}

\* No query ever collects a node that is further away than it was asked to go,
\* is missing from the store, or was filtered out.
WithinDepth == query.op \in Bounded => found \subseteq Neighbourhood(query)

\* The depths that bind on no path: the impact radius does not go on from a
\* node it found before, the others from one they have visited before.
Exact(q) ==
    \/ Depth(q) = Cardinality(Id)
    \/ Depth(q) <= IF q.op = "impact" THEN 1 ELSE 2

\* The walks that find what they look for: the one for derived classes begins
\* at a node that the walk for base classes has marked as visited, and ends.
Fruitful(q) == Rules(q) \ {"type_descendants"}

\* The depth-first queries find everything within one hop, their default, all
\* but the impact radius within two, and everything there is when the depth
\* does not bind: at the depths between, the order of the edges decides.  Of a
\* type hierarchy this holds for the base classes only (get_type_hierarchy).
DepthFirstComplete ==
    pc = "done" /\ Known(query) /\ query.op \in Recursive /\ Exact(query)
      /\ (query.op = "dfs" => Cardinality(found) < query.limit)
        => /\ StartFound(query) \subseteq found
           /\ \A rule \in Fruitful(query) : Within(rule, query, Depth(query)) \ {query.start} \subseteq found

\* traverse_bfs finds everything within its depth, at any depth, unless its
\* node limit stopped it.
BreadthFirstComplete ==
    pc = "done" /\ Known(query) /\ query.op = "bfs" /\ Cardinality(found) < query.limit
        => found = Neighbourhood(query)

Ends(e) == {e.source, e.target}

\* The edges traverse_bfs returns are a tree over the nodes it visited: each
\* one joins a node to what the edges before it have reached.
BreadthFirstTree ==
    query.op = "bfs" /\ visited # {} =>
        /\ Len(via) = Cardinality(visited) - 1
        /\ \A i \in DOMAIN via :
             LET before == {query.start} \cup UNION {Ends(via[j]) : j \in 1 .. i - 1}
             IN  Cardinality(Ends(via[i]) \cap before) = 1

\* The nodes and edges of a path query's graph.
Steps(q) == {e \in graph.edges : e.kind \in q.kinds /\ e.target \in graph.nodes}

Reachable(q, k) ==
    LET Ball[i \in 0 .. k] ==
          IF i = 0 THEN {q.start}
          ELSE Ball[i - 1] \cup {e.target : e \in {s \in Steps(q) : s.source \in Ball[i - 1]}}
    IN  Ball[k]

\* find_path returns a path, no shorter one exists, and it returns none only
\* when there is none.
PathShortest ==
    pc = "done" /\ query.op = "path" /\ Known(query) =>
        IF found = {}
        THEN query.to \notin Reachable(query, Cardinality(Id))
        ELSE /\ \A i \in DOMAIN via :
                  /\ via[i] \in Steps(query)
                  /\ via[i].source = IF i = 1 THEN query.start ELSE via[i - 1].target
             /\ query.to = IF via = <<>> THEN query.start ELSE via[Len(via)].target
             /\ via # <<>> => query.to \notin Reachable(query, Len(via) - 1)

\* Through cycles and over parallel edges, no query but the call graph (which
\* is two queries) returns an edge twice.
EdgesOnce ==
    query.op # "call_graph" => \A i, j \in DOMAIN via : via[i] = via[j] => i = j

-----------------------------------------------------------------------------
(* Liveness. *)

\* Every query is answered, whatever cycles the graph has.
QueriesEnd == pc # "idle" ~> pc = "idle"

=============================================================================
