-------------------------------- MODULE Walk --------------------------------
(***************************************************************************)
(* The state the graph queries of GraphTraverser (graph/traversal.py) have *)
(* in common: the stored graph they read, the query in progress, and the   *)
(* nodes and edges it has collected.  The walks themselves are in          *)
(* BreadthFirst and DepthFirst.                                            *)
(***************************************************************************)
EXTENDS Naturals, FiniteSets, Sequences

CONSTANTS
    Id,         \* node ids
    Container,  \* ids of the nodes of a CONTAINER_KINDS kind
    Graphs,     \* the stored graphs; an edge may dangle without foreign keys
    Queries     \* the calls users make

EdgeKind == {"contains", "calls", "references", "imports", "tests", "extends", "implements"}

Edge == [source : Id, target : Id, kind : EdgeKind]

Graph == [nodes : SUBSET Id, edges : SUBSET Edge]

Op == {"bfs", "path", "dfs", "callers", "callees", "testers", "tested", "call_graph",
       "hierarchy", "impact", "ancestors"}

\* "accept" holds the nodes whose kind passes opts.node_kinds; an empty
\* opts.edge_kinds is all kinds.
Query == [op : Op, start : Id, to : Id, max_depth : Nat, limit : Nat,
          kinds : SUBSET EdgeKind, direction : {"outgoing", "incoming", "both"},
          accept : SUBSET Id, include_start : BOOLEAN]

NoQuery == [op |-> "none"]

ASSUME WalkAssumption ==
    /\ IsFiniteSet(Id)
    /\ Container \subseteq Id
    /\ Graphs \subseteq Graph
    /\ Queries \subseteq Query

VARIABLES
    graph,   \* what the tables hold; nothing is written during a query
    query,   \* the query being answered
    pc,      \* "idle", "first" and "second" (its passes), "done"
    found,   \* the nodes collected
    via,     \* the edges collected, in order
    visited, \* the visited set
    queue,   \* breadth first: the entries to visit
    stack    \* depth first: the frames of the recursion

wvars == <<graph, query, pc, found, via, visited, queue, stack>>

Outgoing(n, kinds) == {e \in graph.edges : e.source = n /\ e.kind \in kinds}
Incoming(n, kinds) == {e \in graph.edges : e.target = n /\ e.kind \in kinds}

AdjacentEdges(n, direction, kinds) ==
    CASE direction = "outgoing" -> Outgoing(n, kinds)
      [] direction = "incoming" -> Incoming(n, kinds)
      [] direction = "both"     -> Outgoing(n, kinds) \cup Incoming(n, kinds)

Other(e, n) == IF e.source = n THEN e.target ELSE e.source

\* The queries that look their nodes up before they start.
Known(q) ==
    /\ q.op \in {"bfs", "path", "dfs", "call_graph", "hierarchy", "impact"}
         => q.start \in graph.nodes
    /\ q.op = "path" => q.to \in graph.nodes

\* The queries whose answer holds the start node.
StartFound(q) ==
    IF q.op \in {"call_graph", "hierarchy", "impact"} \/ (q.op \in {"bfs", "dfs"} /\ q.include_start)
    THEN {q.start}
    ELSE {}

Init ==
    /\ graph \in Graphs
    /\ query = NoQuery
    /\ pc = "idle"
    /\ found = {} /\ via = <<>> /\ visited = {}
    /\ queue = <<>> /\ stack = <<>>

\* A query for a node that does not exist.
AskUnknown(q) ==
    /\ pc = "idle"
    /\ ~Known(q)
    /\ query' = q
    /\ pc' = "done"
    /\ UNCHANGED <<graph, found, via, visited, queue, stack>>

\* The caller takes the answer.
Return ==
    /\ pc = "done"
    /\ query' = NoQuery
    /\ pc' = "idle"
    /\ found' = {} /\ via' = <<>> /\ visited' = {}
    /\ queue' = <<>> /\ stack' = <<>>
    /\ UNCHANGED graph
=============================================================================
