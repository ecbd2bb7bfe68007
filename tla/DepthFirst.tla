----------------------------- MODULE DepthFirst -----------------------------
(***************************************************************************)
(* The recursive walks of GraphTraverser (graph/traversal.py): callers,    *)
(* callees, testers, tested targets, the call graph made of the first two, *)
(* the type hierarchy, the impact radius, traverse_dfs, and the climb of   *)
(* get_ancestors.  A frame of "stack" is an activation of the recursive    *)
(* function: its node, its depth, and the edges its loops have left, in no *)
(* particular order.                                                       *)
(***************************************************************************)
EXTENDS Walk

UseKinds == {"calls", "references", "imports"}
BaseKinds == {"extends", "implements"}

\* The recursive function in use: some queries run two of them.
RuleOf(q, pass) ==
    CASE q.op = "call_graph" -> IF pass = "first" THEN "callers" ELSE "callees"
      [] q.op = "hierarchy"  -> IF pass = "first" THEN "type_ancestors" ELSE "type_descendants"
      [] OTHER -> q.op

Rule == RuleOf(query, pc)

\* The edges its main loop runs over.
Hops(rule, q, n) ==
    CASE rule = "callers" -> Incoming(n, UseKinds)
      [] rule = "callees" -> Outgoing(n, UseKinds)
      [] rule = "testers" -> Incoming(n, {"tests"})
      [] rule = "tested"  -> Outgoing(n, {"tests"})
      [] rule = "type_ancestors"   -> Outgoing(n, BaseKinds)
      [] rule = "type_descendants" -> Incoming(n, BaseKinds)
      [] rule = "impact" -> Incoming(n, EdgeKind)
      [] rule = "dfs"    -> AdjacentEdges(n, q.direction, q.kinds)

\* _get_impact_recursive first goes through what a container contains.
Children(rule, n) ==
    IF rule = "impact" /\ n \in graph.nodes \cap Container THEN Outgoing(n, {"contains"}) ELSE {}

Frame(rule, q, n, depth) ==
    [at |-> n, depth |-> depth, children |-> Children(rule, n), hops |-> Hops(rule, q, n)]

Recursive == {"dfs", "callers", "callees", "testers", "tested", "call_graph",
              "hierarchy", "impact"}

\* Mutant: one level too deep.
BugEnters(rule, q, n, depth, seen, nodes) ==
    /\ n \notin seen
    /\ rule \notin {"type_ancestors", "type_descendants"} => depth <= q.max_depth
    /\ rule = "dfs" => Cardinality(nodes) < q.limit

\* The recursive call is entered, or returns at once.
Enters(rule, q, n, depth, seen, nodes) ==
    /\ n \notin seen
    /\ rule \notin {"type_ancestors", "type_descendants"} => depth < q.max_depth
    /\ rule = "dfs" => Cardinality(nodes) < q.limit

\* Mutant: the node is not marked as visited.
BugCall(rule, q, n, depth, seen, nodes, fs) ==
    /\ visited' = seen
    /\ stack' = IF Enters(rule, q, n, depth, seen, nodes)
                THEN <<Frame(rule, q, n, depth)>> \o fs
                ELSE fs

\* The call (n, depth) on top of the frames fs.
Call(rule, q, n, depth, seen, nodes, fs) ==
    IF Enters(rule, q, n, depth, seen, nodes)
    THEN /\ visited' = seen \cup {n}
         /\ stack' = <<Frame(rule, q, n, depth)>> \o fs
    ELSE /\ visited' = seen
         /\ stack' = fs

StartDepthFirst(q) ==
    /\ pc = "idle"
    /\ q.op \in Recursive
    /\ Known(q)
    /\ query' = q
    /\ pc' = "first"
    /\ found' = StartFound(q)
    /\ Call(RuleOf(q, "first"), q, q.start, 0, {}, StartFound(q), <<>>)
    /\ UNCHANGED <<graph, via, queue>>

Top == Head(stack)

Recursing == pc \in {"first", "second"} /\ query.op \in Recursive /\ stack # <<>>

\* Mutant: what a container contains counts as one hop away.
BugFollowChild ==
    /\ Recursing
    /\ \E e \in Top.children :
         LET rest == <<[Top EXCEPT !.children = @ \ {e}]>> \o Tail(stack)
         IN  IF e.target \in graph.nodes \ visited
             THEN /\ found' = found \cup {e.target}
                  /\ via' = Append(via, e)
                  /\ Call(Rule, query, e.target, Top.depth + 1, visited, found', rest)
             ELSE stack' = rest /\ UNCHANGED <<found, via, visited>>
    /\ UNCHANGED <<graph, query, pc, queue>>

\* One turn of the loop over the contained nodes: same depth.
FollowChild ==
    /\ Recursing
    /\ \E e \in Top.children :
         LET rest == <<[Top EXCEPT !.children = @ \ {e}]>> \o Tail(stack)
         IN  IF e.target \in graph.nodes \ visited
             THEN /\ found' = found \cup {e.target}
                  /\ via' = Append(via, e)
                  /\ Call(Rule, query, e.target, Top.depth, visited, found', rest)
             ELSE stack' = rest /\ UNCHANGED <<found, via, visited>>
    /\ UNCHANGED <<graph, query, pc, queue>>

\* What makes a neighbour worth following: the impact radius and the hierarchy
\* ask whether it is in the answer already, the others whether it was visited.
Fresh(m) ==
    /\ m \in graph.nodes
    /\ m \notin IF Rule \in {"impact", "type_ancestors", "type_descendants"} THEN found ELSE visited
    /\ Rule = "dfs" => m \in query.accept

\* One turn of the main loop.
Follow ==
    /\ Recursing
    /\ Top.children = {}
    /\ \E e \in Top.hops :
         LET m == Other(e, Top.at)
             rest == <<[Top EXCEPT !.hops = @ \ {e}]>> \o Tail(stack)
         IN  IF Fresh(m)
             THEN /\ found' = found \cup {m}
                  /\ via' = Append(via, e)
                  /\ Call(Rule, query, m, Top.depth + 1, visited, found', rest)
             ELSE stack' = rest /\ UNCHANGED <<found, via, visited>>
    /\ UNCHANGED <<graph, query, pc, queue>>

LoopsEnd ==
    /\ Recursing
    /\ Top.children = {} /\ Top.hops = {}
    /\ stack' = Tail(stack)
    /\ UNCHANGED <<graph, query, pc, found, via, visited, queue>>

\* get_call_graph starts its second walk with a visited set of its own,
\* get_type_hierarchy with the one of the first walk.
SecondWalk ==
    /\ pc = "first"
    /\ query.op \in {"call_graph", "hierarchy"}
    /\ stack = <<>>
    /\ pc' = "second"
    /\ Call(RuleOf(query, "second"), query, query.start, 0,
            IF query.op = "call_graph" THEN {} ELSE visited, found, <<>>)
    /\ UNCHANGED <<graph, query, found, via, queue>>

FinishWalk ==
    /\ query.op \in Recursive
    /\ stack = <<>>
    /\ pc = IF query.op \in {"call_graph", "hierarchy"} THEN "second" ELSE "first"
    /\ pc' = "done"
    /\ UNCHANGED <<graph, query, found, via, visited, queue, stack>>

-----------------------------------------------------------------------------
(* get_ancestors: from a node to the one that contains it, and so on. *)

StartClimb(q) ==
    /\ pc = "idle"
    /\ q.op = "ancestors"
    /\ query' = q
    /\ pc' = "first"
    /\ stack' = <<[at |-> q.start]>>
    /\ UNCHANGED <<graph, found, via, visited, queue>>

Climb ==
    /\ pc = "first"
    /\ query.op = "ancestors"
    /\ Top.at \notin visited
    /\ visited' = visited \cup {Top.at}
    /\ \E e \in Incoming(Top.at, {"contains"}) :
         /\ e.source \in graph.nodes
         /\ found' = found \cup {e.source}
         /\ via' = Append(via, e)
         /\ stack' = <<[at |-> e.source]>>
    /\ UNCHANGED <<graph, query, pc, queue>>

FinishClimb ==
    /\ pc = "first"
    /\ query.op = "ancestors"
    /\ \/ Top.at \in visited
       \/ Incoming(Top.at, {"contains"}) = {}
       \/ \E e \in Incoming(Top.at, {"contains"}) : e.source \notin graph.nodes
    /\ pc' = "done"
    /\ stack' = <<>>
    /\ visited' = visited \cup {Top.at}
    /\ UNCHANGED <<graph, query, found, via, queue>>

DepthFirstStep ==
    \/ FollowChild \/ Follow \/ LoopsEnd \/ SecondWalk \/ FinishWalk
    \/ Climb \/ FinishClimb
=============================================================================
