---------------------------- MODULE BreadthFirst ----------------------------
(***************************************************************************)
(* traverse_bfs and find_path (graph/traversal.py).  An entry of the queue *)
(* carries the edges that led to its node: find_path returns them, and     *)
(* traverse_bfs keeps the last one and their number.  SQL returns edges in *)
(* no particular order.                                                    *)
(***************************************************************************)
EXTENDS Walk, SequencesExt

Entry(n, path) == [at |-> n, path |-> path]

StartBreadthFirst(q) ==
    /\ pc = "idle"
    /\ q.op \in {"bfs", "path"}
    /\ Known(q)
    /\ query' = q
    /\ pc' = "first"
    /\ found' = StartFound(q)
    /\ queue' = <<Entry(q.start, <<>>)>>
    /\ UNCHANGED <<graph, via, visited, stack>>

Searching == pc = "first" /\ query.op \in {"bfs", "path"}

\* traverse_bfs stops at its limit, find_path at its goal.
Reached ==
    \/ queue = <<>>
    \/ query.op = "bfs" /\ Cardinality(found) >= query.limit
    \/ query.op = "path" /\ queue # <<>> /\ Head(queue).at = query.to

FinishSearch ==
    /\ Searching
    /\ Reached
    /\ pc' = "done"
    /\ IF query.op = "path" /\ queue # <<>>
       THEN /\ via' = Head(queue).path
            /\ found' = {query.start} \cup {e.target : e \in ToSet(Head(queue).path)}
       ELSE UNCHANGED <<via, found>>
    /\ UNCHANGED <<graph, query, visited, queue, stack>>

\* Mutant: the entry stays at the head of the queue.
BugPeek ==
    /\ Searching
    /\ ~Reached
    /\ Head(queue).at \in visited
    /\ UNCHANGED wvars

\* Mutant: the edge is recorded before the visited set is asked.
BugRecordEdge ==
    /\ Searching
    /\ ~Reached
    /\ Head(queue).at \in visited
    /\ queue' = Tail(queue)
    /\ via' = IF query.op = "bfs" THEN Append(via, Last(Head(queue).path)) ELSE via
    /\ UNCHANGED <<graph, query, pc, found, visited, stack>>

SkipVisited ==
    /\ Searching
    /\ ~Reached
    /\ Head(queue).at \in visited
    /\ queue' = Tail(queue)
    /\ UNCHANGED <<graph, query, pc, found, via, visited, stack>>

\* contains edges come first, then calls, then the others; the sort is stable.
Priority(e) == CASE e.kind = "contains" -> 0 [] e.kind = "calls" -> 1 [] OTHER -> 2

Sorted(es, n) ==
    LET Before(e, f) == \/ Priority(e) < Priority(f)
                        \/ Priority(e) = Priority(f) /\ e.source = n /\ f.source # n
    IN  {s \in SetToSeqs(es) : \A i, j \in DOMAIN s : Before(s[i], s[j]) => i < j}

\* Mutant: the kind of the next node is not asked.
BugLeads(n) ==
    IF query.op = "path"
    THEN {e \in Outgoing(n, query.kinds) :
            e.target \notin visited \cup {n} /\ e.target \in graph.nodes}
    ELSE {e \in AdjacentEdges(n, query.direction, query.kinds) :
            /\ Other(e, n) \notin visited \cup {n}
            /\ Other(e, n) \in graph.nodes}

\* The edges that lead from n to nodes worth an entry.
Leads(n) ==
    IF query.op = "path"
    THEN {e \in Outgoing(n, query.kinds) :
            e.target \notin visited \cup {n} /\ e.target \in graph.nodes}
    ELSE {e \in AdjacentEdges(n, query.direction, query.kinds) :
            /\ Other(e, n) \notin visited \cup {n}
            /\ Other(e, n) \in graph.nodes \cap query.accept}

\* The orders in which they may be followed.
Orders(n) == IF query.op = "path" THEN SetToSeqs(Leads(n)) ELSE Sorted(Leads(n), n)

\* Mutant: the last entry is visited first.
BugEnqueue(entries) == entries \o Tail(queue)

Enqueue(entries) == Tail(queue) \o entries

Visit ==
    /\ Searching
    /\ ~Reached
    /\ LET n == Head(queue).at
           path == Head(queue).path
           Next(e) == Entry(Other(e, n), Append(path, e))
       IN  /\ n \notin visited
           /\ visited' = visited \cup {n}
           /\ via' = IF query.op = "bfs" /\ path # <<>> THEN Append(via, Last(path)) ELSE via
           /\ IF query.op = "bfs" /\ Len(path) >= query.max_depth
              THEN queue' = Tail(queue) /\ UNCHANGED found
              ELSE /\ \E s \in Orders(n) :
                        queue' = Enqueue([i \in DOMAIN s |-> Next(s[i])])
                   /\ found' = IF query.op = "bfs"
                               THEN found \cup {Other(e, n) : e \in Leads(n)}
                               ELSE found
    /\ UNCHANGED <<graph, query, pc, stack>>

BreadthFirstStep == FinishSearch \/ SkipVisited \/ Visit
=============================================================================
