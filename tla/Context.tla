------------------------------ MODULE Context ------------------------------
(***************************************************************************)
(* ContextBuilder.find_relevant_context (context/builder.py) as explore    *)
(* calls it: the question's named symbols are seeded, hits are searched,   *)
(* merged and cut, imports give way to what they import, the graph around  *)
(* the hits is walked, and the answer is cut and its edges completed; the  *)
(* seeds that it lacks are added last.  Each action is one query or pass   *)
(* of the builder.  The builder holds no transaction, so another process   *)
(* may delete a file's rows between two of them.                           *)
(***************************************************************************)
EXTENDS Search

CONSTANTS
    Databases, Questions,
    FileFloor, TestFloor  \* the least caps on the nodes of a file, and of tests

\* Ids are unique, and what an import or export statement refers to is a
\* reference of the definition around it: the visitor never enters one.
Storable(d) ==
    /\ {"rows", "of", "files", "edges", "near"} \subseteq DOMAIN d
    /\ IsList(d.rows) /\ IsInjective(d.rows) /\ IsList(d.edges)
    /\ \A e \in ToSet(d.edges) : e.kind \in {"imports", "exports"} => d.of[e.source].kind \notin {"import", "export"}
    /\ \A q \in Questions : \A i \in DOMAIN q.terms : IsList(d.near[q.terms[i]])

ASSUME ContextAssumption ==
    /\ {FileFloor, TestFloor} \subseteq Nat \ {0}
    /\ \A d \in Databases : Storable(d)
    /\ \A q \in Questions :
          /\ IsList(q.symbols) /\ IsList(q.terms)
          /\ {q.search_limit, q.max_nodes, q.depth} \subseteq Nat

VARIABLES
    db,      \* the database
    query,   \* the question with its options
    pc,      \* the next pass
    seeds,   \* seed_named_symbols' answer
    hits,    \* exact_matches, then filtered: the hits the answer grows from
    work,    \* text_results, then the hits the current pass still has to visit
    nodes,   \* the answer: ids in the order in which they came,
    edges,   \*   edges,
    roots    \*   and entry points

vars == <<db, query, pc, seeds, hits, work, nodes, edges, roots>>

NoQuestion == [symbols |-> <<>>]

Init ==
    /\ db \in Databases
    /\ query = NoQuestion
    /\ pc = "idle"
    /\ seeds = <<>> /\ hits = <<>> /\ work = <<>>
    /\ nodes = <<>> /\ edges = <<>> /\ roots = <<>>

(* The hits *)

\* A symbol in a file with other symbols of the question gains.
CoLocated(results) ==
    LET Names(file) == {db.of[id].name : id \in {i \in IdsOf(results) : db.of[i].file = file}}
    IN  Ranked([i \in DOMAIN results |->
            [results[i] EXCEPT !.score = @ + 200 * (Cardinality(Names(db.of[results[i].id].file)) - 1)]])

\* The types whose names start with a symbol or one of its stems.
Prefixed(q, symbol) ==
    LET Bonus(results) == [i \in DOMAIN results |-> [results[i] EXCEPT !.score = @ + 160]]
    IN  Take(Bonus(Matching(db, db.prefix[symbol], DefinitionKind, 30)), q.search_limit)

Joined(results, more) == Extended(results, more, LAMBDA r : r.id)

ExactMatches(q) ==
    LET exact == CoLocated(FindByExactName(db, q.symbols, q.kinds, 100))
        found[i \in 0 .. Len(q.symbols)] ==
            IF i = 0 THEN Take(exact, Max({2 * q.search_limit, 1}))
            ELSE Joined(found[i - 1], Prefixed(q, q.symbols[i]))
    IN  Take(Ranked(found[Len(q.symbols)]), 3 * q.search_limit)

\* The best score of each id in the answers, and 5 more for each further one.
Combined(answers) ==
    LET Hits(id) == {i \in DOMAIN answers : id \in IdsOf(answers[i])}
        Best(id) == Max({r.score : r \in {s \in UNION {ToSet(answers[i]) : i \in Hits(id)} : s.id = id}})
        Weighed(r) == Result(r.id, Best(r.id) + 50 * (Cardinality(Hits(r.id)) - 1))
        all == Joined(<<>>, FlattenSeq(answers))
    IN  [k \in DOMAIN all |-> Weighed(all[k])]

\* _HIGH_VALUE_NODE_KINDS stand in for no kinds here.
TextKinds(q) == IF q.kinds = {} THEN CallableKind ELSE q.kinds

TextResults(q) ==
    LET Answers == [i \in DOMAIN q.terms |-> SearchNodes(db, q.terms[i], TextKinds(q), 2 * q.search_limit)]
    IN  Take(Ranked(Combined(Answers)), 2 * q.search_limit)

\* Both answers in one; tests keep three tenths of their score, unless they
\* are asked for.
Merged(q, exact, text) ==
    LET Best(id) == Max({r.score : r \in {s \in ToSet(exact) \cup ToSet(text) : s.id = id}})
        Weighed(r) == Result(r.id, IF ~q.testQuery /\ db.of[r.id].file \in TestFile
                                   THEN (3 * Best(r.id)) \div 10
                                   ELSE Best(r.id))
        All(results) == [i \in DOMAIN results |-> Weighed(results[i])]
    IN  Where(Take(Ranked(All(Joined(exact, text))), 3 * q.search_limit),
                  LAMBDA r : r.score >= q.min_score)

Ask ==
    /\ pc = "idle"
    /\ query' \in Questions
    /\ pc' = "seed"
    /\ UNCHANGED <<db, seeds, hits, work, nodes, edges, roots>>

Seed ==
    /\ pc = "seed"
    /\ seeds' = SeedNamedSymbols(db, query)
    /\ pc' = "exact"
    /\ UNCHANGED <<db, query, hits, work, nodes, edges, roots>>

SearchExact ==
    /\ pc = "exact"
    /\ hits' = ExactMatches(query)
    /\ pc' = "text"
    /\ UNCHANGED <<db, query, seeds, work, nodes, edges, roots>>

SearchText ==
    /\ pc = "text"
    /\ work' = TextResults(query)
    /\ pc' = "merge"
    /\ UNCHANGED <<db, query, seeds, hits, nodes, edges, roots>>

MergeHits ==
    /\ pc = "merge"
    /\ hits' = Merged(query, hits, work)
    /\ work' = <<>>
    /\ pc' = "imports"
    /\ UNCHANGED <<db, query, seeds, nodes, edges, roots>>

Outgoing(id, kinds) == Where(db.edges, LAMBDA e : e.source = id /\ e.kind \in kinds)

Passage == [import |-> "imports", export |-> "exports"]

\* Mutant: an import stands for itself, too.
BugMeant(r) ==
    LET Targets(es) == [i \in DOMAIN es |-> Result(es[i].target, r.score)]
    IN  IF db.of[r.id].kind \in DOMAIN Passage
        THEN Else(Targets(Outgoing(r.id, {Passage[db.of[r.id].kind]})), <<r>>)
        ELSE <<r>>

\* What a hit stands for: an import or export for the nodes its edges lead to.
Meant(r) ==
    LET Targets(es) == [i \in DOMAIN es |-> Result(es[i].target, r.score)]
    IN  IF db.of[r.id].kind \in DOMAIN Passage
        THEN Targets(Where(Outgoing(r.id, {Passage[db.of[r.id].kind]}),
                               LAMBDA e : e.target \in ToSet(db.rows)))
        ELSE <<r>>

ResolveImports ==
    /\ pc = "imports"
    /\ hits' = Take(Joined(<<>>, FlattenSeq([i \in DOMAIN hits |-> Meant(hits[i])])), query.search_limit)
    /\ work' = hits'
    /\ roots' = [i \in DOMAIN hits' |-> hits'[i].id]
    /\ nodes' = roots'
    /\ pc' = "hierarchy"
    /\ UNCHANGED <<db, query, seeds, edges>>

-----------------------------------------------------------------------------
(* The graph around them *)

Visited(ns, es, todo, seen) == [nodes |-> ns, edges |-> es, todo |-> todo, seen |-> seen]

Up(n) == Outgoing(n, {"extends", "implements"})

\* The next edge up, unless it leads to a type already met.
Climbed(s) ==
    LET e == Head(s.todo)
    IN  IF s.todo = <<>> THEN s
        ELSE IF e.target \in ToSet(db.rows) \ ToSet(s.nodes)
        THEN Visited(Append(s.nodes, e.target), Append(s.edges, e), Up(e.target) \o Tail(s.todo), {})
        ELSE [s EXCEPT !.todo = Tail(@)]

\* get_type_hierarchy: the supertypes (the walk to the subtypes ends at once).
Hierarchy(id) ==
    LET walk[i \in 0 .. Len(db.edges) + 1] ==
            IF i = 0 THEN Visited(<<id>>, <<>>, Up(id), {}) ELSE Climbed(walk[i - 1])
    IN  IF id \in ToSet(db.rows) THEN walk[Len(db.edges) + 1] ELSE Visited(<<>>, <<>>, <<>>, {})

Other(e, n) == IF e.source = n THEN e.target ELSE e.source

\* contains edges come first, then calls, then the others.
Prioritized(es) ==
    Where(es, LAMBDA e : e.kind = "contains") \o Where(es, LAMBDA e : e.kind = "calls")
        \o Where(es, LAMBDA e : e.kind \notin {"contains", "calls"})

\* The queue entries that lead on from n.
Entries(q, n, seen, depth) ==
    LET Leads(e) == /\ e.kind \in q.edge_kinds
                    /\ Other(e, n) \in ToSet(db.rows) \ seen
                    /\ q.kinds = {} \/ db.of[Other(e, n)].kind \in q.kinds
        Queued(es) == [i \in DOMAIN es |-> [at |-> Other(es[i], n), via |-> <<es[i]>>, depth |-> depth]]
    IN  Queued(Prioritized(Where(Where(db.edges, LAMBDA e : e.source = n)
                                       \o Where(db.edges, LAMBDA e : e.target = n), Leads)))

\* The next node is visited and leads to others.
Spread(q, limit, s) ==
    LET t == Head(s.todo)
        more == IF t.depth >= q.depth THEN <<>> ELSE Entries(q, t.at, s.seen \cup {t.at}, t.depth + 1)
    IN  IF s.todo = <<>> \/ Cardinality(ToSet(s.nodes)) >= limit THEN s
        ELSE IF t.at \in s.seen THEN [s EXCEPT !.todo = Tail(@)]
        ELSE Visited(s.nodes \o [i \in DOMAIN more |-> more[i].at], s.edges \o t.via,
                     Tail(s.todo) \o more, s.seen \cup {t.at})

\* traverse_bfs in both directions; BreadthFirst has it step by step.
Neighbours(id, q, limit) ==
    LET walk[i \in 0 .. 2 * Len(db.edges) + 1] ==
            IF i = 0 THEN Visited(<<id>>, <<>>, <<[at |-> id, via |-> <<>>, depth |-> 0]>>, {})
            ELSE Spread(q, limit, walk[i - 1])
    IN  IF id \in ToSet(db.rows) THEN walk[2 * Len(db.edges) + 1] ELSE Visited(<<>>, <<>>, <<>>, {})

AddNodes(ns) == Extended(nodes, ns, LAMBDA n : n)

Key(e) == <<e.source, e.target, e.kind>>

\* One edge for each source, target and kind.
WithEdges(old, es) == Extended(old, es, Key)

\* The nodes added beyond the entry points, up to a quarter of max_nodes.
HierarchyFull == Len(nodes) - Len(roots) >= Max({1, query.max_nodes \div 4})

AddWalk(walk) ==
    /\ nodes' = AddNodes(walk.nodes)
    /\ edges' = WithEdges(edges, walk.edges)

ExpandHierarchy ==
    /\ pc = "hierarchy" /\ work # <<>> /\ ~HierarchyFull
    /\ IF db.of[Head(work).id].kind \in TypeKind
       THEN AddWalk(Hierarchy(Head(work).id))
       ELSE UNCHANGED <<nodes, edges>>
    /\ work' = Tail(work)
    /\ UNCHANGED <<db, query, pc, seeds, hits, roots>>

FinishHierarchy ==
    /\ pc = "hierarchy"
    /\ work = <<>> \/ HierarchyFull
    /\ work' = hits
    /\ pc' = "walk"
    /\ UNCHANGED <<db, query, seeds, hits, nodes, edges, roots>>

WalkAround ==
    /\ pc = "walk" /\ work # <<>>
    /\ AddWalk(Neighbours(Head(work).id, query, Max({1, query.max_nodes \div Len(hits)})))
    /\ work' = Tail(work)
    /\ UNCHANGED <<db, query, pc, seeds, hits, roots>>

-----------------------------------------------------------------------------
(* The answer *)

FileCap(q) == Max({FileFloor, q.max_nodes \div 5})
TestCap(q) == Max({TestFloor, (15 * q.max_nodes) \div 100})

FileNodes(file) == Where(nodes, LAMBDA id : db.of[id].file = file)
IsType(id) == db.of[id].kind \in DefinitionKind

\* A file's nodes, the entry points and then the types first.
InFile(file) ==
    LET Weight(id) == (IF id \in ToSet(roots) THEN 10 ELSE 0) + (IF IsType(id) THEN 3 ELSE 0)
    IN  Ranked(Scored(FileNodes(file), Weight))

\* The entry points among the nodes cut stay entry points.
CapFiles ==
    /\ pc = "walk" /\ work = <<>>
    /\ nodes' = Where(nodes, LAMBDA id : id \in IdsOf(Take(InFile(db.of[id].file), FileCap(query))))
    /\ pc' = "tests"
    /\ UNCHANGED <<db, query, seeds, hits, work, edges, roots>>

TestsCut(q) ==
    LET Beyond(tests) == {tests[i] : i \in {j \in DOMAIN tests : j > TestCap(q)}}
    IN  IF q.testQuery THEN {}
        ELSE Beyond(Where(nodes, LAMBDA id : db.of[id].file \in TestFile))

\* Mutant: the entry points among the tests cut stay, too.
BugCapTests ==
    /\ pc = "tests"
    /\ nodes' = Where(nodes, LAMBDA id : id \notin TestsCut(query))
    /\ pc' = "recover"
    /\ UNCHANGED <<db, query, seeds, hits, work, edges, roots>>

CapTests ==
    /\ pc = "tests"
    /\ nodes' = Where(nodes, LAMBDA id : id \notin TestsCut(query))
    /\ roots' = Where(roots, LAMBDA id : id \notin TestsCut(query))
    /\ pc' = "recover"
    /\ UNCHANGED <<db, query, seeds, hits, work, edges>>

RecoveryKind == {"calls", "extends", "implements", "references", "overrides"}

Among(es, ns) == Where(es, LAMBDA e : e.source \in ns /\ e.target \in ns)

\* Mutant: the edges of the nodes cut stay.
BugAnswerEdges ==
    WithEdges(edges, Where(Among(db.edges, ToSet(nodes)), LAMBDA e : e.kind \in RecoveryKind))

AnswerEdges ==
    WithEdges(Among(edges, ToSet(nodes)),
              Where(Among(db.edges, ToSet(nodes)), LAMBDA e : e.kind \in RecoveryKind))

RecoverEdges ==
    /\ pc = "recover"
    /\ edges' = AnswerEdges
    /\ pc' = "inject"
    /\ UNCHANGED <<db, query, seeds, hits, work, nodes, roots>>

InjectSeeds ==
    /\ pc = "inject"
    /\ nodes' = AddNodes([i \in DOMAIN seeds |-> seeds[i].id])
    /\ pc' = "done"
    /\ UNCHANGED <<db, query, seeds, hits, work, edges, roots>>

Return ==
    /\ pc = "done"
    /\ query' = NoQuestion
    /\ pc' = "idle"
    /\ seeds' = <<>> /\ hits' = <<>> /\ work' = <<>>
    /\ nodes' = <<>> /\ edges' = <<>> /\ roots' = <<>>
    /\ UNCHANGED db

\* Another process commits delete_file(file).
DeleteFile(file) ==
    LET gone == {id \in ToSet(db.rows) : db.of[id].file = file}
    IN  /\ file \in db.files
        /\ db' = [db EXCEPT !.rows = Where(@, LAMBDA id : id \notin gone),
                            !.files = @ \ {file},
                            !.edges = Where(@, LAMBDA e : {e.source, e.target} \cap gone = {})]
        /\ UNCHANGED <<query, pc, seeds, hits, work, nodes, edges, roots>>

Builder ==
    \/ Ask \/ Seed \/ SearchExact \/ SearchText \/ MergeHits \/ ResolveImports \/ ExpandHierarchy \/ FinishHierarchy
    \/ WalkAround \/ CapFiles \/ CapTests \/ RecoverEdges \/ InjectSeeds \/ Return

Next == Builder \/ \E file \in db.files : DeleteFile(file)

Spec == Init /\ [][Next]_vars
=============================================================================
