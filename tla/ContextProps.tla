---------------------------- MODULE ContextProps ----------------------------
(***************************************************************************)
(* What Context answers, whatever another process deletes meanwhile.       *)
(***************************************************************************)
EXTENDS Context

Definitions(d, token, testQuery) ==
    LET all == OfKinds(d, Named(d, token), CallableKind)
    IN  ToSet(IF testQuery THEN all ELSE Production(d, all))

\* Every symbol of the question that is defined in production code gets its
\* seeds, all its definitions when it has no more than three and at most four
\* otherwise, until there are enough seeds; no test is seeded unasked
\* (seed_named_symbols, explore/seeding.py).
SeedsNamed ==
    pc = "seed" =>
        LET answer == SeedNamedSymbols(db, query)
            Defined(i) == Definitions(db, query.symbols[i], query.testQuery)
            before(i) == UNION {Defined(j) \cap IdsOf(answer) : j \in 1 .. i - 1}
        IN  /\ IdsOf(answer) \subseteq UNION {Defined(i) : i \in DOMAIN query.symbols}
            /\ \A i \in DOMAIN query.symbols :
                 LET chosen == Defined(i) \cap IdsOf(answer)
                 IN  Cardinality(before(i)) < MaxSeeds =>
                        IF Cardinality(Defined(i)) <= 3
                        THEN chosen = Defined(i)
                        ELSE Cardinality(chosen) \in 1 .. 4

\* No question uses a name with more definitions than the lookup of a symbol
\* returns; beyond that, tests may take the place of production code in it.
FewNamesakes ==
    \A d \in Databases, q \in Questions : \A i \in DOMAIN q.symbols :
        Cardinality(ToSet(OfKinds(d, Named(d, q.symbols[i]), CallableKind))) <= Max({10, 2 * MaxSeeds})

Entered == {"hierarchy", "walk", "tests", "recover", "inject", "done"}

\* No entry point is entered twice, there are no more than asked for, and none
\* is an import: a hit on an import gives way to what its edges lead to, and as
\* none leaves an import that is stored, to nothing
\* (_resolve_imports_to_definitions, context/builder.py).
EntryPoints ==
    pc \in Entered =>
        /\ IsInjective(roots)
        /\ Len(roots) <= query.search_limit
        /\ \A i \in DOMAIN roots : db.of[roots[i]].kind \notin DOMAIN Passage

\* The caps on the nodes of a file and of tests never leave an entry point
\* without its node, unless its own file has more entry points than the cap
\* (the two caps of find_relevant_context).
RootsAnswered ==
    pc \in {"recover", "inject", "done"} =>
        \A id \in ToSet(roots) \ ToSet(nodes) :
            Cardinality({i \in DOMAIN hits : db.of[hits[i].id].file = db.of[id].file}) > FileCap(query)

\* The answer's edges join nodes of the answer, no two say the same, and no
\* stored call or type relation between two of its nodes is missing, whichever
\* walk met them and whatever the caps cut (edge recovery in
\* find_relevant_context).
AnswerClosed ==
    pc \in {"inject", "done"} =>
        /\ \A i \in DOMAIN edges : {edges[i].source, edges[i].target} \subseteq ToSet(nodes)
        /\ \A i, j \in DOMAIN edges : Key(edges[i]) = Key(edges[j]) => i = j
        /\ pc = "inject" =>
             \A e \in ToSet(Among(db.edges, ToSet(nodes))) :
                e.kind \in RecoveryKind => Key(e) \in {Key(edges[i]) : i \in DOMAIN edges}
=============================================================================
