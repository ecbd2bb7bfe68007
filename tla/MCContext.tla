----------------------------- MODULE MCContext -----------------------------
(***************************************************************************)
(* Three files, two of production code and one of tests: a name defined in *)
(* up to five places, imports that are hit with what they import, a type   *)
(* with a supertype, and call graphs among them.                           *)
(***************************************************************************)
EXTENDS ContextProps

Sym(name, file, owner, kind, size) ==
    [name |-> name, file |-> file, owner |-> owner, kind |-> kind, size |-> size]
E(source, target, kind) == [source |-> source, target |-> target, kind |-> kind]

Symbols ==
    [run1 |-> Sym("run", "a", "job", "function", 5), run2 |-> Sym("run", "a", "none", "function", 2),
     run3 |-> Sym("run", "b", "none", "function", 9), run4 |-> Sym("run", "b", "job", "function", 1),
     runT |-> Sym("run", "t", "none", "function", 8), job |-> Sym("job", "a", "none", "class", 7),
     base |-> Sym("base", "b", "none", "interface", 3), imp |-> Sym("job", "b", "none", "import", 1),
     impT |-> Sym("base", "t", "none", "import", 1), jobT |-> Sym("testjob", "t", "none", "class", 4)]

Ids == DOMAIN Symbols
Score(S, n) == [id \in Ids |-> IF id \in S THEN n ELSE 0]
NameIs(name) == {id \in Ids : Symbols[id].name = name}

Terms == {"run", "job", "base", "jobs"}

Database(rows, es, fts) ==
    [rows |-> SelectSeq(rows, LAMBDA id : id \in Ids), of |-> Symbols,
     files |-> {Symbols[id].file : id \in ToSet(rows)},
     edges |-> SelectSeq(es, LAMBDA e : {e.source, e.target} \subseteq ToSet(rows)),
     fts |-> [term \in Terms |-> IF term \in fts THEN Score(NameIs(term), 7) ELSE Score({}, 0)],
     like |-> [term \in Terms |-> IF term = "job" THEN Score({"job", "jobT", "imp"}, 9) ELSE Score({}, 0)],
     near |-> [term \in Terms |-> IF term = "jobs" THEN <<[name |-> "job", distance |-> 1]>> ELSE <<>>],
     prefix |-> [term \in Terms |-> IF term = "job" THEN Score({"job"}, 90) ELSE Score({}, 0)],
     bonus |-> [id \in Ids |-> IF id \in {"run1", "job"} THEN 30 ELSE 10]]

Overloaded == <<"run1", "run2", "run3", "run4", "runT", "job", "base", "imp">>
Plain == <<"run1", "run2", "runT", "job", "jobT", "base", "imp", "impT">>
Few == <<"impT", "imp", "job", "base", "run1", "run3">>

Structure == <<E("run3", "imp", "imports"), E("runT", "base", "imports"),
               E("job", "run1", "contains"), E("job", "base", "extends"), E("jobT", "base", "implements")>>

CallSites == {<<E("run1", "run2", "calls"), E("run1", "run2", "calls"), E("runT", "run1", "calls")>>,
              <<E("run1", "run3", "calls"), E("run3", "base", "references"), E("run1", "run2", "references"),
                E("run1", "run2", "calls"), E("base", "run4", "contains")>>,
              <<>>}

MCDatabases ==
    {Database(rows, Structure \o calls, fts) :
        rows \in {Overloaded, Plain, Few}, calls \in CallSites, fts \in {{"run", "base"}, {"job", "run"}}}

Kinds == {"contains", "calls", "references", "extends", "implements", "imports"}

Question(symbols, types, terms, testQuery, limit, most, depth) ==
    [symbols |-> symbols, types |-> types, terms |-> terms, testQuery |-> testQuery,
     search_limit |-> limit, max_nodes |-> most, depth |-> depth, min_score |-> 3,
     kinds |-> {}, edge_kinds |-> Kinds]

MCQuestions ==
    {Question(words[1], words[2], words[3], testQuery, size[1], size[2], size[3]) :
        words \in {<<<<"run">>, {}, <<"run">>>>, <<<<"run", "job">>, {"job"}, <<"run", "job">>>>,
                   <<<<"base", "job", "run">>, {}, <<"jobs", "base">>>>, <<<<>>, {}, <<"job">>>>},
        testQuery \in BOOLEAN,
        size \in {<<2, 4, 1>>, <<3, 8, 3>>, <<4, 20, 2>>}}

ASSUME MCContextAssumption == FewNamesakes
=============================================================================
