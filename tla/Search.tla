------------------------------- MODULE Search -------------------------------
(***************************************************************************)
(* NodeSearcher (search/searcher.py) over the searches of QueryBuilder     *)
(* (db/queries.py), and the naming of symbols in a question                *)
(* (explore/seeding.py), as operators on a database.  How well a text      *)
(* matches is data; the ranking, the cuts and the fallbacks are the        *)
(* code's.  A score is in tenths, a sort is stable.                        *)
(*                                                                         *)
(* A database db is a record                                               *)
(*   db.rows    the ids of "nodes", in row order                           *)
(*   db.of      id -> [name, file, owner, kind, size]; a name is in lower  *)
(*              case, owner is what else the qualified name holds          *)
(*   db.files   the paths of "files"                                       *)
(*   db.edges   the rows of "edges"                                        *)
(*   db.fts, db.like    term -> id -> score of the text search, 0 for none *)
(*   db.near    term -> the names close enough, with their edit distance   *)
(*   db.prefix  symbol -> id -> score of a type whose name starts with it  *)
(*   db.bonus   id -> kind_bonus + score_path_relevance + name_match_bonus *)
(***************************************************************************)
EXTENDS Integers, Sequences, FiniteSets, SequencesExt, Lists

CONSTANTS
    TestFile,     \* the paths is_test_file accepts
    Distinctive,  \* a name in fewer files than this tells its files apart
    PerName,      \* results kept per name, at least
    MaxSeeds      \* max_seeds of seed_named_symbols

ASSUME SearchAssumption == {Distinctive, PerName, MaxSeeds} \subseteq Nat \ {0}

TypeKind == {"class", "interface"}
DefinitionKind == TypeKind \cup {"enum"}
CallableKind == DefinitionKind \cup {"function"}

Take(s, n) == SubSeq(s, 1, Min({n, Len(s)}))

Result(id, score) == [id |-> id, score |-> score]
IdsOf(results) == {results[i].id : i \in DOMAIN results}

Ranked(results) == SortedBy(results, LAMBDA r, s : r.score > s.score)

\* No kinds stand for every kind.
OfKinds(db, ids, kinds) ==
    Where(ids, LAMBDA id : kinds = {} \/ db.of[id].kind \in kinds)

Named(db, name) == Where(db.rows, LAMBDA id : db.of[id].name = name)

Production(db, ids) == Where(ids, LAMBDA id : db.of[id].file \notin TestFile)

(* search_nodes *)

\* Each id with its score.
Scored(ids, Score(_)) == [i \in DOMAIN ids |-> Result(ids[i], Score(ids[i]))]

\* search_fts and search_like: the best rows, or none at all.
Matching(db, scores, kinds, limit) ==
    LET Score(id) == scores[id]
        hits == Where(OfKinds(db, db.rows, kinds), LAMBDA id : scores[id] > 0)
    IN  Take(Ranked(Scored(hits, Score)), limit)

AtLeastFifty(n) == Max({n, 50})

Fuzzy(db, near, kinds, limit) ==
    LET HitsOf(c) == Scored(Take(OfKinds(db, Named(db, c.name), kinds), 5),
                            LAMBDA id : 10 \div (1 + c.distance))
        closest == Take(SortedBy(near, LAMBDA c, d : c.distance < d.distance), AtLeastFifty(2 * limit))
    IN  Take(FlattenSeq([i \in DOMAIN closest |-> HitsOf(closest[i])]), limit)

Else(answer, fallback) == IF answer = <<>> THEN fallback ELSE answer

\* The first strategy that finds anything.
Strategies(db, term, kinds, limit) ==
    Else(Matching(db, db.fts[term], kinds, limit),
         Else(Matching(db, db.like[term], kinds, limit),
              Fuzzy(db, db.near[term], kinds, limit)))

\* The nodes of that very name join what was found, whatever their kind.
WithNamed(db, term, found) ==
    IF found = <<>> THEN <<>>
    ELSE found \o Scored(Where(Named(db, term), LAMBDA id : id \notin IdsOf(found)),
                         LAMBDA id : Max({found[i].score : i \in DOMAIN found}))

SearchNodes(db, term, kinds, limit) ==
    LET Rated(results) == [i \in DOMAIN results |-> [results[i] EXCEPT !.score = @ + db.bonus[results[i].id]]]
    IN  Take(Ranked(Rated(WithNamed(db, term, Strategies(db, term, kinds, limit)))), limit)

(* find_nodes_by_exact_name *)

\* find_exact_name_files: the query joins nodes and files on nothing, and so
\* returns every indexed file as soon as one node has the name.
FilesOfName(db, name, kinds) ==
    IF OfKinds(db, Named(db, name), kinds) = <<>> THEN {} ELSE db.files

\* The best definitions of a name join what was found before.
WithBest(db, name, kinds, files, most, found) ==
    LET Boosted(id) == IF db.of[id].file \in files THEN 210 ELSE 10
        first == Take(OfKinds(db, Named(db, name), kinds), AtLeastFifty(3 * most))
        fresh == Where(first, LAMBDA id : id \notin IdsOf(found))
    IN  found \o Take(Ranked(Scored(fresh, Boosted)), most)

FindByExactName(db, names, kinds, limit) ==
    LET few == {s \in {FilesOfName(db, names[i], kinds) : i \in DOMAIN names} : Cardinality(s) < Distinctive}
        most == Max({PerName, limit \div Len(names)})
        found[i \in 0 .. Len(names)] ==
            IF i = 0 THEN <<>> ELSE WithBest(db, names[i], kinds, UNION few, most, found[i - 1])
    IN  IF names = <<>> THEN <<>> ELSE Take(Ranked(found[Len(names)]), limit)

(* seed_named_symbols *)

SpecificBoost == 50
GenericBoost == 20

\* Production before tests, then the larger body.
Substantive(db, results) ==
    LET Weight(id) == db.of[id].size - (IF db.of[id].file \in TestFile THEN 1000 ELSE 0)
        Ids(ranked) == [i \in DOMAIN ranked |-> ranked[i].id]
    IN  Ids(Ranked([i \in DOMAIN results |-> Result(results[i].id, Weight(results[i].id))]))

\* The definitions of a token; those in tests only if they are asked for.
Candidates(db, q, token) ==
    LET Kept(ids) == IF q.testQuery THEN ids ELSE Production(db, ids)
    IN  Kept(Substantive(db, FindByExactName(db, <<token>>, CallableKind, Max({10, 2 * MaxSeeds}))))

\* The nodes that live in a class or file that the question names, too.
InNamedContext(db, ids, types) ==
    Where(ids, LAMBDA id : types \cap {db.of[id].name, db.of[id].file, db.of[id].owner} # {})

\* Mutant: a name with three definitions no longer counts as specific.
BugPicks(db, q, ids) ==
    IF Len(ids) < 3 THEN Scored(ids, LAMBDA id : SpecificBoost)
    ELSE Scored(Else(Take(InNamedContext(db, ids, q.types), 4), Take(ids, 1)), LAMBDA id : GenericBoost)

\* All the definitions of a specific name; of an overloaded one those the
\* question places, or the most substantive.
Picks(db, q, ids) ==
    IF Len(ids) <= 3 THEN Scored(ids, LAMBDA id : SpecificBoost)
    ELSE Scored(Else(Take(InNamedContext(db, ids, q.types), 4), Take(ids, 1)), LAMBDA id : GenericBoost)

\* No further token is looked at once there are enough seeds.
Seeded(db, q, found, token) ==
    IF Len(found) >= MaxSeeds THEN found
    ELSE Extended(found, Picks(db, q, Candidates(db, q, token)), LAMBDA r : r.id)

SeedNamedSymbols(db, q) ==
    LET found[i \in 0 .. Len(q.symbols)] ==
            IF i = 0 THEN <<>> ELSE Seeded(db, q, found[i - 1], q.symbols[i])
    IN  found[Len(q.symbols)]
=============================================================================
