------------------------------ MODULE Handles ------------------------------
(***************************************************************************)
(* Handles (processes that each opened CodeGraph) on one SQLite database:  *)
(* the node cache of a handle's QueryBuilder (utils/cache.py,              *)
(* db/queries.py) and the summary claims (claims/overlay.py).  The first   *)
(* write of a transaction takes the database's write lock, a commit or the *)
(* end of the handle releases it.  No code rolls back: when a statement    *)
(* raises, what its transaction did stays with the connection, and the     *)
(* handle's next commit makes it durable.                                  *)
(***************************************************************************)
EXTENDS Integers, Sequences, FiniteSets

CONSTANTS
    Handle, NoHandle,
    Id, File, FileOf,        \* node ids and their files
    Version, NoRow,          \* what a node's row says
    MaxSize,                 \* of LRUCache
    Load, Span, Groundings   \* calls of load_claims, of each one of its claims

ASSUME HandlesAssumption ==
    /\ NoHandle \notin Handle
    /\ FileOf \in [Id -> File]
    /\ NoRow \notin Version
    /\ MaxSize \in Nat \ {0}
    /\ Groundings \in [Load -> SUBSET Span]

VARIABLES
    disk,    \* the committed database
    draft,   \* the database in the open transaction
    holder,  \* the handle whose transaction that is
    cache,   \* handle -> the rows it has cached
    older,   \* handle -> the pairs of cached ids, the one used earlier first
    step,    \* handle -> the claim operation it is in
    status,  \* load -> what became of it
    suspect  \* handle -> files whose rows changed without its cache being told

vars == <<disk, draft, holder, cache, older, step, status, suspect>>
cacheVars == <<cache, older, suspect>>
claimVars == <<step, status>>

Database ==
    [rows : [Id -> Version \cup {NoRow}], claims : SUBSET Load, spans : SUBSET (Load \X Span)]

EmptyDatabase == [rows |-> [id \in Id |-> NoRow], claims |-> {}, spans |-> {}]

Idle == <<"idle">>
EmptyCache == [id \in {} |-> NoRow]

Init ==
    /\ disk = EmptyDatabase /\ draft = EmptyDatabase
    /\ holder = NoHandle
    /\ cache = [h \in Handle |-> EmptyCache]
    /\ older = [h \in Handle |-> {}]
    /\ step = [h \in Handle |-> Idle]
    /\ status = [l \in Load |-> "new"]
    /\ suspect = [h \in Handle |-> {}]

\* A connection reads its own open transaction, or what is committed.
View(h) == IF holder = h THEN draft ELSE disk

CanWrite(h) == holder \in {NoHandle, h}

Write(h, db) == draft' = db /\ holder' = h /\ UNCHANGED disk

Commit(db) == disk' = db /\ draft' = db /\ holder' = NoHandle

(* The node cache *)

WithRow(c, id, row) == [i \in DOMAIN c \cup {id} |-> IF i = id THEN row ELSE c[i]]

Keep(c, S) == [i \in DOMAIN c \cap S |-> c[i]]

Remember(h, c) == cache' = [cache EXCEPT ![h] = c]

\* The ids in S, then id.
Last(h, S, id) ==
    older' = [older EXCEPT ![h] = (@ \cap (S \X S)) \cup (S \X {id})]

Oldest(h) == {id \in DOMAIN cache[h] : \A i \in DOMAIN cache[h] : <<i, id>> \notin older[h]}

\* get_node_by_id of a cached node, which moves to the end.
Hit(h, id) ==
    /\ step[h] = Idle
    /\ id \in DOMAIN cache[h]
    /\ Last(h, DOMAIN cache[h] \ {id}, id)
    /\ UNCHANGED <<disk, draft, holder, cache, suspect>> /\ UNCHANGED claimVars

\* get_node_by_id of a stored node: a full cache gives up the one that has not
\* been used for the longest time.
Miss(h, id) ==
    LET row == View(h).rows[id]
    IN  /\ step[h] = Idle
        /\ id \notin DOMAIN cache[h]
        /\ row # NoRow
        /\ \/ /\ Cardinality(DOMAIN cache[h]) < MaxSize
              /\ Remember(h, WithRow(cache[h], id, row))
              /\ Last(h, DOMAIN cache[h], id)
           \/ /\ Cardinality(DOMAIN cache[h]) >= MaxSize
              /\ \E old \in Oldest(h) :
                   /\ Remember(h, WithRow(Keep(cache[h], Id \ {old}), id, row))
                   /\ Last(h, DOMAIN cache[h] \ {old}, id)
        /\ UNCHANGED <<disk, draft, holder, suspect>> /\ UNCHANGED claimVars

NodesIn(fs) == {id \in Id : FileOf[id] \in fs}

\* Mutant: no cached node is dropped.
BugForget(h, fs) == Remember(h, cache[h]) /\ UNCHANGED older

\* invalidate_by_attr and invalidate_by_attr_in.
Forget(h, fs) ==
    LET kept == Id \ NodesIn(fs)
    IN  /\ Remember(h, Keep(cache[h], kept))
        /\ older' = [older EXCEPT ![h] = @ \cap (kept \X kept)]

WithoutFiles(db, fs) ==
    [db EXCEPT !.rows = [id \in Id |-> IF FileOf[id] \in fs THEN NoRow ELSE db.rows[id]]]

\* The files whose rows differ between two databases.
Changed(db, other) == {FileOf[id] : id \in {i \in Id : db.rows[i] # other.rows[i]}}

\* A commit changes rows behind the other handles' caches; the handle's own
\* cache knows what it has been told.
Suspect(h, new, told) ==
    suspect' = [k \in Handle |-> IF k = h THEN suspect[k] \ told
                                 ELSE suspect[k] \cup Changed(disk, new)]

\* delete_file and delete_files_batch: rows and cached nodes go, then the
\* search index is refreshed and the whole is committed.
DeleteFiles(h, fs) ==
    LET new == WithoutFiles(View(h), fs)
    IN  /\ step[h] = Idle /\ CanWrite(h)
        /\ Forget(h, fs)
        /\ Commit(new)
        /\ Suspect(h, new, fs)
        /\ UNCHANGED claimVars

\* after_nodes_changed or the commit raises.
DeleteRaisesLate(h, fs) ==
    /\ step[h] = Idle /\ CanWrite(h)
    /\ Forget(h, fs)
    /\ Write(h, WithoutFiles(View(h), fs))
    /\ suspect' = [suspect EXCEPT ![h] = @ \ fs]
    /\ UNCHANGED claimVars

\* A statement after the one that deletes the rows raises: the cache is never
\* told.
DeleteRaisesEarly(h, f) ==
    LET new == WithoutFiles(View(h), {f})
    IN  /\ step[h] = Idle /\ CanWrite(h)
        /\ new # View(h)
        /\ Write(h, new)
        /\ suspect' = [suspect EXCEPT ![h] = @ \cup {f}]
        /\ UNCHANGED <<cache, older>> /\ UNCHANGED claimVars

\* insert_nodes and bulk_insert: INSERT OR IGNORE of some nodes of a file.
WithNodes(db, ids, v) ==
    [db EXCEPT !.rows = [id \in Id |-> IF id \in ids /\ db.rows[id] = NoRow THEN v ELSE db.rows[id]]]

InsertNodes(h, f, v) ==
    /\ step[h] = Idle /\ CanWrite(h)
    /\ \E ids \in (SUBSET NodesIn({f})) \ {{}} :
         LET new == WithNodes(View(h), ids, v)
         IN  \/ Commit(new) /\ Suspect(h, new, {})
             \/ Write(h, new) /\ UNCHANGED suspect
    /\ UNCHANGED <<cache, older>> /\ UNCHANGED claimVars

\* clear_cache.
ClearCache(h) ==
    /\ step[h] = Idle
    /\ Remember(h, EmptyCache)
    /\ older' = [older EXCEPT ![h] = {}]
    /\ suspect' = [suspect EXCEPT ![h] = {}]
    /\ UNCHANGED <<disk, draft, holder>> /\ UNCHANGED claimVars

(* Claims *)

GoTo(h, s) == step' = [step EXCEPT ![h] = s]

\* Mutant: the claims are committed before their groundings are inserted.
BugInsertClaims(h, l) ==
    LET new == [View(h) EXCEPT !.claims = @ \cup {l}]
    IN  /\ step[h] = Idle /\ CanWrite(h)
        /\ status[l] = "new"
        /\ Commit(new)
        /\ Suspect(h, new, {})
        /\ GoTo(h, <<"load", l>>)
        /\ status' = [status EXCEPT ![l] = "loading"]
        /\ UNCHANGED <<cache, older>>

\* insert_claims, its first statement.
InsertClaims(h, l) ==
    /\ step[h] = Idle /\ CanWrite(h)
    /\ status[l] = "new"
    /\ Write(h, [View(h) EXCEPT !.claims = @ \cup {l}])
    /\ GoTo(h, <<"load", l>>)
    /\ status' = [status EXCEPT ![l] = "loading"]
    /\ UNCHANGED cacheVars

\* A claim of the load is refused: load_claims raises, the claims before that
\* one stay in the open transaction.
ClaimsRaise(h, l) ==
    /\ step[h] = Idle /\ CanWrite(h)
    /\ status[l] = "new"
    /\ \E kept \in SUBSET {l} : Write(h, [View(h) EXCEPT !.claims = @ \cup kept])
    /\ GoTo(h, Idle)
    /\ status' = [status EXCEPT ![l] = "failed"]
    /\ UNCHANGED cacheVars

InsertGroundings(h) ==
    \E l \in Load :
        LET new == [View(h) EXCEPT !.spans = @ \cup ({l} \X Groundings[l])]
        IN  /\ step[h] = <<"load", l>>
            /\ Commit(new)
            /\ Suspect(h, new, {})
            /\ GoTo(h, Idle)
            /\ status' = [status EXCEPT ![l] = "loaded"]
            /\ UNCHANGED <<cache, older>>

\* A grounding is refused or the commit raises: the claims and the groundings
\* before that one stay in the open transaction.
GroundingsRaise(h) ==
    \E l \in Load : \E kept \in SUBSET Groundings[l] :
        /\ step[h] = <<"load", l>>
        /\ Write(h, [View(h) EXCEPT !.spans = @ \cup ({l} \X kept)])
        /\ GoTo(h, Idle)
        /\ status' = [status EXCEPT ![l] = "failed"]
        /\ UNCHANGED cacheVars

\* delete_all_claims, its first statement.
DeleteGroundings(h) ==
    /\ step[h] = Idle /\ CanWrite(h)
    /\ Write(h, [View(h) EXCEPT !.spans = {}])
    /\ GoTo(h, <<"clear">>)
    /\ UNCHANGED cacheVars /\ UNCHANGED status

DeleteClaims(h) ==
    LET new == [View(h) EXCEPT !.claims = {}]
    IN  /\ step[h] = <<"clear">>
        /\ Commit(new)
        /\ Suspect(h, new, {})
        /\ status' = [l \in Load |-> IF l \in View(h).claims /\ status[l] = "loaded"
                                     THEN "cleared" ELSE status[l]]
        /\ GoTo(h, Idle)
        /\ UNCHANGED <<cache, older>>

\* The second statement or the commit raises: the open transaction has lost the
\* groundings, and its claims or not.
DeleteClaimsRaises(h) ==
    /\ step[h] = <<"clear">>
    /\ \E left \in {View(h).claims, {}} : Write(h, [View(h) EXCEPT !.claims = left])
    /\ status' = [l \in Load |-> IF status[l] = "loaded" THEN "torn" ELSE status[l]]
    /\ GoTo(h, Idle)
    /\ UNCHANGED cacheVars

\* search_claims_fts of the overlay reads claims and then their groundings, by
\* two statements that share no snapshot.
SearchClaims(h) ==
    /\ step[h] = Idle
    /\ \E found \in (SUBSET View(h).claims) \ {{}} : GoTo(h, <<"search", found>>)
    /\ UNCHANGED <<disk, draft, holder, status>> /\ UNCHANGED cacheVars

ReadGroundings(h) ==
    /\ step[h][1] = "search"
    /\ GoTo(h, <<"answer", [l \in step[h][2] |-> {s \in Span : <<l, s>> \in View(h).spans}]>>)
    /\ UNCHANGED <<disk, draft, holder, status>> /\ UNCHANGED cacheVars

Answer(h) ==
    /\ step[h][1] = "answer"
    /\ GoTo(h, Idle)
    /\ UNCHANGED <<disk, draft, holder, status>> /\ UNCHANGED cacheVars

-----------------------------------------------------------------------------

\* The process ends, at any moment, and another one opens the database.
Reopen(h) ==
    /\ IF holder = h THEN Commit(disk) ELSE UNCHANGED <<disk, draft, holder>>
    /\ Remember(h, EmptyCache)
    /\ older' = [older EXCEPT ![h] = {}]
    /\ suspect' = [suspect EXCEPT ![h] = {}]
    /\ GoTo(h, Idle)
    /\ status' = [l \in Load |-> IF step[h] = <<"load", l>> THEN "lost" ELSE status[l]]

CacheStep(h) ==
    \/ \E id \in Id : Hit(h, id) \/ Miss(h, id)
    \/ \E fs \in (SUBSET File) \ {{}} : DeleteFiles(h, fs) \/ DeleteRaisesLate(h, fs)
    \/ \E f \in File : DeleteRaisesEarly(h, f) \/ \E v \in Version : InsertNodes(h, f, v)
    \/ ClearCache(h)

ClaimStep(h) ==
    \/ \E l \in Load : InsertClaims(h, l) \/ ClaimsRaise(h, l)
    \/ InsertGroundings(h) \/ GroundingsRaise(h)
    \/ DeleteGroundings(h) \/ DeleteClaims(h) \/ DeleteClaimsRaises(h)
    \/ SearchClaims(h) \/ ReadGroundings(h) \/ Answer(h)

Next == \E h \in Handle : CacheStep(h) \/ ClaimStep(h) \/ Reopen(h)

Spec == Init /\ [][Next]_vars

-----------------------------------------------------------------------------

\* A cached node is the row the handle would read now, at any size of the
\* cache, unless its file is suspect: another handle committed a change to it,
\* or this handle's delete raised between the rows and the cache; and the
\* cache never outgrows its limit (LRUCache and its users in QueryBuilder).
CacheCoherent ==
    \A h \in Handle :
        /\ Cardinality(DOMAIN cache[h]) <= MaxSize
        /\ \A id \in DOMAIN cache[h] :
             FileOf[id] \notin suspect[h] => cache[h][id] = View(h).rows[id]

\* A claim is stored with all its groundings unless its load raised, which may
\* leave some of them, or a clear_claims raised, which may leave none; a search
\* reports it as it is stored, or without groundings where a clear met the
\* search; a load that returned is stored until a clear, and no grounding
\* outlives its claim, whatever the handles interleave and wherever one ends
\* (insert_claims, delete_all_claims and ClaimOverlay.search_claims_fts).
ClaimsGrounded ==
    /\ \A l \in Load :
         LET spans == {s \in Span : <<l, s>> \in disk.spans}
         IN  /\ l \in disk.claims => \/ spans = Groundings[l]
                                     \/ spans \subseteq Groundings[l] /\ status[l] = "failed"
                                     \/ spans = {} /\ status[l] = "torn"
             /\ l \notin disk.claims => spans = {}
             /\ status[l] = "loaded" => l \in disk.claims
    /\ \A h \in Handle : step[h][1] = "answer" =>
         \A l \in DOMAIN step[h][2] :
            \/ step[h][2][l] = Groundings[l]
            \/ step[h][2][l] \subseteq Groundings[l] /\ status[l] = "failed"
            \/ step[h][2][l] = {} /\ status[l] \in {"cleared", "torn"}
=============================================================================
