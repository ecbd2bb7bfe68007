--------------------------- MODULE HandlesProofs ---------------------------
(***************************************************************************)
(* For every set of handles, nodes and files and every size of the cache:  *)
(* the node cache stays within its limit and agrees with the database, and *)
(* the summary claims agree with their groundings.                         *)
(*                                                                         *)
(* CacheCoherent is inductive once two facts are at hand: the values have  *)
(* their types, and a handle that is between two statements of a write     *)
(* holds the write lock, so that the transaction it goes on with is its    *)
(* own.                                                                    *)
(***************************************************************************)
EXTENDS Handles, FiniteSetTheorems, TLAPS

Cached == UNION {[S -> Version] : S \in SUBSET Id}

Types ==
    /\ disk \in Database
    /\ draft \in Database
    /\ holder \in Handle \cup {NoHandle}
    /\ cache \in [Handle -> Cached]
    /\ suspect \in [Handle -> SUBSET File]
    /\ DOMAIN step = Handle

\* Between two statements of a write a handle holds the lock.
Writing(h) == (\E l \in Load : step[h] = <<"load", l>>) \/ step[h] = <<"clear">>

LockHeld == \A h \in Handle : Writing(h) => holder = h

Bounded == \A h \in Handle :
    IsFiniteSet(DOMAIN cache[h]) /\ Cardinality(DOMAIN cache[h]) <= MaxSize

Fresh(h) == \A id \in DOMAIN cache[h] :
    FileOf[id] \notin suspect[h] => cache[h][id] = View(h).rows[id]

IInv == Types /\ LockHeld /\ Bounded /\ \A h \in Handle : Fresh(h)

-----------------------------------------------------------------------------
(* Caches. *)

\* A cache with one more row.
LEMMA WithRowType ==
    ASSUME NEW c \in Cached, NEW id \in Id, NEW row \in Version
    PROVE  /\ WithRow(c, id, row) \in Cached
           /\ DOMAIN WithRow(c, id, row) = DOMAIN c \cup {id}
           /\ WithRow(c, id, row)[id] = row
           /\ \A i \in DOMAIN c \ {id} : WithRow(c, id, row)[i] = c[i]
<1>1. PICK S \in SUBSET Id : c \in [S -> Version]
  BY DEF Cached
<1>2. WithRow(c, id, row) \in [S \cup {id} -> Version]
  BY <1>1 DEF WithRow
<1>3. S \cup {id} \in SUBSET Id
  OBVIOUS
<1> QED
  BY <1>1, <1>2, <1>3 DEF WithRow, Cached

\* A cache without some rows.
LEMMA KeepType ==
    ASSUME NEW c \in Cached, NEW S
    PROVE  /\ Keep(c, S) \in Cached
           /\ DOMAIN Keep(c, S) = DOMAIN c \cap S
           /\ \A i \in DOMAIN c \cap S : Keep(c, S)[i] = c[i]
<1>1. PICK T \in SUBSET Id : c \in [T -> Version]
  BY DEF Cached
<1>2. Keep(c, S) \in [T \cap S -> Version]
  BY <1>1 DEF Keep
<1>3. T \cap S \in SUBSET Id
  OBVIOUS
<1> QED
  BY <1>1, <1>2, <1>3 DEF Keep, Cached

LEMMA EmptyCacheType == EmptyCache \in Cached /\ DOMAIN EmptyCache = {}
<1>1. EmptyCache \in [{} -> Version]
  BY DEF EmptyCache
<1>2. {} \in SUBSET Id
  OBVIOUS
<1> QED
  BY <1>1, <1>2 DEF Cached, EmptyCache

\* A full cache that gives up a member takes one more row and is no larger.
LEMMA Exchange ==
    ASSUME NEW D, IsFiniteSet(D), NEW old \in D, NEW id, id \notin D,
           NEW n \in Nat, Cardinality(D) <= n
    PROVE  IsFiniteSet((D \ {old}) \cup {id}) /\ Cardinality((D \ {old}) \cup {id}) <= n
<1>1. IsFiniteSet(D \ {old}) /\ Cardinality(D \ {old}) = Cardinality(D) - 1
  BY FS_RemoveElement
<1>2. /\ IsFiniteSet((D \ {old}) \cup {id})
      /\ Cardinality((D \ {old}) \cup {id}) = Cardinality(D \ {old}) + 1
  BY <1>1, FS_AddElement
<1>3. Cardinality(D) \in Nat
  BY FS_CardinalityType
<1> QED
  BY <1>1, <1>2, <1>3

\* Without some members it is no larger, either.
LEMMA Shrink ==
    ASSUME NEW D, IsFiniteSet(D), NEW S, NEW n \in Nat, Cardinality(D) <= n
    PROVE  IsFiniteSet(D \cap S) /\ Cardinality(D \cap S) <= n
<1>1. IsFiniteSet(D \cap S) /\ Cardinality(D \cap S) <= Cardinality(D)
  BY FS_Subset, D \cap S \subseteq D
<1>2. Cardinality(D) \in Nat /\ Cardinality(D \cap S) \in Nat
  BY <1>1, FS_CardinalityType
<1> QED
  BY <1>1, <1>2

-----------------------------------------------------------------------------
(* Databases. *)

LEMMA ViewType == ASSUME Types, NEW h \in Handle PROVE View(h) \in Database
BY DEF Types, View

LEMMA WithoutFilesType ==
    ASSUME NEW db \in Database, NEW fs
    PROVE  /\ WithoutFiles(db, fs) \in Database
           /\ \A id \in Id : FileOf[id] \notin fs => WithoutFiles(db, fs).rows[id] = db.rows[id]
BY DEF WithoutFiles, Database

LEMMA WithNodesType ==
    ASSUME NEW db \in Database, NEW ids, NEW v \in Version
    PROVE  /\ WithNodes(db, ids, v) \in Database
           /\ \A id \in Id : db.rows[id] \in Version => WithNodes(db, ids, v).rows[id] = db.rows[id]
BY HandlesAssumption DEF WithNodes, Database

\* Where two databases differ, the file counts as changed.
LEMMA Unchanged ==
    ASSUME NEW db, NEW other, NEW id \in Id, FileOf[id] \notin Changed(db, other)
    PROVE  db.rows[id] = other.rows[id]
BY DEF Changed

LEMMA ChangedType ==
    ASSUME NEW db, NEW other PROVE Changed(db, other) \subseteq File
BY HandlesAssumption DEF Changed

LEMMA SuspectType ==
    ASSUME Types, NEW h \in Handle, NEW new, NEW told, Suspect(h, new, told)
    PROVE  suspect' \in [Handle -> SUBSET File]
BY ChangedType DEF Types, Suspect

\* The cached ids are nodes, their rows versions.
LEMMA CachedRow ==
    ASSUME Types, NEW h \in Handle, NEW id \in DOMAIN cache[h]
    PROVE  id \in Id /\ cache[h][id] \in Version
<1>1. PICK S \in SUBSET Id : cache[h] \in [S -> Version]
  BY DEF Types, Cached
<1> QED
  BY <1>1

-----------------------------------------------------------------------------
(* What a write of h leaves of the other handles' caches. *)

LEMMA CommitOthers ==
    ASSUME Types, NEW h \in Handle, NEW k \in Handle, k # h, CanWrite(h),
           NEW new, NEW told, Commit(new), Suspect(h, new, told),
           cache'[k] = cache[k], Fresh(k)
    PROVE  Fresh(k)'
<1>1. View(k) = disk
  BY HandlesAssumption DEF View, CanWrite
<1>2. View(k)' = new
  BY HandlesAssumption DEF View, Commit
<1>3. suspect'[k] = suspect[k] \cup Changed(disk, new)
  BY DEF Suspect
<1> SUFFICES ASSUME NEW id \in DOMAIN cache[k], FileOf[id] \notin suspect'[k]
             PROVE  cache[k][id] = new.rows[id]
  BY <1>2 DEF Fresh
<1>4. id \in Id
  BY CachedRow
<1>5. disk.rows[id] = new.rows[id]
  BY <1>3, <1>4, Unchanged
<1>6. cache[k][id] = disk.rows[id]
  BY <1>1, <1>3 DEF Fresh
<1> QED
  BY <1>5, <1>6

LEMMA WriteOthers ==
    ASSUME NEW h \in Handle, NEW k \in Handle, k # h, CanWrite(h),
           NEW new, Write(h, new), cache'[k] = cache[k], suspect'[k] = suspect[k], Fresh(k)
    PROVE  Fresh(k)'
<1>1. View(k) = disk /\ View(k)' = disk
  BY HandlesAssumption DEF View, CanWrite, Write
<1> QED
  BY <1>1 DEF Fresh

LEMMA SameOthers ==
    ASSUME NEW k \in Handle, View(k)' = View(k), cache'[k] = cache[k],
           suspect'[k] = suspect[k], Fresh(k)
    PROVE  Fresh(k)'
BY DEF Fresh

\* The handle's own cache after it told it of the files fs.
LEMMA OwnForget ==
    ASSUME Types, NEW h \in Handle, NEW fs, Forget(h, fs), Fresh(h),
           View(h)' = WithoutFiles(View(h), fs), suspect'[h] = suspect[h] \ fs
    PROVE  Fresh(h)'
<1> DEFINE kept == Id \ NodesIn(fs)
<1>1. cache'[h] = Keep(cache[h], kept)
  BY DEF Forget, Remember, Types
<1>2. cache[h] \in Cached
  BY DEF Types
<1>a. /\ DOMAIN Keep(cache[h], kept) = DOMAIN cache[h] \cap kept
      /\ \A id \in DOMAIN cache[h] \cap kept : Keep(cache[h], kept)[id] = cache[h][id]
  BY <1>2, KeepType
<1> HIDE DEF kept
<1>3. /\ DOMAIN cache'[h] = DOMAIN cache[h] \cap kept
      /\ \A id \in DOMAIN cache[h] \cap kept : cache'[h][id] = cache[h][id]
  BY <1>1, <1>a
<1> USE DEF kept
<1> SUFFICES ASSUME NEW id \in DOMAIN cache[h] \cap kept, FileOf[id] \notin suspect[h] \ fs
             PROVE  cache[h][id] = WithoutFiles(View(h), fs).rows[id]
  BY <1>3 DEF Fresh
<1>4. id \in Id /\ FileOf[id] \notin fs
  BY DEF NodesIn
<1>5. WithoutFiles(View(h), fs).rows[id] = View(h).rows[id]
  BY <1>4, ViewType, WithoutFilesType
<1> QED
  BY <1>4, <1>5 DEF Fresh

LEMMA ForgetBounded ==
    ASSUME Types, Bounded, NEW h \in Handle, NEW fs, Forget(h, fs)
    PROVE  cache' \in [Handle -> Cached] /\ Bounded'
<1> DEFINE kept == Id \ NodesIn(fs)
<1>1. cache' = [cache EXCEPT ![h] = Keep(cache[h], kept)]
  BY DEF Forget, Remember
<1>2. Keep(cache[h], kept) \in Cached /\ DOMAIN Keep(cache[h], kept) = DOMAIN cache[h] \cap kept
  BY KeepType DEF Types
<1>3. IsFiniteSet(DOMAIN cache[h] \cap kept) /\ Cardinality(DOMAIN cache[h] \cap kept) <= MaxSize
  BY Shrink, HandlesAssumption DEF Bounded
<1>4. cache' \in [Handle -> Cached]
  BY <1>1, <1>2 DEF Types
<1>5. \A k \in Handle : cache'[k] = IF k = h THEN Keep(cache[h], kept) ELSE cache[k]
  BY <1>1 DEF Types
<1> QED
  BY <1>2, <1>3, <1>4, <1>5 DEF Bounded

-----------------------------------------------------------------------------
(* The steps of the cache. *)

LEMMA HitStep ==
    ASSUME IInv, NEW h \in Handle, NEW id \in Id, Hit(h, id)
    PROVE  IInv'
BY DEF IInv, Hit, claimVars, Types, LockHeld, Writing, Bounded, Fresh, View

\* A miss changes the handle's own cache only: c is its new content.
LEMMA MissKeeps ==
    ASSUME IInv, NEW h \in Handle, NEW id \in Id, Miss(h, id),
           NEW c \in Cached, cache' = [cache EXCEPT ![h] = c],
           IsFiniteSet(DOMAIN c), Cardinality(DOMAIN c) <= MaxSize,
           \A i \in DOMAIN c : \/ i = id /\ c[i] = View(h).rows[id]
                               \/ i \in DOMAIN cache[h] /\ c[i] = cache[h][i]
    PROVE  IInv'
<1> USE DEF IInv
<1>1. \A k \in Handle : cache'[k] = IF k = h THEN c ELSE cache[k]
  BY DEF Types
<1>2. \A k \in Handle : View(k)' = View(k) /\ suspect'[k] = suspect[k]
  BY DEF Miss, View
<1>3. Types'
  BY DEF Types, Miss, claimVars
<1>4. LockHeld'
  BY DEF LockHeld, Writing, Miss, claimVars
<1>5. Bounded'
  BY <1>1 DEF Bounded
<1>6. Fresh(h)'
  <2> SUFFICES ASSUME NEW i \in DOMAIN c, FileOf[i] \notin suspect[h]
               PROVE  c[i] = View(h).rows[i]
    BY <1>1, <1>2 DEF Fresh
  <2> QED
    BY DEF Fresh
<1>7. ASSUME NEW k \in Handle, k # h PROVE Fresh(k)'
  BY <1>1, <1>2, <1>7, SameOthers
<1> QED
  BY <1>3, <1>4, <1>5, <1>6, <1>7

\* The cache there is room in.
LEMMA MissWithRoom ==
    ASSUME IInv, NEW h \in Handle, NEW id \in Id, Miss(h, id), NEW c,
           c = WithRow(cache[h], id, View(h).rows[id]),
           cache' = [cache EXCEPT ![h] = c],
           Cardinality(DOMAIN cache[h]) < MaxSize
    PROVE  IInv'
<1>1. View(h).rows[id] \in Version
  BY ViewType DEF IInv, Miss, Database
<1>2. cache[h] \in Cached /\ id \notin DOMAIN cache[h]
  BY DEF IInv, Types, Miss
<1>3. /\ c \in Cached /\ DOMAIN c = DOMAIN cache[h] \cup {id}
      /\ c[id] = View(h).rows[id]
      /\ \A i \in DOMAIN cache[h] \ {id} : c[i] = cache[h][i]
  BY <1>1, <1>2, WithRowType, SMTT(30)
<1>4. IsFiniteSet(DOMAIN cache[h])
  BY DEF IInv, Bounded
<1>5. IsFiniteSet(DOMAIN c) /\ Cardinality(DOMAIN c) = Cardinality(DOMAIN cache[h]) + 1
  BY <1>2, <1>3, <1>4, FS_AddElement
<1>6. Cardinality(DOMAIN c) <= MaxSize
  BY <1>4, <1>5, FS_CardinalityType, HandlesAssumption
<1>7. \A i \in DOMAIN c : \/ i = id /\ c[i] = View(h).rows[id]
                          \/ i \in DOMAIN cache[h] /\ c[i] = cache[h][i]
  BY <1>3
<1> QED
  BY <1>3, <1>5, <1>6, <1>7, MissKeeps, ZenonT(60)

\* The full cache, which gives up a node.
LEMMA MissWhenFull ==
    ASSUME IInv, NEW h \in Handle, NEW id \in Id, Miss(h, id),
           NEW old \in DOMAIN cache[h], NEW c,
           c = WithRow(Keep(cache[h], Id \ {old}), id, View(h).rows[id]),
           cache' = [cache EXCEPT ![h] = c]
    PROVE  IInv'
<1>1. View(h).rows[id] \in Version
  BY ViewType DEF IInv, Miss, Database
<1>2. cache[h] \in Cached /\ id \notin DOMAIN cache[h]
  BY DEF IInv, Types, Miss
<1>3. /\ c \in Cached /\ DOMAIN c = (DOMAIN cache[h] \ {old}) \cup {id}
      /\ c[id] = View(h).rows[id]
      /\ \A i \in DOMAIN cache[h] \ {old} : c[i] = cache[h][i]
  <2> DEFINE less == Keep(cache[h], Id \ {old})
             row == View(h).rows[id]
  <2>1. PICK S \in SUBSET Id : cache[h] \in [S -> Version]
    BY <1>2 DEF Cached
  <2>2. less \in [S \ {old} -> Version] /\ \A i \in S \ {old} : less[i] = cache[h][i]
    BY <2>1 DEF Keep
  <2>3. c = WithRow(less, id, row) /\ row \in Version
    BY <1>1
  <2> HIDE DEF less, row
  <2>4. /\ WithRow(less, id, row) \in [(S \ {old}) \cup {id} -> Version]
        /\ WithRow(less, id, row)[id] = row
        /\ \A i \in S \ {old} : i # id => WithRow(less, id, row)[i] = less[i]
    BY <2>2, <2>3 DEF WithRow
  <2>5. (S \ {old}) \cup {id} \in SUBSET Id
    OBVIOUS
  <2>6. c \in [(S \ {old}) \cup {id} -> Version]
    BY <2>3, <2>4
  <2>7. c \in Cached
    BY <2>5, <2>6 DEF Cached
  <2>8. DOMAIN cache[h] = S
    BY <2>1
  <2>9. DOMAIN c = (DOMAIN cache[h] \ {old}) \cup {id}
    BY <2>6, <2>8
  <2>10. \A i \in DOMAIN cache[h] \ {old} : c[i] = cache[h][i]
    BY <1>2, <2>2, <2>3, <2>4, <2>8
  <2>11. c[id] = row
    BY <2>3, <2>4
  <2> QED
    BY <2>7, <2>9, <2>10, <2>11 DEF row
<1>4. IsFiniteSet(DOMAIN cache[h]) /\ Cardinality(DOMAIN cache[h]) <= MaxSize /\ MaxSize \in Nat
  BY HandlesAssumption DEF IInv, Bounded
<1>5. IsFiniteSet(DOMAIN c) /\ Cardinality(DOMAIN c) <= MaxSize
  BY <1>2, <1>3, <1>4, Exchange
<1>6. \A i \in DOMAIN c : \/ i = id /\ c[i] = View(h).rows[id]
                          \/ i \in DOMAIN cache[h] /\ c[i] = cache[h][i]
  BY <1>3
<1> QED
  BY <1>3, <1>5, <1>6, MissKeeps, ZenonT(60)

LEMMA MissStep ==
    ASSUME IInv, NEW h \in Handle, NEW id \in Id, Miss(h, id)
    PROVE  IInv'
<1>1. CASE /\ Cardinality(DOMAIN cache[h]) < MaxSize
           /\ Remember(h, WithRow(cache[h], id, View(h).rows[id]))
  BY <1>1, MissWithRoom DEF Remember
<1>2. CASE \E old \in Oldest(h) :
              Remember(h, WithRow(Keep(cache[h], Id \ {old}), id, View(h).rows[id]))
  BY <1>2, MissWhenFull DEF Remember, Oldest
<1> QED
  BY <1>1, <1>2 DEF Miss

LEMMA DeleteStep ==
    ASSUME IInv, NEW h \in Handle, NEW fs \in SUBSET File,
           DeleteFiles(h, fs) \/ DeleteRaisesLate(h, fs)
    PROVE  IInv'
<1> DEFINE new == WithoutFiles(View(h), fs)
<1> USE DEF IInv
<1>1. new \in Database
  BY ViewType, WithoutFilesType
<1>2. Forget(h, fs) /\ CanWrite(h) /\ step[h] = Idle /\ UNCHANGED claimVars
  BY DEF DeleteFiles, DeleteRaisesLate
<1>3. cache' \in [Handle -> Cached] /\ Bounded'
  BY <1>2, ForgetBounded
<1>4. \A k \in Handle : k # h => cache'[k] = cache[k]
  BY <1>2 DEF Forget, Remember, Types
<1>5. CASE DeleteFiles(h, fs)
  <2>1. Commit(new) /\ Suspect(h, new, fs)
    BY <1>5 DEF DeleteFiles
  <2>2. Types'
    BY <1>1, <1>2, <1>3, <2>1, SuspectType DEF Types, Commit, claimVars
  <2>3. LockHeld'
    BY <1>2, HandlesAssumption DEF LockHeld, Writing, CanWrite, claimVars, Idle
  <2>4. View(h)' = new /\ suspect'[h] = suspect[h] \ fs
    BY <2>1, HandlesAssumption DEF View, Commit, Suspect
  <2>5. Fresh(h)'
    BY <1>2, <2>4, OwnForget
  <2>6. ASSUME NEW k \in Handle, k # h PROVE Fresh(k)'
    BY <1>2, <1>4, <2>1, <2>6, CommitOthers
  <2> QED
    BY <1>3, <2>2, <2>3, <2>5, <2>6
<1>6. CASE DeleteRaisesLate(h, fs)
  <2>1. Write(h, new) /\ suspect' = [suspect EXCEPT ![h] = @ \ fs]
    BY <1>6 DEF DeleteRaisesLate
  <2>2. Types'
    BY <1>1, <1>2, <1>3, <2>1 DEF Types, Write, claimVars
  <2>3. LockHeld'
    BY <1>2, HandlesAssumption DEF LockHeld, Writing, CanWrite, claimVars, Idle
  <2>4. View(h)' = new /\ suspect'[h] = suspect[h] \ fs
    BY <2>1 DEF View, Write, Types
  <2>5. Fresh(h)'
    BY <1>2, <2>4, OwnForget
  <2>6. ASSUME NEW k \in Handle, k # h PROVE Fresh(k)'
    BY <1>2, <1>4, <2>1, <2>6, WriteOthers DEF Types
  <2> QED
    BY <1>3, <2>2, <2>3, <2>5, <2>6
<1> QED
  BY <1>5, <1>6

\* The handle's own cache when its write touched no cached row it answers for.
LEMMA OwnKept ==
    ASSUME NEW h \in Handle, NEW new, View(h)' = new, cache'[h] = cache[h], Fresh(h),
           suspect[h] \subseteq suspect'[h],
           \A id \in DOMAIN cache[h] : FileOf[id] \notin suspect'[h] =>
               new.rows[id] = View(h).rows[id]
    PROVE  Fresh(h)'
BY DEF Fresh

\* A write or a commit of new by h that leaves every cache alone.
LEMMA CachesKept ==
    ASSUME IInv, NEW h \in Handle, CanWrite(h), NEW new \in Database,
           UNCHANGED cache, DOMAIN step' = Handle, LockHeld', suspect[h] \subseteq suspect'[h],
           \/ Commit(new) /\ Suspect(h, new, {})
           \/ /\ Write(h, new) /\ suspect' \in [Handle -> SUBSET File]
              /\ \A k \in Handle : k # h => suspect'[k] = suspect[k],
           \A id \in DOMAIN cache[h] : FileOf[id] \notin suspect'[h] =>
               new.rows[id] = View(h).rows[id]
    PROVE  IInv'
<1>1. Types /\ \A k \in Handle : Fresh(k) /\ cache'[k] = cache[k]
  BY DEF IInv
<1>2. Bounded'
  BY DEF IInv, Bounded
<1>3. CASE Commit(new) /\ Suspect(h, new, {})
  <2>1. Types'
    BY <1>1, <1>3, SuspectType DEF Types, Commit
  <2>2. View(h)' = new
    BY <1>3, HandlesAssumption DEF View, Commit
  <2>3. Fresh(h)'
    BY <1>1, <2>2, OwnKept
  <2>4. ASSUME NEW k \in Handle, k # h PROVE Fresh(k)'
    BY <1>1, <1>3, <2>4, CommitOthers
  <2> QED
    BY <1>2, <2>1, <2>3, <2>4 DEF IInv
<1>4. CASE /\ Write(h, new) /\ suspect' \in [Handle -> SUBSET File]
           /\ \A k \in Handle : k # h => suspect'[k] = suspect[k]
  <2>1. Types'
    BY <1>1, <1>4 DEF Types, Write
  <2>2. View(h)' = new
    BY <1>4 DEF View, Write
  <2>3. Fresh(h)'
    BY <1>1, <2>2, OwnKept
  <2>4. ASSUME NEW k \in Handle, k # h PROVE Fresh(k)'
    BY <1>1, <1>4, <2>4, WriteOthers
  <2> QED
    BY <1>2, <2>1, <2>3, <2>4 DEF IInv
<1> QED
  BY <1>3, <1>4

LEMMA DeleteRaisesEarlyStep ==
    ASSUME IInv, NEW h \in Handle, NEW f \in File, DeleteRaisesEarly(h, f)
    PROVE  IInv'
<1> DEFINE new == WithoutFiles(View(h), {f})
<1>1. Types /\ new \in Database
  BY ViewType, WithoutFilesType DEF IInv
<1>2. CanWrite(h) /\ Write(h, new) /\ UNCHANGED cache /\ step' = step /\ step[h] = Idle
  BY DEF DeleteRaisesEarly, claimVars
<1>3. suspect' = [suspect EXCEPT ![h] = @ \cup {f}]
  BY DEF DeleteRaisesEarly
<1>4. /\ suspect' \in [Handle -> SUBSET File] /\ suspect[h] \subseteq suspect'[h]
      /\ f \in suspect'[h] /\ \A k \in Handle : k # h => suspect'[k] = suspect[k]
  BY <1>1, <1>3 DEF Types
<1>5. LockHeld'
  BY <1>2, HandlesAssumption DEF IInv, LockHeld, Writing, CanWrite, Write, Idle
<1>6. DOMAIN step' = Handle
  BY <1>1, <1>2 DEF Types
<1>7. ASSUME NEW id \in DOMAIN cache[h], FileOf[id] \notin suspect'[h]
      PROVE  new.rows[id] = View(h).rows[id]
  <2>1. id \in Id
    BY <1>1, CachedRow
  <2>2. FileOf[id] \notin {f}
    BY <1>4, <1>7
  <2> QED
    BY <1>1, <2>1, <2>2, ViewType, WithoutFilesType
<1> HIDE DEF new
<1> QED
  BY <1>1, <1>2, <1>4, <1>5, <1>6, <1>7, CachesKept

\* INSERT OR IGNORE leaves the rows there are.
LEMMA InsertNodesStep ==
    ASSUME IInv, NEW h \in Handle, NEW f \in File, NEW v \in Version, InsertNodes(h, f, v)
    PROVE  IInv'
<1>1. Types
  BY DEF IInv
<1>2. CanWrite(h) /\ UNCHANGED cache /\ step' = step /\ step[h] = Idle
  BY DEF InsertNodes, claimVars
<1>3. PICK new : \E ids :
        /\ new = WithNodes(View(h), ids, v)
        /\ \/ Commit(new) /\ Suspect(h, new, {})
           \/ Write(h, new) /\ UNCHANGED suspect
  BY DEF InsertNodes
<1>4. new \in Database
  BY <1>1, <1>3, ViewType, WithNodesType
<1>5. LockHeld'
  BY <1>2, <1>3, HandlesAssumption DEF IInv, LockHeld, Writing, CanWrite, Write, Idle
<1>6. suspect[h] \subseteq suspect'[h]
  BY <1>3 DEF Suspect
<1>7. UNCHANGED suspect => /\ suspect' \in [Handle -> SUBSET File]
                           /\ \A k \in Handle : suspect'[k] = suspect[k]
  BY <1>1 DEF Types
<1>8. DOMAIN step' = Handle
  BY <1>1, <1>2 DEF Types
<1>9. ASSUME NEW id \in DOMAIN cache[h], FileOf[id] \notin suspect'[h]
      PROVE  new.rows[id] = View(h).rows[id]
  <2>1. id \in Id /\ cache[h][id] \in Version
    BY <1>1, CachedRow
  <2>2. View(h).rows[id] \in Version
    BY <1>6, <1>9, <2>1 DEF IInv, Fresh
  <2> QED
    BY <1>1, <1>3, <2>1, <2>2, ViewType, WithNodesType
<1> QED
  BY <1>2, <1>3, <1>4, <1>5, <1>6, <1>7, <1>8, <1>9, CachesKept

LEMMA ClearCacheStep ==
    ASSUME IInv, NEW h \in Handle, ClearCache(h)
    PROVE  IInv'
<1> USE DEF IInv
<1>1. /\ cache' = [cache EXCEPT ![h] = EmptyCache]
      /\ suspect' = [suspect EXCEPT ![h] = {}]
      /\ UNCHANGED <<disk, draft, holder, step>>
  BY DEF ClearCache, Remember, claimVars
<1>2. EmptyCache \in Cached /\ DOMAIN EmptyCache = {}
  BY EmptyCacheType
<1>3. Types'
  BY <1>1, <1>2 DEF Types
<1>4. LockHeld'
  BY <1>1 DEF LockHeld, Writing
<1>5. \A k \in Handle : cache'[k] = IF k = h THEN EmptyCache ELSE cache[k]
  BY <1>1 DEF Types
<1>6. IsFiniteSet({}) /\ Cardinality({}) <= MaxSize
  BY FS_EmptySet, HandlesAssumption
<1>7. Bounded'
  BY <1>2, <1>5, <1>6 DEF Bounded
<1>8. ASSUME NEW k \in Handle PROVE Fresh(k)'
  <2>1. View(k)' = View(k)
    BY <1>1 DEF View
  <2>2. k # h => suspect'[k] = suspect[k]
    BY <1>1 DEF Types
  <2> QED
    BY <1>2, <1>5, <2>1, <2>2 DEF Fresh
<1> QED
  BY <1>3, <1>4, <1>7, <1>8

-----------------------------------------------------------------------------
(* The steps of the claims: no row changes. *)

LEMMA ClaimWriteStep ==
    ASSUME IInv, NEW h \in Handle,
           \/ \E l \in Load : InsertClaims(h, l) \/ ClaimsRaise(h, l)
           \/ GroundingsRaise(h) \/ DeleteGroundings(h) \/ DeleteClaimsRaises(h)
    PROVE  IInv'
<1>1. Types
  BY DEF IInv
<1>2. PICK new \in Database : new.rows = View(h).rows /\ Write(h, new)
  <2>1. CASE \E l \in Load : InsertClaims(h, l)
    <3>1. PICK l \in Load : Write(h, [View(h) EXCEPT !.claims = @ \cup {l}])
      BY <2>1 DEF InsertClaims
    <3> QED
      BY <1>1, <3>1, ViewType DEF Database
  <2>2. CASE DeleteGroundings(h)
    <3>1. Write(h, [View(h) EXCEPT !.spans = {}])
      BY <2>2 DEF DeleteGroundings
    <3> QED
      BY <1>1, <3>1, ViewType DEF Database
  <2>3. CASE \E l \in Load : ClaimsRaise(h, l)
    <3>1. PICK l \in Load : \E kept \in SUBSET {l} : Write(h, [View(h) EXCEPT !.claims = @ \cup kept])
      BY <2>3 DEF ClaimsRaise
    <3> QED
      BY <1>1, <3>1, ViewType DEF Database
  <2>4. CASE GroundingsRaise(h)
    <3>1. PICK l \in Load : \E kept \in SUBSET Groundings[l] :
             Write(h, [View(h) EXCEPT !.spans = @ \cup ({l} \X kept)])
      BY <2>4 DEF GroundingsRaise
    <3>2. PICK kept \in SUBSET Groundings[l] : Write(h, [View(h) EXCEPT !.spans = @ \cup ({l} \X kept)])
      BY <3>1
    <3>3. {l} \X kept \subseteq Load \X Span
      BY HandlesAssumption
    <3> QED
      BY <1>1, <3>2, <3>3, ViewType DEF Database
  <2>5. CASE DeleteClaimsRaises(h)
    <3>1. PICK left \in {View(h).claims, {}} : Write(h, [View(h) EXCEPT !.claims = left])
      BY <2>5 DEF DeleteClaimsRaises
    <3> QED
      BY <1>1, <3>1, ViewType DEF Database
  <2> QED
    BY <2>1, <2>2, <2>3, <2>4, <2>5
<1>3. CanWrite(h) /\ UNCHANGED <<cache, suspect>>
  <2>1. UNCHANGED <<cache, suspect>>
    BY DEF InsertClaims, ClaimsRaise, GroundingsRaise, DeleteGroundings, DeleteClaimsRaises, cacheVars
  <2>2. CanWrite(h) \/ Writing(h)
    BY DEF InsertClaims, ClaimsRaise, GroundingsRaise, DeleteGroundings, DeleteClaimsRaises, Writing
  <2> QED
    BY <2>1, <2>2 DEF IInv, LockHeld, CanWrite
<1>4. PICK s : step' = [step EXCEPT ![h] = s]
  BY DEF InsertClaims, ClaimsRaise, GroundingsRaise, DeleteGroundings, DeleteClaimsRaises, GoTo
<1>5. DOMAIN step' = Handle /\ \A k \in Handle : k # h => step'[k] = step[k]
  BY <1>1, <1>4 DEF Types
<1>6. LockHeld'
  BY <1>2, <1>3, <1>5, HandlesAssumption DEF IInv, LockHeld, Writing, CanWrite, Write
<1>7. /\ suspect' \in [Handle -> SUBSET File]
      /\ \A k \in Handle : suspect'[k] = suspect[k]
  BY <1>1, <1>3 DEF Types
<1> QED
  BY <1>2, <1>3, <1>5, <1>6, <1>7, CachesKept

\* The second statement of a write: the lock is the handle's, so that what it
\* commits is its own transaction.
LEMMA ClaimCommitStep ==
    ASSUME IInv, NEW h \in Handle, InsertGroundings(h) \/ DeleteClaims(h)
    PROVE  IInv'
<1>1. Types
  BY DEF IInv
<1>2. PICK new \in Database : new.rows = View(h).rows /\ Commit(new) /\ Suspect(h, new, {})
  <2>1. CASE InsertGroundings(h)
    <3>1. PICK l \in Load :
            LET new == [View(h) EXCEPT !.spans = @ \cup ({l} \X Groundings[l])]
            IN  Commit(new) /\ Suspect(h, new, {})
      BY <2>1 DEF InsertGroundings
    <3>2. {l} \X Groundings[l] \subseteq Load \X Span
      BY HandlesAssumption
    <3> QED
      BY <1>1, <3>1, <3>2, ViewType DEF Database
  <2>2. CASE DeleteClaims(h)
    <3>1. LET new == [View(h) EXCEPT !.claims = {}]
          IN  Commit(new) /\ Suspect(h, new, {})
      BY <2>2 DEF DeleteClaims
    <3> QED
      BY <1>1, <3>1, ViewType DEF Database
  <2> QED
    BY <2>1, <2>2
<1>3. Writing(h) /\ UNCHANGED cache
  BY DEF InsertGroundings, DeleteClaims, Writing
<1>4. holder = h /\ CanWrite(h)
  BY <1>3 DEF IInv, LockHeld, CanWrite
<1>5. step' = [step EXCEPT ![h] = Idle]
  BY DEF InsertGroundings, DeleteClaims, GoTo
<1>6. DOMAIN step' = Handle /\ step'[h] = Idle /\ \A k \in Handle : k # h => step'[k] = step[k]
  BY <1>1, <1>5 DEF Types
<1>7. \A k \in Handle : k # h => ~Writing(k)
  BY <1>4 DEF IInv, LockHeld
<1>8. LockHeld'
  <2> SUFFICES ASSUME NEW k \in Handle, Writing(k)' PROVE FALSE
    BY DEF LockHeld
  <2>1. CASE k = h
    BY <1>6, <2>1 DEF Writing, Idle
  <2>2. CASE k # h
    BY <1>6, <1>7, <2>2 DEF Writing
  <2> QED
    BY <2>1, <2>2
<1>9. suspect[h] \subseteq suspect'[h]
  BY <1>2 DEF Suspect
<1> QED
  BY <1>2, <1>3, <1>4, <1>6, <1>8, <1>9, CachesKept

\* Reads.
LEMMA ClaimReadStep ==
    ASSUME IInv, NEW h \in Handle,
           SearchClaims(h) \/ ReadGroundings(h) \/ Answer(h)
    PROVE  IInv'
<1>1. UNCHANGED <<disk, draft, holder, cache, suspect>>
  BY DEF SearchClaims, ReadGroundings, Answer, cacheVars
<1>2. PICK s : step' = [step EXCEPT ![h] = s] /\ s # <<"clear">> /\ \A l \in Load : s # <<"load", l>>
  <2>1. CASE Answer(h)
    <3>1. step' = [step EXCEPT ![h] = Idle]
      BY <2>1 DEF Answer, GoTo
    <3>2. Idle # <<"clear">> /\ \A l \in Load : Idle # <<"load", l>>
      BY DEF Idle
    <3> QED
      BY <3>1, <3>2
  <2>2. CASE SearchClaims(h)
    BY <2>2 DEF SearchClaims, GoTo
  <2>3. CASE ReadGroundings(h)
    <3>1. PICK answer : step' = [step EXCEPT ![h] = <<"answer", answer>>]
      BY <2>3 DEF ReadGroundings, GoTo
    <3>2. /\ <<"answer", answer>> # <<"clear">>
          /\ \A l \in Load : <<"answer", answer>> # <<"load", l>>
      OBVIOUS
    <3> QED
      BY <3>1, <3>2
  <2> QED
    BY <2>1, <2>2, <2>3
<1>3. DOMAIN step' = Handle /\ step'[h] = s /\ \A k \in Handle : k # h => step'[k] = step[k]
  BY <1>2 DEF IInv, Types
<1>4. Types'
  BY <1>1, <1>3 DEF IInv, Types
<1>5. LockHeld'
  BY <1>1, <1>2, <1>3 DEF IInv, LockHeld, Writing
<1>6. Bounded' /\ \A k \in Handle : Fresh(k)'
  BY <1>1 DEF IInv, Bounded, Fresh, View
<1> QED
  BY <1>4, <1>5, <1>6 DEF IInv

\* The end of a handle, whose open transaction is gone.
LEMMA ReopenStep ==
    ASSUME IInv, NEW h \in Handle, Reopen(h)
    PROVE  IInv'
<1> USE DEF IInv
<1>1. /\ cache' = [cache EXCEPT ![h] = EmptyCache]
      /\ suspect' = [suspect EXCEPT ![h] = {}]
      /\ step' = [step EXCEPT ![h] = Idle]
      /\ IF holder = h THEN Commit(disk) ELSE UNCHANGED <<disk, draft, holder>>
  BY DEF Reopen, Remember, GoTo
<1>2. EmptyCache \in Cached /\ DOMAIN EmptyCache = {}
  BY EmptyCacheType
<1>3. Types'
  BY <1>1, <1>2 DEF Types, Commit
<1>4. DOMAIN step' = Handle /\ step'[h] = Idle /\ \A k \in Handle : k # h => step'[k] = step[k]
  BY <1>1 DEF Types
<1>5. LockHeld'
  BY <1>1, <1>4 DEF LockHeld, Writing, Commit, Idle
<1>6. \A k \in Handle : cache'[k] = IF k = h THEN EmptyCache ELSE cache[k]
  BY <1>1 DEF Types
<1>7. IsFiniteSet({}) /\ Cardinality({}) <= MaxSize
  BY FS_EmptySet, HandlesAssumption
<1>8. Bounded'
  BY <1>2, <1>6, <1>7 DEF Bounded
<1>9. Fresh(h)'
  BY <1>2, <1>6 DEF Fresh
<1>10. ASSUME NEW k \in Handle, k # h PROVE Fresh(k)'
  <2>1. suspect'[k] = suspect[k] /\ cache'[k] = cache[k]
    BY <1>1, <1>6, <1>10 DEF Types
  <2>2. CASE holder = h
    <3>1. View(k) = disk /\ View(k)' = disk
      BY <1>1, <1>10, <2>2, HandlesAssumption DEF View, Commit
    <3> QED
      BY <2>1, <3>1, SameOthers
  <2>3. CASE holder # h
    <3>1. disk' = disk /\ draft' = draft /\ holder' = holder
      BY <1>1, <2>3
    <3>2. View(k)' = View(k)
      BY <3>1 DEF View
    <3> QED
      BY <2>1, <3>2, SameOthers
  <2> QED
    BY <2>2, <2>3
<1> QED
  BY <1>3, <1>5, <1>8, <1>9, <1>10

-----------------------------------------------------------------------------

LEMMA InitIInv == Init => IInv
<1> SUFFICES ASSUME Init PROVE IInv
  OBVIOUS
<1>1. EmptyDatabase \in Database
  BY DEF EmptyDatabase, Database
<1>2. EmptyCache \in Cached /\ DOMAIN EmptyCache = {}
  BY EmptyCacheType
<1>3. IsFiniteSet({}) /\ Cardinality({}) <= MaxSize
  BY FS_EmptySet, HandlesAssumption
<1>4. Types
  BY <1>1, <1>2 DEF Init, Types
<1>5. LockHeld
  BY DEF Init, LockHeld, Writing, Idle
<1>6. Bounded /\ \A h \in Handle : Fresh(h)
  BY <1>2, <1>3 DEF Init, Bounded, Fresh
<1> QED
  BY <1>4, <1>5, <1>6 DEF IInv

LEMMA NextIInv == IInv /\ [Next]_vars => IInv'
<1> SUFFICES ASSUME IInv, [Next]_vars PROVE IInv'
  OBVIOUS
<1>1. CASE UNCHANGED vars
  BY <1>1 DEF vars, IInv, Types, LockHeld, Writing, Bounded, Fresh, View
<1>2. ASSUME NEW h \in Handle, CacheStep(h) PROVE IInv'
  <2>1. CASE \E id \in Id : Hit(h, id) \/ Miss(h, id)
    BY <2>1, HitStep, MissStep
  <2>2. CASE \E fs \in SUBSET File : DeleteFiles(h, fs) \/ DeleteRaisesLate(h, fs)
    BY <2>2, DeleteStep
  <2>3. CASE \E f \in File : DeleteRaisesEarly(h, f)
    BY <2>3, DeleteRaisesEarlyStep
  <2>4. CASE \E f \in File, v \in Version : InsertNodes(h, f, v)
    BY <2>4, InsertNodesStep
  <2>5. CASE ClearCache(h)
    BY <2>5, ClearCacheStep
  <2> QED
    BY <1>2, <2>1, <2>2, <2>3, <2>4, <2>5 DEF CacheStep
<1>3. ASSUME NEW h \in Handle, ClaimStep(h) PROVE IInv'
  BY <1>3, ClaimWriteStep, ClaimCommitStep, ClaimReadStep DEF ClaimStep
<1> QED
  BY <1>1, <1>2, <1>3, ReopenStep DEF Next

\* Every node a cache holds is the row its handle would read now, unless its
\* file is suspect, and no cache outgrows its limit: get_node_by_id never
\* serves a node its own handle deleted (LRUCache and QueryBuilder).
THEOREM CacheCoherence == Spec => []CacheCoherent
<1>1. IInv => CacheCoherent
  BY DEF IInv, CacheCoherent, Bounded, Fresh
<1> QED
  BY InitIInv, NextIInv, <1>1, PTL DEF Spec

-----------------------------------------------------------------------------
(***************************************************************************)
(* For every set of loads too: claims are stored with all their            *)
(* groundings, and a search reports them so (claims/overlay.py).           *)
(*                                                                         *)
(* What the property says of the committed database must be known of the   *)
(* open transaction too, because any commit of its handle makes it         *)
(* durable: it is as settled as the database, except for the load or the   *)
(* clear that the lock's holder is in the middle of.                       *)
(***************************************************************************)

SpansOf(db, l) == {s \in Span : <<l, s>> \in db.spans}

\* What a database says of load l, whose status is st: it is stored whole, or
\* with some groundings because it raised, or without any because a clear
\* raised, or not.
Settled(db, l, st) ==
    \/ l \in db.claims /\ SpansOf(db, l) = Groundings[l] /\ st \in {"loaded", "torn"}
    \/ l \in db.claims /\ SpansOf(db, l) \subseteq Groundings[l] /\ st = "failed"
    \/ l \in db.claims /\ SpansOf(db, l) = {} /\ st = "torn"
    \/ l \notin db.claims /\ SpansOf(db, l) = {} /\ st # "loaded"

Loading(h, l) == step[h] = <<"load", l>>

Clearing(h) == step[h] = <<"clear">>

Answers == UNION {[S -> SUBSET Span] : S \in SUBSET Load}

StepType ==
    \A h \in Handle :
        \/ step[h] = Idle \/ Clearing(h)
        \/ \E l \in Load : Loading(h, l)
        \/ \E found \in SUBSET Load : step[h] = <<"search", found>>
        \/ \E answer \in Answers : step[h] = <<"answer", answer>>

StatusType == status \in [Load -> {"new", "loading", "loaded", "failed", "cleared", "torn", "lost"}]

DiskSettled == \A l \in Load : Settled(disk, l, status[l])

DraftSettled == \A l \in Load :
    Settled(draft, l, status[l]) \/ \E h \in Handle : Loading(h, l) \/ Clearing(h)

LoadsPending == \A h \in Handle, l \in Load :
    Loading(h, l) => status[l] = "loading" /\ l \in draft.claims /\ SpansOf(draft, l) = {}

ClearsPending == \A h \in Handle :
    Clearing(h) =>
        /\ draft.spans = {}
        /\ \A l \in Load :
              /\ status[l] = "loaded" => l \in draft.claims
              /\ l \in draft.claims => status[l] \in {"loaded", "failed", "torn"}

Past == {"loaded", "failed", "cleared", "torn"}

SearchesSound == \A h \in Handle, found \in SUBSET Load :
    step[h] = <<"search", found>> => \A l \in found : status[l] \in Past

\* What a search may report of a claim.
Reported(spans, l, st) ==
    \/ spans = Groundings[l]
    \/ spans \subseteq Groundings[l] /\ st = "failed"
    \/ spans = {} /\ st \in {"cleared", "torn"}

AnswersSound == \A h \in Handle, answer \in Answers :
    step[h] = <<"answer", answer>> => \A l \in DOMAIN answer : Reported(answer[l], l, status[l])

CInv ==
    /\ StepType /\ StatusType
    /\ DiskSettled /\ DraftSettled
    /\ LoadsPending /\ ClearsPending
    /\ SearchesSound /\ AnswersSound

-----------------------------------------------------------------------------

\* A handle that may write and is in no write is not alone in that: nobody is.
LEMMA NobodyWrites ==
    ASSUME IInv, NEW h \in Handle, CanWrite(h), ~Writing(h)
    PROVE  \A k \in Handle : ~Writing(k)
BY HandlesAssumption DEF IInv, LockHeld, CanWrite

LEMMA WritingIs ==
    ASSUME NEW h \in Handle
    PROVE  Writing(h) <=> Clearing(h) \/ \E l \in Load : Loading(h, l)
BY DEF Writing, Clearing, Loading

\* What a handle between two operations reads is settled.
LEMMA ViewSettled ==
    ASSUME IInv, CInv, NEW h \in Handle, ~Writing(h), NEW l \in Load
    PROVE  Settled(View(h), l, status[l])
<1>1. CASE holder = h
  <2>1. \A k \in Handle : ~Writing(k)
    BY <1>1 DEF IInv, LockHeld
  <2>2. Settled(draft, l, status[l])
    BY <2>1, WritingIs DEF CInv, DraftSettled
  <2> QED
    BY <1>1, <2>2 DEF View
<1>2. CASE holder # h
  BY <1>2 DEF View, CInv, DiskSettled
<1> QED
  BY <1>1, <1>2

\* Searches in progress and their answers stay sound while statuses only
\* move on and no other search is begun.
LEMMA SearchesKept ==
    ASSUME IInv, CInv, NEW h \in Handle, NEW s, step' = [step EXCEPT ![h] = s],
           s = Idle \/ s = <<"clear">> \/ \E l \in Load : s = <<"load", l>>,
           \A l \in Load : status[l] \in Past => status'[l] \in Past,
           \A l \in Load : status[l] \in {"failed", "cleared", "torn"} => status'[l] = status[l]
    PROVE  StepType' /\ SearchesSound' /\ AnswersSound'
<1>1. \A k \in Handle : step'[k] = IF k = h THEN s ELSE step[k]
  BY DEF IInv, Types
<1>2. StepType'
  BY <1>1 DEF CInv, StepType, Clearing, Loading
<1>3. \A x : s # <<"search", x>> /\ s # <<"answer", x>>
  BY DEF Idle
<1>4. SearchesSound'
  <2> SUFFICES ASSUME NEW k \in Handle, NEW found \in SUBSET Load,
                      step'[k] = <<"search", found>>, NEW l \in found
               PROVE  status'[l] \in Past
    BY DEF SearchesSound
  <2>1. step[k] = <<"search", found>>
    BY <1>1, <1>3
  <2> QED
    BY <2>1 DEF CInv, SearchesSound
<1>5. AnswersSound'
  <2> SUFFICES ASSUME NEW k \in Handle, NEW answer \in Answers,
                      step'[k] = <<"answer", answer>>, NEW l \in DOMAIN answer
               PROVE  Reported(answer[l], l, status'[l])
    BY DEF AnswersSound
  <2>1. step[k] = <<"answer", answer>>
    BY <1>1, <1>3
  <2>2. l \in Load
    BY DEF Answers
  <2> QED
    BY <2>1, <2>2 DEF CInv, AnswersSound, Reported
<1> QED
  BY <1>2, <1>4, <1>5

\* The steps of the cache leave claims, groundings and statuses alone.
LEMMA SameClaims ==
    ASSUME IInv, CInv, NEW h \in Handle, CanWrite(h), ~Writing(h), UNCHANGED claimVars,
           NEW new, new.claims = View(h).claims, new.spans = View(h).spans,
           Commit(new) \/ Write(h, new)
    PROVE  CInv'
<1>1. step' = step /\ status' = status
  BY DEF claimVars
<1>2. \A k \in Handle : ~Writing(k)
  BY NobodyWrites
<1>3. \A k \in Handle : ~Clearing(k) /\ \A l \in Load : ~Loading(k, l)
  BY <1>2, WritingIs
<1>4. \A l \in Load : Settled(View(h), l, status[l])
  BY ViewSettled
<1>5. \A l \in Load : Settled(new, l, status[l])
  BY <1>4 DEF Settled, SpansOf
<1>6. draft' = new /\ (disk' = new \/ disk' = disk)
  BY DEF Commit, Write
<1>7. DiskSettled' /\ DraftSettled'
  BY <1>1, <1>5, <1>6 DEF CInv, DiskSettled, DraftSettled
<1>8. LoadsPending' /\ ClearsPending'
  BY <1>1, <1>3 DEF LoadsPending, ClearsPending, Loading, Clearing
<1>9. StepType' /\ StatusType' /\ SearchesSound' /\ AnswersSound'
  BY <1>1 DEF CInv, StepType, StatusType, SearchesSound, AnswersSound, Loading, Clearing
<1> QED
  BY <1>7, <1>8, <1>9 DEF CInv

LEMMA NoDatabaseChange ==
    ASSUME CInv, UNCHANGED <<disk, draft>>, UNCHANGED claimVars
    PROVE  CInv'
BY DEF claimVars, CInv, StepType, StatusType, DiskSettled, DraftSettled, LoadsPending,
       ClearsPending, SearchesSound, AnswersSound, Loading, Clearing

LEMMA CacheStepClaims ==
    ASSUME IInv, CInv, NEW h \in Handle, CacheStep(h)
    PROVE  CInv'
<1>1. CASE (\E id \in Id : Hit(h, id) \/ Miss(h, id)) \/ ClearCache(h)
  <2>1. UNCHANGED <<disk, draft>> /\ UNCHANGED claimVars
    BY <1>1 DEF Hit, Miss, ClearCache
  <2> QED
    BY <2>1, NoDatabaseChange
<1>2. ASSUME NEW new, CanWrite(h), step[h] = Idle, UNCHANGED claimVars,
             new.claims = View(h).claims, new.spans = View(h).spans,
             Commit(new) \/ Write(h, new)
      PROVE  CInv'
  <2>1. ~Writing(h)
    BY <1>2 DEF Writing, Idle
  <2> QED
    BY <1>2, <2>1, SameClaims
<1>3. View(h) \in Database
  BY ViewType DEF IInv
<1>4. \A fs : /\ WithoutFiles(View(h), fs).claims = View(h).claims
              /\ WithoutFiles(View(h), fs).spans = View(h).spans
  BY <1>3 DEF WithoutFiles, Database
<1>5. \A ids, v : /\ WithNodes(View(h), ids, v).claims = View(h).claims
                  /\ WithNodes(View(h), ids, v).spans = View(h).spans
  BY <1>3 DEF WithNodes, Database
<1>6. CASE \E fs \in SUBSET File : DeleteFiles(h, fs) \/ DeleteRaisesLate(h, fs)
  BY <1>2, <1>4, <1>6 DEF DeleteFiles, DeleteRaisesLate
<1>7. CASE \E f \in File : DeleteRaisesEarly(h, f)
  BY <1>2, <1>4, <1>7 DEF DeleteRaisesEarly
<1>8. CASE \E f \in File, v \in Version : InsertNodes(h, f, v)
  BY <1>2, <1>5, <1>8 DEF InsertNodes
<1> QED
  BY <1>1, <1>6, <1>7, <1>8 DEF CacheStep

-----------------------------------------------------------------------------

\* The first statement of a load: its claims are in the open transaction alone.
LEMMA InsertClaimsClaims ==
    ASSUME IInv, CInv, NEW h \in Handle, NEW l \in Load, InsertClaims(h, l)
    PROVE  CInv'
<1> DEFINE new == [View(h) EXCEPT !.claims = @ \cup {l}]
<1>1. /\ step[h] = Idle /\ CanWrite(h) /\ status[l] = "new"
      /\ draft' = new /\ disk' = disk
      /\ step' = [step EXCEPT ![h] = <<"load", l>>]
      /\ status' = [status EXCEPT ![l] = "loading"]
  BY DEF InsertClaims, Write, GoTo
<1>2. ~Writing(h)
  BY <1>1 DEF Writing, Idle
<1>3. \A k \in Handle : ~Writing(k)
  BY <1>1, <1>2, NobodyWrites
<1>4. \A m \in Load : Settled(View(h), m, status[m])
  BY <1>2, ViewSettled
<1>5. \A m \in Load : status'[m] = IF m = l THEN "loading" ELSE status[m]
  BY <1>1 DEF CInv, StatusType
<1>6. \A k \in Handle : step'[k] = IF k = h THEN <<"load", l>> ELSE step[k]
  BY <1>1 DEF IInv, Types
<1>7. new.claims = View(h).claims \cup {l} /\ new.spans = View(h).spans
  BY ViewType DEF IInv, Database
<1> HIDE DEF new
<1>8. \A k \in Handle, m \in Load : Loading(k, m)' => k = h /\ m = l
  BY <1>3, <1>6 DEF Writing, Loading
<1>9. \A k \in Handle : ~Clearing(k)'
  BY <1>3, <1>6 DEF Writing, Clearing
<1>10. DiskSettled'
  BY <1>1, <1>5 DEF CInv, DiskSettled, Settled
<1>11. DraftSettled'
  <2> SUFFICES ASSUME NEW m \in Load, m # l PROVE Settled(draft', m, status'[m])
    BY <1>6 DEF DraftSettled, Loading
  <2> QED
    BY <1>1, <1>4, <1>5, <1>7 DEF Settled, SpansOf
<1>12. SpansOf(View(h), l) = {}
  BY <1>1, <1>4 DEF Settled
<1>13. LoadsPending'
  BY <1>1, <1>5, <1>7, <1>8, <1>12 DEF LoadsPending, SpansOf
<1>14. ClearsPending'
  BY <1>9 DEF ClearsPending
<1>15. StepType' /\ SearchesSound' /\ AnswersSound'
  BY <1>1, <1>5, SearchesKept DEF Past
<1>16. StatusType'
  BY <1>1 DEF CInv, StatusType
<1> QED
  BY <1>10, <1>11, <1>13, <1>14, <1>15, <1>16 DEF CInv

\* Of a handle in a write: it alone writes, on its own transaction.
LEMMA OwnTransaction ==
    ASSUME IInv, NEW h \in Handle, Writing(h)
    PROVE  holder = h /\ View(h) = draft /\ \A k \in Handle : k # h => ~Writing(k)
BY DEF IInv, LockHeld, View

\* Its second statement commits them with all their groundings.
LEMMA InsertGroundingsClaims ==
    ASSUME IInv, CInv, NEW h \in Handle, InsertGroundings(h)
    PROVE  CInv'
<1>1. PICK l \in Load :
        LET new == [View(h) EXCEPT !.spans = @ \cup ({l} \X Groundings[l])]
        IN  /\ step[h] = <<"load", l>>
            /\ Commit(new)
            /\ step' = [step EXCEPT ![h] = Idle]
            /\ status' = [status EXCEPT ![l] = "loaded"]
  BY DEF InsertGroundings, GoTo
<1>2. Writing(h) /\ Loading(h, l)
  BY <1>1 DEF Writing, Loading
<1>3. View(h) = draft /\ draft \in Database /\ \A k \in Handle : k # h => ~Writing(k)
  BY <1>2, OwnTransaction DEF IInv, Types
<1>4. /\ disk' = draft' /\ draft'.claims = draft.claims
      /\ draft'.spans = draft.spans \cup ({l} \X Groundings[l])
  BY <1>1, <1>3 DEF Commit, Database
<1>5. \A m \in Load : status'[m] = IF m = l THEN "loaded" ELSE status[m]
  BY <1>1 DEF CInv, StatusType
<1>6. \A k \in Handle : step'[k] = IF k = h THEN Idle ELSE step[k]
  BY <1>1 DEF IInv, Types
<1>7. \A k \in Handle : ~Clearing(k)' /\ \A m \in Load : ~Loading(k, m)'
  BY <1>3, <1>6 DEF Writing, Clearing, Loading, Idle
<1>8. /\ status[l] = "loading" /\ l \in draft.claims /\ SpansOf(draft, l) = {}
      /\ Groundings[l] \subseteq Span
  BY <1>2, HandlesAssumption DEF CInv, LoadsPending
<1>9. ASSUME NEW m \in Load PROVE Settled(draft', m, status'[m])
  <2>1. CASE m = l
    <3>1. SpansOf(draft', l) = Groundings[l]
      BY <1>4, <1>8 DEF SpansOf
    <3> QED
      BY <1>4, <1>5, <1>8, <2>1, <3>1 DEF Settled
  <2>2. CASE m # l
    <3>1. Settled(draft, m, status[m])
      <4>1. ASSUME NEW k \in Handle PROVE ~Clearing(k) /\ ~Loading(k, m)
        <5>1. CASE k = h
          BY <1>1, <2>2, <5>1 DEF Clearing, Loading
        <5>2. CASE k # h
          BY <1>3, <5>2, WritingIs
        <5> QED
          BY <5>1, <5>2
      <4> QED
        BY <4>1 DEF CInv, DraftSettled
    <3>2. SpansOf(draft', m) = SpansOf(draft, m)
      BY <1>4, <2>2 DEF SpansOf
    <3> QED
      BY <1>4, <1>5, <2>2, <3>1, <3>2 DEF Settled
  <2> QED
    BY <2>1, <2>2
<1>10. DiskSettled' /\ DraftSettled'
  BY <1>4, <1>9 DEF DiskSettled, DraftSettled
<1>11. LoadsPending' /\ ClearsPending'
  BY <1>7 DEF LoadsPending, ClearsPending
<1>12. StepType' /\ SearchesSound' /\ AnswersSound'
  BY <1>1, <1>5, <1>8, SearchesKept DEF Past
<1>13. StatusType'
  BY <1>1 DEF CInv, StatusType
<1> QED
  BY <1>10, <1>11, <1>12, <1>13 DEF CInv

\* A refused claim leaves those before it in the open transaction, as failed.
LEMMA ClaimsRaiseClaims ==
    ASSUME IInv, CInv, NEW h \in Handle, NEW l \in Load, ClaimsRaise(h, l)
    PROVE  CInv'
<1>1. PICK kept \in SUBSET {l} : draft' = [View(h) EXCEPT !.claims = @ \cup kept]
  BY DEF ClaimsRaise, Write
<1>2. /\ step[h] = Idle /\ CanWrite(h) /\ status[l] = "new"
      /\ disk' = disk /\ step' = [step EXCEPT ![h] = Idle]
      /\ status' = [status EXCEPT ![l] = "failed"]
  BY DEF ClaimsRaise, Write, GoTo
<1>3. ~Writing(h)
  BY <1>2 DEF Writing, Idle
<1>4. \A k \in Handle : ~Clearing(k) /\ \A m \in Load : ~Loading(k, m)
  BY <1>2, <1>3, NobodyWrites, WritingIs
<1>5. \A m \in Load : Settled(View(h), m, status[m])
  BY <1>3, ViewSettled
<1>6. \A m \in Load : status'[m] = IF m = l THEN "failed" ELSE status[m]
  BY <1>2 DEF CInv, StatusType
<1>7. draft'.claims = View(h).claims \cup kept /\ draft'.spans = View(h).spans
  BY <1>1, ViewType DEF IInv, Database
<1>8. DiskSettled'
  BY <1>2, <1>6 DEF CInv, DiskSettled, Settled
<1>9. DraftSettled'
  <2>1. Settled(draft', l, "failed")
    BY <1>2, <1>5, <1>7 DEF Settled, SpansOf
  <2>2. ASSUME NEW m \in Load, m # l PROVE Settled(draft', m, status[m])
    BY <1>5, <1>7, <2>2 DEF Settled, SpansOf
  <2> QED
    BY <1>6, <2>1, <2>2 DEF DraftSettled
<1>10. LoadsPending' /\ ClearsPending'
  <2>1. \A k \in Handle : step'[k] = IF k = h THEN Idle ELSE step[k]
    BY <1>2 DEF IInv, Types
  <2>2. \A k \in Handle : ~Clearing(k)' /\ \A m \in Load : ~Loading(k, m)'
    BY <1>4, <2>1 DEF Loading, Clearing, Idle
  <2> QED
    BY <2>2 DEF LoadsPending, ClearsPending
<1>11. StepType' /\ SearchesSound' /\ AnswersSound'
  BY <1>2, <1>6, SearchesKept DEF Past
<1>12. StatusType'
  BY <1>2 DEF CInv, StatusType
<1> QED
  BY <1>8, <1>9, <1>10, <1>11, <1>12 DEF CInv

\* A refused grounding leaves the claims and the groundings before it in the
\* open transaction, as failed.
LEMMA GroundingsRaiseClaims ==
    ASSUME IInv, CInv, NEW h \in Handle, GroundingsRaise(h)
    PROVE  CInv'
<1>1. PICK l \in Load :
        /\ step[h] = <<"load", l>>
        /\ step' = [step EXCEPT ![h] = Idle]
        /\ status' = [status EXCEPT ![l] = "failed"]
        /\ \E kept \in SUBSET Groundings[l] :
              disk' = disk /\ draft' = [View(h) EXCEPT !.spans = @ \cup ({l} \X kept)]
  BY DEF GroundingsRaise, GoTo, Write
<1>2. Writing(h) /\ Loading(h, l)
  BY <1>1 DEF Writing, Loading
<1>3. View(h) = draft /\ draft \in Database /\ \A k \in Handle : k # h => ~Writing(k)
  BY <1>2, OwnTransaction DEF IInv, Types
<1>4. \A m \in Load : status'[m] = IF m = l THEN "failed" ELSE status[m]
  BY <1>1 DEF CInv, StatusType
<1>5. \A k \in Handle : step'[k] = IF k = h THEN Idle ELSE step[k]
  BY <1>1 DEF IInv, Types
<1>6. \A k \in Handle : ~Clearing(k)' /\ \A m \in Load : ~Loading(k, m)'
  BY <1>3, <1>5 DEF Writing, Clearing, Loading, Idle
<1>7. /\ status[l] = "loading" /\ l \in draft.claims /\ SpansOf(draft, l) = {}
      /\ Groundings[l] \subseteq Span
  BY <1>2, HandlesAssumption DEF CInv, LoadsPending
<1>8. PICK kept \in SUBSET Groundings[l] :
         /\ disk' = disk /\ draft'.claims = draft.claims
         /\ draft'.spans = draft.spans \cup ({l} \X kept)
  BY <1>1, <1>3 DEF Database
<1>9. DiskSettled'
  <2>1. Settled(disk, l, "failed")
    BY <1>7 DEF CInv, DiskSettled, Settled
  <2> QED
    BY <1>4, <1>8, <2>1 DEF CInv, DiskSettled
<1>10. DraftSettled'
  <2>1. SpansOf(draft', l) = kept
    BY <1>7, <1>8 DEF SpansOf
  <2>2. Settled(draft', l, "failed")
    BY <1>7, <1>8, <2>1 DEF Settled
  <2>3. ASSUME NEW m \in Load, m # l PROVE Settled(draft', m, status[m])
    <3>1. ASSUME NEW k \in Handle PROVE ~Clearing(k) /\ ~Loading(k, m)
      <4>1. CASE k = h
        BY <1>1, <2>3, <4>1 DEF Clearing, Loading
      <4>2. CASE k # h
        BY <1>3, <4>2, WritingIs
      <4> QED
        BY <4>1, <4>2
    <3>2. Settled(draft, m, status[m])
      BY <3>1 DEF CInv, DraftSettled
    <3>3. SpansOf(draft', m) = SpansOf(draft, m)
      BY <1>8, <2>3 DEF SpansOf
    <3> QED
      BY <1>8, <3>2, <3>3 DEF Settled
  <2> QED
    BY <1>4, <2>2, <2>3 DEF DraftSettled
<1>11. LoadsPending' /\ ClearsPending'
  BY <1>6 DEF LoadsPending, ClearsPending
<1>12. StepType' /\ SearchesSound' /\ AnswersSound'
  BY <1>1, <1>4, <1>7, SearchesKept DEF Past
<1>13. StatusType'
  BY <1>1 DEF CInv, StatusType
<1> QED
  BY <1>9, <1>10, <1>11, <1>12, <1>13 DEF CInv

\* The first statement of a clear takes all groundings from the transaction.
LEMMA DeleteGroundingsClaims ==
    ASSUME IInv, CInv, NEW h \in Handle, DeleteGroundings(h)
    PROVE  CInv'
<1>1. /\ step[h] = Idle /\ CanWrite(h)
      /\ draft' = [View(h) EXCEPT !.spans = {}] /\ disk' = disk
      /\ step' = [step EXCEPT ![h] = <<"clear">>]
      /\ status' = status
  BY DEF DeleteGroundings, Write, GoTo
<1>2. ~Writing(h)
  BY <1>1 DEF Writing, Idle
<1>3. \A k \in Handle : ~Writing(k)
  BY <1>1, <1>2, NobodyWrites
<1>4. \A l \in Load : Settled(View(h), l, status[l])
  BY <1>2, ViewSettled
<1>5. draft'.claims = View(h).claims /\ draft'.spans = {}
  BY <1>1, ViewType DEF IInv, Database
<1>6. \A k \in Handle : step'[k] = IF k = h THEN <<"clear">> ELSE step[k]
  BY <1>1 DEF IInv, Types
<1>7. \A k \in Handle, l \in Load : ~Loading(k, l)'
  BY <1>3, <1>6 DEF Writing, Loading
<1>8. DiskSettled'
  BY <1>1 DEF CInv, DiskSettled
<1>9. DraftSettled'
  BY <1>6 DEF DraftSettled, Clearing
<1>10. LoadsPending'
  BY <1>7 DEF LoadsPending
<1>11. ClearsPending'
  BY <1>1, <1>4, <1>5 DEF ClearsPending, Settled
<1>12. StepType' /\ SearchesSound' /\ AnswersSound'
  BY <1>1, SearchesKept
<1>13. StatusType'
  BY <1>1 DEF CInv, StatusType
<1> QED
  BY <1>8, <1>9, <1>10, <1>11, <1>12, <1>13 DEF CInv

\* Its second statement takes the claims and commits.
LEMMA DeleteClaimsClaims ==
    ASSUME IInv, CInv, NEW h \in Handle, DeleteClaims(h)
    PROVE  CInv'
<1>1. /\ Clearing(h)
      /\ Commit([View(h) EXCEPT !.claims = {}])
      /\ step' = [step EXCEPT ![h] = Idle]
      /\ status' = [l \in Load |-> IF l \in View(h).claims /\ status[l] = "loaded"
                                   THEN "cleared" ELSE status[l]]
  BY DEF DeleteClaims, GoTo, Clearing
<1>2. Writing(h)
  BY <1>1 DEF Writing, Clearing
<1>3. View(h) = draft /\ draft \in Database /\ \A k \in Handle : k # h => ~Writing(k)
  BY <1>2, OwnTransaction DEF IInv, Types
<1>4. draft.spans = {} /\ \A l \in Load : status[l] = "loaded" => l \in draft.claims
  BY <1>1 DEF CInv, ClearsPending
<1>5. disk' = draft' /\ draft'.claims = {} /\ draft'.spans = {}
  BY <1>1, <1>3, <1>4 DEF Commit, Database
<1>6. \A l \in Load : status'[l] = IF status[l] = "loaded" THEN "cleared" ELSE status[l]
  BY <1>1, <1>3, <1>4
<1>7. \A k \in Handle : step'[k] = IF k = h THEN Idle ELSE step[k]
  BY <1>1 DEF IInv, Types
<1>8. \A k \in Handle : ~Clearing(k)' /\ \A m \in Load : ~Loading(k, m)'
  BY <1>3, <1>7 DEF Writing, Clearing, Loading, Idle
<1>9. \A l \in Load : Settled(draft', l, status'[l])
  BY <1>5, <1>6 DEF Settled, SpansOf
<1>10. DiskSettled' /\ DraftSettled'
  BY <1>5, <1>9 DEF DiskSettled, DraftSettled
<1>11. LoadsPending' /\ ClearsPending'
  BY <1>8 DEF LoadsPending, ClearsPending
<1>12. StepType' /\ SearchesSound' /\ AnswersSound'
  BY <1>1, <1>6, SearchesKept DEF Past
<1>13. StatusType'
  BY <1>1 DEF CInv, StatusType
<1> QED
  BY <1>10, <1>11, <1>12, <1>13 DEF CInv

\* Or it raises: what was loaded is torn, in the open transaction or not.
LEMMA DeleteClaimsRaisesClaims ==
    ASSUME IInv, CInv, NEW h \in Handle, DeleteClaimsRaises(h)
    PROVE  CInv'
<1>1. PICK left \in {View(h).claims, {}} :
        disk' = disk /\ draft' = [View(h) EXCEPT !.claims = left]
  BY DEF DeleteClaimsRaises, Write
<1>2. /\ Clearing(h)
      /\ step' = [step EXCEPT ![h] = Idle]
      /\ status' = [l \in Load |-> IF status[l] = "loaded" THEN "torn" ELSE status[l]]
  BY DEF DeleteClaimsRaises, GoTo, Clearing
<1>3. Writing(h)
  BY <1>2 DEF Writing, Clearing
<1>4. View(h) = draft /\ draft \in Database /\ \A k \in Handle : k # h => ~Writing(k)
  BY <1>3, OwnTransaction DEF IInv, Types
<1>5. /\ draft.spans = {}
      /\ \A l \in Load : l \in draft.claims => status[l] \in {"loaded", "failed", "torn"}
  BY <1>2 DEF CInv, ClearsPending
<1>6. draft'.claims = left /\ left \subseteq draft.claims /\ draft'.spans = {}
  BY <1>1, <1>4, <1>5 DEF Database
<1>7. \A l \in Load : status'[l] = IF status[l] = "loaded" THEN "torn" ELSE status[l]
  BY <1>2
<1>8. \A k \in Handle : step'[k] = IF k = h THEN Idle ELSE step[k]
  BY <1>2 DEF IInv, Types
<1>9. \A k \in Handle : ~Clearing(k)' /\ \A m \in Load : ~Loading(k, m)'
  BY <1>4, <1>8 DEF Writing, Clearing, Loading, Idle
<1>10. DraftSettled'
  <2> SUFFICES ASSUME NEW l \in Load PROVE Settled(draft', l, status'[l])
    BY DEF DraftSettled
  <2>1. SpansOf(draft', l) = {} /\ {} \subseteq Groundings[l]
    BY <1>6 DEF SpansOf
  <2> QED
    BY <1>5, <1>6, <1>7, <2>1 DEF Settled
<1>11. DiskSettled'
  BY <1>1, <1>7 DEF CInv, DiskSettled, Settled
<1>12. LoadsPending' /\ ClearsPending'
  BY <1>9 DEF LoadsPending, ClearsPending
<1>13. StepType' /\ SearchesSound' /\ AnswersSound'
  BY <1>2, <1>7, SearchesKept DEF Past
<1>14. StatusType'
  BY <1>2 DEF CInv, StatusType
<1> QED
  BY <1>10, <1>11, <1>12, <1>13, <1>14 DEF CInv

-----------------------------------------------------------------------------

\* Only the step of h changes, and not to or from a write.
LEMMA OtherStep ==
    ASSUME IInv, CInv, NEW h \in Handle, ~Writing(h),
           UNCHANGED <<disk, draft, status>>,
           NEW s, step' = [step EXCEPT ![h] = s], s # <<"clear">>, \A l \in Load : s # <<"load", l>>
    PROVE  /\ \A k \in Handle : step'[k] = IF k = h THEN s ELSE step[k]
           /\ StatusType' /\ DiskSettled' /\ DraftSettled' /\ LoadsPending' /\ ClearsPending'
<1>1. \A k \in Handle : step'[k] = IF k = h THEN s ELSE step[k]
  BY DEF IInv, Types
<1>2. \A k \in Handle : Clearing(k)' <=> Clearing(k)
  BY <1>1, WritingIs DEF Clearing
<1>3. \A k \in Handle, l \in Load : Loading(k, l)' <=> Loading(k, l)
  BY <1>1, WritingIs DEF Loading
<1>4. DiskSettled' /\ StatusType'
  BY DEF CInv, DiskSettled, StatusType
<1>5. DraftSettled'
  BY <1>2, <1>3 DEF CInv, DraftSettled
<1>6. LoadsPending'
  BY <1>3 DEF CInv, LoadsPending
<1>7. ClearsPending'
  BY <1>2 DEF CInv, ClearsPending
<1> QED
  BY <1>1, <1>4, <1>5, <1>6, <1>7

\* A search finds claims of loads that are over.
LEMMA SearchClaimsClaims ==
    ASSUME IInv, CInv, NEW h \in Handle, SearchClaims(h)
    PROVE  CInv'
<1>1. PICK found \in SUBSET View(h).claims : step' = [step EXCEPT ![h] = <<"search", found>>]
  BY DEF SearchClaims, GoTo
<1>2. ~Writing(h) /\ UNCHANGED <<disk, draft, status>>
  BY DEF SearchClaims, Writing, Idle
<1>3. found \in SUBSET Load
  BY <1>1, ViewType DEF IInv, Database
<1>4. \A l \in found : status[l] \in Past
  BY <1>1, <1>2, <1>3, ViewSettled DEF Settled, Past
<1>5. <<"search", found>> # <<"clear">> /\ \A l \in Load : <<"search", found>> # <<"load", l>>
  OBVIOUS
<1> DEFINE s == <<"search", found>>
<1> HIDE DEF s
<1>6. /\ \A k \in Handle : step'[k] = IF k = h THEN s ELSE step[k]
      /\ StatusType' /\ DiskSettled' /\ DraftSettled' /\ LoadsPending' /\ ClearsPending'
  BY <1>1, <1>2, <1>5, OtherStep DEF s
<1>7. StepType'
  BY <1>3, <1>6 DEF CInv, StepType, s, Clearing, Loading
<1>8. SearchesSound'
  <2> SUFFICES ASSUME NEW k \in Handle, NEW f \in SUBSET Load, step'[k] = <<"search", f>>
               PROVE  \A l \in f : status[l] \in Past
    BY <1>2 DEF SearchesSound
  <2>1. CASE k = h
    BY <1>4, <1>6, <2>1 DEF s
  <2>2. CASE k # h
    BY <1>6, <2>2 DEF CInv, SearchesSound
  <2> QED
    BY <2>1, <2>2
<1>9. \A answer \in Answers : s # <<"answer", answer>>
  BY DEF s
<1>10. AnswersSound'
  BY <1>2, <1>6, <1>9, ZenonT(40) DEF CInv, AnswersSound
<1> QED
  BY <1>6, <1>7, <1>8, <1>10 DEF CInv

\* What it then reads of their groundings is all of them, unless a load or a
\* clear raised or is over.
LEMMA ReadGroundingsClaims ==
    ASSUME IInv, CInv, NEW h \in Handle, ReadGroundings(h)
    PROVE  CInv'
<1>1. PICK found \in SUBSET Load : step[h] = <<"search", found>>
  <2>1. step[h][1] = "search"
    BY DEF ReadGroundings
  <2>2. step[h] # Idle /\ ~Clearing(h) /\ \A l \in Load : ~Loading(h, l)
    BY <2>1 DEF Idle, Clearing, Loading
  <2>3. \A answer : step[h] # <<"answer", answer>>
    BY <2>1
  <2> QED
    BY <2>2, <2>3 DEF CInv, StepType
<1> DEFINE answer == [l \in found |-> SpansOf(View(h), l)]
           s == <<"answer", answer>>
<1>2. step' = [step EXCEPT ![h] = s] /\ UNCHANGED <<disk, draft, status>>
  BY <1>1 DEF ReadGroundings, GoTo, SpansOf
<1>3. ~Writing(h)
  BY <1>1 DEF Writing
<1>4. answer \in Answers /\ DOMAIN answer = found
  <2>1. answer \in [found -> SUBSET Span]
    BY DEF SpansOf
  <2> QED
    BY <2>1 DEF Answers
<1>5. ASSUME NEW l \in found
      PROVE  Reported(answer[l], l, status[l])
  <2>1. status[l] \in Past
    BY <1>1 DEF CInv, SearchesSound
  <2>2. Settled(View(h), l, status[l])
    BY <1>3, ViewSettled
  <2> QED
    BY <2>1, <2>2 DEF Settled, Past, Reported
<1> HIDE DEF answer
<1>6. s # <<"clear">> /\ (\A l \in Load : s # <<"load", l>>) /\ (\A f : s # <<"search", f>>)
  OBVIOUS
<1>7. /\ \A k \in Handle : step'[k] = IF k = h THEN s ELSE step[k]
      /\ StatusType' /\ DiskSettled' /\ DraftSettled' /\ LoadsPending' /\ ClearsPending'
  BY <1>2, <1>3, <1>6, OtherStep
<1>8. StepType'
  BY <1>4, <1>7 DEF CInv, StepType, Clearing, Loading
<1>9. SearchesSound'
  BY <1>2, <1>6, <1>7 DEF CInv, SearchesSound
<1>10. AnswersSound'
  <2> SUFFICES ASSUME NEW k \in Handle, NEW a \in Answers, step'[k] = <<"answer", a>>,
                      NEW l \in DOMAIN a
               PROVE  Reported(a[l], l, status[l])
    BY <1>2 DEF AnswersSound
  <2>1. CASE k = h
    BY <1>4, <1>5, <1>7, <2>1
  <2>2. CASE k # h
    BY <1>7, <2>2 DEF CInv, AnswersSound
  <2> QED
    BY <2>1, <2>2
<1> QED
  BY <1>7, <1>8, <1>9, <1>10 DEF CInv

LEMMA AnswerClaims ==
    ASSUME IInv, CInv, NEW h \in Handle, Answer(h)
    PROVE  CInv'
<1>1. step' = [step EXCEPT ![h] = Idle] /\ UNCHANGED <<disk, draft, status>> /\ ~Writing(h)
  BY DEF Answer, GoTo, Writing
<1>2. Idle # <<"clear">> /\ \A l \in Load : Idle # <<"load", l>>
  BY DEF Idle
<1>3. StatusType' /\ DiskSettled' /\ DraftSettled' /\ LoadsPending' /\ ClearsPending'
  BY <1>1, <1>2, OtherStep
<1>4. StepType' /\ SearchesSound' /\ AnswersSound'
  BY <1>1, SearchesKept
<1> QED
  BY <1>3, <1>4 DEF CInv

\* The end of a handle takes its open transaction with it, and with that a
\* load or a clear it was in.
LEMMA ReopenClaims ==
    ASSUME IInv, CInv, NEW h \in Handle, Reopen(h)
    PROVE  CInv'
<1>1. /\ IF holder = h THEN Commit(disk) ELSE UNCHANGED <<disk, draft, holder>>
      /\ step' = [step EXCEPT ![h] = Idle]
      /\ status' = [l \in Load |-> IF Loading(h, l) THEN "lost" ELSE status[l]]
  BY DEF Reopen, GoTo, Loading
<1>2. \A k \in Handle : step'[k] = IF k = h THEN Idle ELSE step[k]
  BY <1>1 DEF IInv, Types
<1>3. \A l \in Load : status'[l] = IF Loading(h, l) THEN "lost" ELSE status[l]
  BY <1>1
<1>4. \A l \in Load : Loading(h, l) => status[l] = "loading"
  BY DEF CInv, LoadsPending
<1>5. disk' = disk
  BY <1>1 DEF Commit
<1>6. \A l \in Load : Settled(disk, l, status'[l])
  BY <1>3, <1>4 DEF CInv, DiskSettled, Settled
<1>7. DiskSettled'
  BY <1>5, <1>6 DEF DiskSettled
<1>8. \A k \in Handle : k # h => (Clearing(k)' <=> Clearing(k))
                                 /\ \A l \in Load : Loading(k, l)' <=> Loading(k, l)
  BY <1>2 DEF Clearing, Loading
<1>9. ~Clearing(h)' /\ \A l \in Load : ~Loading(h, l)'
  BY <1>2 DEF Clearing, Loading, Idle
<1>10. DraftSettled' /\ LoadsPending' /\ ClearsPending'
  <2>1. CASE holder = h
    <3>1. draft' = disk
      BY <1>1, <2>1 DEF Commit
    <3>2. \A k \in Handle : k # h => ~Writing(k)
      BY <2>1 DEF IInv, LockHeld
    <3>3. \A k \in Handle : ~Clearing(k)' /\ \A l \in Load : ~Loading(k, l)'
      BY <1>8, <1>9, <3>2, WritingIs
    <3> QED
      BY <1>6, <3>1, <3>3 DEF DraftSettled, LoadsPending, ClearsPending
  <2>2. CASE holder # h
    <3>1. ~Writing(h) /\ draft' = draft
      BY <1>1, <2>2 DEF IInv, LockHeld
    <3>2. \A l \in Load : status'[l] = status[l]
      BY <1>3, <3>1, WritingIs
    <3>3. \A k \in Handle : (Clearing(k)' <=> Clearing(k))
                            /\ \A l \in Load : Loading(k, l)' <=> Loading(k, l)
      BY <1>8, <1>9, <3>1, WritingIs
    <3>4. DraftSettled'
      BY <3>1, <3>2, <3>3 DEF CInv, DraftSettled
    <3>5. LoadsPending'
      BY <3>1, <3>2, <3>3 DEF CInv, LoadsPending
    <3>6. ClearsPending'
      BY <3>1, <3>2, <3>3 DEF CInv, ClearsPending
    <3> QED
      BY <3>4, <3>5, <3>6
  <2> QED
    BY <2>1, <2>2
<1>11. StepType' /\ SearchesSound' /\ AnswersSound'
  BY <1>1, <1>3, <1>4, SearchesKept DEF Past
<1>12. StatusType'
  BY <1>1 DEF CInv, StatusType
<1> QED
  BY <1>7, <1>10, <1>11, <1>12 DEF CInv

-----------------------------------------------------------------------------

LEMMA InitCInv == Init => CInv
<1> SUFFICES ASSUME Init PROVE CInv
  OBVIOUS
<1>1. \A l \in Load : Settled(EmptyDatabase, l, "new")
  BY DEF Settled, EmptyDatabase, SpansOf
<1>2. DiskSettled /\ DraftSettled /\ StatusType
  BY <1>1 DEF Init, DiskSettled, DraftSettled, StatusType
<1>3. \A h \in Handle : step[h] = Idle
  BY DEF Init
<1>4. StepType
  BY <1>3 DEF StepType
<1>5. LoadsPending /\ ClearsPending
  BY <1>3 DEF LoadsPending, ClearsPending, Loading, Clearing, Idle
<1>6. SearchesSound /\ AnswersSound
  BY <1>3 DEF SearchesSound, AnswersSound, Idle
<1> QED
  BY <1>2, <1>4, <1>5, <1>6 DEF CInv

LEMMA NextCInv == IInv /\ CInv /\ [Next]_vars => CInv'
<1> SUFFICES ASSUME IInv, CInv, [Next]_vars PROVE CInv'
  OBVIOUS
<1>1. CASE UNCHANGED vars
  BY <1>1, NoDatabaseChange DEF vars, claimVars
<1>2. ASSUME NEW h \in Handle, ClaimStep(h) PROVE CInv'
  BY <1>2, InsertClaimsClaims, ClaimsRaiseClaims, InsertGroundingsClaims,
     GroundingsRaiseClaims, DeleteGroundingsClaims, DeleteClaimsClaims,
     DeleteClaimsRaisesClaims, SearchClaimsClaims, ReadGroundingsClaims,
     AnswerClaims DEF ClaimStep
<1> QED
  BY <1>1, <1>2, CacheStepClaims, ReopenClaims DEF Next

\* A claim is stored with all its groundings unless its load raised, which may
\* leave some, or a clear raised, which may leave none; a search reports it so,
\* or without groundings where a clear met the search; a load that returned is
\* stored until a clear; no grounding outlives its claim: for every number of
\* handles, loads and spans (insert_claims, delete_all_claims and
\* ClaimOverlay.search_claims_fts).
THEOREM ClaimsKept == Spec => []ClaimsGrounded
<1>1. IInv /\ CInv => ClaimsGrounded
  <2> SUFFICES ASSUME IInv, CInv PROVE ClaimsGrounded
    OBVIOUS
  <2>1. ASSUME NEW l \in Load
        PROVE  /\ l \in disk.claims =>
                     \/ SpansOf(disk, l) = Groundings[l]
                     \/ SpansOf(disk, l) \subseteq Groundings[l] /\ status[l] = "failed"
                     \/ SpansOf(disk, l) = {} /\ status[l] = "torn"
               /\ l \notin disk.claims => SpansOf(disk, l) = {}
               /\ status[l] = "loaded" => l \in disk.claims
    BY DEF CInv, DiskSettled, Settled
  <2>2. ASSUME NEW h \in Handle, step[h][1] = "answer", NEW l \in DOMAIN step[h][2]
        PROVE  Reported(step[h][2][l], l, status[l])
    <3>1. step[h] # Idle /\ ~Clearing(h) /\ \A m \in Load : ~Loading(h, m)
      BY <2>2 DEF Idle, Clearing, Loading
    <3>2. \A found : step[h] # <<"search", found>>
      BY <2>2
    <3>3. PICK answer \in Answers : step[h] = <<"answer", answer>>
      BY <3>1, <3>2 DEF CInv, StepType
    <3>4. step[h][2] = answer
      BY <3>3
    <3> QED
      BY <2>2, <3>3, <3>4 DEF CInv, AnswersSound
  <2> QED
    BY <2>1, <2>2 DEF ClaimsGrounded, SpansOf, Reported
<1> QED
  BY InitIInv, NextIInv, InitCInv, NextCInv, <1>1, PTL DEF Spec

=============================================================================
